------------------------------ MODULE StageTimer ------------------------------
(***************************************************************************)
(* The stage timer of a session (smoker_core/src/timer.cpp) as operators   *)
(* on its runtime record.  started_at is kept as the distance sinceStart   *)
(* the monotonic clock has moved since the start.                          *)
(***************************************************************************)
EXTENDS Integers

CONSTANTS
    None,                       \* an absent std::optional
    MaxElapsed                  \* bound: sinceStart saturates here

ASSUME TimerAssumption ==
    /\ None \notin Int
    /\ MaxElapsed \in Nat

NoTimer == [started |-> FALSE, completed |-> FALSE, elapsed |-> 0, sinceStart |-> 0]

AtMost(n, bound) == IF n > bound THEN bound ELSE n

\* The clock moves between two ticks.
Aged(timer, elapse) ==
    IF timer.started
    THEN [timer EXCEPT !.sinceStart = AtMost(timer.sinceStart + elapse, MaxElapsed)]
    ELSE timer

IsValidTimerConfiguration(config) ==
    /\ config.duration > 0
    /\ (config.threshold # None) <=> config.start # "Immediate"
    /\ (config.probe # None) <=> config.start = "Probe"

\* readings holds the last sample of every configured probe, None if there is none.
ThresholdReached(config, chamber, readings) ==
    \/ config.start = "Immediate"
    \/ config.start = "Chamber" /\ chamber # None /\ chamber >= config.threshold
    \/ /\ config.start = "Probe"
       /\ config.probe \in DOMAIN readings
       /\ readings[config.probe] # None
       /\ readings[config.probe] >= config.threshold

\* A started timer never looks at its threshold again.
UpdateStageTimer(config, timer, chamber, readings) ==
    LET begun   == IF timer.started THEN timer ELSE [NoTimer EXCEPT !.started = TRUE]
        elapsed == AtMost(begun.sinceStart, config.duration)
    IN  IF \/ timer.completed
           \/ ~IsValidTimerConfiguration(config)
           \/ ~timer.started /\ ~ThresholdReached(config, chamber, readings)
        THEN timer
        ELSE [begun EXCEPT !.elapsed = elapsed,
                           !.completed = elapsed >= config.duration]

\* Freezing takes the elapsed time as it is, beyond the duration if need be.
FreezeStageTimer(timer) ==
    IF timer.started /\ ~timer.completed
    THEN [timer EXCEPT !.elapsed = timer.sinceStart]
    ELSE timer

=============================================================================
