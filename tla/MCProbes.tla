------------------------------- MODULE MCProbes -------------------------------
(* SmokerApplication with the commands about probes, alarms and timers.  The  *)
(* probe is disabled by default, so every Start may find a sample taken under *)
(* the live configuration of the session before.  No session has a chamber    *)
(* target: the controller is left to MCApplication.                           *)
EXTENDS SmokerApplication, TLC

CONSTANTS p1, p9, s1, s2

Timer(start, threshold, probe, action) ==
    [duration |-> 1, start |-> start, threshold |-> threshold, probe |-> probe,
     action |-> action]

MCProbeDefaults ==
    [p \in {p1} |-> [target |-> 2, enabled |-> FALSE, alarmEnabled |-> TRUE]]

\* The last two recipes are invalid: an immediate timer with a threshold and a
\* timer that waits for a probe that does not exist.
MCRecipes ==
    [target : {None},
     timer : {None, Timer("Probe", 2, p1, "Notify"), Timer("Chamber", 2, None, "StopSession"),
              Timer("Immediate", 2, None, "Notify"), Timer("Probe", 2, p9, "Notify")}]

MCCommands ==
         [type : {"Start"}, session : {s1, s2}, recipe : MCRecipes]
    \cup [type : {"SetProbeTarget"}, probe : {p1, p9}, target : {1, None}]
    \cup [type : {"SetProbeEnabled"}, probe : {p1}, enabled : BOOLEAN]
    \cup [type : {"SetProbeAlarmEnabled"}, probe : {p1}, enabled : BOOLEAN]
    \cup [type : {"AcknowledgeAlarm"}, alarm : {<<"ProbeTargetReached", p1>>},
          generation : {0}]
    \cup [type : {"Stop"}]

SessionSymmetry == Permutations({s1, s2})

=============================================================================
