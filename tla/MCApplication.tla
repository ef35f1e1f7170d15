----------------------------- MODULE MCApplication -----------------------------
(* SmokerApplication with the commands that decide about heating: starts of   *)
(* two sessions, Stop, a live target, fault clearing and the preparation of a *)
(* firmware update, some of them correlated, and a queue that fills up.  Its  *)
(* one probe stays disabled and no timer runs: MCProbes covers them, as       *)
(* MCControlLoop covers the end of a firmware update.                         *)
EXTENDS SmokerApplication

CONSTANTS p1, s1, s2

MCProbeDefaults ==
    [p \in {p1} |-> [target |-> 1, enabled |-> FALSE, alarmEnabled |-> TRUE]]

MCCommands ==
         [type : {"Start"}, session : {s1, s2},
          recipe : [target : {1}, timer : {None}]]
    \cup [type : {"SetChamberTarget"}, target : {None}]
    \cup [type : {"Stop", "ClearResolvedFault", "PrepareFirmwareUpdate"}]

=============================================================================
