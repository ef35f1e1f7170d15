----------------------------- MODULE MCControlLoop -----------------------------
(* ControlLoop with small mailboxes and the smallest application queue in     *)
(* which a cycle can drain a command from each transport.                     *)
EXTENDS ControlLoop

CONSTANTS p1, s1

MCProbeDefaults ==
    [p \in {p1} |-> [target |-> 1, enabled |-> FALSE, alarmEnabled |-> TRUE]]

\* One session with a chamber target; ClearResolvedFault stands for the commands that
\* neither start nor stop it.
MCCommands ==
         [type : {"Start"}, session : {s1},
          recipe : [target : {1}, timer : {None}]]
    \cup [type : {"Stop", "ClearResolvedFault",
                  "PrepareFirmwareUpdate", "FinishFirmwareUpdate"}]

\* Faults, and a boot that failed, are MCApplication's: they end every session, and the
\* commands take the same way.
NoFault == activeFault = None

\* So are the controller's failing resets.
ResetsSucceed == controllerActive \/ controllerFaultResolved

=============================================================================
