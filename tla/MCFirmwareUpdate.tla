--------------------------- MODULE MCFirmwareUpdate ---------------------------
(* FirmwareUpdate for TLC: either with a history task and at most one         *)
(* installation, the application idling (sessions and faults only decide      *)
(* whether an installation is permitted), or with the history task at rest.   *)
EXTENDS FirmwareUpdate

CONSTANT h1

VARIABLE historyIsBusy

mcVars == <<vars, historyIsBusy>>

MCInit == Init /\ historyIsBusy \in BOOLEAN

Alone ==
    \/ ControlTask /\ (historyIsBusy => application'.status = "Idle")
    \/ Transport /\ (historyIsBusy => installs' <= 1)
    \/ OtaTask
    \/ Reset

MCNext ==
    /\ Alone \/ \E h \in HistoryUsers : historyIsBusy /\ HistoryTask(h)
    /\ UNCHANGED historyIsBusy

\* FairSpec, of these steps.
MCFairSpec ==
    /\ MCInit /\ [][MCNext]_mcVars
    /\ SF_vars(ControlTask)
    /\ WF_vars(Inspection \/ Installation)
    /\ \A h \in HistoryUsers : WF_vars(historyIsBusy /\ HistoryTask(h))

=============================================================================
