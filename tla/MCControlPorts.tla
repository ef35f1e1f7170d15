---------------------------- MODULE MCControlPorts ----------------------------
(* What ControlTask calls around a tick: the food probe source before it, the *)
(* snapshot exchange and the history mailbox after it. They share no state,   *)
(* so that their product says no more than their sum: one of them runs, the   *)
(* others stay in their initial states.                                       *)
(* The exchange has the code's three slots and two readers, who can hold      *)
(* every slot that is not published; the history mailbox four slots for four  *)
(* sessions; and the source two channels on one converter and one on another. *)
EXTENDS SnapshotExchange, HistoryObservations, FoodProbes

CONSTANTS d1, d2

MCDeviceOf == [c \in 0 .. 2 |-> IF c < 2 THEN d1 ELSE d2]

VARIABLE part

mcVars == <<vars, observationVars, foodVars, part>>

MCInit ==
    /\ Init /\ ObservationInit /\ FoodInit
    /\ part \in {"exchange", "history", "food"}
    /\ part # "food" => ~configured /\ adcIsBusy = [d \in Devices |-> FALSE]

MCNext ==
    /\ \/ part = "exchange" /\ Next /\ UNCHANGED <<observationVars, foodVars>>
       \/ part = "history" /\ ObservationNext /\ UNCHANGED <<vars, foodVars>>
       \/ part = "food" /\ FoodNext /\ UNCHANGED <<vars, observationVars>>
    /\ UNCHANGED part

\* FairSpec, ObservationSpec or FoodSpec.
MCSpec ==
    /\ MCInit /\ [][MCNext]_mcVars
    /\ WF_vars(part = "exchange" /\ Publisher)
    /\ WF_observationVars(part = "history" /\ ObserveTick)
    /\ WF_observationVars(part = "history" /\ Pop)
    /\ WF_foodVars(part = "food" /\ Service)
    /\ SF_foodVars(part = "food" /\ DeadlinePasses)
    /\ \A d \in Devices : WF_foodVars(part = "food" /\ d \notin troubled /\ AdcCompletes(d))

=============================================================================
