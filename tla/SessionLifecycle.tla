--------------------------- MODULE SessionLifecycle ---------------------------
(***************************************************************************)
(* What the application promises to whoever reads its snapshots, one per   *)
(* control cycle: the history recorder, the firmware updater, the HTTP and *)
(* Blynk projections.  They never see the inside of a tick, so this is a   *)
(* specification of successive views only.                                 *)
(***************************************************************************)
EXTENDS Integers

CONSTANTS None, MaximumChamberTemperature

VARIABLE view

\* One view is coherent in itself: heat only in a running, fault-free session
\* that no firmware update has reserved, on a reading within the limit.
Coherent(v) ==
    /\ v.status = "Fault" <=> v.fault # None
    /\ v.firmware => v.status # "Running"
    /\ v.heater > 0 =>
         /\ v.status = "Running"
         /\ v.target # None
         /\ v.chamber # None
         /\ v.chamber <= MaximumChamberTemperature

\* The end of a running session is always seen under its own id, and before a
\* firmware update is permitted.
EndIsSeen(v, w) ==
    v.status = "Running" => w.session = v.session /\ ~w.firmware

\* A session that ended does not run again; only a new one may.
EndIsFinal(v, w) ==
    v.status # "Running" /\ w.status = "Running" => w.session # v.session

\* Once there was a session there always is one, and an invalid configuration
\* is never cleared.
Remembers(v, w) ==
    /\ v.session # None => w.session # None /\ w.status # "Idle"
    /\ v.fault = "ConfigurationInvalid" => w.fault = "ConfigurationInvalid"

Init ==
    /\ Coherent(view)
    /\ view.status = "Idle" /\ view.session = None
    /\ view.heater = 0 /\ ~view.firmware

Next ==
    /\ Coherent(view')
    /\ EndIsSeen(view, view')
    /\ EndIsFinal(view, view')
    /\ Remembers(view, view')

Spec == Init /\ [][Next]_view

=============================================================================
