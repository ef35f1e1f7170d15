---------------------------- MODULE FirmwareUpdate ----------------------------
(***************************************************************************)
(* The firmware update across its tasks (firmware_update_service.cpp and   *)
(* firmware_update_support.cpp): OtaTask asks ControlTask for permission,  *)
(* waits for the verdict in a published snapshot, installs under the flash *)
(* lease that history tasks share (flash_operation_coordinator.hpp), and   *)
(* after the reboot confirms or rolls back the pending image on the        *)
(* evidence of ControlTask's cycles.  The device may reset at any step.    *)
(*                                                                         *)
(* The application is reduced to what SmokerApplication lets this protocol *)
(* see of one tick: who holds the interlock, the verdict on Prepare, and   *)
(* whether a session runs.  Its IDLE also stands for STOPPED, which no     *)
(* pending image reaches.  One critical section is one step.               *)
(***************************************************************************)
EXTENDS Integers

CONSTANTS
    HistoryUsers,               \* tasks that read or write the history partition
    MaxInstalls,                \* permission ids drawn per boot; 2^32 in the code
    PermissionTimeout,          \* cycles in permission_timeout_microseconds, 10 s
    ValidationTimeout,          \* cycles in validation_timeout_microseconds, 10 s
    RequiredValidationCycles,   \* 5 in the code
    None

ASSUME FirmwareAssumption ==
    /\ MaxInstalls \in Nat
    /\ PermissionTimeout \in Nat \ {0}
    /\ ValidationTimeout \in Nat \ {0}
    /\ RequiredValidationCycles \in Nat \ {0}

\* internal_ota_correlation_id: no transport's id.
InternalId == MaxInstalls + 1

VARIABLES
    cycleStep,                  \* next statement of control_task's loop
    submitted,                  \* OTA's intents in the application's queue
    application,                \* the application between two ticks
    view,                       \* the published snapshot, None before the first
    state,                      \* status_.state
    permissionCorrelationId,    \* permission_correlation_id_, 0 if there is none
    prepareCorrelation,         \* the Prepare signal, 0 if there is none
    finishRequested,            \* the Finish signal
    checkRequested,
    elapsed,                    \* cycles begun since the deadline in force was set
    validationPending,
    validationFault,
    validationCycles,
    otaStep,                    \* next statement of OtaTask's loop
    lease,                      \* the snapshot OtaTask holds
    installAdmitted,            \* an install request found no session running
    installs,                   \* permission ids drawn since the boot
    owner,                      \* owner_
    historyDeferred,            \* history_deferred_
    historyStep,                \* what each history task is doing
    runningImage,               \* "pending" is PENDING_VERIFY
    bootSelected                \* the other slot boots next

applicationVars == <<submitted, application, view>>
signalVars == <<prepareCorrelation, finishRequested>>
validationVars == <<validationPending, validationFault, validationCycles>>
requestVars == <<checkRequested, installAdmitted, installs>>
flashVars == <<owner, historyDeferred, historyStep>>
imageVars == <<runningImage, bootSelected>>
coordinatorVars == <<state, permissionCorrelationId>>
taskVars == <<otaStep, lease>>
vars == <<cycleStep, applicationVars, coordinatorVars, signalVars, elapsed, validationVars,
          taskVars, requestVars, flashVars, imageVars>>

Nothing == [prepare |-> 0, finish |-> FALSE]

\* Counters stop where the code stops telling their values apart.
Capped(n, limit) == IF n < limit THEN n + 1 ELSE n

DeadlineInForce == state = "WaitingPermission" \/ validationPending

Timeout == IF validationPending THEN ValidationTimeout ELSE PermissionTimeout

----------------------------------------------------------------------------
(* Booting.  A pending image that is reset before it is confirmed is       *)
(* abandoned by the bootloader; a selected image boots as pending.         *)

NextImage == IF bootSelected THEN "pending" ELSE "confirmed"

DefersHistory(image) == image = "pending"

Boot(image) ==
    /\ runningImage' = image
    /\ bootSelected' = FALSE
    /\ validationPending' = (image = "pending")
    /\ validationFault' = FALSE
    /\ validationCycles' = 0
    /\ state' = IF image = "pending" THEN "Validating" ELSE "Idle"
    /\ permissionCorrelationId' = 0
    /\ prepareCorrelation' = IF image = "pending" THEN InternalId ELSE 0
    /\ finishRequested' = FALSE
    /\ elapsed' = 0
    /\ cycleStep' = "prepare"
    /\ submitted' = Nothing
    /\ application' = [status |-> "Idle", firmware |-> FALSE, verdict |-> None]
    /\ view' = None
    /\ otaStep' = "lease"
    /\ lease' = None
    /\ checkRequested' = FALSE
    /\ installAdmitted' = FALSE
    /\ installs' = 0
    /\ owner' = "None"
    /\ historyDeferred' = DefersHistory(image)
    /\ historyStep' = [h \in HistoryUsers |-> "idle"]

\* A power cut, a panic, or a bootstrap that failed.
Reset == Boot(NextImage)

----------------------------------------------------------------------------
(* ControlTask.                                                            *)

\* The application has room for both intents (NothingIsRefused of ControlLoop), so
\* neither is signalled again.
\*
\* A cycle is a second: OtaTask's two loads of the validation evidence never
\* straddle the start of one.
ConsumePrepare ==
    /\ cycleStep = "prepare"
    /\ otaStep # "count"
    /\ submitted' = [prepare |-> prepareCorrelation, finish |-> FALSE]
    /\ prepareCorrelation' = 0
    /\ elapsed' = IF DeadlineInForce THEN Capped(elapsed, Timeout) ELSE 0
    /\ cycleStep' = "finish"
    /\ UNCHANGED <<application, view, coordinatorVars, finishRequested, validationVars,
                   taskVars, requestVars, flashVars, imageVars>>

ConsumeFinish ==
    /\ cycleStep = "finish"
    /\ submitted' = [prepare |-> submitted.prepare, finish |-> finishRequested]
    /\ finishRequested' = FALSE
    /\ cycleStep' = "tick"
    /\ UNCHANGED <<application, view, coordinatorVars, prepareCorrelation, elapsed,
                   validationVars, taskVars, requestVars, flashVars, imageVars>>

PrepareIsAccepted ==
    submitted.prepare # 0 /\ ~application.firmware /\ application.status # "Running"

\* Prepare, then Finish: the application's queue is FIFO.
InterlockAfter == (application.firmware \/ PrepareIsAccepted) /\ ~submitted.finish

\* External commands follow OTA's intents, and a fault may follow them all.
StatusesAfter(firmware) == {"Idle", "Fault"} \cup IF firmware THEN {} ELSE {"Running"}

\* The results of a later tick may have pushed the verdict out.
VerdictsAfter ==
    IF submitted.prepare # 0
    THEN {[id |-> submitted.prepare, accepted |-> PrepareIsAccepted]}
    ELSE {application.verdict, None}

\* A snapshot is dropped when readers hold both other slots.
Tick ==
    /\ cycleStep = "tick"
    /\ \E status \in StatusesAfter(InterlockAfter), verdict \in VerdictsAfter :
         application' = [status |-> status, firmware |-> InterlockAfter, verdict |-> verdict]
    /\ view' \in {view, application'}
    /\ submitted' = Nothing
    /\ cycleStep' = IF validationPending THEN "fault" ELSE "prepare"
    /\ UNCHANGED <<coordinatorVars, signalVars, elapsed, validationVars, taskVars,
                   requestVars, flashVars, imageVars>>

PublishFault ==
    /\ cycleStep = "fault"
    /\ validationFault' = (validationFault \/ application.status = "Fault")
    /\ cycleStep' = "cycles"
    /\ UNCHANGED <<applicationVars, coordinatorVars, signalVars, elapsed, validationPending,
                   validationCycles, taskVars, requestVars, flashVars, imageVars>>

CyclesAfter(good) ==
    IF good THEN Capped(validationCycles, RequiredValidationCycles) ELSE 0

\* healthy: the chamber was measured and the watchdog was reset.
PublishCycle ==
    /\ cycleStep = "cycles"
    /\ \E healthy \in BOOLEAN :
         validationCycles' = CyclesAfter(/\ application.firmware
                                         /\ application.status = "Idle"
                                         /\ healthy)
    /\ cycleStep' = "prepare"
    /\ UNCHANGED <<applicationVars, coordinatorVars, signalVars, elapsed, validationPending,
                   validationFault, taskVars, requestVars, flashVars, imageVars>>

ControlTask ==
    ConsumePrepare \/ ConsumeFinish \/ Tick \/ PublishFault \/ PublishCycle

----------------------------------------------------------------------------
(* The transports.                                                         *)

RequestCheck ==
    /\ state \in {"Idle", "UpToDate", "Available", "Failed"}
    /\ state' = "Checking"
    /\ checkRequested' = TRUE
    /\ UNCHANGED <<cycleStep, applicationVars, permissionCorrelationId, signalVars, elapsed,
                   validationVars, taskVars, installAdmitted, installs, flashVars, imageVars>>

\* The session may start between this look at the snapshot and the reservation.
AdmitInstall ==
    /\ view # None
    /\ view.status # "Running"
    /\ ~installAdmitted
    /\ installAdmitted' = TRUE
    /\ UNCHANGED <<cycleStep, applicationVars, coordinatorVars, signalVars, elapsed,
                   validationVars, taskVars, checkRequested, installs, flashVars, imageVars>>

\* begin_install() is cancelled when an earlier Prepare still waits.
RequestInstall ==
    /\ installAdmitted
    /\ installAdmitted' = FALSE
    /\ IF /\ state = "Available"
          /\ prepareCorrelation = 0
          /\ installs < MaxInstalls
       THEN /\ state' = "WaitingPermission"
            /\ installs' = installs + 1
            /\ permissionCorrelationId' = installs'
            /\ prepareCorrelation' = installs'
            /\ elapsed' = 0
       ELSE UNCHANGED <<coordinatorVars, prepareCorrelation, elapsed, installs>>
    /\ UNCHANGED <<cycleStep, applicationVars, finishRequested, validationVars, taskVars,
                   checkRequested, flashVars, imageVars>>

Transport == RequestCheck \/ AdmitInstall \/ RequestInstall

----------------------------------------------------------------------------
(* OtaTask.                                                                *)

\* Mutant of SignalsFinish: a failure that keeps the interlock to itself.
SignalsNothing == finishRequested

\* A failure gives the interlock back if permission was asked for.
SignalsFinish == finishRequested \/ permissionCorrelationId # 0

Fail ==
    /\ state' = "Failed"
    /\ finishRequested' = SignalsFinish
    /\ permissionCorrelationId' = 0

AcquireSnapshot ==
    /\ otaStep = "lease"
    /\ lease' = view
    /\ otaStep' = IF view = None THEN "timeout" ELSE "observe"
    /\ UNCHANGED <<cycleStep, applicationVars, coordinatorVars, signalVars, elapsed,
                   validationVars, requestVars, flashVars, imageVars>>

IsAnswered ==
    /\ state = "WaitingPermission"
    /\ lease.verdict # None
    /\ lease.verdict.id = permissionCorrelationId

\* Mutant of IsPermitted: the verdict alone counts.
WasPermitted == lease.verdict.accepted

\* The verdict counts only while the application still holds the interlock.
IsPermitted == lease.verdict.accepted /\ lease.firmware

ObserveApplication ==
    /\ otaStep = "observe"
    /\ IF ~IsAnswered THEN UNCHANGED <<coordinatorVars, finishRequested>>
       ELSE IF ~IsPermitted THEN Fail
       ELSE state' = "Installing" /\ UNCHANGED <<permissionCorrelationId, finishRequested>>
    /\ lease' = None
    /\ otaStep' = "timeout"
    /\ UNCHANGED <<cycleStep, applicationVars, prepareCorrelation, elapsed, validationVars,
                   requestVars, flashVars, imageVars>>

InspectPermissionTimeout ==
    /\ otaStep = "timeout"
    /\ IF state = "WaitingPermission" /\ elapsed = PermissionTimeout
       THEN Fail
       ELSE UNCHANGED <<coordinatorVars, finishRequested>>
    /\ otaStep' = "validate"
    /\ UNCHANGED <<cycleStep, applicationVars, prepareCorrelation, elapsed, validationVars,
                   lease, requestVars, flashVars, imageVars>>

\* Mutant of MustRollBack: validation waits for its good cycles and nothing else.
MustNotRollBack == FALSE

MustRollBack == validationFault \/ elapsed = ValidationTimeout

InspectFault ==
    /\ otaStep = "validate"
    /\ ~(validationPending /\ MustRollBack)
    /\ otaStep' = IF validationPending THEN "count" ELSE "check"
    /\ UNCHANGED <<cycleStep, applicationVars, coordinatorVars, signalVars, elapsed,
                   validationVars, lease, requestVars, flashVars, imageVars>>

\* esp_ota_mark_app_invalid_rollback_and_reboot
RollBack ==
    /\ otaStep = "validate"
    /\ validationPending /\ MustRollBack
    /\ Boot("confirmed")

KeepValidating ==
    /\ otaStep = "count"
    /\ validationCycles < RequiredValidationCycles
    /\ otaStep' = "check"
    /\ UNCHANGED <<cycleStep, applicationVars, coordinatorVars, signalVars, elapsed,
                   validationVars, lease, requestVars, flashVars, imageVars>>

\* esp_ota_mark_app_valid_cancel_rollback
MarkValid ==
    /\ otaStep = "count"
    /\ validationCycles = RequiredValidationCycles
    /\ runningImage' = "confirmed"
    /\ validationPending' = FALSE
    /\ otaStep' = "resume"
    /\ UNCHANGED <<cycleStep, applicationVars, coordinatorVars, signalVars, elapsed,
                   validationFault, validationCycles, lease, requestVars, flashVars,
                   bootSelected>>

MarkValidFails ==
    /\ otaStep = "count"
    /\ validationCycles = RequiredValidationCycles
    /\ Boot("confirmed")

ResumeHistory ==
    /\ otaStep = "resume"
    /\ historyDeferred' = FALSE
    /\ otaStep' = "confirm"
    /\ UNCHANGED <<cycleStep, applicationVars, coordinatorVars, signalVars, elapsed,
                   validationVars, lease, requestVars, owner, historyStep, imageVars>>

NoteValidationSucceeded ==
    /\ otaStep = "confirm"
    /\ state' = "Idle"
    /\ permissionCorrelationId' = 0
    /\ finishRequested' = TRUE
    /\ otaStep' = "check"
    /\ UNCHANGED <<cycleStep, applicationVars, prepareCorrelation, elapsed, validationVars,
                   lease, requestVars, flashVars, imageVars>>

TakeCheck ==
    /\ otaStep = "check"
    /\ checkRequested' = FALSE
    /\ otaStep' = IF checkRequested THEN "checking" ELSE "install"
    /\ UNCHANGED <<cycleStep, applicationVars, coordinatorVars, signalVars, elapsed,
                   validationVars, lease, installAdmitted, installs, flashVars, imageVars>>

\* Whatever the network and the descriptor say.
PerformCheck ==
    /\ otaStep = "checking"
    /\ \/ state' \in {"Available", "UpToDate"}
          /\ UNCHANGED <<permissionCorrelationId, finishRequested>>
       \/ Fail
    /\ otaStep' = "install"
    /\ UNCHANGED <<cycleStep, applicationVars, prepareCorrelation, elapsed, validationVars,
                   lease, requestVars, flashVars, imageVars>>

\* installation_ready_ is set and cleared together with this state.
TakeInstall ==
    /\ otaStep = "install"
    /\ otaStep' = IF state = "Installing" THEN "defer" ELSE "lease"
    /\ UNCHANGED <<cycleStep, applicationVars, coordinatorVars, signalVars, elapsed,
                   validationVars, lease, requestVars, flashVars, imageVars>>

DeferHistory ==
    /\ otaStep = "defer"
    /\ historyDeferred' = TRUE
    /\ otaStep' = "acquire"
    /\ UNCHANGED <<cycleStep, applicationVars, coordinatorVars, signalVars, elapsed,
                   validationVars, lease, requestVars, owner, historyStep, imageVars>>

TryAcquireOta ==
    /\ otaStep = "acquire"
    /\ owner' = IF owner = "None" THEN "Ota" ELSE owner
    /\ otaStep' = IF owner = "None" THEN "write" ELSE "defer"
    /\ UNCHANGED <<cycleStep, applicationVars, coordinatorVars, signalVars, elapsed,
                   validationVars, lease, requestVars, historyDeferred, historyStep, imageVars>>

\* The installation's deadline passes while history holds the flash.
GiveUpFlash ==
    /\ otaStep = "acquire"
    /\ owner # "None"
    /\ Fail
    /\ otaStep' = "undefer"
    /\ UNCHANGED <<cycleStep, applicationVars, prepareCorrelation, elapsed, validationVars,
                   lease, requestVars, flashVars, imageVars>>

\* Download, descriptor, writes or verification fail, or the deadline passes.
InstallFails ==
    /\ otaStep = "write"
    /\ Fail
    /\ otaStep' = "release"
    /\ UNCHANGED <<cycleStep, applicationVars, prepareCorrelation, elapsed, validationVars,
                   lease, requestVars, flashVars, imageVars>>

\* esp_ota_set_boot_partition
SelectBoot ==
    /\ otaStep = "write"
    /\ bootSelected' = TRUE
    /\ otaStep' = "selected"
    /\ UNCHANGED <<cycleStep, applicationVars, coordinatorVars, signalVars, elapsed,
                   validationVars, lease, requestVars, flashVars, runningImage>>

NoteRebooting ==
    /\ otaStep = "selected"
    /\ state' = "Rebooting"
    /\ otaStep' = "reboot"
    /\ UNCHANGED <<cycleStep, applicationVars, permissionCorrelationId, signalVars, elapsed,
                   validationVars, lease, requestVars, flashVars, imageVars>>

\* esp_restart
Restart ==
    /\ otaStep = "reboot"
    /\ Boot(NextImage)

ReleaseOta ==
    /\ otaStep = "release"
    /\ owner' = IF owner = "Ota" THEN "None" ELSE owner
    /\ otaStep' = "undefer"
    /\ UNCHANGED <<cycleStep, applicationVars, coordinatorVars, signalVars, elapsed,
                   validationVars, lease, requestVars, historyDeferred, historyStep, imageVars>>

\* The end of the lease, acquired or not.
EndDeferral ==
    /\ otaStep = "undefer"
    /\ historyDeferred' = FALSE
    /\ otaStep' = "lease"
    /\ UNCHANGED <<cycleStep, applicationVars, coordinatorVars, signalVars, elapsed,
                   validationVars, lease, requestVars, owner, historyStep, imageVars>>

Inspection ==
    \/ AcquireSnapshot \/ ObserveApplication \/ InspectPermissionTimeout
    \/ InspectFault \/ RollBack \/ KeepValidating
    \/ MarkValid \/ MarkValidFails \/ ResumeHistory \/ NoteValidationSucceeded
    \/ TakeCheck \/ PerformCheck

Installation ==
    \/ TakeInstall \/ DeferHistory \/ TryAcquireOta \/ InstallFails
    \/ SelectBoot \/ NoteRebooting \/ Restart \/ ReleaseOta \/ EndDeferral

OtaTask == Inspection \/ Installation \/ GiveUpFlash

----------------------------------------------------------------------------
(* The tasks that use the history partition.                               *)

HistoryMoves(h, from, to) ==
    /\ historyStep[h] = from
    /\ historyStep' = [historyStep EXCEPT ![h] = to]
    /\ UNCHANGED <<cycleStep, applicationVars, coordinatorVars, signalVars, elapsed,
                   validationVars, taskVars, requestVars, historyDeferred, imageVars>>

HistoryMayTry == ~historyDeferred

LoadDeferral(h) ==
    /\ HistoryMayTry
    /\ HistoryMoves(h, "idle", "try")
    /\ UNCHANGED owner

\* Mutant of FlashIsFree: history only keeps clear of history.
FlashIsFreeOfHistory == owner # "History"

FlashIsFree == owner = "None"

TryAcquireHistory(h) ==
    \/ /\ FlashIsFree
       /\ HistoryMoves(h, "try", "use")
       /\ owner' = "History"
    \/ /\ ~FlashIsFree
       /\ HistoryMoves(h, "try", "idle")
       /\ UNCHANGED owner

ReleaseHistory(h) ==
    /\ HistoryMoves(h, "use", "idle")
    /\ owner' = IF owner = "History" THEN "None" ELSE owner

HistoryTask(h) == LoadDeferral(h) \/ TryAcquireHistory(h) \/ ReleaseHistory(h)

----------------------------------------------------------------------------
(* The specification.                                                      *)

Init ==
    /\ runningImage \in {"confirmed", "pending"}
    /\ bootSelected = FALSE
    /\ validationPending = (runningImage = "pending")
    /\ validationFault = FALSE
    /\ validationCycles = 0
    /\ state = IF runningImage = "pending" THEN "Validating" ELSE "Idle"
    /\ permissionCorrelationId = 0
    /\ prepareCorrelation = IF runningImage = "pending" THEN InternalId ELSE 0
    /\ finishRequested = FALSE
    /\ elapsed = 0
    /\ cycleStep = "prepare"
    /\ submitted = Nothing
    /\ application = [status |-> "Idle", firmware |-> FALSE, verdict |-> None]
    /\ view = None
    /\ otaStep = "lease"
    /\ lease = None
    /\ checkRequested = FALSE
    /\ installAdmitted = FALSE
    /\ installs = 0
    /\ owner = "None"
    /\ historyDeferred = DefersHistory(runningImage)
    /\ historyStep = [h \in HistoryUsers |-> "idle"]

Next ==
    \/ ControlTask
    \/ Transport
    \/ OtaTask
    \/ \E h \in HistoryUsers : HistoryTask(h)
    \/ Reset

Spec == Init /\ [][Next]_vars

\* ControlTask is woken every second at the highest priority; OtaTask and the
\* history tasks wake from every wait after a bounded time.  No deadline of an
\* installation is assumed to pass, and no reset to happen.  Strong fairness only
\* makes up for the guard of ConsumePrepare, which stands for the time that passes.
FairSpec ==
    /\ Spec
    /\ SF_vars(ControlTask)
    /\ WF_vars(Inspection \/ Installation)
    /\ \A h \in HistoryUsers : WF_vars(HistoryTask(h))

----------------------------------------------------------------------------
(* Properties.                                                             *)

Verdicts == [id : 1 .. InternalId, accepted : BOOLEAN] \cup {None}

Snapshots ==
    [status : {"Idle", "Running", "Fault"}, firmware : BOOLEAN, verdict : Verdicts]

TypeOK ==
    /\ cycleStep \in {"prepare", "finish", "tick", "fault", "cycles"}
    /\ submitted \in [prepare : 0 .. InternalId, finish : BOOLEAN]
    /\ application \in Snapshots
    /\ view \in Snapshots \cup {None}
    /\ state \in {"Idle", "Checking", "UpToDate", "Available", "WaitingPermission",
                  "Installing", "Rebooting", "Validating", "Failed"}
    /\ permissionCorrelationId \in 0 .. MaxInstalls
    /\ prepareCorrelation \in 0 .. InternalId
    /\ elapsed \in 0 .. IF PermissionTimeout < ValidationTimeout
                         THEN ValidationTimeout ELSE PermissionTimeout
    /\ {finishRequested, checkRequested, installAdmitted, historyDeferred, bootSelected,
        validationPending, validationFault} \subseteq BOOLEAN
    /\ validationCycles \in 0 .. RequiredValidationCycles
    /\ otaStep \in {"lease", "observe", "timeout", "validate", "count", "resume", "confirm",
                    "check", "checking", "install", "defer", "acquire", "write", "selected",
                    "reboot", "release", "undefer"}
    /\ lease \in Snapshots \cup {None}
    /\ installs \in 0 .. MaxInstalls
    /\ owner \in {"None", "History", "Ota"}
    /\ historyStep \in [HistoryUsers -> {"idle", "try", "use"}]
    /\ runningImage \in {"confirmed", "pending"}

\* "Firmware installation and update-triggered reboot are forbidden while a session is
\* RUNNING" (OTA-002), and "for PENDING_VERIFY, Start is blocked" (OTA-005), whatever
\* old Finish is still on its way.
NoSessionDuringUpdate ==
    state \in {"Installing", "Rebooting"} \/ validationPending
        => application.status # "Running"

\* A fault seen in validation rolls back, even if it was cleared and five good cycles
\* followed it: only a fault of the cycle in flight can come too late.
FaultForbidsConfirmation ==
    [][MarkValid => ~validationFault \/ cycleStep = "cycles"]_vars

\* "A missing correlated response cannot leave Start interlocked indefinitely"
\* (ARCHITECTURE.md): every reservation ends, whatever ends the update, and every
\* pending image is confirmed or rolled back, after which no reservation is left of it.
UpdateInProgress == application.firmware \/ validationPending

UpdatesEnd == UpdateInProgress ~> ~UpdateInProgress

\* OTA writes and history operations never overlap, nor do two history operations; a
\* pending image has the flash to itself.
FlashHasOneUser ==
    \A h \in HistoryUsers : historyStep[h] = "use" =>
        /\ otaStep # "write"
        /\ ~validationPending
        /\ \A g \in HistoryUsers \ {h} : historyStep[g] # "use"

=============================================================================
