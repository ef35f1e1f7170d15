------------------------ MODULE FirmwareUpdate_proofs ------------------------
(***************************************************************************)
(* For any timeouts, history tasks and number of updates: the flash has    *)
(* one user, no session runs while an update is under way, no image that   *)
(* showed a fault before the cycle in flight is confirmed, and no failure  *)
(* leaves the interlock to nobody.                                         *)
(***************************************************************************)
EXTENDS FirmwareUpdate, TLAPS

ValidationSteps ==
    {"lease", "observe", "timeout", "validate", "count", "check", "install"}

OtaOwnsFlash == owner = "Ota" <=> otaStep \in {"write", "selected", "reboot", "release"}

HistoryOwnsFlash ==
    /\ historyStep \in [HistoryUsers -> {"idle", "try", "use"}]
    /\ \A h \in HistoryUsers : historyStep[h] = "use" => owner = "History"
    /\ \A g, h \in HistoryUsers : historyStep[g] = "use" /\ historyStep[h] = "use" => g = h

\* A pending image was booted with history deferred, and OtaTask never reaches a step
\* that would end the deferral: its state leaves it nothing to check or install.
PendingKeepsHistoryOut ==
    validationPending = TRUE =>
        /\ historyDeferred = TRUE
        /\ state = "Validating"
        /\ checkRequested = FALSE
        /\ otaStep \in ValidationSteps
        /\ \A h \in HistoryUsers : historyStep[h] = "idle"

FlashInv == OtaOwnsFlash /\ HistoryOwnsFlash /\ PendingKeepsHistoryOut

\* The device boots with a free flash, and with history deferred for a pending image.
LEMMA FlashInit == Init => FlashInv
<1> SUFFICES ASSUME Init PROVE FlashInv
  OBVIOUS
<1>1. OtaOwnsFlash
  BY DEF Init, OtaOwnsFlash
<1>2. HistoryOwnsFlash
  BY DEF Init, HistoryOwnsFlash
<1>3. PendingKeepsHistoryOut
  BY DEF Init, PendingKeepsHistoryOut, ValidationSteps, DefersHistory
<1> QED
  BY <1>1, <1>2, <1>3 DEF FlashInv

\* A boot of either image starts from a free flash, with history deferred if the image
\* is pending.
LEMMA FlashBoot ==
    ASSUME NEW image \in {"confirmed", "pending"}, Boot(image)
    PROVE  FlashInv'
<1>1. OtaOwnsFlash'
  BY DEF Boot, OtaOwnsFlash
<1>2. HistoryOwnsFlash'
  BY DEF Boot, HistoryOwnsFlash
<1>3. PendingKeepsHistoryOut'
  BY DEF Boot, PendingKeepsHistoryOut, ValidationSteps, DefersHistory
<1> QED
  BY <1>1, <1>2, <1>3 DEF FlashInv

\* Neither ControlTask nor a transport touches the flash, and no transport is served
\* while an image is validated.
LEMMA FlashOthers ==
    ASSUME FlashInv, ControlTask \/ Transport
    PROVE  FlashInv'
<1> USE DEF applicationVars, signalVars, validationVars, requestVars, flashVars, imageVars,
            coordinatorVars, taskVars
<1>1. /\ UNCHANGED <<owner, historyDeferred, historyStep, otaStep, validationPending>>
      /\ \/ UNCHANGED <<state, checkRequested>>
         \/ state # "Validating"
  BY DEF ControlTask, ConsumePrepare, ConsumeFinish, Tick, PublishFault, PublishCycle,
         Transport, RequestCheck, AdmitInstall, RequestInstall
<1> QED
  BY <1>1 DEF FlashInv, OtaOwnsFlash, HistoryOwnsFlash, PendingKeepsHistoryOut

\* OtaTask owns the flash exactly from a successful exchange to its release, and leaves
\* the deferral of a pending image alone until the image is confirmed.
LEMMA FlashOtaTask ==
    ASSUME FlashInv, OtaTask
    PROVE  FlashInv'
<1> USE DEF applicationVars, signalVars, validationVars, requestVars, flashVars, imageVars,
            coordinatorVars, taskVars
<1>1. CASE \/ AcquireSnapshot \/ ObserveApplication \/ InspectPermissionTimeout
           \/ InspectFault \/ KeepValidating
  <2>1. /\ UNCHANGED <<flashVars, validationPending, checkRequested>>
        /\ otaStep \in ValidationSteps /\ otaStep' \in ValidationSteps
        /\ state = "Validating" => state' = state
    BY <1>1 DEF AcquireSnapshot, ObserveApplication, InspectPermissionTimeout, InspectFault,
                KeepValidating, IsAnswered, Fail, ValidationSteps
  <2> QED
    BY <2>1 DEF FlashInv, OtaOwnsFlash, HistoryOwnsFlash, PendingKeepsHistoryOut,
                ValidationSteps
<1>2. CASE RollBack \/ MarkValidFails \/ Restart
  <2>1. PICK image \in {"confirmed", "pending"} : Boot(image)
    BY <1>2 DEF RollBack, MarkValidFails, Restart, NextImage
  <2> QED
    BY <2>1, FlashBoot
<1>3. CASE MarkValid \/ ResumeHistory \/ NoteValidationSucceeded
  <2>1. /\ UNCHANGED <<owner, historyStep>>
        /\ otaStep \in {"count", "resume", "confirm"}
        /\ otaStep' \in {"resume", "confirm", "check"}
    BY <1>3 DEF MarkValid, ResumeHistory, NoteValidationSucceeded
  <2>2. validationPending' # TRUE
    BY <1>3 DEF MarkValid, ResumeHistory, NoteValidationSucceeded, FlashInv,
                PendingKeepsHistoryOut, ValidationSteps
  <2> QED
    BY <2>1, <2>2 DEF FlashInv, OtaOwnsFlash, HistoryOwnsFlash, PendingKeepsHistoryOut
<1>4. CASE TakeCheck \/ TakeInstall
  <2>1. /\ UNCHANGED <<flashVars, validationPending, state>>
        /\ otaStep \in {"check", "install"}
        /\ otaStep' \in {"checking", "install", "defer", "lease"}
    BY <1>4 DEF TakeCheck, TakeInstall
  <2>2. validationPending = TRUE =>
          otaStep' \in {"install", "lease"} /\ checkRequested' = FALSE
    BY <1>4 DEF TakeCheck, TakeInstall, FlashInv, PendingKeepsHistoryOut
  <2> QED
    BY <2>1, <2>2 DEF FlashInv, OtaOwnsFlash, HistoryOwnsFlash, PendingKeepsHistoryOut,
                      ValidationSteps
<1>5. CASE PerformCheck \/ DeferHistory \/ GiveUpFlash \/ EndDeferral
  <2>1. /\ UNCHANGED <<owner, historyStep, validationPending>>
        /\ otaStep \in {"checking", "defer", "acquire", "undefer"}
        /\ otaStep' \in {"install", "acquire", "undefer", "lease"}
    BY <1>5 DEF PerformCheck, DeferHistory, GiveUpFlash, EndDeferral
  <2> QED
    BY <2>1 DEF FlashInv, OtaOwnsFlash, HistoryOwnsFlash, PendingKeepsHistoryOut,
                ValidationSteps
<1>6. CASE TryAcquireOta
  <2>1. /\ UNCHANGED <<historyStep, validationPending>>
        /\ otaStep = "acquire"
        /\ owner = "None" => owner' = "Ota" /\ otaStep' = "write"
        /\ owner # "None" => owner' = owner /\ otaStep' = "defer"
    BY <1>6 DEF TryAcquireOta
  <2>2. \A h \in HistoryUsers : historyStep[h] = "use" => owner' = "History"
    BY <2>1 DEF FlashInv, HistoryOwnsFlash
  <2> QED
    BY <2>1, <2>2 DEF FlashInv, OtaOwnsFlash, HistoryOwnsFlash, PendingKeepsHistoryOut,
                      ValidationSteps
<1>7. CASE InstallFails \/ SelectBoot \/ NoteRebooting
  <2>1. /\ UNCHANGED <<owner, historyStep, validationPending>>
        /\ otaStep \in {"write", "selected"}
        /\ otaStep' \in {"release", "selected", "reboot"}
    BY <1>7 DEF InstallFails, SelectBoot, NoteRebooting
  <2> QED
    BY <2>1 DEF FlashInv, OtaOwnsFlash, HistoryOwnsFlash, PendingKeepsHistoryOut,
                ValidationSteps
<1>8. CASE ReleaseOta
  <2>1. /\ UNCHANGED <<historyStep, validationPending>>
        /\ otaStep = "release" /\ otaStep' = "undefer"
        /\ owner = "Ota" /\ owner' = "None"
    BY <1>8 DEF ReleaseOta, FlashInv, OtaOwnsFlash
  <2>2. \A h \in HistoryUsers : historyStep[h] # "use"
    BY <2>1 DEF FlashInv, HistoryOwnsFlash
  <2> QED
    BY <2>1, <2>2 DEF FlashInv, OtaOwnsFlash, HistoryOwnsFlash, PendingKeepsHistoryOut,
                      ValidationSteps
<1> QED
  BY <1>1, <1>2, <1>3, <1>4, <1>5, <1>6, <1>7, <1>8
     DEF OtaTask, Inspection, Installation

\* A history task enters the flash only by an exchange that found it free.
LEMMA FlashHistoryTask ==
    ASSUME FlashInv, NEW h \in HistoryUsers, HistoryTask(h)
    PROVE  FlashInv'
<1>1. PICK from \in {"idle", "try", "use"}, to \in {"idle", "try", "use"} :
        HistoryMoves(h, from, to)
  BY DEF HistoryTask, LoadDeferral, TryAcquireHistory, ReleaseHistory
<1>2. UNCHANGED <<otaStep, historyDeferred, validationPending, state, checkRequested>>
  BY <1>1 DEF HistoryMoves, taskVars, validationVars, coordinatorVars, requestVars
<1>3. historyStep' = [historyStep EXCEPT ![h] = to]
  BY <1>1 DEF HistoryMoves
<1>4. validationPending # TRUE
  BY DEF FlashInv, PendingKeepsHistoryOut, HistoryTask, LoadDeferral, TryAcquireHistory,
         ReleaseHistory, HistoryMoves, HistoryMayTry
<1>5. PendingKeepsHistoryOut'
  BY <1>2, <1>4 DEF PendingKeepsHistoryOut
<1>6. owner' = "Ota" <=> owner = "Ota"
  BY DEF HistoryTask, LoadDeferral, TryAcquireHistory, ReleaseHistory, FlashIsFree
<1>7. OtaOwnsFlash'
  BY <1>2, <1>6 DEF FlashInv, OtaOwnsFlash
<1>8. HistoryOwnsFlash'
  <2> USE DEF FlashInv, HistoryOwnsFlash
  <2>1. CASE LoadDeferral(h)
    BY <2>1 DEF LoadDeferral, HistoryMoves
  <2>2. CASE TryAcquireHistory(h)
    <3>1. CASE owner = "None"
      <4>1. historyStep' = [historyStep EXCEPT ![h] = "use"] /\ owner' = "History"
        BY <2>2, <3>1 DEF TryAcquireHistory, HistoryMoves, FlashIsFree
      <4>2. \A g \in HistoryUsers : historyStep[g] # "use"
        BY <3>1
      <4> QED
        BY <4>1, <4>2
    <3>2. CASE owner # "None"
      BY <2>2, <3>2 DEF TryAcquireHistory, HistoryMoves, FlashIsFree
    <3> QED
      BY <3>1, <3>2
  <2>3. CASE ReleaseHistory(h)
    <3>1. historyStep[h] = "use" /\ historyStep' = [historyStep EXCEPT ![h] = "idle"]
      BY <2>3 DEF ReleaseHistory, HistoryMoves
    <3>2. \A g \in HistoryUsers : historyStep'[g] # "use"
      BY <3>1
    <3> QED
      BY <3>1, <3>2
  <2> QED
    BY <2>1, <2>2, <2>3 DEF HistoryTask
<1> QED
  BY <1>5, <1>7, <1>8 DEF FlashInv

\* Every task, and a reset, leaves the flash to its owner.
LEMMA FlashNext == FlashInv /\ [Next]_vars => FlashInv'
<1> SUFFICES ASSUME FlashInv, [Next]_vars PROVE FlashInv'
  OBVIOUS
<1>1. CASE ControlTask \/ Transport
  BY <1>1, FlashOthers
<1>2. CASE OtaTask
  BY <1>2, FlashOtaTask
<1>3. CASE \E h \in HistoryUsers : HistoryTask(h)
  BY <1>3, FlashHistoryTask
<1>4. CASE Reset
  BY <1>4, FlashBoot DEF Reset, NextImage
<1>5. CASE UNCHANGED vars
  BY <1>5 DEF vars, applicationVars, signalVars, validationVars, requestVars, flashVars,
              imageVars, coordinatorVars, taskVars, FlashInv, OtaOwnsFlash,
              HistoryOwnsFlash, PendingKeepsHistoryOut
<1> QED
  BY <1>1, <1>2, <1>3, <1>4, <1>5 DEF Next

\* OTA writes and history operations exclude each other, and validation excludes
\* history, for any number of history tasks and at every reset: the compare-exchange
\* of FlashOperationCoordinator and the deferral set before HistoryTask starts suffice.
THEOREM FlashIsExclusive == Spec => []FlashHasOneUser
<1>1. FlashInv => FlashHasOneUser
  BY DEF FlashInv, OtaOwnsFlash, HistoryOwnsFlash, PendingKeepsHistoryOut, FlashHasOneUser
<1> QED
  BY <1>1, FlashInit, FlashNext, PTL DEF Spec

----------------------------------------------------------------------------
(* Permission.                                                             *)

\* What OtaTask may act on, now or later.
Snapshot == {application} \cup ({view, lease} \ {None})

\* s answers the permission that is waited for, and grants the interlock.
Concerns(s) == s.verdict # None /\ s.verdict.id = permissionCorrelationId
Grants(s) == Concerns(s) /\ s.verdict.accepted /\ s.firmware

\* The application holds the interlock and no Finish is on its way.
IsHeld == application.firmware /\ ~finishRequested /\ ~submitted.finish

PermissionTypes ==
    /\ submitted \in [prepare : 0 .. InternalId, finish : BOOLEAN]
    /\ application.firmware \in BOOLEAN
    /\ finishRequested \in BOOLEAN
    /\ otaStep = "observe" => lease # None
    /\ permissionCorrelationId \in 0 .. MaxInstalls
    /\ installs \in 0 .. MaxInstalls
    /\ submitted.prepare # 0 => cycleStep \in {"finish", "tick"}
    /\ submitted.finish => cycleStep = "tick"

\* Ids are drawn before they are used.
IsDrawn(id) == id \in 0 .. installs \cup {InternalId}
IdsAreDrawn ==
    /\ IsDrawn(prepareCorrelation) /\ IsDrawn(submitted.prepare)
    /\ \A s \in Snapshot : s.verdict # None => IsDrawn(s.verdict.id)

\* Nobody has a verdict before ControlTask ticked, at which time no older Finish is left;
\* and whoever has a verdict that grants the interlock can rely on it.
WaitingIsSound ==
    state = "WaitingPermission" =>
        /\ permissionCorrelationId # 0
        /\ permissionCorrelationId \in {prepareCorrelation, submitted.prepare} =>
             \A s \in Snapshot : ~Concerns(s)
        /\ submitted.prepare = permissionCorrelationId =>
             prepareCorrelation # permissionCorrelationId
        /\ submitted.prepare = permissionCorrelationId /\ cycleStep = "tick" =>
             ~finishRequested
        /\ \A s \in Snapshot : Grants(s) => IsHeld

InstallingIsSound ==
    /\ state \in {"Installing", "Rebooting"} => IsHeld
    /\ otaStep \in {"defer", "acquire", "write", "selected"} => state = "Installing"

\* A pending image reserves the interlock before anybody else is heard.
ValidatingIsSound ==
    validationPending = TRUE =>
        /\ ~finishRequested /\ ~submitted.finish
        /\ application.status # "Running"
        /\ \/ application.firmware
           \/ submitted.prepare = InternalId
           \/ prepareCorrelation = InternalId /\ cycleStep = "prepare"

PermissionInv ==
    /\ PermissionTypes
    /\ IdsAreDrawn
    /\ application.firmware => application.status # "Running"
    /\ WaitingIsSound
    /\ InstallingIsSound
    /\ ValidatingIsSound

\* No permission is held, asked for or on its way when the device boots.
LEMMA PermissionInit == Init => PermissionInv
<1> SUFFICES ASSUME Init PROVE PermissionInv
  OBVIOUS
<1> USE FirmwareAssumption DEF InternalId, Nothing
<1>1. PermissionTypes
  <2>1. finishRequested \in BOOLEAN /\ application.firmware \in BOOLEAN
    BY DEF Init
  <2>2. finishRequested = FALSE /\ otaStep = "lease" /\ submitted = Nothing
        /\ permissionCorrelationId = 0 /\ installs = 0
    BY DEF Init
  <2> QED
    BY <2>1, <2>2 DEF PermissionTypes
<1>1a. IdsAreDrawn
  BY DEF Init, IdsAreDrawn, IsDrawn, Snapshot
<1>2. WaitingIsSound /\ InstallingIsSound /\ ValidatingIsSound
  BY DEF Init, WaitingIsSound, InstallingIsSound, ValidatingIsSound
<1> QED
  BY <1>1, <1>1a, <1>2 DEF PermissionInv, Init

\* A boot forgets every permission; a pending image asks for its own at once.
LEMMA PermissionBoot ==
    ASSUME NEW image \in {"confirmed", "pending"}, Boot(image)
    PROVE  PermissionInv'
<1> USE FirmwareAssumption DEF InternalId, Nothing
<1>1. PermissionTypes'
  <2>1. finishRequested' \in BOOLEAN /\ application'.firmware \in BOOLEAN
    BY DEF Boot
  <2>2. finishRequested' = FALSE /\ otaStep' = "lease" /\ submitted' = Nothing
        /\ permissionCorrelationId' = 0 /\ installs' = 0
    BY DEF Boot
  <2> QED
    BY <2>1, <2>2 DEF PermissionTypes
<1>1a. IdsAreDrawn'
  BY DEF Boot, IdsAreDrawn, IsDrawn, Snapshot
<1>2. WaitingIsSound' /\ InstallingIsSound' /\ ValidatingIsSound'
  BY DEF Boot, WaitingIsSound, InstallingIsSound, ValidatingIsSound
<1> QED
  BY <1>1, <1>1a, <1>2 DEF PermissionInv, Boot

\* Prepare enters the queue of a cycle that has not looked for Finish yet.
LEMMA PermissionConsumePrepare ==
    ASSUME PermissionInv, ConsumePrepare
    PROVE  PermissionInv'
<1> USE FirmwareAssumption DEF InternalId, Nothing
<1>1. /\ cycleStep = "prepare" /\ cycleStep' = "finish"
      /\ submitted' = [prepare |-> prepareCorrelation, finish |-> FALSE]
      /\ prepareCorrelation' = 0
      /\ UNCHANGED <<application, view, lease, state, permissionCorrelationId, installs,
                     finishRequested, otaStep, validationPending>>
  BY DEF ConsumePrepare, coordinatorVars, validationVars, taskVars, requestVars
<1>2. submitted.prepare = 0 /\ ~submitted.finish
  BY <1>1 DEF PermissionInv, PermissionTypes
<1>3. PermissionTypes' /\ IdsAreDrawn'
  BY <1>1 DEF PermissionInv, PermissionTypes, IdsAreDrawn, IsDrawn, Snapshot
<1>4. WaitingIsSound'
  BY <1>1, <1>2 DEF PermissionInv, WaitingIsSound, Snapshot, Concerns, Grants,
                    IsHeld
<1>5. InstallingIsSound' /\ ValidatingIsSound'
  BY <1>1, <1>2 DEF PermissionInv, InstallingIsSound, ValidatingIsSound, IsHeld
<1> QED
  BY <1>1, <1>3, <1>4, <1>5 DEF PermissionInv

\* Finish joins the Prepare of the same cycle, or finds none that was granted.
LEMMA PermissionConsumeFinish ==
    ASSUME PermissionInv, ConsumeFinish
    PROVE  PermissionInv'
<1> USE FirmwareAssumption DEF InternalId
<1>1. /\ cycleStep = "finish" /\ cycleStep' = "tick"
      /\ submitted' = [prepare |-> submitted.prepare, finish |-> finishRequested]
      /\ finishRequested' = FALSE
      /\ UNCHANGED <<application, view, lease, state, permissionCorrelationId, installs,
                     prepareCorrelation, otaStep, validationPending>>
  BY DEF ConsumeFinish, coordinatorVars, validationVars, taskVars, requestVars
<1>2. ~submitted.finish
  BY <1>1 DEF PermissionInv, PermissionTypes
<1>3. PermissionTypes' /\ IdsAreDrawn'
  BY <1>1 DEF PermissionInv, PermissionTypes, IdsAreDrawn, IsDrawn, Snapshot
<1>4. WaitingIsSound'
  BY <1>1, <1>2 DEF PermissionInv, PermissionTypes, WaitingIsSound, Snapshot, Concerns, Grants,
                    IsHeld
<1>5. InstallingIsSound' /\ ValidatingIsSound'
  BY <1>1, <1>2 DEF PermissionInv, InstallingIsSound, ValidatingIsSound, IsHeld
<1> QED
  BY <1>1, <1>3, <1>4, <1>5 DEF PermissionInv

\* A tick answers a waiting Prepare with no Finish behind it, and takes the interlock
\* from nobody who relies on it.
LEMMA PermissionTick ==
    ASSUME PermissionInv, Tick
    PROVE  PermissionInv'
<1> USE FirmwareAssumption DEF InternalId, Nothing
<1>1. /\ cycleStep = "tick" /\ cycleStep' \in {"fault", "prepare"}
      /\ submitted' = [prepare |-> 0, finish |-> FALSE]
      /\ view' \in {view, application'}
      /\ UNCHANGED <<lease, state, permissionCorrelationId, installs, prepareCorrelation,
                     finishRequested, otaStep, validationPending>>
  BY DEF Tick, coordinatorVars, signalVars, validationVars, taskVars, requestVars
<1>2. PICK status \in StatusesAfter(InterlockAfter), verdict \in VerdictsAfter :
        application' = [status |-> status, firmware |-> InterlockAfter, verdict |-> verdict]
  BY DEF Tick
<1>3. /\ application'.firmware <=> InterlockAfter
      /\ application'.firmware \in BOOLEAN
      /\ application'.verdict = verdict
      /\ application'.firmware => application'.status # "Running"
  BY <1>2 DEF StatusesAfter, InterlockAfter
<1>4. \/ verdict \in {application.verdict, None} /\ submitted.prepare = 0
      \/ verdict.id = submitted.prepare /\ submitted.prepare # 0
  BY DEF VerdictsAfter
<1>5. PermissionTypes'
  BY <1>1, <1>3 DEF PermissionInv, PermissionTypes
<1>6. IdsAreDrawn'
  <2> USE DEF PermissionInv, IdsAreDrawn, IsDrawn
  <2>1. verdict # None => IsDrawn(verdict.id)
    BY <1>4 DEF Snapshot
  <2>2. \A s \in Snapshot' : s.verdict # None => IsDrawn(s.verdict.id)
    BY <1>1, <1>3, <2>1 DEF Snapshot
  <2> QED
    BY <1>1, <2>2 DEF PermissionTypes
<1>7. InstallingIsSound'
  BY <1>1, <1>3 DEF PermissionInv, InstallingIsSound, IsHeld, InterlockAfter
<1>8. ValidatingIsSound'
  BY <1>1, <1>3 DEF PermissionInv, ValidatingIsSound, InterlockAfter, PrepareIsAccepted
<1>9. WaitingIsSound'
  <2> SUFFICES ASSUME state = "WaitingPermission" PROVE WaitingIsSound'
    BY <1>1 DEF WaitingIsSound
  <2> USE DEF PermissionInv, WaitingIsSound
  <2>1. prepareCorrelation = permissionCorrelationId =>
          \A s \in Snapshot' : ~Concerns(s)'
    BY <1>1, <1>3, <1>4 DEF Snapshot, Concerns
  <2>2. ASSUME NEW s \in {view, lease} \ {None}, Grants(s)
        PROVE  IsHeld'
    BY <1>1, <1>3, <2>2 DEF Snapshot, Grants, IsHeld, InterlockAfter
  <2>3. ASSUME Grants(application)' PROVE IsHeld'
    <3>1. application'.firmware /\ ~submitted.finish
      BY <1>3, <2>3 DEF Grants, InterlockAfter
    <3>2. CASE submitted.prepare = 0
      <4>1. Grants(application)
        BY <1>1, <1>3, <1>4, <2>3, <3>1, <3>2 DEF Grants, Concerns, InterlockAfter,
                                                 PrepareIsAccepted
      <4> QED
        BY <1>1, <3>1, <4>1 DEF Snapshot, IsHeld
    <3>3. CASE submitted.prepare # 0
      <4>1. submitted.prepare = permissionCorrelationId
        BY <1>1, <1>3, <1>4, <2>3, <3>3 DEF Grants, Concerns
      <4> QED
        BY <1>1, <3>1, <4>1 DEF IsHeld
    <3> QED
      BY <3>2, <3>3
  <2> QED
    BY <1>1, <2>1, <2>2, <2>3 DEF Snapshot, Grants, Concerns
<1> QED
  BY <1>3, <1>5, <1>6, <1>7, <1>8, <1>9 DEF PermissionInv

\* The evidence of a validation does not bear on the permission.
LEMMA PermissionPublish ==
    ASSUME PermissionInv, PublishFault \/ PublishCycle
    PROVE  PermissionInv'
<1>1. /\ cycleStep \in {"fault", "cycles"} /\ cycleStep' \in {"cycles", "prepare"}
      /\ UNCHANGED <<submitted, application, view, lease, state, permissionCorrelationId,
                     installs, prepareCorrelation, finishRequested, otaStep,
                     validationPending>>
  BY DEF PublishFault, PublishCycle, applicationVars, coordinatorVars, signalVars, taskVars,
         requestVars
<1>2. PermissionTypes' /\ IdsAreDrawn'
  BY <1>1 DEF PermissionInv, PermissionTypes, IdsAreDrawn, IsDrawn, Snapshot
<1>3. WaitingIsSound'
  BY <1>1 DEF PermissionInv, WaitingIsSound, Snapshot, Concerns, Grants, IsHeld
<1>4. InstallingIsSound' /\ ValidatingIsSound'
  BY <1>1 DEF PermissionInv, InstallingIsSound, ValidatingIsSound, IsHeld
<1> QED
  BY <1>1, <1>2, <1>3, <1>4 DEF PermissionInv

\* A request draws an id that no snapshot and no signal carries yet.
LEMMA PermissionTransport ==
    ASSUME PermissionInv, FlashInv, Transport
    PROVE  PermissionInv'
<1> USE FirmwareAssumption DEF InternalId
<1>1. UNCHANGED <<submitted, application, view, lease, cycleStep, finishRequested, otaStep,
                  validationPending>>
  BY DEF Transport, RequestCheck, AdmitInstall, RequestInstall, applicationVars, signalVars,
         taskVars, validationVars
<1>2. CASE /\ state' \in {state, "Checking"}
           /\ state' = state \/ state \notin {"Installing", "Rebooting", "WaitingPermission"}
           /\ UNCHANGED <<permissionCorrelationId, prepareCorrelation, installs>>
  <2>1. PermissionTypes' /\ IdsAreDrawn'
    BY <1>1, <1>2 DEF PermissionInv, PermissionTypes, IdsAreDrawn, IsDrawn, Snapshot
  <2>2. WaitingIsSound'
    BY <1>1, <1>2 DEF PermissionInv, WaitingIsSound, Snapshot, Concerns, Grants, IsHeld
  <2>3. InstallingIsSound' /\ ValidatingIsSound'
    BY <1>1, <1>2 DEF PermissionInv, InstallingIsSound, ValidatingIsSound, IsHeld
  <2> QED
    BY <1>1, <2>1, <2>2, <2>3 DEF PermissionInv
<1>3. CASE /\ state = "Available" /\ state' = "WaitingPermission"
           /\ prepareCorrelation = 0 /\ installs < MaxInstalls
           /\ installs' = installs + 1
           /\ permissionCorrelationId' = installs' /\ prepareCorrelation' = installs'
  <2>1. installs' \in 1 .. MaxInstalls /\ ~IsDrawn(installs')
    BY <1>3 DEF PermissionInv, PermissionTypes, IsDrawn
  <2>2. PermissionTypes'
    BY <1>1, <1>3, <2>1 DEF PermissionInv, PermissionTypes
  <2>3. IdsAreDrawn'
    BY <1>1, <1>3, <2>1 DEF PermissionInv, PermissionTypes, IdsAreDrawn, IsDrawn, Snapshot
  <2>4. submitted.prepare # installs' /\ \A s \in Snapshot : ~Concerns(s)'
    BY <1>1, <1>3, <2>1 DEF PermissionInv, IdsAreDrawn, Concerns
  <2>5. WaitingIsSound'
    BY <1>1, <1>3, <2>1, <2>4 DEF WaitingIsSound, Snapshot, Grants
  <2>6. validationPending # TRUE
    BY <1>3 DEF FlashInv, PendingKeepsHistoryOut
  <2>7. InstallingIsSound' /\ ValidatingIsSound'
    BY <1>1, <1>3, <2>6 DEF PermissionInv, InstallingIsSound, ValidatingIsSound
  <2> QED
    BY <1>1, <2>2, <2>3, <2>5, <2>7 DEF PermissionInv
<1> QED
  BY <1>2, <1>3 DEF Transport, RequestCheck, AdmitInstall, RequestInstall, coordinatorVars,
                    signalVars, requestVars

\* Whatever OtaTask does short of a boot, it leaves a failed update's Finish to be seen.
LEMMA PermissionFail ==
    ASSUME PermissionInv, Fail, validationPending # TRUE,
           otaStep' \notin {"observe", "defer", "acquire", "write", "selected"},
           validationPending' = validationPending,
           UNCHANGED <<submitted, application, view, cycleStep, prepareCorrelation, installs>>,
           lease' \in {lease, None}
    PROVE  PermissionInv'
<1> USE FirmwareAssumption
<1>1. state' = "Failed" /\ permissionCorrelationId' = 0
  BY DEF Fail
<1>2. PermissionTypes'
  <2>1. finishRequested' \in BOOLEAN
    BY DEF Fail, SignalsFinish
  <2> QED
    BY <1>1, <2>1 DEF PermissionInv, PermissionTypes
<1>3. IdsAreDrawn'
  BY DEF PermissionInv, IdsAreDrawn, IsDrawn, Snapshot
<1>4. WaitingIsSound' /\ InstallingIsSound' /\ ValidatingIsSound'
  BY <1>1 DEF WaitingIsSound, InstallingIsSound, ValidatingIsSound
<1> QED
  BY <1>2, <1>3, <1>4 DEF PermissionInv

\* A step of OtaTask that keeps the permission as it is, moving on or learning a snapshot.
LEMMA PermissionKept ==
    ASSUME PermissionInv,
           UNCHANGED <<submitted, application, view, cycleStep, prepareCorrelation, installs,
                       permissionCorrelationId, finishRequested>>,
           lease' \in {lease, view, None},
           otaStep' = "observe" => lease' # None,
           state' = state \/ state' \in {"Available", "UpToDate"},
           otaStep' \in {"defer", "acquire", "write", "selected"} => state' = "Installing",
           validationPending' \in {validationPending, FALSE}
    PROVE  PermissionInv'
<1>1. Snapshot' \subseteq Snapshot
  BY DEF Snapshot
<1>2. PermissionTypes' /\ IdsAreDrawn'
  BY <1>1 DEF PermissionInv, PermissionTypes, IdsAreDrawn, IsDrawn
<1>3. WaitingIsSound'
  BY <1>1 DEF PermissionInv, WaitingIsSound, Concerns, Grants, IsHeld
<1>4. InstallingIsSound' /\ ValidatingIsSound'
  BY DEF PermissionInv, InstallingIsSound, ValidatingIsSound, IsHeld
<1> QED
  BY <1>2, <1>3, <1>4 DEF PermissionInv

\* OtaTask installs on a granted verdict only, and fails otherwise.
LEMMA PermissionOtaTask ==
    ASSUME PermissionInv, FlashInv, OtaTask
    PROVE  PermissionInv'
<1> USE DEF applicationVars, signalVars, validationVars, requestVars, coordinatorVars,
            taskVars
<1>1. CASE RollBack \/ MarkValidFails \/ Restart
  <2>1. PICK image \in {"confirmed", "pending"} : Boot(image)
    BY <1>1 DEF RollBack, MarkValidFails, Restart, NextImage
  <2> QED
    BY <2>1, PermissionBoot
<1>2. CASE \/ AcquireSnapshot \/ InspectFault \/ KeepValidating \/ MarkValid
           \/ ResumeHistory \/ TakeCheck \/ TakeInstall \/ DeferHistory \/ TryAcquireOta
           \/ SelectBoot \/ ReleaseOta \/ EndDeferral
  <2>1. /\ UNCHANGED <<submitted, application, view, cycleStep, prepareCorrelation, installs,
                       permissionCorrelationId, finishRequested, state>>
        /\ lease' \in {lease, view}
        /\ otaStep' = "observe" => lease' # None
        /\ validationPending' \in {validationPending, FALSE}
    BY <1>2 DEF AcquireSnapshot, InspectFault, KeepValidating, MarkValid, ResumeHistory,
                TakeCheck, TakeInstall, DeferHistory, TryAcquireOta, SelectBoot, ReleaseOta,
                EndDeferral
  <2>2. otaStep' \in {"defer", "acquire", "write", "selected"} => state = "Installing"
    BY <1>2 DEF AcquireSnapshot, InspectFault, KeepValidating, MarkValid, ResumeHistory,
                TakeCheck, TakeInstall, DeferHistory, TryAcquireOta, SelectBoot, ReleaseOta,
                EndDeferral, PermissionInv, InstallingIsSound
  <2> QED
    BY <2>1, <2>2, PermissionKept
<1>3. CASE ObserveApplication
  <2>1. /\ otaStep = "observe" /\ otaStep' = "timeout" /\ lease' = None
        /\ UNCHANGED <<submitted, application, view, cycleStep, prepareCorrelation, installs,
                       validationPending>>
    BY <1>3 DEF ObserveApplication
  <2>2. CASE ~IsAnswered
    BY <1>3, <2>1, <2>2, PermissionKept DEF ObserveApplication
  <2>3. CASE IsAnswered /\ ~IsPermitted
    <3>1. Fail /\ validationPending # TRUE
      BY <1>3, <2>3 DEF ObserveApplication, IsAnswered, FlashInv, PendingKeepsHistoryOut
    <3> QED
      BY <2>1, <3>1, PermissionFail
  <2>4. CASE IsAnswered /\ IsPermitted
    <3>1. state = "WaitingPermission" /\ Grants(lease) /\ lease \in Snapshot
      BY <2>1, <2>4 DEF IsAnswered, IsPermitted, Grants, Concerns, Snapshot, PermissionInv,
                        PermissionTypes
    <3>2. IsHeld
      BY <3>1 DEF PermissionInv, WaitingIsSound
    <3>3. state' = "Installing" /\ UNCHANGED <<permissionCorrelationId, finishRequested>>
      BY <1>3, <2>4 DEF ObserveApplication
    <3>4. PermissionTypes' /\ IdsAreDrawn'
      BY <2>1, <3>3 DEF PermissionInv, PermissionTypes, IdsAreDrawn, IsDrawn, Snapshot
    <3>5. WaitingIsSound' /\ InstallingIsSound' /\ ValidatingIsSound'
      BY <2>1, <3>2, <3>3 DEF PermissionInv, WaitingIsSound, InstallingIsSound,
                              ValidatingIsSound, IsHeld
    <3> QED
      BY <2>1, <3>4, <3>5 DEF PermissionInv
  <2> QED
    BY <2>2, <2>3, <2>4
<1>4. CASE InspectPermissionTimeout
  <2>1. CASE state = "WaitingPermission" /\ elapsed = PermissionTimeout
    <3>1. Fail /\ validationPending # TRUE
      BY <1>4, <2>1 DEF InspectPermissionTimeout, FlashInv, PendingKeepsHistoryOut
    <3> QED
      BY <1>4, <3>1, PermissionFail DEF InspectPermissionTimeout
  <2>2. CASE ~(state = "WaitingPermission" /\ elapsed = PermissionTimeout)
    BY <1>4, <2>2, PermissionKept DEF InspectPermissionTimeout
  <2> QED
    BY <2>1, <2>2
<1>5. CASE PerformCheck
  <2>1. validationPending # TRUE
    BY <1>5 DEF PerformCheck, FlashInv, PendingKeepsHistoryOut, ValidationSteps
  <2>2. CASE Fail
    BY <1>5, <2>1, <2>2, PermissionFail DEF PerformCheck
  <2>3. CASE ~Fail
    BY <1>5, <2>3, PermissionKept DEF PerformCheck
  <2> QED
    BY <2>2, <2>3
<1>6. CASE GiveUpFlash \/ InstallFails
  <2>1. validationPending # TRUE
    BY <1>6 DEF GiveUpFlash, InstallFails, FlashInv, PendingKeepsHistoryOut, ValidationSteps
  <2> QED
    BY <1>6, <2>1, PermissionFail DEF GiveUpFlash, InstallFails
<1>7. CASE NoteRebooting
  <2>1. /\ otaStep = "selected" /\ otaStep' = "reboot" /\ state' = "Rebooting"
        /\ UNCHANGED <<submitted, application, view, lease, cycleStep, prepareCorrelation,
                       installs, permissionCorrelationId, finishRequested,
                       validationPending>>
    BY <1>7 DEF NoteRebooting
  <2>2. IsHeld
    BY <2>1 DEF PermissionInv, InstallingIsSound
  <2>3. PermissionTypes' /\ IdsAreDrawn'
    BY <2>1 DEF PermissionInv, PermissionTypes, IdsAreDrawn, IsDrawn, Snapshot
  <2>4. WaitingIsSound' /\ InstallingIsSound' /\ ValidatingIsSound'
    BY <2>1, <2>2 DEF PermissionInv, WaitingIsSound, InstallingIsSound, ValidatingIsSound,
                      IsHeld
  <2> QED
    BY <2>1, <2>3, <2>4 DEF PermissionInv
<1>8. CASE NoteValidationSucceeded
  <2>1. /\ state' = "Idle" /\ permissionCorrelationId' = 0 /\ finishRequested' = TRUE
        /\ otaStep = "confirm" /\ otaStep' = "check"
        /\ UNCHANGED <<submitted, application, view, lease, cycleStep, prepareCorrelation,
                       installs, validationPending>>
    BY <1>8 DEF NoteValidationSucceeded
  <2>2. validationPending # TRUE
    BY <2>1 DEF FlashInv, PendingKeepsHistoryOut, ValidationSteps
  <2>3. PermissionTypes'
    <3>1. finishRequested' \in BOOLEAN
      BY <2>1
    <3> QED
      BY <2>1, <3>1, FirmwareAssumption DEF PermissionInv, PermissionTypes
  <2>4. IdsAreDrawn'
    BY <2>1 DEF PermissionInv, IdsAreDrawn, IsDrawn, Snapshot
  <2>5. WaitingIsSound' /\ InstallingIsSound' /\ ValidatingIsSound'
    BY <2>1, <2>2 DEF WaitingIsSound, InstallingIsSound, ValidatingIsSound
  <2> QED
    BY <2>1, <2>3, <2>4, <2>5 DEF PermissionInv
<1> QED
  BY <1>1, <1>2, <1>3, <1>4, <1>5, <1>6, <1>7, <1>8
     DEF OtaTask, Inspection, Installation

\* Every step keeps the permission, its signals and the snapshots of it consistent.
LEMMA PermissionNext == PermissionInv /\ FlashInv /\ [Next]_vars => PermissionInv'
<1> SUFFICES ASSUME PermissionInv, FlashInv, [Next]_vars PROVE PermissionInv'
  OBVIOUS
<1>1. CASE ControlTask
  BY <1>1, PermissionConsumePrepare, PermissionConsumeFinish, PermissionTick,
     PermissionPublish DEF ControlTask
<1>2. CASE Transport
  BY <1>2, PermissionTransport
<1>3. CASE OtaTask
  BY <1>3, PermissionOtaTask
<1>4. CASE Reset
  BY <1>4, PermissionBoot DEF Reset, NextImage
<1>5. CASE (\E h \in HistoryUsers : HistoryTask(h)) \/ UNCHANGED vars
  <2>1. UNCHANGED <<cycleStep, applicationVars, coordinatorVars, signalVars, validationVars,
                    taskVars, requestVars>>
    BY <1>5 DEF vars, HistoryTask, LoadDeferral, TryAcquireHistory, ReleaseHistory,
                HistoryMoves
  <2>2. PermissionTypes' /\ IdsAreDrawn'
    BY <2>1 DEF applicationVars, coordinatorVars, signalVars, taskVars, requestVars,
                PermissionInv, PermissionTypes, IdsAreDrawn, IsDrawn, Snapshot
  <2>3. WaitingIsSound'
    BY <2>1 DEF applicationVars, coordinatorVars, signalVars, taskVars, PermissionInv,
                WaitingIsSound, Snapshot, Concerns, Grants, IsHeld
  <2>4. InstallingIsSound' /\ ValidatingIsSound'
    BY <2>1 DEF applicationVars, coordinatorVars, signalVars, taskVars, validationVars,
                PermissionInv, InstallingIsSound, ValidatingIsSound, IsHeld
  <2> QED
    BY <2>1, <2>2, <2>3, <2>4 DEF PermissionInv, applicationVars
<1> QED
  BY <1>1, <1>2, <1>3, <1>4, <1>5 DEF Next

\* No session runs while an image is installed, rebooted into or validated, whatever the
\* number of updates, the timeouts, dropped snapshots and resets: a Finish never
\* overtakes the Prepare it follows, and an old one never ends a new permission.
THEOREM UpdateExcludesSession == Spec => []NoSessionDuringUpdate
<1>1. PermissionInv => NoSessionDuringUpdate
  BY DEF PermissionInv, InstallingIsSound, ValidatingIsSound, IsHeld, NoSessionDuringUpdate
<1> QED
  BY <1>1, FlashInit, FlashNext, PermissionInit, PermissionNext, PTL DEF Spec

----------------------------------------------------------------------------
(* Faults.                                                                 *)

\* Between its two loads OtaTask can miss only the fault of the cycle in flight, and that
\* cycle takes the evidence back.
FaultInv ==
    /\ validationFault \in BOOLEAN
    /\ otaStep = "count" /\ validationFault =>
         \/ cycleStep = "cycles" /\ application.status = "Fault"
         \/ cycleStep = "prepare" /\ validationCycles = 0

\* A boot starts before the count.
LEMMA FaultBoot == ASSUME NEW image, Boot(image) PROVE FaultInv'
  BY DEF Boot, FaultInv

\* No cycle starts between the two loads, so the fault stays the one in flight.
LEMMA FaultControlTask == ASSUME FaultInv, ControlTask PROVE FaultInv'
<1> USE DEF taskVars, validationVars, applicationVars, FaultInv
<1>1. CASE ConsumePrepare
  BY <1>1 DEF ConsumePrepare
<1>2. CASE ConsumeFinish
  BY <1>2 DEF ConsumeFinish
<1>3. CASE Tick
  BY <1>3 DEF Tick
<1>4. CASE PublishFault
  BY <1>4 DEF PublishFault
<1>5. CASE PublishCycle
  BY <1>5 DEF PublishCycle, CyclesAfter
<1> QED
  BY <1>1, <1>2, <1>3, <1>4, <1>5 DEF ControlTask

\* OtaTask turns to the count only when it found no fault.
LEMMA FaultOtaTask == ASSUME FaultInv, OtaTask PROVE FaultInv'
<1> USE DEF applicationVars, validationVars, taskVars
<1>1. CASE RollBack \/ MarkValidFails \/ Restart
  BY <1>1, FaultBoot DEF RollBack, MarkValidFails, Restart
<1>2. CASE InspectFault
  BY <1>2 DEF InspectFault, MustRollBack, FaultInv
<1>3. CASE ~InspectFault /\ ~RollBack /\ ~MarkValidFails /\ ~Restart
  <2>1. otaStep' # "count" /\ UNCHANGED validationFault
    BY <1>3 DEF OtaTask, Inspection, Installation, AcquireSnapshot, ObserveApplication,
                InspectPermissionTimeout, KeepValidating, MarkValid, ResumeHistory,
                NoteValidationSucceeded, TakeCheck, PerformCheck, TakeInstall, DeferHistory,
                TryAcquireOta, InstallFails, SelectBoot, NoteRebooting, ReleaseOta,
                EndDeferral, GiveUpFlash
  <2> QED
    BY <2>1 DEF FaultInv
<1> QED
  BY <1>1, <1>2, <1>3

\* A fault that OtaTask has not seen is one of the cycle in flight.
LEMMA FaultNext == FaultInv /\ [Next]_vars => FaultInv'
<1> SUFFICES ASSUME FaultInv, [Next]_vars PROVE FaultInv'
  OBVIOUS
<1>1. CASE ControlTask
  BY <1>1, FaultControlTask
<1>2. CASE OtaTask
  BY <1>2, FaultOtaTask
<1>3. CASE Reset
  BY <1>3, FaultBoot DEF Reset
<1>4. CASE Transport \/ (\E h \in HistoryUsers : HistoryTask(h)) \/ UNCHANGED vars
  <2>1. UNCHANGED <<cycleStep, application, validationFault, validationCycles, otaStep>>
    BY <1>4 DEF vars, applicationVars, validationVars, taskVars, Transport, RequestCheck,
                AdmitInstall, RequestInstall, HistoryTask, LoadDeferral, TryAcquireHistory,
                ReleaseHistory, HistoryMoves
  <2> QED
    BY <2>1 DEF FaultInv
<1> QED
  BY <1>1, <1>2, <1>3, <1>4 DEF Next

\* FaultForbidsConfirmation holds for any number of required cycles and any timeout,
\* however soon the fault was cleared: nothing that OtaTask could have seen is missed.
THEOREM FaultRollsBack == Spec => FaultForbidsConfirmation
<1>1. Init => FaultInv
  BY DEF Init, FaultInv
<1>2. FaultInv /\ [Next]_vars => [MarkValid => ~validationFault \/ cycleStep = "cycles"]_vars
  BY FirmwareAssumption DEF FaultInv, MarkValid
<1> QED
  BY <1>1, <1>2, FaultNext, PTL DEF Spec, FaultForbidsConfirmation

----------------------------------------------------------------------------
(* The end of the interlock.                                               *)

\* The application holds the interlock, or is going to be asked for it.
InterlockIsTaken ==
    application.firmware \/ submitted.prepare # 0 \/ prepareCorrelation # 0

\* The update has not come to its end: an image is validated or was, the verdict is waited
\* for with a deadline, an image is installed, or the restart is next.
UpdateGoesOn ==
    \/ validationPending \/ otaStep \in {"resume", "confirm", "reboot"}
    \/ state \in {"WaitingPermission", "Installing"}

\* A Finish is signalled or submitted, and no Prepare comes after it.
FinishFollows ==
    \/ finishRequested /\ (prepareCorrelation # 0 => cycleStep # "finish")
    \/ submitted.finish /\ prepareCorrelation = 0

InterlockIsOwed == InterlockIsTaken => UpdateGoesOn \/ FinishFollows

\* Only an update that has asked for permission has an id for a failure to signal.
IdIsOfTheUpdate ==
    permissionCorrelationId # 0 <=> state \in {"WaitingPermission", "Installing", "Rebooting"}

\* ControlTask has taken the Prepare before OtaTask ends what it was for.
PrepareIsTaken ==
    /\ state = "WaitingPermission" =>
          /\ prepareCorrelation \in {0, permissionCorrelationId}
          /\ elapsed # 0 => prepareCorrelation = 0
    /\ state \in {"Installing", "Rebooting"} \/ otaStep \in {"resume", "confirm"} =>
          prepareCorrelation = 0
    /\ validationPending /\ prepareCorrelation # 0 =>
          cycleStep = "prepare" /\ validationCycles = 0

\* A check or a validation ends in the state that it began in.
StateIsKept ==
    /\ validationPending \in BOOLEAN /\ checkRequested \in BOOLEAN
    /\ state = "Rebooting" => otaStep = "reboot"
    /\ checkRequested \/ otaStep = "checking" => state = "Checking"
    /\ ~(checkRequested /\ otaStep = "checking")
    /\ validationPending \/ otaStep \in {"resume", "confirm"} => state = "Validating"
    /\ otaStep = "count" => validationPending

OwedInv == InterlockIsOwed /\ IdIsOfTheUpdate /\ PrepareIsTaken /\ StateIsKept

OwedContext == FlashInv /\ PermissionInv /\ OwedInv

\* After a boot only a pending image has asked for the interlock.
LEMMA OwedBoot == ASSUME NEW image \in {"confirmed", "pending"}, Boot(image) PROVE OwedInv'
  <1>1. /\ validationPending' \in BOOLEAN /\ checkRequested' = FALSE
        /\ validationPending' <=> image = "pending"
        /\ validationCycles' = 0 /\ cycleStep' = "prepare" /\ otaStep' = "lease"
        /\ permissionCorrelationId' = 0
        /\ state' = IF image = "pending" THEN "Validating" ELSE "Idle"
        /\ prepareCorrelation' = IF image = "pending" THEN InternalId ELSE 0
        /\ submitted'.prepare = 0 /\ application'.firmware = FALSE
    BY DEF Boot, Nothing
  <1> QED
    BY <1>1 DEF OwedInv, InterlockIsOwed, InterlockIsTaken, UpdateGoesOn, IdIsOfTheUpdate,
       PrepareIsTaken, StateIsKept

\* ControlTask takes the Prepare before the Finish, and the application ends with the Finish.
LEMMA OwedControlTask == ASSUME OwedContext, ControlTask PROVE OwedInv'
  <1> USE DEF OwedInv, IdIsOfTheUpdate, PrepareIsTaken, StateIsKept
  <1>t. /\ PermissionTypes /\ OwedInv /\ submitted.finish \in BOOLEAN
        /\ finishRequested \in BOOLEAN
    BY DEF OwedContext, PermissionInv, PermissionTypes
  <1>1. CASE ConsumePrepare
    <2>1. /\ cycleStep = "prepare" /\ cycleStep' = "finish"
          /\ submitted' = [prepare |-> prepareCorrelation, finish |-> FALSE]
          /\ prepareCorrelation' = 0
          /\ UNCHANGED <<application, state, permissionCorrelationId, finishRequested,
                         validationPending, validationCycles, otaStep, checkRequested>>
      BY <1>1 DEF ConsumePrepare, coordinatorVars, validationVars, taskVars, requestVars
    <2>2. ~submitted.finish /\ (submitted.prepare = 0)
      BY <1>t, <2>1 DEF PermissionTypes
    <2> QED
      BY <1>t, <2>1, <2>2 DEF InterlockIsOwed, InterlockIsTaken, UpdateGoesOn, FinishFollows
  <1>2. CASE ConsumeFinish
    <2>1. /\ cycleStep = "finish" /\ cycleStep' = "tick"
          /\ submitted' = [prepare |-> submitted.prepare, finish |-> finishRequested]
          /\ UNCHANGED <<application, state, permissionCorrelationId, prepareCorrelation, elapsed,
                         validationPending, validationCycles, otaStep, checkRequested>>
      BY <1>2 DEF ConsumeFinish, coordinatorVars, validationVars, taskVars, requestVars
    <2>2. ~submitted.finish
      BY <1>t, <2>1 DEF PermissionTypes
    <2> QED
      BY <1>t, <2>1, <2>2 DEF InterlockIsOwed, InterlockIsTaken, UpdateGoesOn, FinishFollows
  <1>3. CASE Tick
    <2>1. /\ cycleStep = "tick" /\ cycleStep' \in {"fault", "prepare"}
          /\ submitted' = Nothing /\ application'.firmware = InterlockAfter
          /\ UNCHANGED <<state, permissionCorrelationId, prepareCorrelation, finishRequested,
                         elapsed, validationPending, validationCycles, otaStep,
                         checkRequested>>
      BY <1>3 DEF Tick, coordinatorVars, signalVars, validationVars, taskVars, requestVars
    <2>2. PrepareIsTaken'
      BY <1>t, <2>1
    <2>3. InterlockIsOwed'
      BY <1>t, <2>1 DEF InterlockIsOwed, InterlockIsTaken, UpdateGoesOn, FinishFollows, Nothing,
         InterlockAfter, PrepareIsAccepted
    <2> QED
      BY <1>t, <2>1, <2>2, <2>3
  <1>4. CASE PublishFault \/ PublishCycle
    <2>1. /\ cycleStep \in {"fault", "cycles"} /\ cycleStep' \in {"cycles", "prepare"}
          /\ UNCHANGED <<submitted, application, state, permissionCorrelationId,
                         prepareCorrelation, finishRequested, elapsed, validationPending,
                         otaStep, checkRequested>>
      BY <1>4 DEF PublishFault, PublishCycle, applicationVars, coordinatorVars, signalVars,
         taskVars, requestVars
    <2>2. PrepareIsTaken'
      BY <1>t, <2>1
    <2> QED
      BY <1>t, <2>1, <2>2 DEF InterlockIsOwed, InterlockIsTaken, UpdateGoesOn, FinishFollows
  <1> QED
    BY <1>1, <1>2, <1>3, <1>4 DEF ControlTask

\* A new Prepare is one that is waited for, with a new deadline.
LEMMA OwedTransport == ASSUME OwedContext, Transport PROVE OwedInv'
  <1> USE DEF OwedInv, IdIsOfTheUpdate, PrepareIsTaken, StateIsKept
  <1>t. OwedInv /\ installs \in Nat
    BY FirmwareAssumption DEF OwedContext, PermissionInv, PermissionTypes
  <1>u. UNCHANGED <<submitted, application, cycleStep, finishRequested, otaStep,
                    validationPending, validationCycles>>
    BY DEF Transport, RequestCheck, AdmitInstall, RequestInstall, applicationVars, signalVars,
       taskVars, validationVars
  <1>1. CASE RequestCheck
    <2>1. /\ state \in {"Idle", "UpToDate", "Available", "Failed"} /\ state' = "Checking"
          /\ checkRequested' = TRUE
          /\ UNCHANGED <<permissionCorrelationId, prepareCorrelation, elapsed>>
      BY <1>1 DEF RequestCheck, signalVars
    <2> QED
      BY <1>t, <1>u, <2>1 DEF InterlockIsOwed, InterlockIsTaken, UpdateGoesOn, FinishFollows
  <1>2. CASE RequestInstall /\ state' = "WaitingPermission" /\ state = "Available"
    <2>1. /\ permissionCorrelationId' = installs + 1 /\ prepareCorrelation' = installs + 1
          /\ elapsed' = 0 /\ checkRequested' = checkRequested
      BY <1>2 DEF RequestInstall, coordinatorVars
    <2> QED
      BY <1>2, <1>t, <1>u, <2>1 DEF InterlockIsOwed, UpdateGoesOn
  <1>3. CASE UNCHANGED <<coordinatorVars, prepareCorrelation, elapsed, checkRequested>>
    BY <1>3, <1>t, <1>u DEF InterlockIsOwed, InterlockIsTaken, UpdateGoesOn, FinishFollows,
       coordinatorVars
  <1> QED
    BY <1>1, <1>2, <1>3 DEF Transport, AdmitInstall, RequestInstall, coordinatorVars, signalVars

\* A failed update signals Finish, behind its Prepare.
LEMMA OwedFail ==
    ASSUME OwedContext, Fail, ~validationPending, otaStep \notin {"resume", "confirm", "reboot"},
           otaStep' \in {"timeout", "validate", "install", "release", "undefer"}, ~checkRequested,
           state \in {"WaitingPermission", "Installing"} => prepareCorrelation = 0,
           UNCHANGED <<submitted, application, cycleStep, prepareCorrelation, elapsed,
                       validationPending, validationCycles, checkRequested>>
    PROVE  OwedInv'
  <1>1. /\ state' = "Failed" /\ permissionCorrelationId' = 0
        /\ finishRequested' = (finishRequested \/ permissionCorrelationId # 0)
    BY DEF Fail, SignalsFinish
  <1>2. finishRequested' \in BOOLEAN /\ finishRequested \in BOOLEAN
    BY <1>1 DEF OwedContext, PermissionInv, PermissionTypes
  <1>3. InterlockIsOwed'
    BY <1>1, <1>2 DEF OwedContext, OwedInv, InterlockIsOwed, InterlockIsTaken, UpdateGoesOn,
       FinishFollows, IdIsOfTheUpdate
  <1> QED
    BY <1>1, <1>3 DEF OwedContext, OwedInv, IdIsOfTheUpdate, PrepareIsTaken, StateIsKept

\* A step of OtaTask that moves on within an update, or outside of one.
LEMMA OwedKept ==
    ASSUME OwedContext,
           UNCHANGED <<submitted, application, cycleStep, finishRequested, prepareCorrelation,
                       elapsed, state, permissionCorrelationId, validationPending,
                       validationCycles>>,
           checkRequested' = checkRequested \/ checkRequested' = FALSE,
           otaStep' = "checking" => checkRequested /\ ~checkRequested',
           otaStep # "reboot", otaStep \in {"resume", "confirm"} => otaStep' = "confirm",
           otaStep' \in {"resume", "confirm"} => otaStep \in {"resume", "confirm"},
           otaStep' = "count" => validationPending
    PROVE  OwedInv'
  <1>1. IdIsOfTheUpdate' /\ PrepareIsTaken'
    BY DEF OwedContext, OwedInv, IdIsOfTheUpdate, PrepareIsTaken
  <1>2. StateIsKept'
    <2>1. validationPending' \in BOOLEAN /\ checkRequested' \in BOOLEAN
      BY DEF OwedContext, OwedInv, StateIsKept
    <2> QED
      BY <2>1 DEF OwedContext, OwedInv, StateIsKept
  <1>3. InterlockIsOwed'
    BY DEF OwedContext, OwedInv, InterlockIsOwed, InterlockIsTaken, UpdateGoesOn,
       FinishFollows
  <1> QED
    BY <1>1, <1>2, <1>3 DEF OwedInv

\* Every failure of OtaTask gives the interlock back, wherever the update is.
LEMMA OwedOtaTask == ASSUME OwedContext, OtaTask PROVE OwedInv'
  <1> USE DEF applicationVars, signalVars, validationVars, requestVars, coordinatorVars, taskVars
  <1>t. /\ OwedInv /\ PrepareIsTaken /\ StateIsKept /\ InstallingIsSound
        /\ validationPending \in BOOLEAN
    BY DEF OwedContext, OwedInv, PermissionInv, StateIsKept
  <1>1. CASE RollBack \/ MarkValidFails \/ Restart
    <2>1. PICK image \in {"confirmed", "pending"} : Boot(image)
      BY <1>1 DEF RollBack, MarkValidFails, Restart, NextImage
    <2> QED
      BY <2>1, OwedBoot
  <1>2. CASE \/ AcquireSnapshot \/ InspectFault \/ KeepValidating \/ ResumeHistory
             \/ TakeCheck \/ TakeInstall \/ DeferHistory \/ TryAcquireOta \/ ReleaseOta
             \/ EndDeferral \/ SelectBoot
             \/ ObserveApplication /\ ~IsAnswered
             \/ InspectPermissionTimeout
                  /\ ~(state = "WaitingPermission" /\ elapsed = PermissionTimeout)
    <2>1. /\ UNCHANGED <<submitted, application, cycleStep, finishRequested, prepareCorrelation,
                         elapsed, state, permissionCorrelationId, validationPending,
                         validationCycles>>
          /\ checkRequested' = checkRequested \/ checkRequested' = FALSE
          /\ otaStep' = "checking" => checkRequested /\ ~checkRequested'
          /\ otaStep # "reboot"
          /\ otaStep \in {"resume", "confirm"} => otaStep' = "confirm"
          /\ otaStep' \in {"resume", "confirm"} => otaStep \in {"resume", "confirm"}
          /\ otaStep' = "count" => validationPending
      BY <1>2, <1>t DEF AcquireSnapshot, InspectFault, KeepValidating, ResumeHistory, TakeCheck,
         TakeInstall, DeferHistory, TryAcquireOta, ReleaseOta, EndDeferral, SelectBoot,
         ObserveApplication, InspectPermissionTimeout
    <2> QED
      BY <2>1, OwedKept
  <1>3. CASE ObserveApplication /\ IsAnswered
    <2>1. /\ otaStep = "observe" /\ otaStep' = "timeout" /\ state = "WaitingPermission"
          /\ UNCHANGED <<submitted, application, cycleStep, prepareCorrelation, elapsed,
                         validationPending, validationCycles, checkRequested>>
      BY <1>3 DEF ObserveApplication, IsAnswered
    <2>2. lease \in Snapshot /\ Concerns(lease)
      BY <1>3, <2>1 DEF IsAnswered, Concerns, Snapshot, OwedContext, PermissionInv,
         PermissionTypes
    <2>3. prepareCorrelation = 0
      BY <2>1, <2>2, <1>t DEF OwedContext, PermissionInv, WaitingIsSound, PrepareIsTaken
    <2>4. ~validationPending /\ ~checkRequested
      BY <2>1, <1>t DEF StateIsKept
    <2>5. CASE Fail
      BY <2>1, <2>3, <2>4, <2>5, OwedFail
    <2>6. CASE /\ state' = "Installing"
               /\ UNCHANGED <<permissionCorrelationId, finishRequested>>
      BY <2>1, <2>3, <2>4, <2>6, <1>t DEF OwedInv, InterlockIsOwed, UpdateGoesOn,
         IdIsOfTheUpdate, PrepareIsTaken, StateIsKept
    <2> QED
      BY <1>3, <2>5, <2>6 DEF ObserveApplication
  <1>4. CASE InspectPermissionTimeout /\ state = "WaitingPermission" /\ elapsed = PermissionTimeout
    <2>1. /\ otaStep = "timeout" /\ otaStep' = "validate" /\ Fail
          /\ UNCHANGED <<submitted, application, cycleStep, prepareCorrelation, elapsed,
                         validationPending, validationCycles, checkRequested>>
      BY <1>4 DEF InspectPermissionTimeout
    <2>2. prepareCorrelation = 0
      BY <1>4, <1>t, FirmwareAssumption DEF PrepareIsTaken
    <2>3. ~validationPending /\ ~checkRequested
      BY <1>4, <1>t DEF StateIsKept
    <2> QED
      BY <2>1, <2>2, <2>3, OwedFail
  <1>5. CASE MarkValid
    <2>1. /\ otaStep = "count" /\ otaStep' = "resume" /\ validationPending' = FALSE
          /\ validationCycles = RequiredValidationCycles
          /\ UNCHANGED <<submitted, application, cycleStep, finishRequested, prepareCorrelation,
                         elapsed, state, permissionCorrelationId, validationCycles,
                         checkRequested>>
      BY <1>5 DEF MarkValid
    <2>2. validationPending /\ state = "Validating"
      BY <2>1, <1>t DEF OwedInv, StateIsKept
    <2>3. prepareCorrelation = 0
      BY <2>1, <2>2, <1>t, FirmwareAssumption DEF PrepareIsTaken
    <2> QED
      BY <2>1, <2>2, <2>3, <1>t DEF OwedInv, InterlockIsOwed, UpdateGoesOn, IdIsOfTheUpdate,
         PrepareIsTaken, StateIsKept
  <1>6. CASE NoteValidationSucceeded
    <2>1. /\ otaStep = "confirm" /\ otaStep' = "check" /\ state' = "Idle"
          /\ permissionCorrelationId' = 0 /\ finishRequested' = TRUE
          /\ UNCHANGED <<submitted, application, cycleStep, prepareCorrelation, elapsed,
                         validationPending, validationCycles, checkRequested>>
      BY <1>6 DEF NoteValidationSucceeded
    <2>2. prepareCorrelation = 0 /\ ~checkRequested /\ ~validationPending
      BY <2>1, <1>t DEF OwedContext, FlashInv, PendingKeepsHistoryOut, ValidationSteps,
         PrepareIsTaken, StateIsKept
    <2> QED
      BY <2>1, <2>2, <1>t DEF OwedInv, InterlockIsOwed, FinishFollows, IdIsOfTheUpdate,
         PrepareIsTaken, StateIsKept
  <1>7. CASE PerformCheck
    <2>1. /\ otaStep = "checking" /\ otaStep' = "install" /\ state = "Checking"
          /\ UNCHANGED <<submitted, application, cycleStep, prepareCorrelation, elapsed,
                         validationPending, validationCycles, checkRequested>>
      BY <1>7, <1>t DEF PerformCheck, StateIsKept
    <2>2. ~checkRequested /\ ~validationPending
      BY <2>1, <1>t DEF StateIsKept
    <2>3. CASE Fail
      BY <2>1, <2>2, <2>3, OwedFail
    <2>4. CASE /\ state' \in {"Available", "UpToDate"}
               /\ UNCHANGED <<permissionCorrelationId, finishRequested>>
      <3>1. InterlockIsOwed'
        BY <2>1, <2>2, <2>4, <1>t DEF OwedInv, InterlockIsOwed, InterlockIsTaken, UpdateGoesOn,
           FinishFollows
      <3> QED
        BY <2>1, <2>2, <2>4, <3>1, <1>t DEF OwedInv, IdIsOfTheUpdate, PrepareIsTaken, StateIsKept
    <2> QED
      BY <1>7, <2>3, <2>4 DEF PerformCheck
  <1>8. CASE GiveUpFlash \/ InstallFails
    <2>1. /\ otaStep \in {"acquire", "write"} /\ otaStep' \in {"undefer", "release"} /\ Fail
          /\ UNCHANGED <<submitted, application, cycleStep, prepareCorrelation, elapsed,
                         validationPending, validationCycles, checkRequested>>
      BY <1>8 DEF GiveUpFlash, InstallFails
    <2>2. state = "Installing"
      BY <2>1, <1>t DEF InstallingIsSound
    <2>3. prepareCorrelation = 0 /\ ~validationPending /\ ~checkRequested
      BY <2>2, <1>t DEF PrepareIsTaken, StateIsKept
    <2> QED
      BY <2>1, <2>3, OwedFail
  <1>9. CASE NoteRebooting
    <2>1. /\ otaStep = "selected" /\ otaStep' = "reboot" /\ state' = "Rebooting"
          /\ UNCHANGED <<submitted, application, cycleStep, finishRequested, prepareCorrelation,
                         elapsed, permissionCorrelationId, validationPending,
                         validationCycles, checkRequested>>
      BY <1>9 DEF NoteRebooting
    <2>2. state = "Installing"
      BY <2>1, <1>t DEF InstallingIsSound
    <2>3. ~validationPending /\ ~checkRequested
      BY <2>2, <1>t DEF StateIsKept
    <2> QED
      BY <2>1, <2>2, <2>3, <1>t DEF OwedInv, InterlockIsOwed, UpdateGoesOn, IdIsOfTheUpdate,
         PrepareIsTaken, StateIsKept
  <1> QED
    BY <1>1, <1>2, <1>3, <1>4, <1>5, <1>6, <1>7, <1>8, <1>9 DEF OtaTask, Inspection, Installation

\* Every step leaves the interlock owed its end.
LEMMA OwedNext == OwedContext /\ [Next]_vars => OwedInv'
  <1> SUFFICES ASSUME OwedContext, [Next]_vars PROVE OwedInv'
    OBVIOUS
  <1>1. CASE (\E h \in HistoryUsers : HistoryTask(h)) \/ UNCHANGED vars
    <2>1. UNCHANGED <<submitted, application, cycleStep, finishRequested, prepareCorrelation,
                      elapsed, state, permissionCorrelationId, validationPending,
                      validationCycles, checkRequested, otaStep>>
      BY <1>1 DEF vars, HistoryTask, LoadDeferral, TryAcquireHistory, ReleaseHistory,
         HistoryMoves, applicationVars, signalVars, validationVars, requestVars,
         coordinatorVars, taskVars
    <2> QED
      BY <2>1 DEF OwedContext, OwedInv, InterlockIsOwed, InterlockIsTaken, UpdateGoesOn,
         FinishFollows, IdIsOfTheUpdate, PrepareIsTaken, StateIsKept
  <1>2. CASE Reset
    BY <1>2, OwedBoot DEF Reset, NextImage
  <1> QED
    BY <1>1, <1>2, OwedControlTask, OwedTransport, OwedOtaTask DEF Next

\* "A missing correlated response cannot leave Start interlocked indefinitely"
\* (ARCHITECTURE.md): whenever the application holds the interlock, or has yet to be asked
\* for it, the update is still under way, or a Finish is and no Prepare comes after it; so no
\* verdict that is lost, late or refused, no timeout and no failure leaves an interlock that
\* nobody ends. What is left of UpdatesEnd is that the tasks go on.
THEOREM InterlocksAreOwed == Spec => []InterlockIsOwed
  <1>1. ASSUME Init PROVE OwedInv
    <2>1. /\ validationPending \in BOOLEAN /\ checkRequested = FALSE
          /\ validationPending <=> runningImage = "pending"
          /\ validationCycles = 0 /\ cycleStep = "prepare" /\ otaStep = "lease"
          /\ permissionCorrelationId = 0
          /\ state = IF runningImage = "pending" THEN "Validating" ELSE "Idle"
          /\ prepareCorrelation = IF runningImage = "pending" THEN InternalId ELSE 0
          /\ submitted.prepare = 0 /\ application.firmware = FALSE
      BY <1>1 DEF Init, Nothing
    <2> QED
      BY <2>1 DEF OwedInv, InterlockIsOwed, InterlockIsTaken, UpdateGoesOn, IdIsOfTheUpdate,
         PrepareIsTaken, StateIsKept
  <1>2. Init => OwedContext
    BY <1>1, FlashInit, PermissionInit DEF OwedContext
  <1>3. OwedContext /\ [Next]_vars => OwedContext'
    BY OwedNext, FlashNext, PermissionNext DEF OwedContext
  <1>4. OwedContext => InterlockIsOwed
    BY DEF OwedContext, OwedInv
  <1> QED
    BY <1>2, <1>3, <1>4, PTL DEF Spec

=============================================================================
