------------------------- MODULE FirmwareInstallation -------------------------
(***************************************************************************)
(* A check and an installation as OtaTask carries them out                 *)
(* (firmware_update_service.cpp: perform_check, perform_install and their  *)
(* HttpsFirmwareStream, OtaWriteSession and OtaFlashLease), which          *)
(* FirmwareUpdate takes for one step each.  Here the release server may    *)
(* publish, redirect, stall, break off or lie about nothing but its length *)
(* header, which it may leave out; the flash may fail; history tasks       *)
(* contend for the flash; the device may reset.                            *)
(*                                                                         *)
(* An image is a number of parts, the first of which holds its descriptor; *)
(* one read brings one part.  The permission of the application is         *)
(* FirmwareUpdate's: here it may come whenever an image is available.  So  *)
(* is the validation of the image that boots.                              *)
(***************************************************************************)
EXTENDS Integers, FiniteSets

CONSTANTS
    Images,                     \* [version, ours, parts]: what may be released
    FirstVersion,               \* of the image that runs at first
    PartitionParts,             \* size of a slot
    MaxRedirects,               \* maximum_redirects, 5 in the code
    MaxReleases,                \* bound: releases published
    HistoryUsers,               \* tasks that read or write the history partition
    None

ASSUME InstallationAssumption ==
    /\ Images \subseteq [version : Nat, ours : BOOLEAN, parts : Nat \ {0}]
    /\ {FirstVersion, PartitionParts, MaxRedirects, MaxReleases} \subseteq Nat
    /\ IsFiniteSet(HistoryUsers)
    /\ None \notin Nat

VARIABLES
    latest, releases,           \* the release server: its image, those it had
    running,                    \* version of the running image
    state,                      \* status_.state
    available,                  \* available_version, None if there is none
    task,                       \* next statement of OtaTask
    installing,                 \* perform_install, not perform_check
    expired,                    \* the deadline of the operation has passed
    stream,                     \* HttpsFirmwareStream, None before a response
    redirects,                  \* redirects followed
    hop,                        \* how the next connection of the stream is made
    slot,                       \* the other slot
    writing,                    \* OtaWriteSession::active_
    bootSelected,               \* the other slot boots next
    owner, historyDeferred,     \* FlashOperationCoordinator
    historyStep                 \* what each history task is doing

serverVars == <<latest, releases>>
deviceVars == <<running, bootSelected>>
statusVars == <<state, available>>
streamVars == <<stream, redirects, hop>>
slotVars == <<slot, writing>>
flashVars == <<owner, historyDeferred, historyStep>>
vars == <<serverVars, deviceVars, statusVars, task, installing, expired, streamVars,
          slotVars, flashVars>>

Erased == [image |-> None, parts |-> 0, secure |-> TRUE]

----------------------------------------------------------------------------
(* The transports, and the release server.                                 *)

RequestCheck ==
    /\ task = "idle"
    /\ state \in {"Idle", "UpToDate", "Available", "Failed"}
    /\ state' = "Checking" /\ available' = None
    /\ task' = "clock" /\ installing' = FALSE /\ expired' = FALSE
    /\ UNCHANGED <<serverVars, deviceVars, streamVars, slotVars, flashVars>>

\* request_install, and the permission that follows it.
PermitInstall ==
    /\ task = "idle"
    /\ state = "Available"
    /\ state' = "Installing"
    /\ task' = "defer" /\ installing' = TRUE /\ expired' = FALSE
    /\ UNCHANGED <<serverVars, deviceVars, available, streamVars, slotVars, flashVars>>

Publish ==
    /\ releases < MaxReleases
    /\ releases' = releases + 1
    /\ latest' \in Images
    /\ UNCHANGED <<deviceVars, statusVars, task, installing, expired, streamVars, slotVars,
                   flashVars>>

Expire ==
    /\ task # "idle" /\ ~expired
    /\ expired' = TRUE
    /\ UNCHANGED <<serverVars, deviceVars, statusVars, task, installing, streamVars,
                   slotVars, flashVars>>

----------------------------------------------------------------------------
(* OtaTask: how an operation ends.                                         *)

\* The destructors close the stream and abort the write session.
Ends ==
    /\ stream' = None /\ redirects' = 0 /\ hop' = "https"
    /\ writing' = FALSE
    /\ task' = IF installing THEN "release" ELSE "idle"

\* fail()
Fails ==
    /\ state' = "Failed"
    /\ Ends
    /\ UNCHANGED <<serverVars, deviceVars, available, installing, expired, slot, flashVars>>

Release ==
    /\ task = "release"
    /\ owner' = IF owner = "Ota" THEN "None" ELSE owner
    /\ task' = "undefer"
    /\ UNCHANGED <<serverVars, deviceVars, statusVars, installing, expired, streamVars,
                   slotVars, historyDeferred, historyStep>>

\* Mutant of DeferredAfter: the end of the lease leaves the flag set.
DeferralStays == historyDeferred

DeferredAfter == FALSE

\* The end of the lease, acquired or not.
EndDeferral ==
    /\ task = "undefer"
    /\ historyDeferred' = DeferredAfter
    /\ task' = "idle"
    /\ UNCHANGED <<serverVars, deviceVars, statusVars, installing, expired, streamVars,
                   slotVars, owner, historyStep>>

----------------------------------------------------------------------------
(* OtaTask: the flash lease and the clock.                                 *)

DeferHistory ==
    /\ task = "defer"
    /\ historyDeferred' = TRUE
    /\ task' = "acquire"
    /\ UNCHANGED <<serverVars, deviceVars, statusVars, installing, expired, streamVars,
                   slotVars, owner, historyStep>>

TryAcquireOta ==
    /\ task = "acquire"
    /\ owner' = IF owner = "None" THEN "Ota" ELSE owner
    /\ task' = IF owner = "None" THEN "clock" ELSE "defer"
    /\ UNCHANGED <<serverVars, deviceVars, statusVars, installing, expired, streamVars,
                   slotVars, historyDeferred, historyStep>>

\* flash_operation_timeout: the lease only looks at the deadline after it tried.
GiveUpFlash ==
    /\ task = "acquire"
    /\ expired /\ owner # "None"
    /\ state' = "Failed"
    /\ task' = "undefer"
    /\ UNCHANGED <<serverVars, deviceVars, available, installing, expired, streamVars,
                   slotVars, flashVars>>

\* synchronize_wall_time(): known already, or told by a server in time.
SynchronizeClock ==
    /\ task = "clock"
    /\ task' = "open"
    /\ UNCHANGED <<serverVars, deviceVars, statusVars, installing, expired, streamVars,
                   slotVars, flashVars>>

ClockStaysUnknown ==
    /\ task = "clock"
    /\ Fails

----------------------------------------------------------------------------
(* OtaTask: HttpsFirmwareStream.                                           *)

IsSecure(transport) == transport = "https"

\* A Location that is missing, too long, or leads away from TLS is not followed.
FollowRedirect ==
    /\ task = "open" /\ ~expired
    /\ IsSecure(hop)
    /\ redirects < MaxRedirects
    /\ \E transport \in {"https", "http"} :
          IsSecure(transport) /\ hop' = transport
    /\ redirects' = redirects + 1
    /\ UNCHANGED <<serverVars, deviceVars, statusVars, task, installing, expired, stream,
                   slotVars, flashVars>>

\* Status 200; a chunked response has no length.
AcceptResponse ==
    /\ task = "open" /\ ~expired
    /\ IsSecure(hop)
    /\ \E length \in {latest.parts, None} :
          stream' = [image |-> latest, length |-> length, received |-> 0,
                     secure |-> hop = "https"]
    /\ task' = "descriptor"
    /\ UNCHANGED <<serverVars, deviceVars, statusVars, installing, expired, redirects, hop,
                   slotVars, flashVars>>

\* The server refuses, redirects too often or elsewhere, or cannot be reached.
OpenFails ==
    /\ task = "open"
    /\ Fails

IsReading == task \in {"descriptor", "download"}

\* Each wait for the server ends with the deadline: it is looked at before each.
WaitTimesOut ==
    /\ task = "open" \/ IsReading
    /\ expired
    /\ Fails

ReadFails ==
    /\ IsReading /\ ~expired
    /\ Fails

\* The server ends or breaks off before there is a descriptor.
DescriptorIsCutOff ==
    /\ task = "descriptor" /\ ~expired
    /\ Fails

ReceivesPart == ~expired /\ stream.received < stream.image.parts

----------------------------------------------------------------------------
(* OtaTask: the descriptor.                                                *)

IsNewer(image) == image.ours /\ image.version > running

\* complete_check().  The deadline is looked at once more.
CompleteCheck ==
    LET image == stream.image
    IN
    /\ task = "descriptor" /\ ~installing /\ ReceivesPart
    /\ state' = IF ~image.ours THEN "Failed"
                ELSE IF IsNewer(image) THEN "Available" ELSE "UpToDate"
    /\ available' = IF IsNewer(image) THEN image.version ELSE None
    /\ Ends
    /\ UNCHANGED <<serverVars, deviceVars, installing, expired, slot, flashVars>>

\* Mutant of IsOffered: whatever is newer is installed.
IsAnyNewer(image) == IsNewer(image)

\* "installation_descriptor_changed": another image may have been released since.
IsOffered(image) == IsNewer(image) /\ image.version = available

LengthFits == stream.length # None => stream.length <= PartitionParts

\* The descriptor is read, and its part is the first that is written.
BeginWriting ==
    /\ task = "descriptor" /\ installing /\ ReceivesPart
    /\ IsOffered(stream.image)
    /\ LengthFits
    /\ stream' = [stream EXCEPT !.received = 1]
    /\ slot' = [image |-> stream.image, parts |-> 1, secure |-> stream.secure]
    /\ writing' = TRUE
    /\ task' = "download"
    /\ UNCHANGED <<serverVars, deviceVars, statusVars, installing, expired, redirects, hop,
                   flashVars>>

RefuseImage ==
    /\ task = "descriptor" /\ installing /\ ReceivesPart
    /\ ~(IsOffered(stream.image) /\ LengthFits)
    /\ Fails

\* esp_ota_begin erases the slot; it, or the first write, fails.
BeginFails ==
    /\ task = "descriptor" /\ installing /\ ReceivesPart
    /\ IsOffered(stream.image) /\ LengthFits
    /\ state' = "Failed"
    /\ slot' = Erased
    /\ Ends
    /\ UNCHANGED <<serverVars, deviceVars, available, installing, expired, flashVars>>

----------------------------------------------------------------------------
(* OtaTask: the download, and the end of an installation.                  *)

WritePart ==
    /\ task = "download" /\ ReceivesPart
    /\ slot.parts < PartitionParts
    /\ stream' = [stream EXCEPT !.received = @ + 1]
    /\ slot' = [slot EXCEPT !.parts = @ + 1]
    /\ UNCHANGED <<serverVars, deviceVars, statusVars, task, installing, expired, redirects,
                   hop, writing, flashVars>>

\* The flash refuses, or the image is longer than the slot.
WriteFails ==
    /\ task = "download" /\ ReceivesPart
    /\ Fails

\* The server ends, or breaks off: a read returns nothing.
StreamEnds ==
    /\ task = "download" /\ ~expired
    /\ task' = "verify"
    /\ UNCHANGED <<serverVars, deviceVars, statusVars, installing, expired, streamVars,
                   slotVars, flashVars>>

\* esp_http_client_is_complete_data_received, and the length if there is one.
IsComplete ==
    /\ stream.received = stream.image.parts
    /\ stream.length # None => stream.received = stream.length

VerifyDownload ==
    /\ task = "verify"
    /\ IsComplete /\ ~expired
    /\ task' = "finish"
    /\ UNCHANGED <<serverVars, deviceVars, statusVars, installing, expired, streamVars,
                   slotVars, flashVars>>

RefuseDownload ==
    /\ task = "verify"
    /\ ~IsComplete \/ expired
    /\ Fails

\* esp_ota_end may find the image sound or not; nothing is assumed of what it finds.
FinishWriting ==
    /\ task = "finish"
    /\ writing' = FALSE
    /\ task' = "select"
    /\ UNCHANGED <<serverVars, deviceVars, statusVars, installing, expired, streamVars,
                   slot, flashVars>>

FinishFails ==
    /\ task = "finish"
    /\ Fails

\* esp_ota_set_boot_partition, then note_rebooting().
SelectBoot ==
    /\ task = "select" /\ ~expired
    /\ bootSelected' = TRUE
    /\ state' = "Rebooting"
    /\ task' = "restart"
    /\ UNCHANGED <<serverVars, running, available, installing, expired, streamVars, slotVars,
                   flashVars>>

\* The deadline has passed, or the selection fails.
SelectFails ==
    /\ task = "select"
    /\ Fails

----------------------------------------------------------------------------
(* Restarting, asked for or not.                                           *)

Boot ==
    /\ running' \in IF bootSelected THEN {slot.image.version, running} ELSE {running}
    /\ bootSelected' = FALSE
    /\ slot' = Erased
    /\ writing' = FALSE
    /\ state' = "Idle" /\ available' = None
    /\ task' = "idle" /\ installing' = FALSE /\ expired' = FALSE
    /\ stream' = None /\ redirects' = 0 /\ hop' = "https"
    /\ owner' = "None" /\ historyDeferred' = FALSE
    /\ historyStep' = [h \in HistoryUsers |-> "idle"]
    /\ UNCHANGED serverVars

Restart == task = "restart" /\ Boot

\* A power cut or a panic.
Reset == task # "idle" /\ Boot

----------------------------------------------------------------------------
(* The tasks that use the history partition.                               *)

HistoryMoves(h, from, to) ==
    /\ historyStep[h] = from
    /\ historyStep' = [historyStep EXCEPT ![h] = to]
    /\ UNCHANGED <<serverVars, deviceVars, statusVars, task, installing, expired, streamVars,
                   slotVars, historyDeferred>>

\* Mutant of HistoryMayTry: the deferral is not looked at.
HistoryAlwaysTries == TRUE

HistoryMayTry == ~historyDeferred

LoadDeferral(h) ==
    /\ HistoryMayTry
    /\ HistoryMoves(h, "idle", "try")
    /\ UNCHANGED owner

TryAcquireHistory(h) ==
    \/ /\ owner = "None"
       /\ HistoryMoves(h, "try", "use")
       /\ owner' = "History"
    \/ /\ owner # "None"
       /\ HistoryMoves(h, "try", "idle")
       /\ UNCHANGED owner

ReleaseHistory(h) ==
    /\ HistoryMoves(h, "use", "idle")
    /\ owner' = IF owner = "History" THEN "None" ELSE owner

HistoryTask(h) == LoadDeferral(h) \/ TryAcquireHistory(h) \/ ReleaseHistory(h)

----------------------------------------------------------------------------
(* The specification.                                                      *)

Init ==
    /\ latest \in Images /\ releases = 0
    /\ running = FirstVersion /\ bootSelected = FALSE
    /\ state = "Idle" /\ available = None
    /\ task = "idle" /\ installing = FALSE /\ expired = FALSE
    /\ stream = None /\ redirects = 0 /\ hop = "https"
    /\ slot = Erased /\ writing = FALSE
    /\ owner = "None" /\ historyDeferred = FALSE
    /\ historyStep = [h \in HistoryUsers |-> "idle"]

\* What OtaTask does without an answer from anyone.
OtaAlone ==
    \/ Release \/ EndDeferral \/ DeferHistory \/ TryAcquireOta
    \/ ClockStaysUnknown \/ WaitTimesOut
    \/ VerifyDownload \/ RefuseDownload \/ FinishWriting \/ FinishFails
    \/ SelectBoot \/ SelectFails \/ Restart

Answered ==
    \/ SynchronizeClock
    \/ FollowRedirect \/ AcceptResponse \/ OpenFails
    \/ ReadFails \/ DescriptorIsCutOff \/ StreamEnds
    \/ CompleteCheck \/ BeginWriting \/ RefuseImage \/ BeginFails
    \/ WritePart \/ WriteFails

Next ==
    \/ RequestCheck \/ PermitInstall \/ Publish \/ Expire
    \/ OtaAlone \/ Answered \/ GiveUpFlash
    \/ \E h \in HistoryUsers : HistoryTask(h)
    \/ Reset

\* The server need not answer, so that only the deadline ends a wait for it; while
\* OTA waits for the flash the deadline is not assumed to pass.
Spec ==
    /\ Init /\ [][Next]_vars
    /\ WF_vars(OtaAlone)
    /\ WF_vars(Expire /\ task \notin {"defer", "acquire"})
    /\ \A h \in HistoryUsers : WF_vars(HistoryTask(h))

----------------------------------------------------------------------------
(* Properties.                                                             *)

\* What boots next is an image that is newer than the running one and of the version
\* that was offered to the user, received whole and over TLS, whatever was released
\* between the check and the installation and wherever the server broke off.
SelectedImageIsTheOffered ==
    bootSelected =>
        /\ slot.image.ours
        /\ slot.image.version > running
        /\ slot.image.version = available
        /\ slot.parts = slot.image.parts
        /\ slot.secure

\* "OTA first defers new history work" (ARCHITECTURE.md): however busy history is, an
\* installation gets the flash without waiting for its deadline.
HistoryYieldsToOta ==
    task \in {"defer", "acquire"} ~> task \notin {"defer", "acquire"}

\* History is not deferred for good: not if OTA never got the flash, nor if the server
\* stops answering while OTA has it.
HistoryResumes == historyDeferred ~> ~historyDeferred

=============================================================================
