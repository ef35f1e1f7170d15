---------------------- MODULE FirmwareInstallation_proofs ----------------------
(* What FirmwareInstallation promises of the image it selects, for any released  *)
(* images, slot size, number of redirects and history tasks, and that history    *)
(* gives way to it.                                                              *)
EXTENDS FirmwareInstallation, FiniteSetTheorems, TLAPS

AnyImage == [version : Nat, ours : BOOLEAN, parts : Nat \ {0}]

Streams == [image : AnyImage, length : Nat \cup {None}, received : Nat, secure : {TRUE}]

\* From the response on, the stream is one of TLS.
StreamIsSecure ==
    task \in {"descriptor", "download", "verify"} => stream \in Streams

\* The slot holds what was received, and it is still the image that was offered.
SlotFollowsStream ==
    task \in {"download", "verify"} =>
        /\ IsOffered(stream.image)
        /\ slot = [image |-> stream.image, parts |-> stream.received, secure |-> TRUE]

\* Past the check of completeness the stream does not matter any more.
SlotIsTheOffered ==
    task \in {"finish", "select", "restart"} =>
        /\ IsOffered(slot.image)
        /\ slot.parts = slot.image.parts
        /\ slot.secure

InstallationInvariant ==
    /\ latest \in Images
    /\ bootSelected => task = "restart"
    /\ StreamIsSecure /\ SlotFollowsStream /\ SlotIsTheOffered

\* Nothing is installed.
LEMMA InstallationInit == Init => InstallationInvariant
BY DEF Init, InstallationInvariant, StreamIsSecure, SlotFollowsStream, SlotIsTheOffered

\* Leaving the installation for good.
LEMMA LeavingLemma ==
    ASSUME InstallationInvariant, latest' \in Images, task # "restart" \/ ~bootSelected',
           task' \in {"idle", "release", "undefer", "defer", "acquire", "clock", "open"},
           UNCHANGED bootSelected \/ ~bootSelected'
    PROVE  InstallationInvariant'
BY DEF InstallationInvariant, StreamIsSecure, SlotFollowsStream, SlotIsTheOffered

\* Whatever ends an operation closes its stream.
LEMMA EndsLemma ==
    ASSUME InstallationInvariant, Ends, UNCHANGED <<latest, bootSelected>>, task # "restart"
    PROVE  InstallationInvariant'
<1>1. task' \in {"release", "idle"}
  BY DEF Ends
<1>2. latest' \in Images
  BY DEF InstallationInvariant
<1> QED
  BY <1>1, <1>2, LeavingLemma

\* Nothing that the invariant looks at changes.
LEMMA ElsewhereLemma ==
    ASSUME InstallationInvariant, latest' \in Images,
           UNCHANGED <<bootSelected, task, stream, slot, running, available>>
    PROVE  InstallationInvariant'
BY DEF InstallationInvariant, StreamIsSecure, SlotFollowsStream, SlotIsTheOffered, IsOffered,
   IsNewer

\* A check or an installation that fails, and a check that completes.
LEMMA FailingStep ==
    ASSUME InstallationInvariant,
           \/ ClockStaysUnknown \/ OpenFails \/ WaitTimesOut \/ ReadFails
           \/ DescriptorIsCutOff \/ RefuseImage \/ BeginFails \/ WriteFails
           \/ RefuseDownload \/ FinishFails \/ SelectFails \/ CompleteCheck
    PROVE  InstallationInvariant'
<1>1. Ends /\ UNCHANGED <<latest, bootSelected>> /\ task # "restart"
  BY DEF ClockStaysUnknown, OpenFails, WaitTimesOut, ReadFails, DescriptorIsCutOff,
     RefuseImage, BeginFails, WriteFails, RefuseDownload, FinishFails, SelectFails,
     CompleteCheck, Fails, IsReading, serverVars, deviceVars
<1> QED
  BY <1>1, EndsLemma

\* Redirects are over TLS, and so is the response.
LEMMA StreamStep ==
    ASSUME InstallationInvariant, FollowRedirect \/ AcceptResponse \/ StreamEnds
    PROVE  InstallationInvariant'
<1> USE DEF InstallationInvariant
<1>1. CASE FollowRedirect
  BY <1>1 DEF FollowRedirect, serverVars, deviceVars, StreamIsSecure, SlotFollowsStream,
     SlotIsTheOffered
<1>2. CASE AcceptResponse
  <2>1. stream' \in Streams
    <3>1. latest \in AnyImage /\ latest.parts \in Nat
      BY InstallationAssumption DEF AnyImage
    <3>2. PICK length \in {latest.parts, None} :
              stream' = [image |-> latest, length |-> length, received |-> 0,
                         secure |-> hop = "https"]
      BY <1>2 DEF AcceptResponse
    <3>3. hop = "https"
      BY <1>2 DEF AcceptResponse, IsSecure
    <3> QED
      BY <3>1, <3>2, <3>3 DEF Streams
  <2>2. task = "open" /\ task' = "descriptor" /\ UNCHANGED <<latest, bootSelected>>
    BY <1>2 DEF AcceptResponse, serverVars, deviceVars
  <2> QED
    BY <2>1, <2>2 DEF StreamIsSecure, SlotFollowsStream, SlotIsTheOffered
<1>3. CASE StreamEnds
  BY <1>3 DEF StreamEnds, serverVars, deviceVars, statusVars, streamVars, slotVars,
     StreamIsSecure, SlotFollowsStream, SlotIsTheOffered, IsOffered, IsNewer
<1> QED
  BY <1>1, <1>2, <1>3

\* What is received is what is written.
LEMMA WritingStep ==
    ASSUME InstallationInvariant, BeginWriting \/ WritePart
    PROVE  InstallationInvariant'
<1> USE DEF InstallationInvariant
<1>1. stream \in Streams
  BY DEF BeginWriting, WritePart, StreamIsSecure
<1>2. /\ task \in {"descriptor", "download"} /\ task' = "download"
      /\ UNCHANGED <<latest, bootSelected, running, available>>
  BY DEF BeginWriting, WritePart, serverVars, deviceVars, statusVars
<1>3. /\ stream' \in Streams /\ stream'.image = stream.image
      /\ slot' = [image |-> stream.image, parts |-> stream'.received, secure |-> TRUE]
      /\ IsOffered(stream.image)
  <2>1. CASE BeginWriting
    BY <1>1, <2>1 DEF BeginWriting, Streams
  <2>2. CASE WritePart
    <3>1. stream' = [stream EXCEPT !.received = @ + 1]
      BY <2>2 DEF WritePart
    <3>2. /\ stream' \in Streams /\ stream'.image = stream.image
          /\ stream'.received = stream.received + 1
      <4>1. stream' = [image |-> stream.image, length |-> stream.length,
                       received |-> stream.received + 1, secure |-> TRUE]
        BY <1>1, <3>1 DEF Streams
      <4> QED
        BY <1>1, <4>1 DEF Streams
    <3>3. /\ slot = [image |-> stream.image, parts |-> stream.received, secure |-> TRUE]
          /\ IsOffered(stream.image)
      BY <2>2 DEF WritePart, SlotFollowsStream
    <3>4. slot' = [slot EXCEPT !.parts = @ + 1]
      BY <2>2 DEF WritePart
    <3> QED
      BY <3>2, <3>3, <3>4
  <2> QED
    BY <2>1, <2>2
<1>4. IsOffered(stream.image)'
  BY <1>2, <1>3 DEF IsOffered, IsNewer
<1> QED
  BY <1>2, <1>3, <1>4 DEF StreamIsSecure, SlotFollowsStream, SlotIsTheOffered

\* What goes on to be selected is the offered image as a whole.
LEMMA EndingStep ==
    ASSUME InstallationInvariant, VerifyDownload \/ FinishWriting \/ SelectBoot
    PROVE  InstallationInvariant'
<1> USE DEF InstallationInvariant
<1>1. /\ UNCHANGED <<latest, slot, running, available>>
      /\ task' \in {"finish", "select", "restart"}
      /\ bootSelected' => task' = "restart"
  BY DEF VerifyDownload, FinishWriting, SelectBoot, serverVars, deviceVars, statusVars,
     slotVars
<1>2. IsOffered(slot.image) /\ slot.parts = slot.image.parts /\ slot.secure
  <2>1. CASE VerifyDownload
    BY <2>1 DEF VerifyDownload, IsComplete, SlotFollowsStream
  <2>2. CASE FinishWriting \/ SelectBoot
    BY <2>2 DEF FinishWriting, SelectBoot, SlotIsTheOffered
  <2> QED
    BY <2>1, <2>2
<1> QED
  BY <1>1, <1>2 DEF StreamIsSecure, SlotFollowsStream, SlotIsTheOffered, IsOffered, IsNewer

\* Every step keeps the invariant.
LEMMA InstallationStep ==
    InstallationInvariant /\ [Next]_vars => InstallationInvariant'
<1> SUFFICES ASSUME InstallationInvariant, [Next]_vars PROVE InstallationInvariant'
  OBVIOUS
<1>0. latest \in Images
  BY DEF InstallationInvariant
<1>1. CASE \/ RequestCheck \/ PermitInstall \/ Release \/ EndDeferral \/ DeferHistory
           \/ TryAcquireOta \/ SynchronizeClock \/ GiveUpFlash
  <2>1. /\ UNCHANGED <<latest, bootSelected>> /\ task # "restart"
        /\ task' \in {"idle", "undefer", "defer", "acquire", "clock", "open"}
    BY <1>1 DEF RequestCheck, PermitInstall, Release, EndDeferral, DeferHistory,
       TryAcquireOta, SynchronizeClock, GiveUpFlash, serverVars, deviceVars
  <2> QED
    BY <1>0, <2>1, LeavingLemma
<1>2. CASE \/ ClockStaysUnknown \/ OpenFails \/ WaitTimesOut \/ ReadFails
           \/ DescriptorIsCutOff \/ RefuseImage \/ BeginFails \/ WriteFails
           \/ RefuseDownload \/ FinishFails \/ SelectFails \/ CompleteCheck
  BY <1>2, FailingStep
<1>3. CASE FollowRedirect \/ AcceptResponse \/ StreamEnds
  BY <1>3, StreamStep
<1>4. CASE BeginWriting \/ WritePart
  BY <1>4, WritingStep
<1>5. CASE VerifyDownload \/ FinishWriting \/ SelectBoot
  BY <1>5, EndingStep
<1>6. CASE Publish \/ Expire \/ UNCHANGED vars
  <2>1. latest' \in Images
    BY <1>0, <1>6 DEF Publish, Expire, vars, serverVars
  <2>2. UNCHANGED <<bootSelected, task, stream, slot, running, available>>
    BY <1>6 DEF Publish, Expire, vars, deviceVars, statusVars, streamVars, slotVars
  <2> QED
    BY <2>1, <2>2, ElsewhereLemma
<1>7. ASSUME NEW h \in HistoryUsers, HistoryTask(h) PROVE InstallationInvariant'
  <2>1. UNCHANGED <<latest, bootSelected, task, stream, slot, running, available>>
    BY <1>7 DEF HistoryTask, LoadDeferral, TryAcquireHistory, ReleaseHistory, HistoryMoves,
       serverVars, deviceVars, statusVars, streamVars, slotVars
  <2> QED
    BY <1>0, <2>1, ElsewhereLemma
<1>8. CASE Restart \/ Reset
  <2>1. latest' = latest /\ ~bootSelected' /\ task' = "idle"
    BY <1>8 DEF Restart, Reset, Boot, serverVars
  <2> QED
    BY <1>0, <2>1, LeavingLemma
<1> QED
  BY <1>1, <1>2, <1>3, <1>4, <1>5, <1>6, <1>7, <1>8 DEF Next, OtaAlone, Answered

\* Whatever the server released since the check, redirected to, or broke off, the image
\* that boots next is whole, came over TLS, and is the newer one that the user was offered.
THEOREM SelectionSafe == Spec => []SelectedImageIsTheOffered
<1>1. InstallationInvariant => SelectedImageIsTheOffered
  BY DEF InstallationInvariant, SlotIsTheOffered, SelectedImageIsTheOffered, IsOffered,
     IsNewer
<1> QED
  BY <1>1, InstallationInit, InstallationStep, PTL DEF Spec

-----------------------------------------------------------------------------
(* History gives way to OTA.                                                 *)

HistoryAt(place) == {h \in HistoryUsers : historyStep[h] = place}

\* What the history tasks have to do before none of them uses the flash or is about to.
HistoryWorkLeft == 2 * Cardinality(HistoryAt("try")) + Cardinality(HistoryAt("use"))

\* OtaTask tries for the flash with history deferred, and gets it once history is out of it.
FlashIsYielded ==
    task = "acquire" => historyDeferred /\ (HistoryWorkLeft = 0 => owner = "None")

\* No path of OtaTask ends with history deferred.
DeferralIsOtas == historyDeferred => task # "idle"

\* While history is deferred its tasks only finish what they began.
HistoryWorkRunsOut ==
    [][historyDeferred =>
         \/ ~historyDeferred'
         \/ IF \E h \in HistoryUsers : HistoryTask(h) THEN HistoryWorkLeft' < HistoryWorkLeft
            ELSE HistoryWorkLeft' = HistoryWorkLeft]_vars

\* One history task uses the flash if history owns it, and none does otherwise; OtaTask
\* owns it while it installs; and the deferral is set by an installation that still runs.
LeaseInv ==
    /\ historyStep \in [HistoryUsers -> {"idle", "try", "use"}]
    /\ owner \in {"None", "Ota", "History"}
    /\ owner = "History" => \E h \in HistoryUsers : historyStep[h] = "use"
    /\ \A h \in HistoryUsers : historyStep[h] = "use" => owner = "History"
    /\ \A g, h \in HistoryUsers : historyStep[g] = "use" /\ historyStep[h] = "use" => g = h
    /\ owner = "Ota" => installing /\ task \notin {"idle", "defer", "acquire", "undefer"}
    /\ historyDeferred => installing /\ task # "idle"
    /\ task = "acquire" => historyDeferred
    /\ task \in {"defer", "acquire"} => installing

\* A step that leaves the flash alone and does not turn back to it.
LEMMA LeaseUntouched ==
    ASSUME LeaseInv, UNCHANGED flashVars, installing' = installing,
           task' \in {"defer", "acquire"} => task' = task,
           task' \in {"idle", "undefer"} => task' = task \/ owner # "Ota",
           task' = "idle" => task' = task \/ ~installing
    PROVE  LeaseInv'
  BY DEF LeaseInv, flashVars

\* However an operation ends, an installation releases the flash and the deferral.
LEMMA LeaseEnds ==
    ASSUME LeaseInv, Ends, UNCHANGED flashVars, installing' = installing,
           task # "idle"
    PROVE  LeaseInv'
  BY DEF LeaseInv, flashVars, Ends

\* OtaTask and the others outside history keep the leases.
LEMMA OtaKeepsLeases ==
    ASSUME LeaseInv, Next, ~(\E h \in HistoryUsers : HistoryTask(h))
    PROVE  /\ LeaseInv'
           /\ historyDeferred => ~historyDeferred' \/ UNCHANGED historyStep
  <1>1. CASE Restart \/ Reset
    <2>1. Boot
      BY <1>1 DEF Restart, Reset
    <2> QED
      BY <2>1 DEF Boot, LeaseInv
  <1>2. CASE RequestCheck \/ PermitInstall \/ Publish \/ Expire
    BY <1>2 DEF RequestCheck, PermitInstall, Publish, Expire, flashVars, LeaseInv
  <1>3. CASE Release \/ EndDeferral
    BY <1>3 DEF Release, EndDeferral, DeferredAfter, LeaseInv
  <1>4. CASE DeferHistory \/ TryAcquireOta \/ GiveUpFlash
    BY <1>4 DEF DeferHistory, TryAcquireOta, GiveUpFlash, flashVars, LeaseInv
  <1>5. CASE \/ ClockStaysUnknown \/ WaitTimesOut \/ RefuseDownload \/ FinishFails
             \/ SelectFails \/ OpenFails \/ ReadFails \/ DescriptorIsCutOff
             \/ CompleteCheck \/ RefuseImage \/ BeginFails \/ WriteFails
    <2>1. Ends /\ UNCHANGED flashVars /\ installing' = installing /\ task # "idle"
      BY <1>5 DEF ClockStaysUnknown, WaitTimesOut, RefuseDownload, FinishFails,
         SelectFails, OpenFails, ReadFails, DescriptorIsCutOff, CompleteCheck, RefuseImage,
         BeginFails, WriteFails, Fails, IsReading
    <2> QED
      BY <2>1, LeaseEnds DEF flashVars
  <1>6. CASE \/ SynchronizeClock \/ VerifyDownload \/ FinishWriting \/ SelectBoot
             \/ FollowRedirect \/ AcceptResponse \/ StreamEnds \/ BeginWriting \/ WritePart
    <2>1. /\ UNCHANGED flashVars /\ installing' = installing
          /\ task' \in {"open", "finish", "select", "restart", "descriptor", "verify",
                        "download"}
      BY <1>6 DEF SynchronizeClock, VerifyDownload, FinishWriting, SelectBoot,
         FollowRedirect, AcceptResponse, StreamEnds, BeginWriting, WritePart
    <2> QED
      BY <2>1, LeaseUntouched DEF flashVars
  <1> QED
    BY <1>1, <1>2, <1>3, <1>4, <1>5, <1>6 DEF Next, OtaAlone, Answered

\* A history task gets the flash, gives it back, or goes without; it begins nothing new
\* while it is deferred.
LEMMA HistoryKeepsLeases ==
    ASSUME LeaseInv, NEW h \in HistoryUsers, HistoryTask(h)
    PROVE  /\ LeaseInv'
           /\ UNCHANGED historyDeferred
           /\ historyDeferred =>
                \E from, to \in {"idle", "try", "use"} :
                   /\ historyStep[h] = from /\ historyStep' = [historyStep EXCEPT ![h] = to]
                   /\ <<from, to>> \in {<<"try", "use">>, <<"try", "idle">>, <<"use", "idle">>}
  <1>0. /\ historyStep \in [HistoryUsers -> {"idle", "try", "use"}]
        /\ UNCHANGED <<task, installing, historyDeferred>>
    BY DEF LeaseInv, HistoryTask, LoadDeferral, TryAcquireHistory, ReleaseHistory,
       HistoryMoves
  <1>1. CASE LoadDeferral(h)
    <2>1. /\ historyStep[h] = "idle" /\ historyStep' = [historyStep EXCEPT ![h] = "try"]
          /\ owner' = owner /\ ~historyDeferred
      BY <1>1 DEF LoadDeferral, HistoryMoves, HistoryMayTry
    <2> QED
      BY <1>0, <2>1 DEF LeaseInv
  <1>2. CASE owner = "None" /\ HistoryMoves(h, "try", "use") /\ owner' = "History"
    <2>1. historyStep[h] = "try" /\ historyStep' = [historyStep EXCEPT ![h] = "use"]
      BY <1>2 DEF HistoryMoves
    <2> QED
      BY <1>0, <1>2, <2>1 DEF LeaseInv
  <1>3. CASE owner # "None" /\ HistoryMoves(h, "try", "idle") /\ UNCHANGED owner
    <2>1. historyStep[h] = "try" /\ historyStep' = [historyStep EXCEPT ![h] = "idle"]
      BY <1>3 DEF HistoryMoves
    <2> QED
      BY <1>0, <1>3, <2>1 DEF LeaseInv
  <1>4. CASE ReleaseHistory(h)
    <2>1. /\ historyStep[h] = "use" /\ historyStep' = [historyStep EXCEPT ![h] = "idle"]
          /\ owner = "History" /\ owner' = "None"
      BY <1>4 DEF ReleaseHistory, HistoryMoves, LeaseInv
    <2> QED
      BY <1>0, <2>1 DEF LeaseInv
  <1> QED
    BY <1>1, <1>2, <1>3, <1>4 DEF HistoryTask, TryAcquireHistory

\* Every step keeps the leases.
LEMMA LeaseStep == LeaseInv /\ [Next]_vars => LeaseInv'
  <1>1. ASSUME LeaseInv, UNCHANGED vars PROVE LeaseInv'
    BY <1>1 DEF LeaseInv, vars, flashVars
  <1> QED
    BY <1>1, OtaKeepsLeases, HistoryKeepsLeases

\* The tasks at a place are finite in number.
LEMMA HistoryAtIsFinite ==
    ASSUME NEW place
    PROVE  IsFiniteSet(HistoryAt(place)) /\ Cardinality(HistoryAt(place)) \in Nat
  <1>1. HistoryAt(place) \subseteq HistoryUsers
    BY DEF HistoryAt
  <1> QED
    BY <1>1, InstallationAssumption, FS_Subset, FS_CardinalityType

\* A task that moves on has less to do.
LEMMA MovingOn ==
    ASSUME NEW h \in HistoryUsers, NEW from, NEW to,
           historyStep \in [HistoryUsers -> {"idle", "try", "use"}],
           historyStep[h] = from, historyStep' = [historyStep EXCEPT ![h] = to],
           <<from, to>> \in {<<"try", "use">>, <<"try", "idle">>, <<"use", "idle">>}
    PROVE  HistoryWorkLeft' < HistoryWorkLeft
  <1> DEFINE trying == HistoryAt("try")
             using == HistoryAt("use")
  <1>1. /\ IsFiniteSet(trying) /\ Cardinality(trying) \in Nat
        /\ IsFiniteSet(using) /\ Cardinality(using) \in Nat
    BY HistoryAtIsFinite
  <1>2. CASE from = "try"
    <2>1. h \in trying /\ h \notin using /\ HistoryAt("try")' = trying \ {h}
      BY <1>2 DEF HistoryAt
    <2>2. Cardinality(trying \ {h}) = Cardinality(trying) - 1
      BY <1>1, <2>1, FS_RemoveElement
    <2>3. Cardinality(using \cup {h}) = Cardinality(using) + 1
      BY <1>1, <2>1, FS_AddElement
    <2>4. HistoryAt("use")' = using \cup {h} \/ HistoryAt("use")' = using
      <3>1. CASE to = "use"
        BY <1>2, <3>1 DEF HistoryAt
      <3>2. CASE to = "idle"
        BY <1>2, <3>2 DEF HistoryAt
      <3> QED
        BY <1>2, <3>1, <3>2
    <2>5. Cardinality(HistoryAt("try"))' = Cardinality(trying) - 1
      BY <2>1, <2>2
    <2>6. \/ Cardinality(HistoryAt("use"))' = Cardinality(using) + 1
          \/ Cardinality(HistoryAt("use"))' = Cardinality(using)
      BY <2>3, <2>4
    <2> HIDE DEF trying, using
    <2> QED
      BY <1>1, <2>5, <2>6 DEF HistoryWorkLeft, trying, using
  <1>3. CASE from = "use"
    <2>1. /\ h \in using /\ to = "idle" /\ HistoryAt("try")' = trying
          /\ HistoryAt("use")' = using \ {h}
      BY <1>3 DEF HistoryAt
    <2>2. Cardinality(using \ {h}) = Cardinality(using) - 1
      BY <1>1, <2>1, FS_RemoveElement
    <2>3. /\ Cardinality(HistoryAt("try"))' = Cardinality(trying)
          /\ Cardinality(HistoryAt("use"))' = Cardinality(using) - 1
      BY <2>1, <2>2
    <2> HIDE DEF trying, using
    <2> QED
      BY <1>1, <2>3 DEF HistoryWorkLeft, trying, using
  <1> QED
    BY <1>2, <1>3

\* Without work left history does not own the flash.
LEMMA NoWorkNoOwner ==
    ASSUME LeaseInv, HistoryWorkLeft = 0
    PROVE  owner # "History"
  <1>1. /\ IsFiniteSet(HistoryAt("use")) /\ Cardinality(HistoryAt("use")) \in Nat
        /\ Cardinality(HistoryAt("try")) \in Nat
    BY HistoryAtIsFinite
  <1>2. Cardinality(HistoryAt("use")) = 0
    BY <1>1 DEF HistoryWorkLeft
  <1>3. HistoryAt("use") = {}
    BY <1>1, <1>2, FS_EmptySet
  <1> QED
    BY <1>3 DEF LeaseInv, HistoryAt

\* "OTA first defers new history work" (ARCHITECTURE.md): once it has, each step of a history
\* task leaves less of it to do, whatever else happens, and with nothing left the next try
\* gets the flash; and the deferral never outlives the installation, wherever that fails.
THEOREM HistoryGivesWay == Spec => []FlashIsYielded /\ []DeferralIsOtas /\ HistoryWorkRunsOut
  <1>1. Init => LeaseInv
    BY DEF Init, LeaseInv
  <1>2. LeaseInv => FlashIsYielded
    BY NoWorkNoOwner DEF LeaseInv, FlashIsYielded
  <1>3. LeaseInv => DeferralIsOtas
    BY DEF LeaseInv, DeferralIsOtas
  <1>4. LeaseInv /\ [Next]_vars =>
            [historyDeferred =>
               \/ ~historyDeferred'
               \/ IF \E h \in HistoryUsers : HistoryTask(h)
                  THEN HistoryWorkLeft' < HistoryWorkLeft
                  ELSE HistoryWorkLeft' = HistoryWorkLeft]_vars
    <2> SUFFICES ASSUME LeaseInv, Next, historyDeferred, historyDeferred'
                 PROVE  IF \E h \in HistoryUsers : HistoryTask(h)
                        THEN HistoryWorkLeft' < HistoryWorkLeft
                        ELSE HistoryWorkLeft' = HistoryWorkLeft
      OBVIOUS
    <2>1. ASSUME NEW h \in HistoryUsers, HistoryTask(h)
          PROVE  HistoryWorkLeft' < HistoryWorkLeft
      <3>1. PICK from, to \in {"idle", "try", "use"} :
               /\ historyStep[h] = from /\ historyStep' = [historyStep EXCEPT ![h] = to]
               /\ <<from, to>> \in {<<"try", "use">>, <<"try", "idle">>, <<"use", "idle">>}
        BY <2>1, HistoryKeepsLeases
      <3>2. historyStep \in [HistoryUsers -> {"idle", "try", "use"}]
        BY DEF LeaseInv
      <3> QED
        BY <3>1, <3>2, MovingOn
    <2>2. ASSUME ~(\E h \in HistoryUsers : HistoryTask(h))
          PROVE  HistoryWorkLeft' = HistoryWorkLeft
      <3>1. historyStep' = historyStep
        BY <2>2, OtaKeepsLeases
      <3> QED
        BY <3>1 DEF HistoryWorkLeft, HistoryAt
    <2> QED
      BY <2>1, <2>2
  <1> QED
    BY <1>1, <1>2, <1>3, <1>4, LeaseStep, PTL DEF Spec, HistoryWorkRunsOut

=============================================================================
