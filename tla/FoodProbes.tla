------------------------------ MODULE FoodProbes ------------------------------
(***************************************************************************)
(* Ads1115FoodProbeSource: channels of one or two ADS1115 converters, read *)
(* in turn by service(), which never waits (ads1115_food_probe_source.cpp  *)
(* over ads1115_target_backend.cpp).  A converter is external: it keeps    *)
(* converting across a reset of the MCU, it ignores a start while it       *)
(* converts, and a command that fails may have taken effect.  Multiplexer, *)
(* gain and rate are one setting, the channel's, written before each start *)
(* of an idle converter.                                                   *)
(*                                                                         *)
(* Production composes a simulated source; this one is tested and waits    *)
(* for its calibration (ARCHITECTURE.md).                                  *)
(***************************************************************************)
EXTENDS Integers

CONSTANTS
    Devices,                    \* one or two of them
    ChannelCount,
    DeviceOf,                   \* channel -> device
    MaxReboots                  \* bound: resets of the MCU

Channels == 0 .. ChannelCount - 1

ASSUME FoodProbesAssumption ==
    /\ ChannelCount \in Nat \ {0}
    /\ DeviceOf \in [Channels -> Devices]
    /\ \A d \in Devices : \E c \in Channels : DeviceOf[c] = d
    /\ MaxReboots \in Nat

\* A conversion that was started before the boot, or by noone.
Foreign == ChannelCount

VARIABLES
    configured,                 \* configured_
    deviceState,                \* device_states_
    converting,                 \* state_ = AcquisitionState::Converting
    activeChannel, nextChannel,
    deadlineIsOver,             \* conversion_deadline_
    samples,                    \* per channel: whose conversion, and its age; or NoSample
    adcIsBusy,                  \* what each converter is doing,
    adcChannel,                 \* and whose conversion that is or was
    troubled,                   \* devices that may fail, now
    reboots

softwareVars == <<configured, deviceState, converting, activeChannel, nextChannel,
                  deadlineIsOver, samples>>
adcVars == <<adcIsBusy, adcChannel>>
foodVars == <<softwareVars, adcVars, troubled, reboots>>

NoSample == [of |-> Foreign, isOld |-> TRUE]

Sample(of) == [of |-> of, isOld |-> FALSE]

----------------------------------------------------------------------------
(* The round robin.                                                        *)

Following(channel) == (channel + 1) % ChannelCount

\* Mutant of AfterUnknown: the channel is tried again until its converter answers.
TryAgain(channel) == channel

\* Other channels take their turn while a converter is in an unknown state.
AfterUnknown(channel) == Following(channel)

Invalidate(channel) == samples' = [samples EXCEPT ![channel] = NoSample]

Becomes(device, state) == deviceState' = [deviceState EXCEPT ![device] = state]

MayFail(device) == device \in troubled

----------------------------------------------------------------------------
(* start_next_conversion()                                                 *)

IsDue(channel) ==
    /\ configured /\ ~converting
    /\ channel = nextChannel
    /\ activeChannel' = channel

\* conversion_busy() fails, or says so: the round robin goes on.
StaysUnsynchronized(c) ==
    /\ IsDue(c)
    /\ deviceState[DeviceOf[c]] = "Unsynchronized"
    /\ adcIsBusy[DeviceOf[c]] \/ MayFail(DeviceOf[c])
    /\ nextChannel' = AfterUnknown(c)
    /\ UNCHANGED <<configured, deviceState, converting, deadlineIsOver, samples, adcVars,
                   troubled, reboots>>

\* Whatever result the converter holds is left alone; the start is a step of its own.
Synchronize(c) ==
    /\ IsDue(c)
    /\ deviceState[DeviceOf[c]] = "Unsynchronized"
    /\ ~adcIsBusy[DeviceOf[c]]
    /\ Becomes(DeviceOf[c], "Idle")
    /\ UNCHANGED <<configured, converting, nextChannel, deadlineIsOver, samples, adcVars,
                   troubled, reboots>>

\* A write of the setting alone starts nothing.
ConfigureFails(c) ==
    /\ IsDue(c)
    /\ deviceState[DeviceOf[c]] = "Idle"
    /\ MayFail(DeviceOf[c])
    /\ Invalidate(c)
    /\ nextChannel' = Following(c)
    /\ UNCHANGED <<configured, deviceState, converting, deadlineIsOver, adcVars, troubled,
                   reboots>>

\* What a start does to the converter.
AdcStarts(d, c) ==
    /\ adcIsBusy' = [adcIsBusy EXCEPT ![d] = TRUE]
    /\ adcChannel' = [adcChannel EXCEPT ![d] = IF adcIsBusy[d] THEN @ ELSE c]

\* Mutant of AfterFailedStart: it is taken for a start that did nothing.
NothingStarted == "Idle"

AfterFailedStart == "Unsynchronized"

StartFails(c) ==
    /\ IsDue(c)
    /\ deviceState[DeviceOf[c]] = "Idle"
    /\ MayFail(DeviceOf[c])
    /\ AdcStarts(DeviceOf[c], c) \/ UNCHANGED adcVars
    /\ Invalidate(c)
    /\ Becomes(DeviceOf[c], AfterFailedStart)
    /\ nextChannel' = Following(c)
    /\ UNCHANGED <<configured, converting, deadlineIsOver, troubled, reboots>>

StartConversion(c) ==
    /\ IsDue(c)
    /\ deviceState[DeviceOf[c]] = "Idle"
    /\ AdcStarts(DeviceOf[c], c)
    /\ Becomes(DeviceOf[c], "Converting")
    /\ converting' = TRUE
    /\ deadlineIsOver' = FALSE
    /\ UNCHANGED <<configured, nextChannel, samples, troubled, reboots>>

----------------------------------------------------------------------------
(* poll_active_conversion()                                                *)

IsPolled(c) == configured /\ converting /\ c = activeChannel

Advance(c) == nextChannel' = Following(c) /\ converting' = FALSE

\* conversion_busy() fails, or the conversion is still busy past its deadline.
Quarantine(c) ==
    /\ IsPolled(c)
    /\ \/ MayFail(DeviceOf[c])
       \/ adcIsBusy[DeviceOf[c]] /\ deadlineIsOver
    /\ Invalidate(c)
    /\ Becomes(DeviceOf[c], "Unsynchronized")
    /\ Advance(c)
    /\ UNCHANGED <<configured, activeChannel, deadlineIsOver, adcVars, troubled, reboots>>

\* The value is read and converted, however late; conversion_busy() said it is ready.
TakeSample(c) ==
    /\ IsPolled(c)
    /\ ~adcIsBusy[DeviceOf[c]]
    /\ samples' = [samples EXCEPT ![c] = Sample(adcChannel[DeviceOf[c]])]
    /\ Becomes(DeviceOf[c], "Idle")
    /\ Advance(c)
    /\ UNCHANGED <<configured, activeChannel, deadlineIsOver, adcVars, troubled, reboots>>

\* get_value() fails, or the value is outside the calibration.
ValueFails(c) ==
    /\ IsPolled(c)
    /\ ~adcIsBusy[DeviceOf[c]]
    /\ MayFail(DeviceOf[c])
    /\ Invalidate(c)
    /\ Becomes(DeviceOf[c], "Idle")
    /\ Advance(c)
    /\ UNCHANGED <<configured, activeChannel, deadlineIsOver, adcVars, troubled, reboots>>

Service ==
    \E c \in Channels :
        \/ StaysUnsynchronized(c) \/ Synchronize(c)
        \/ ConfigureFails(c) \/ StartFails(c) \/ StartConversion(c)
        \/ Quarantine(c) \/ TakeSample(c) \/ ValueFails(c)

----------------------------------------------------------------------------
(* The clock, the converters, the MCU.                                     *)

\* conversion_timeout is configured to be longer than a conversion may take: a converter
\* without trouble completes before.
DeadlinePasses ==
    /\ converting /\ ~deadlineIsOver
    /\ DeviceOf[activeChannel] \in troubled \/ ~adcIsBusy[DeviceOf[activeChannel]]
    /\ deadlineIsOver' = TRUE
    /\ UNCHANGED <<configured, deviceState, converting, activeChannel, nextChannel, samples,
                   adcVars, troubled, reboots>>

\* sample_maximum_age: read() no longer returns the sample.
SampleAges(c) ==
    /\ ~samples[c].isOld
    /\ samples' = [samples EXCEPT ![c].isOld = TRUE]
    /\ UNCHANGED <<configured, deviceState, converting, activeChannel, nextChannel,
                   deadlineIsOver, adcVars, troubled, reboots>>

AdcCompletes(d) ==
    /\ adcIsBusy[d]
    /\ adcIsBusy' = [adcIsBusy EXCEPT ![d] = FALSE]
    /\ UNCHANGED <<softwareVars, adcChannel, troubled, reboots>>

TroubleChanges(d) ==
    /\ troubled' = IF d \in troubled THEN troubled \ {d} ELSE troubled \cup {d}
    /\ UNCHANGED <<softwareVars, adcVars, reboots>>

StateAtBoot == "Unsynchronized"

FoodInit ==
    /\ configured \in BOOLEAN
    /\ deviceState = [d \in Devices |-> StateAtBoot]
    /\ converting = FALSE
    /\ activeChannel = 0 /\ nextChannel = 0
    /\ deadlineIsOver = FALSE
    /\ samples = [c \in Channels |-> NoSample]
    /\ adcIsBusy \in [Devices -> BOOLEAN]
    /\ adcChannel = [d \in Devices |-> Foreign]
    /\ troubled = {}
    /\ reboots = 0

\* Of the MCU alone. The constructor's backend_.initialize() may fail; then nothing is
\* ever sampled.
Reboot ==
    /\ reboots < MaxReboots
    /\ reboots' = reboots + 1
    /\ configured' \in BOOLEAN
    /\ deviceState' = [d \in Devices |-> StateAtBoot]
    /\ converting' = FALSE
    /\ activeChannel' = 0 /\ nextChannel' = 0
    /\ deadlineIsOver' = FALSE
    /\ samples' = [c \in Channels |-> NoSample]
    /\ adcChannel' = [d \in Devices |-> Foreign]
    /\ UNCHANGED <<adcIsBusy, troubled>>

FoodNext ==
    \/ Service
    \/ DeadlinePasses
    \/ \E c \in Channels : SampleAges(c)
    \/ \E d \in Devices : AdcCompletes(d) \/ TroubleChanges(d)
    \/ Reboot

\* service() is called again and again, and a converter without trouble completes its
\* conversions. Strong fairness because trouble may come and go while time passes.
FoodSpec ==
    /\ FoodInit /\ [][FoodNext]_foodVars
    /\ WF_foodVars(Service)
    /\ SF_foodVars(DeadlinePasses)
    /\ \A d \in Devices : WF_foodVars(d \notin troubled /\ AdcCompletes(d))

----------------------------------------------------------------------------
(* Properties.                                                             *)

\* "No abandoned result is read or attributed to another channel" (ARCHITECTURE.md), nor
\* is one of a conversion that was started before the MCU was reset.
SamplesAreOfTheirChannel ==
    \A c \in Channels : ~samples[c].isOld => samples[c].of = c

\* A channel whose converter works goes on being sampled, whatever the other converter
\* does: stuck, failing now and then, or converting for ever.
HealthyProbesAreSampled ==
    \A c \in Channels :
        <>[](configured /\ DeviceOf[c] \notin troubled) => []<>(~samples[c].isOld)

=============================================================================
