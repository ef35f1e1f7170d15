-------------------------- MODULE WifiConnectivity --------------------------
(***************************************************************************)
(* The Wi-Fi life cycle of local_connectivity.cpp with the coordinators of *)
(* local_network_support.cpp: the station, the SoftAP fallback, network     *)
(* scans and a change of configuration.  Three tasks run its code: the      *)
(* event loop, the timer task and the HTTP task.  A step is one section of  *)
(* mutex_, one call of the driver, or one operation on a timer; sections    *)
(* of wifi_mode_mutex_ that take several steps hold modeLock.               *)
(*                                                                         *)
(* The ESP-IDF driver is external.  It may refuse any call (MaxFailures     *)
(* times), drops links and answers late; its events are handled in order.  *)
(* A network is the number of the configuration that names it, 0 is none.  *)
(* Addresses, scan results, error texts, DNS and mDNS are left out.         *)
(***************************************************************************)
EXTENDS Integers, Sequences, SequencesExt

CONSTANTS
    None,
    MaxPuts,          \* bound: network configurations that are stored
    MaxScans,         \* bound: scans requested
    MaxTroubles       \* bound: calls that fail, attempts that fail and links that are lost

ASSUME WifiAssumption ==
    /\ {MaxPuts, MaxScans, MaxTroubles} \subseteq Nat
    /\ None \notin {"event", "timer", "http"}

VARIABLES
    configuration,    \* configuration_, 0 without STA credentials
    staConnected,     \* status_.sta_connected
    apActive,         \* status_.ap_active
    sta,              \* transition, inFlight, disconnectPending, applyPending
    scan,             \* the scan coordinator and wifi_apply_after_scan_
    fallbackArmed,
    timers,           \* which one-shot timers are active
    driver,           \* mode, link, configuration and scan of the driver
    events,           \* posted to the event loop
    todo,             \* what is left of the callback or request a task is in
    modeLock,         \* who keeps wifi_mode_mutex_ between two steps
    stranded,         \* history: the device's own disconnect ended an attempt in flight
    puts, scans, troubles

serviceVars == <<configuration, staConnected, apActive, sta, scan, fallbackArmed>>
boundVars == <<stranded, puts, scans, troubles>>
vars == <<serviceVars, timers, driver, events, todo, modeLock, boundVars>>

Tasks == {"event", "timer", "http"}
Timers == {"fallback", "scanTimeout", "connectRetry", "staOnlyRetry"}
HasAp(mode) == mode \in {"AP", "APSTA"}
HasSta(mode) == mode \in {"STA", "APSTA"}
Configured == configuration # 0
LinkDown == [state |-> "down", network |-> 0]

(***************************************************************************)
(* The steps of a task, and the lock.                                      *)
(***************************************************************************)
At(t, step) == todo[t] # <<>> /\ Head(todo[t]) = step
Idle(t) == todo[t] = <<>>
ModeIsFree(t) == modeLock \in {None, t}

Continue(t, steps) == todo' = [todo EXCEPT ![t] = steps \o Tail(@)]
Return(t, steps) == todo' = [todo EXCEPT ![t] = steps]

(***************************************************************************)
(* The driver's calls.                                                     *)
(***************************************************************************)
Trouble == troubles < MaxTroubles /\ troubles' = troubles + 1
CallFails == Trouble
CallWorks == UNCHANGED troubles

ModeEvents(from, to) ==
       (IF HasAp(from) /\ ~HasAp(to) THEN <<"AP_STOP">> ELSE <<>>)
    \o (IF HasSta(to) /\ ~HasSta(from) THEN <<"STA_START">> ELSE <<>>)
    \o (IF HasAp(to) /\ ~HasAp(from) THEN <<"AP_START">> ELSE <<>>)

\* The station is taken away only when it has no configuration; a scan that is
\* cut off so is not reported.
SetMode(mode) ==
    /\ driver' = [driver EXCEPT !.mode = mode, !.scanning = @ /\ HasSta(mode)]
    /\ events' = events \o ModeEvents(driver.mode, mode)

Connecting == [state |-> "connecting", network |-> driver.network]

\* esp_wifi_connect() needs a configuration; unless the link is down it is refused, or
\* accepted and nothing comes of it.
CanConnect == driver.link = LinkDown /\ driver.network # 0

ConnectIsTaken ==
    /\ driver.network # 0
    /\ CallWorks
    /\ driver' = IF CanConnect THEN [driver EXCEPT !.link = Connecting] ELSE driver

ConnectIsRefused ==
    /\ IF CanConnect THEN CallFails ELSE CallWorks
    /\ UNCHANGED driver

\* esp_wifi_disconnect() with a link: the event follows.
LinkIsClosed ==
    /\ driver.link # LinkDown
    /\ CallWorks
    /\ driver' = [driver EXCEPT !.link = LinkDown]
    /\ events' = Append(events, "LEFT")

(***************************************************************************)
(* Timers.                                                                 *)
(***************************************************************************)
Schedule(timer) == timers' = [timers EXCEPT ![timer] = TRUE]
StopTimer(timer) == timers' = [timers EXCEPT ![timer] = FALSE]

\* Mutant of ArmFallback: every disconnection starts the wait again.
ArmFallbackAnew ==
    /\ fallbackArmed' = TRUE
    /\ timers' = [timers EXCEPT !["fallback"] = ~fallbackArmed]

\* schedule_fallback(), in one section of mutex_.
ArmFallback ==
    IF fallbackArmed \/ apActive \/ staConnected
    THEN UNCHANGED <<fallbackArmed, timers>>
    ELSE /\ fallbackArmed' = ~timers["fallback"]
         /\ Schedule("fallback")

ScheduleFallback(t) ==
    /\ At(t, "scheduleFallback")
    /\ ArmFallback
    /\ Continue(t, <<>>)
    /\ UNCHANGED <<configuration, staConnected, apActive, sta, scan, driver, events,
                   modeLock, boundVars>>

(***************************************************************************)
(* connect_sta_or_retry().                                                 *)
(***************************************************************************)
MayConnect ==
    /\ Configured /\ ~staConnected
    /\ ~scan.running
    /\ ~sta.transition /\ ~sta.inFlight

ConnectSta(t) ==
    /\ At(t, "connect")
    /\ ModeIsFree(t)
    /\ \/ /\ MayConnect /\ HasSta(driver.mode)
          /\ sta' = [sta EXCEPT !.inFlight = TRUE]
          /\ Continue(t, <<"connectCall">>)
          /\ modeLock' = t
          /\ UNCHANGED <<timers, troubles>>
       \/ /\ MayConnect /\ CallFails           \* esp_wifi_get_mode
          /\ Schedule("connectRetry")
          /\ Continue(t, <<>>)
          /\ UNCHANGED <<sta, modeLock>>
       \/ /\ ~(MayConnect /\ HasSta(driver.mode))
          /\ Continue(t, <<>>)
          /\ UNCHANGED <<sta, modeLock, timers, troubles>>
    /\ UNCHANGED <<configuration, staConnected, apActive, scan, fallbackArmed, driver,
                   events, stranded, puts, scans>>

ConnectStaCall(t) ==
    /\ At(t, "connectCall")
    /\ \/ ConnectIsTaken /\ StopTimer("connectRetry") /\ UNCHANGED sta
       \/ /\ ConnectIsRefused
          /\ sta' = [sta EXCEPT !.inFlight = FALSE]
          /\ Schedule("connectRetry")
    /\ modeLock' = None
    /\ Continue(t, <<>>)
    /\ UNCHANGED <<configuration, staConnected, apActive, scan, fallbackArmed, events,
                   stranded, puts, scans>>

(***************************************************************************)
(* A network scan: request, driver start, end.                             *)
(***************************************************************************)
\* A request reaches the device over the access point or an established link.
RequestArrives ==
    /\ Idle("http") /\ driver.mode # "OFF"
    /\ HasAp(driver.mode) \/ driver.link.state = "up"

RequestScan ==
    /\ RequestArrives
    /\ scans < MaxScans
    /\ ~scan.running
    /\ scans' = scans + 1
    /\ scan' = [scan EXCEPT !.running = TRUE, !.driverActive = FALSE,
                            !.reconnect = Configured /\ ~staConnected]
    /\ Return("http", <<"armScan">>)
    /\ UNCHANGED <<configuration, staConnected, apActive, sta, fallbackArmed, timers,
                   driver, events, modeLock, stranded, puts, troubles>>

\* A timer that is still active cannot be started.  The mode is read without the lock
\* and changed with it.
ArmScanTimeout ==
    /\ At("http", "armScan")
    /\ \/ /\ ~timers["scanTimeout"] /\ CallWorks
          /\ Continue("http",
                (IF driver.mode = "AP" THEN <<"addSta">> ELSE <<>>)
             \o (IF scan.reconnect THEN <<"leave">> ELSE <<"tryScan">>))
       \/ /\ IF timers["scanTimeout"] THEN CallWorks ELSE CallFails
          /\ Return("http", <<"failScan">>)
    /\ Schedule("scanTimeout")
    /\ UNCHANGED <<serviceVars, driver, events, modeLock, stranded, puts, scans>>

AddSta ==
    /\ At("http", "addSta")
    /\ ModeIsFree("http")
    /\ \/ CallWorks /\ SetMode("APSTA") /\ Continue("http", <<>>)
       \/ /\ CallFails /\ Return("http", <<"failScan">>)
          /\ UNCHANGED <<driver, events>>
    /\ UNCHANGED <<serviceVars, timers, modeLock, stranded, puts, scans>>

\* A link that is being set up is given up first; its event starts the scan.
LeaveForScan ==
    /\ At("http", "leave")
    /\ \/ LinkIsClosed /\ Return("http", <<>>)
       \/ /\ IF driver.link = LinkDown THEN CallWorks ELSE CallFails
          /\ Return("http", <<"tryScan">>)
          /\ UNCHANGED <<driver, events>>
    /\ UNCHANGED <<serviceVars, timers, modeLock, stranded, puts, scans>>

TryScan(t) ==
    /\ At(t, "tryScan")
    /\ \/ /\ scan.running /\ ~scan.driverActive
          /\ scan' = [scan EXCEPT !.driverActive = TRUE]
          /\ \/ /\ HasSta(driver.mode) /\ CallWorks
                /\ driver' = [driver EXCEPT !.scanning = TRUE]
                /\ Continue(t, <<>>)
             \/ /\ IF HasSta(driver.mode) THEN CallFails ELSE CallWorks
                /\ Continue(t, <<"failScan">>)
                /\ UNCHANGED driver
       \/ /\ ~scan.running \/ scan.driverActive
          /\ Continue(t, <<>>)
          /\ UNCHANGED <<scan, driver, troubles>>
    /\ UNCHANGED <<configuration, staConnected, apActive, sta, fallbackArmed, timers,
                   events, modeLock, stranded, puts, scans>>

\* What follows a scan: a configuration that came meanwhile, or the connection.
AfterScan ==
    <<"returnToAp">> \o IF scan.applyAfter THEN <<"apply">>
                        ELSE IF scan.reconnect /\ ~staConnected
                             THEN <<"connect", "scheduleFallback">> ELSE <<>>

\* Mutant of EndedScan: the configuration that waits is applied by the next one.
EndedScanOnly ==
    [scan EXCEPT !.running = FALSE, !.driverActive = FALSE, !.reconnect = FALSE]

EndedScan == [scan EXCEPT !.running = FALSE, !.driverActive = FALSE,
                          !.reconnect = FALSE, !.applyAfter = FALSE]

FailScan(t) ==
    /\ At(t, "failScan")
    /\ IF scan.running
       THEN scan' = EndedScan /\ Continue(t, <<"stopScanTimer">> \o AfterScan)
       ELSE UNCHANGED scan /\ Continue(t, <<>>)
    /\ UNCHANGED <<configuration, staConnected, apActive, sta, fallbackArmed, timers,
                   driver, events, modeLock, boundVars>>

StopScanTimer(t) ==
    /\ At(t, "stopScanTimer")
    /\ StopTimer("scanTimeout")
    /\ Continue(t, <<>>)
    /\ UNCHANGED <<serviceVars, driver, events, modeLock, boundVars>>

CompleteScan(t) ==
    /\ At(t, "completeScan")
    /\ scan' = EndedScan
    /\ Continue(t, AfterScan)
    /\ UNCHANGED <<configuration, staConnected, apActive, sta, fallbackArmed, timers,
                   driver, events, modeLock, boundVars>>

\* return_to_ap_if_unconfigured()
ReturnToAp(t) ==
    /\ At(t, "returnToAp")
    /\ ModeIsFree(t)
    /\ \/ /\ apActive /\ ~Configured
          /\ CallWorks
          /\ SetMode("AP")
       \/ /\ IF apActive /\ ~Configured THEN CallFails ELSE CallWorks
          /\ UNCHANGED <<driver, events>>
    /\ Continue(t, <<>>)
    /\ UNCHANGED <<serviceVars, timers, modeLock, stranded, puts, scans>>

(***************************************************************************)
(* A new configuration.                                                    *)
(***************************************************************************)
AfterPersistFails == [sta EXCEPT !.transition = FALSE]

\* handle_network_put(): the configuration is stored, in a transition that lasts until
\* it is applied, with the mode lock.
PutNetwork ==
    /\ RequestArrives
    /\ puts < MaxPuts
    /\ modeLock = None
    /\ puts' = puts + 1
    /\ \/ /\ CallWorks
          /\ configuration' = configuration + 1
          /\ staConnected' = FALSE
          /\ sta' = [sta EXCEPT !.transition = TRUE, !.inFlight = FALSE]
          /\ modeLock' = "http"
          /\ Return("http", <<"configure">>)
       \/ /\ CallFails
          /\ sta' = AfterPersistFails
          /\ UNCHANGED <<configuration, staConnected, modeLock, todo>>
    /\ UNCHANGED <<apActive, scan, fallbackArmed, timers, driver, events, stranded, scans>>

\* apply_updated_wifi_configuration()
ApplyConfiguration(t) ==
    /\ At(t, "apply")
    /\ ModeIsFree(t)
    /\ modeLock' = t
    /\ sta' = [sta EXCEPT !.transition = TRUE]
    /\ Continue(t, <<"configure">>)
    /\ UNCHANGED <<configuration, staConnected, apActive, scan, fallbackArmed, timers,
                   driver, events, boundVars>>

\* During a scan the driver is left alone: the end of the scan applies it.
DeferToScan(t) ==
    /\ At(t, "configure") /\ scan.running
    /\ scan' = [scan EXCEPT !.applyAfter = TRUE, !.reconnect = TRUE]
    /\ modeLock' = None
    /\ Continue(t, <<>>)
    /\ UNCHANGED <<configuration, staConnected, apActive, sta, fallbackArmed, timers,
                   driver, events, boundVars>>

\* Mode, then configuration, of the driver.  A failure may come after the mode.
ConfigureDriver(t) ==
    LET keepAp == apActive /\ ~staConnected
        mode == IF keepAp THEN "APSTA" ELSE "STA"
    IN
    /\ At(t, "configure") /\ ~scan.running
    /\ \/ /\ CallWorks
          /\ driver' = [driver EXCEPT !.mode = mode, !.network = configuration]
          /\ events' = events \o ModeEvents(driver.mode, mode)
          /\ sta' = [sta EXCEPT !.applyPending = FALSE]
          /\ Continue(t, <<"relink">>)
       \/ /\ CallFails
          /\ SetMode(mode) \/ UNCHANGED <<driver, events>>
          /\ sta' = [sta EXCEPT !.applyPending = TRUE]
          /\ Continue(t, <<"recoverAp">>)
    /\ UNCHANGED <<configuration, staConnected, apActive, scan, fallbackArmed, timers,
                   modeLock, stranded, puts, scans>>

\* The end of the transition releases the mode lock; then schedule_fallback().
EndTransition(t, attempt) ==
    /\ sta' = [attempt EXCEPT !.transition = FALSE]
    /\ modeLock' = None
    /\ Continue(t, <<"scheduleFallback">>)

\* The old link is closed, and its event connects; without one, connect at once.
Relink(t) ==
    /\ At(t, "relink")
    /\ \/ /\ LinkIsClosed
          /\ stranded' = (stranded \/ sta.inFlight)
          /\ Schedule("connectRetry")
          /\ EndTransition(t, [sta EXCEPT !.disconnectPending = TRUE])
       \/ /\ driver.link = LinkDown /\ ConnectIsTaken
          /\ StopTimer("connectRetry")
          /\ EndTransition(t, [sta EXCEPT !.inFlight = TRUE, !.disconnectPending = FALSE])
          /\ UNCHANGED <<events, stranded>>
       \/ /\ CallFails
          /\ sta' = [sta EXCEPT !.disconnectPending = FALSE,
                                !.inFlight = @ /\ driver.link # LinkDown]
          /\ Continue(t, <<"recoverAp">>)
          /\ UNCHANGED <<timers, driver, events, modeLock, stranded>>
    /\ UNCHANGED <<configuration, staConnected, apActive, scan, fallbackArmed, puts,
                   scans>>

\* enable_soft_ap_locked(): a failure may come after the mode.
EnableAp(mode) ==
    \/ CallWorks /\ SetMode(mode) /\ apActive' = TRUE
    \/ CallFails /\ UNCHANGED apActive /\ (SetMode(mode) \/ UNCHANGED <<driver, events>>)

RecoverAp(t) ==
    /\ At(t, "recoverAp")
    /\ EnableAp("APSTA")
    /\ Schedule("connectRetry")
    /\ EndTransition(t, sta)
    /\ UNCHANGED <<configuration, staConnected, scan, fallbackArmed, stranded, puts, scans>>

(***************************************************************************)
(* The event loop.                                                         *)
(***************************************************************************)
Take(event) == Idle("event") /\ events # <<>> /\ Head(events) = event

StaStarted ==
    /\ Take("STA_START")
    /\ events' = Tail(events)
    /\ Return("event", IF scan.running THEN <<"tryScan">>
                       ELSE IF Configured /\ ~sta.transition THEN <<"connect">>
                            ELSE <<>>)
    /\ UNCHANGED <<serviceVars, timers, driver, modeLock, boundVars>>

\* The device's own disconnect does not end an attempt made since.
InFlightAfter(own) == sta.inFlight /\ own

StaDisconnected ==
    /\ Take("LEFT") \/ Take("LOST")
    /\ modeLock = None
    /\ events' = Tail(events)
    /\ staConnected' = FALSE
    /\ sta' = [sta EXCEPT !.disconnectPending = FALSE,
                          !.inFlight = InFlightAfter(sta.disconnectPending
                                                     /\ Head(events) = "LEFT")]
    /\ scan' = [scan EXCEPT !.reconnect = @ \/ (scan.running /\ Configured)]
    /\ Return("event", (IF scan.running THEN <<"tryScan">>
                        ELSE IF Configured /\ ~sta.transition THEN <<"connect">>
                             ELSE <<>>) \o <<"scheduleFallback">>)
    /\ UNCHANGED <<configuration, apActive, fallbackArmed, timers, driver, modeLock,
                   boundVars>>

\* finish_network_scan(): its results may be unreadable.
ScanDone ==
    /\ Take("SCAN_DONE")
    /\ events' = Tail(events)
    /\ IF scan.running
       THEN \E ending \in {"completeScan", "failScan"} :
                Return("event", <<ending>>)
            /\ StopTimer("scanTimeout")
       ELSE UNCHANGED <<todo, timers>>
    /\ UNCHANGED <<serviceVars, driver, modeLock, boundVars>>

ApStarted ==
    /\ Take("AP_START")
    /\ events' = Tail(events)
    /\ apActive' = TRUE
    /\ Return("event", <<"staOnly", "connect">>)
    /\ UNCHANGED <<configuration, staConnected, sta, scan, fallbackArmed, timers, driver,
                   modeLock, boundVars>>

ApStopped ==
    /\ Take("AP_STOP")
    /\ events' = Tail(events)
    /\ apActive' = FALSE
    /\ Return("event", IF Configured /\ ~staConnected THEN <<"scheduleFallback">>
                       ELSE <<>>)
    /\ UNCHANGED <<configuration, staConnected, sta, scan, fallbackArmed, timers, driver,
                   modeLock, boundVars>>

\* Mutant of AddressIsExpected: any address is taken for the new network's.
AddressIsCurrent == ~sta.transition /\ driver.link.state = "up"

\* Not in a transition, and of the network the configuration names.
AddressIsExpected ==
    /\ ~sta.transition
    /\ driver.link = [state |-> "up", network |-> configuration]

GotIp ==
    /\ Take("GOT_IP")
    /\ modeLock = None
    /\ events' = Tail(events)
    /\ IF AddressIsExpected
       THEN /\ staConnected' = TRUE
            /\ sta' = [sta EXCEPT !.inFlight = FALSE, !.disconnectPending = FALSE]
            /\ fallbackArmed' = FALSE
            /\ modeLock' = "event"
            /\ Return("event", <<"leaveAp">>)
       ELSE UNCHANGED <<staConnected, sta, fallbackArmed, modeLock, todo>>
    /\ UNCHANGED <<configuration, apActive, scan, timers, driver, boundVars>>

TimersWhenConnected ==
    [timers EXCEPT !["fallback"] = FALSE, !["connectRetry"] = FALSE,
                   !["staOnlyRetry"] = FALSE]

TimersWhenApStays == [TimersWhenConnected EXCEPT !["staOnlyRetry"] = TRUE]

\* Timers are stopped outside mutex_; then the access point goes.
LeaveAp ==
    /\ At("event", "leaveAp")
    /\ \/ CallWorks /\ SetMode("STA") /\ timers' = TimersWhenConnected
       \/ CallFails /\ timers' = TimersWhenApStays /\ UNCHANGED <<driver, events>>
    /\ modeLock' = None
    /\ Continue("event", <<>>)
    /\ UNCHANGED <<serviceVars, stranded, puts, scans>>

\* transition_to_sta_only()
TransitionToStaOnly(t) ==
    /\ At(t, "staOnly")
    /\ ModeIsFree(t)
    /\ \/ /\ staConnected /\ ~sta.transition
          /\ CallWorks
          /\ SetMode("STA")
          /\ StopTimer("staOnlyRetry")
          /\ Return(t, <<>>)
       \/ /\ staConnected /\ ~sta.transition
          /\ CallFails
          /\ Schedule("staOnlyRetry")
          /\ Continue(t, <<>>)
          /\ UNCHANGED <<driver, events>>
       \/ /\ ~staConnected \/ sta.transition
          /\ Continue(t, <<>>)
          /\ UNCHANGED <<timers, driver, events, troubles>>
    /\ UNCHANGED <<serviceVars, modeLock, stranded, puts, scans>>

(***************************************************************************)
(* The timer task.                                                         *)
(***************************************************************************)
\* WifiStaRetryState::action() chooses what is retried.
Callback(timer) ==
    CASE timer = "scanTimeout"  -> <<"stopScan", "failScan">>
      [] timer = "connectRetry" -> IF sta.applyPending THEN <<"apply">>
                                                     ELSE <<"connect">>
      [] timer = "staOnlyRetry" -> <<"staOnly">>

Fire(timer) ==
    /\ timer # "fallback"
    /\ Idle("timer")
    /\ timers[timer]
    /\ StopTimer(timer)
    /\ Return("timer", Callback(timer))
    /\ UNCHANGED <<serviceVars, driver, events, modeLock, boundVars>>

\* The timer task comes to the first section of this callback before the event loop
\* has handled both an address and a loss of the link.
ExpireFallback ==
    /\ Idle("timer")
    /\ timers["fallback"]
    /\ StopTimer("fallback")
    /\ fallbackArmed' = FALSE
    /\ Return("timer", IF fallbackArmed /\ ~staConnected THEN <<"enableAp">> ELSE <<>>)
    /\ UNCHANGED <<configuration, staConnected, apActive, sta, scan, driver, events,
                   modeLock, boundVars>>

EnableFallbackAp ==
    /\ At("timer", "enableAp")
    /\ ModeIsFree("timer")
    /\ \/ ~staConnected /\ EnableAp("APSTA")
       \/ staConnected /\ UNCHANGED <<apActive, driver, events, troubles>>
    /\ Continue("timer", IF troubles' # troubles THEN <<"scheduleFallback">> ELSE <<>>)
    /\ UNCHANGED <<configuration, staConnected, sta, scan, fallbackArmed, timers,
                   modeLock, stranded, puts, scans>>

StopScan ==
    /\ At("timer", "stopScan")
    /\ driver' = [driver EXCEPT !.scanning = FALSE]
    /\ events' \in {events} \cup IF driver.scanning THEN {Append(events, "SCAN_DONE")} ELSE {}
    /\ Continue("timer", <<>>)
    /\ UNCHANGED <<serviceVars, timers, modeLock, boundVars>>

(***************************************************************************)
(* What the driver does of its own.                                        *)
(***************************************************************************)
LinkComesUp ==
    /\ driver.link.state = "connecting"
    /\ driver' = [driver EXCEPT !.link.state = "up"]
    /\ events' = Append(events, "GOT_IP")
    /\ UNCHANGED troubles

LinkIsLost ==
    /\ driver.link # LinkDown
    /\ Trouble
    /\ driver' = [driver EXCEPT !.link = LinkDown]
    /\ events' = Append(events, "LOST")

ScanEnds ==
    /\ driver.scanning
    /\ driver' = [driver EXCEPT !.scanning = FALSE]
    /\ events' = Append(events, "SCAN_DONE")
    /\ UNCHANGED troubles

Driver ==
    /\ LinkComesUp \/ LinkIsLost \/ ScanEnds
    /\ UNCHANGED <<serviceVars, timers, todo, modeLock, stranded, puts, scans>>

(***************************************************************************)
(* start() and the specification.                                          *)
(***************************************************************************)
\* A station that cannot be started leaves the access point alone.
StartSta ==
    /\ At("http", "start") /\ Configured
    /\ CallWorks
    /\ driver' = [driver EXCEPT !.mode = "STA", !.network = configuration]
    /\ events' = <<"STA_START">>
    /\ Return("http", <<"scheduleFallback">>)
    /\ UNCHANGED <<serviceVars, timers, modeLock, stranded, puts, scans>>

StartAp ==
    /\ At("http", "start")
    /\ IF Configured THEN CallFails ELSE CallWorks
    /\ SetMode("AP")
    /\ apActive' = TRUE
    /\ Return("http", <<>>)
    /\ UNCHANGED <<configuration, staConnected, sta, scan, fallbackArmed, timers,
                   modeLock, stranded, puts, scans>>

Init ==
    /\ configuration \in {0, 1}
    /\ staConnected = FALSE
    /\ apActive = FALSE
    /\ sta = [transition |-> FALSE, inFlight |-> FALSE, disconnectPending |-> FALSE,
              applyPending |-> FALSE]
    /\ scan = [running |-> FALSE, driverActive |-> FALSE, reconnect |-> FALSE,
               applyAfter |-> FALSE]
    /\ fallbackArmed = FALSE
    /\ timers = [timer \in Timers |-> FALSE]
    /\ driver = [mode |-> "OFF", link |-> LinkDown, network |-> 0, scanning |-> FALSE]
    /\ events = <<>>
    /\ todo = [t \in Tasks |-> IF t = "http" THEN <<"start">> ELSE <<>>]
    /\ modeLock = None
    /\ stranded = FALSE
    /\ puts = 0 /\ scans = 0 /\ troubles = 0

\* Steps that any of the tasks may come to.
Step(t) ==
    \/ ScheduleFallback(t) \/ ConnectSta(t) \/ ConnectStaCall(t)
    \/ TryScan(t) \/ FailScan(t) \/ StopScanTimer(t) \/ CompleteScan(t)
    \/ ReturnToAp(t) \/ ApplyConfiguration(t) \/ DeferToScan(t) \/ ConfigureDriver(t)
    \/ Relink(t) \/ RecoverAp(t) \/ TransitionToStaOnly(t)

EventLoop ==
    \/ Step("event")
    \/ StaStarted \/ StaDisconnected \/ ScanDone \/ ApStarted \/ ApStopped
    \/ GotIp \/ LeaveAp

TimerTask ==
    \/ Step("timer")
    \/ EnableFallbackAp \/ StopScan

HttpTask ==
    \/ Step("http")
    \/ ArmScanTimeout \/ AddSta \/ LeaveForScan
    \/ StartSta \/ StartAp

Requests == RequestScan \/ PutNetwork

Next ==
    \/ EventLoop
    \/ TimerTask
    \/ ExpireFallback \/ \E timer \in Timers : Fire(timer)
    \/ HttpTask
    \/ Requests
    \/ Driver

\* The timer task goes on; and the steps that others have waiting are not put off for
\* ever by its retries.  Nothing is assumed of links, of the end of a scan and of requests.
Others == EventLoop \/ HttpTask \/ ExpireFallback \/ Fire("scanTimeout")

Spec == Init /\ [][Next]_vars /\ WF_vars(TimerTask) /\ SF_vars(Others)

(***************************************************************************)
(* Properties.                                                             *)
(***************************************************************************)
\* Every callback and request has ended and every event was handled.
Quiet == events = <<>> /\ \A t \in Tasks : Idle(t)

\* The device never stops trying its network: an attempt is under way, a retry timer
\* runs, or a scan will resume it; and none of the flags that hold attempts back is
\* left behind.  Excepted is an attempt that the device's own disconnect has ended
\* (README, section 6): InFlightAfter keeps it for a later one.  Nor does it stop
\* closing its access point: "a failed STA-only transition is retried until GOT_IP
\* converges to AP disabled" (DECISIONS.md), by its own timer or by the configuration
\* that is still to be applied, which sets the mode as well.
RetriesArePending ==
    Quiet =>
        /\ Configured /\ ~staConnected /\ HasSta(driver.mode) /\ ~stranded =>
               \/ sta.inFlight /\ driver.link # LinkDown
               \/ timers["connectRetry"]
               \/ scan.running /\ (scan.reconnect \/ scan.applyAfter)
        /\ sta.transition \/ scan.applyAfter => scan.running /\ scan.applyAfter
        /\ staConnected =>
               \/ driver.mode = "STA"
               \/ timers["staOnlyRetry"]
               \/ sta.applyPending /\ timers["connectRetry"]
               \/ scan.running /\ scan.applyAfter

\* The device says it is connected only over a link to the network it is configured
\* for, or until the event of the loss is handled: an address of the old network that
\* comes after a new configuration is not taken for its own.
ConnectedIsReal ==
    staConnected =>
        \/ driver.link = [state |-> "up", network |-> configuration]
        \/ \E n \in DOMAIN events : events[n] \in {"LEFT", "LOST"}

\* "Repeated STA authentication failures cannot postpone" the fallback (DECISIONS.md):
\* however connections, scans and configurations fail, the device is reachable again.
ReachableAgain == ~(staConnected \/ apActive) ~> staConnected \/ apActive

\* "A failed mode/configuration write must be retried before esp_wifi_connect();
\* otherwise the driver can reconnect with stale credentials"
\* (local_network_support.hpp).
NoStaleCredentials ==
    [][driver.link = LinkDown /\ driver'.link # LinkDown
         => driver'.link.network = configuration]_vars
=============================================================================
