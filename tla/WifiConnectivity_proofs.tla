----------------------- MODULE WifiConnectivity_proofs -----------------------
(***************************************************************************)
(* WifiConnectivity for any bounds.  The device says it is connected only  *)
(* over a link to the network it is configured for, or until it has handled*)
(* the event of the loss: a link that was up stays as it is unless its loss*)
(* is posted (KeepsLink), and a loss that is posted stays so until         *)
(* StaDisconnected takes it (ConnectedSafe).                               *)
(*                                                                         *)
(* And it never stops trying: whatever holds an attempt back leads to one, *)
(* by a timer, an event that waits or a step that a task has left          *)
(* (RetriesSafe).  TodoInv says what the tasks may have left and which of  *)
(* them has the mode lock, SoughtInv what leads on from any state between. *)
(***************************************************************************)
EXTENDS WifiConnectivity, TLAPS

----------------------------------------------------------------------------
(* The device says it is connected only over a link that is real.            *)

EventKinds == {"STA_START", "AP_START", "AP_STOP", "GOT_IP", "LEFT", "LOST", "SCAN_DONE"}

\* What a task may have left to do, once start() has run.
Steps == {"scheduleFallback", "connect", "connectCall", "armScan", "addSta", "leave",
          "tryScan", "stopScan", "failScan", "completeScan", "stopScanTimer",
          "returnToAp", "apply", "configure", "relink", "recoverAp", "leaveAp",
          "staOnly", "enableAp"}

LinkStates == {"down", "connecting", "up"}

\* Nothing has happened before start(), and no task comes back to it.
StartIsFirst ==
    \/ /\ todo = [t \in Tasks |-> IF t = "http" THEN <<"start">> ELSE <<>>]
       /\ ~staConnected
       /\ events = <<>>
       /\ modeLock = None
       /\ driver.mode = "OFF"
       /\ ~driver.scanning
       /\ driver.link = LinkDown
       /\ \A timer \in Timers : ~timers[timer]
    \/ todo \in [Tasks -> Seq(Steps)]

\* The loss of a link is still to be handled.
LossIsPending(posted) == \E n \in DOMAIN posted : posted[n] \in {"LEFT", "LOST"}

----------------------------------------------------------------------------
(* Sequences of events and of steps.                                         *)

\* What is known of a sequence made of two,
LEMMA ConcatenatedSequence ==
    ASSUME NEW S, NEW s \in Seq(S), NEW e \in Seq(S)
    PROVE  /\ s \o e \in Seq(S)
           /\ DOMAIN s = 1 .. Len(s) /\ Len(s) \in Nat /\ Len(e) \in Nat
           /\ DOMAIN (s \o e) = 1 .. Len(s) + Len(e)
           /\ \A n \in 1 .. Len(s) : (s \o e)[n] = s[n]
  OBVIOUS

\* of one with an element more,
LEMMA AppendedSequence ==
    ASSUME NEW S, NEW s \in Seq(S), NEW e \in S
    PROVE  /\ Append(s, e) \in Seq(S)
           /\ DOMAIN s = 1 .. Len(s) /\ Len(s) \in Nat
           /\ DOMAIN Append(s, e) = 1 .. Len(s) + 1
           /\ \A n \in 1 .. Len(s) : Append(s, e)[n] = s[n]
           /\ Append(s, e)[Len(s) + 1] = e
  OBVIOUS

\* of one whose head is gone,
LEMMA TailOfSequence ==
    ASSUME NEW S, NEW s \in Seq(S), s # <<>>
    PROVE  /\ Tail(s) \in Seq(S)
           /\ DOMAIN s = 1 .. Len(s) /\ Len(s) \in Nat \ {0}
           /\ DOMAIN Tail(s) = 1 .. Len(s) - 1
           /\ Head(s) = s[1] /\ Head(s) \in S
           /\ \A n \in 1 .. Len(s) - 1 : Tail(s)[n] = s[n + 1]
  OBVIOUS

\* and of short ones.
LEMMA ShortSequences ==
    ASSUME NEW S
    PROVE  /\ <<>> \in Seq(S)
           /\ \A a \in S : <<a>> \in Seq(S)
           /\ \A a, b \in S : <<a, b>> \in Seq(S)
  OBVIOUS

\* Sequences of the same elements are the same.
LEMMA SameSequence ==
    ASSUME NEW S, NEW s \in Seq(S), NEW e \in Seq(S), Len(s) = Len(e),
           \A n \in 1 .. Len(s) : s[n] = e[n]
    PROVE  s = e
  OBVIOUS

\* Of a sequence made of two, every element is one of theirs.
LEMMA BothParts ==
    ASSUME NEW S, NEW s \in Seq(S), NEW e \in Seq(S)
    PROVE  /\ s \o e \in Seq(S) /\ Len(s \o e) = Len(s) + Len(e)
           /\ \A n \in 1 .. Len(s) + Len(e) :
                  (s \o e)[n] = IF n <= Len(s) THEN s[n] ELSE e[n - Len(s)]
  OBVIOUS

\* Two steps one after the other.
LEMMA PairOf ==
    ASSUME NEW S, NEW a \in S, NEW b \in S
    PROVE  <<a>> \o <<b>> = <<a, b>>
  <1> DEFINE s == <<a>>
             e == <<b>>
             pair == <<a, b>>
  <1>1. /\ s \in Seq(S) /\ Len(s) = 1 /\ s[1] = a
        /\ e \in Seq(S) /\ Len(e) = 1 /\ e[1] = b
        /\ pair \in Seq(S) /\ Len(pair) = 2 /\ pair[1] = a /\ pair[2] = b
    OBVIOUS
  <1> HIDE DEF s, e, pair
  <1>2. /\ s \o e \in Seq(S) /\ Len(s \o e) = Len(s) + Len(e)
        /\ \A n \in 1 .. Len(s) + Len(e) :
               (s \o e)[n] = IF n <= Len(s) THEN s[n] ELSE e[n - Len(s)]
    BY <1>1, BothParts
  <1>3. (s \o e)[1] = a /\ (s \o e)[2] = b
    BY <1>1, <1>2
  <1>4. Len(s \o e) = 2
    BY <1>1, <1>2
  <1>5. s \o e = pair
    BY <1>1, <1>2, <1>3, <1>4, SameSequence
  <1> QED
    BY <1>5 DEF s, e, pair

\* Events that are posted go behind those that wait.
LEMMA PostedEvents ==
    ASSUME NEW s \in Seq(EventKinds), NEW e \in Seq(EventKinds)
    PROVE  /\ s \o e \in Seq(EventKinds)
           /\ LossIsPending(s) => LossIsPending(s \o e)
  <1>1. /\ s \o e \in Seq(EventKinds)
        /\ DOMAIN s = 1 .. Len(s) /\ Len(s) \in Nat /\ Len(e) \in Nat
        /\ DOMAIN (s \o e) = 1 .. Len(s) + Len(e)
        /\ \A n \in 1 .. Len(s) : (s \o e)[n] = s[n]
    BY ConcatenatedSequence
  <1>2. \A n \in DOMAIN s : n \in DOMAIN (s \o e)
    BY <1>1
  <1> QED
    BY <1>1, <1>2 DEF LossIsPending

\* An event is posted behind those that wait.
LEMMA PostedEvent ==
    ASSUME NEW s \in Seq(EventKinds), NEW e \in EventKinds
    PROVE  /\ Append(s, e) \in Seq(EventKinds)
           /\ LossIsPending(s) => LossIsPending(Append(s, e))
           /\ e \in {"LEFT", "LOST"} => LossIsPending(Append(s, e))
  <1>1. /\ Append(s, e) \in Seq(EventKinds) /\ DOMAIN s = 1 .. Len(s)
        /\ DOMAIN Append(s, e) = 1 .. Len(s) + 1 /\ Len(s) \in Nat
        /\ \A n \in 1 .. Len(s) : Append(s, e)[n] = s[n]
        /\ Append(s, e)[Len(s) + 1] = e
    BY AppendedSequence
  <1>2. Len(s) + 1 \in DOMAIN Append(s, e) /\ \A n \in DOMAIN s : n \in DOMAIN Append(s, e)
    BY <1>1
  <1> QED
    BY <1>1, <1>2 DEF LossIsPending

\* Handling another event leaves the loss pending.
LEMMA HandledEvent ==
    ASSUME NEW s \in Seq(EventKinds), s # <<>>
    PROVE  /\ Tail(s) \in Seq(EventKinds)
           /\ Head(s) \notin {"LEFT", "LOST"} /\ LossIsPending(s) => LossIsPending(Tail(s))
  <1>1. /\ Tail(s) \in Seq(EventKinds) /\ DOMAIN s = 1 .. Len(s) /\ Len(s) \in Nat \ {0}
        /\ DOMAIN Tail(s) = 1 .. Len(s) - 1 /\ Head(s) = s[1]
        /\ \A n \in 1 .. Len(s) - 1 : Tail(s)[n] = s[n + 1]
    BY TailOfSequence
  <1>2. ASSUME Head(s) \notin {"LEFT", "LOST"}, NEW n \in DOMAIN s, s[n] \in {"LEFT", "LOST"}
        PROVE  LossIsPending(Tail(s))
    <2>1. n # 1
      BY <1>1, <1>2
    <2>2. n - 1 \in 1 .. Len(s) - 1 /\ (n - 1) + 1 = n
      BY <1>1, <2>1
    <2>3. Tail(s)[n - 1] = s[n]
      BY <1>1, <2>2
    <2> QED
      BY <1>1, <1>2, <2>2, <2>3 DEF LossIsPending
  <1> QED
    BY <1>1, <1>2 DEF LossIsPending

\* A change of mode posts events of its own.
LEMMA ModeEventsType ==
    ASSUME NEW from, NEW to
    PROVE  ModeEvents(from, to) \in Seq(EventKinds)
  <1>1. \A e \in EventKinds : <<e>> \in Seq(EventKinds)
    BY ShortSequences
  <1>2. <<>> \in Seq(EventKinds)
    BY ShortSequences
  <1>3. \A s, e \in Seq(EventKinds) : s \o e \in Seq(EventKinds)
    BY ConcatenatedSequence
  <1> DEFINE stops == IF HasAp(from) /\ ~HasAp(to) THEN <<"AP_STOP">> ELSE <<>>
             station == IF HasSta(to) /\ ~HasSta(from) THEN <<"STA_START">> ELSE <<>>
             starts == IF HasAp(to) /\ ~HasAp(from) THEN <<"AP_START">> ELSE <<>>
  <1>4. "AP_STOP" \in EventKinds /\ "STA_START" \in EventKinds /\ "AP_START" \in EventKinds
    BY DEF EventKinds
  <1>5. stops \in Seq(EventKinds) /\ station \in Seq(EventKinds) /\ starts \in Seq(EventKinds)
    BY <1>1, <1>2, <1>4
  <1>6. ModeEvents(from, to) = stops \o station \o starts
    BY DEF ModeEvents
  <1> HIDE DEF stops, station, starts
  <1> QED
    BY <1>3, <1>5, <1>6

----------------------------------------------------------------------------
(* What is left to do: start() only at the start.                            *)

Started == todo \in [Tasks -> Seq(Steps)]

\* A task that goes on with other steps.
LEMMA TodoContinues ==
    ASSUME Started, NEW t \in Tasks, todo[t] # <<>>,
           NEW steps \in Seq(Steps), Continue(t, steps)
    PROVE  Started'
  <1>1. todo[t] \in Seq(Steps)
    BY DEF Started
  <1>2. Tail(todo[t]) \in Seq(Steps)
    BY <1>1, TailOfSequence
  <1>3. steps \o Tail(todo[t]) \in Seq(Steps)
    BY <1>2, ConcatenatedSequence
  <1> QED
    BY <1>3 DEF Continue, Started

\* A task that returns, or is given something to do.
LEMMA TodoReturns ==
    ASSUME Started, NEW t \in Tasks, NEW steps \in Seq(Steps), Return(t, steps)
    PROVE  Started'
  BY DEF Return, Started

\* Steps other than start() are no longer start().
LEMMA StartIsOver ==
    ASSUME Started, NEW t \in Tasks
    PROVE  ~At(t, "start")
  <1>1. ASSUME At(t, "start") PROVE FALSE
    <2>1. todo[t] \in Seq(Steps) /\ todo[t] # <<>> /\ Head(todo[t]) = "start"
      BY <1>1 DEF At, Started
    <2>2. Head(todo[t]) \in Steps
      BY <2>1, TailOfSequence
    <2> QED
      BY <2>1, <2>2 DEF Steps
  <1> QED
    BY <1>1

----------------------------------------------------------------------------
(* What a step does to the link.                                             *)

DriverStates ==
    [mode : {"OFF", "AP", "STA", "APSTA"},
     link : [state : LinkStates, network : Nat],
     network : Nat, scanning : BOOLEAN]

ConnectionTypeOK ==
    /\ configuration \in Nat
    /\ staConnected \in BOOLEAN
    /\ driver \in DriverStates
    /\ events \in Seq(EventKinds)

\* A link that was up is still there, or its loss waits to be handled.
KeepsLink ==
    /\ driver' \in DriverStates
    /\ events' \in Seq(EventKinds)
    /\ driver.link.state = "up" => driver'.link = driver.link \/ LossIsPending(events')
    /\ LossIsPending(events) => LossIsPending(events')

ConnectionInv == ConnectionTypeOK /\ ConnectedIsReal

\* A step that changes neither the flag nor the configuration.
LEMMA LinkIsKept ==
    ASSUME ConnectionInv, KeepsLink, UNCHANGED <<configuration, staConnected>>
    PROVE  ConnectionInv'
  <1>1. ConnectionTypeOK'
    BY DEF ConnectionInv, ConnectionTypeOK, KeepsLink
  <1>2. ConnectedIsReal'
    BY DEF ConnectionInv, ConnectionTypeOK, ConnectedIsReal, KeepsLink, LossIsPending
  <1> QED
    BY <1>1, <1>2 DEF ConnectionInv

\* A device that is not connected promises nothing.
LEMMA NotConnected ==
    ASSUME ConnectionTypeOK', ~staConnected'
    PROVE  ConnectionInv'
  BY DEF ConnectionInv, ConnectedIsReal

\* Calls of the driver: none,
LEMMA DriverAlone ==
    ASSUME ConnectionInv, UNCHANGED <<driver, events>>
    PROVE  KeepsLink
  BY DEF ConnectionInv, ConnectionTypeOK, KeepsLink

\* a mode is set,
LEMMA SetModeKeeps ==
    ASSUME ConnectionInv, NEW mode \in {"AP", "STA", "APSTA"}, SetMode(mode)
    PROVE  KeepsLink
  <1>1. ModeEvents(driver.mode, mode) \in Seq(EventKinds)
    BY ModeEventsType
  <1>2. /\ events' \in Seq(EventKinds)
        /\ LossIsPending(events) => LossIsPending(events')
    BY <1>1, PostedEvents DEF SetMode, ConnectionInv, ConnectionTypeOK
  <1>3. driver' = [driver EXCEPT !.mode = mode, !.scanning = driver.scanning /\ HasSta(mode)]
    BY DEF SetMode
  <1>4. (driver.scanning /\ HasSta(mode)) \in BOOLEAN
    BY DEF ConnectionInv, ConnectionTypeOK, DriverStates
  <1>5. driver' \in DriverStates /\ driver'.link = driver.link
    BY <1>3, <1>4 DEF ConnectionInv, ConnectionTypeOK, DriverStates
  <1> QED
    BY <1>2, <1>5 DEF KeepsLink

\* esp_wifi_connect(), which changes a link that is down,
LEMMA ConnectKeeps ==
    ASSUME ConnectionInv, ConnectIsTaken \/ ConnectIsRefused, UNCHANGED events
    PROVE  KeepsLink
  <1>1. CASE driver' = driver
    BY <1>1, DriverAlone
  <1>2. CASE CanConnect /\ driver' = [driver EXCEPT !.link = Connecting]
    <2>1. Connecting \in [state : LinkStates, network : Nat]
      BY DEF Connecting, LinkStates, ConnectionInv, ConnectionTypeOK, DriverStates
    <2>2. driver' \in DriverStates
      BY <1>2, <2>1 DEF ConnectionInv, ConnectionTypeOK, DriverStates
    <2>3. driver.link.state # "up"
      BY <1>2 DEF CanConnect, LinkDown
    <2> QED
      BY <2>2, <2>3 DEF KeepsLink, ConnectionInv, ConnectionTypeOK
  <1> QED
    BY <1>1, <1>2 DEF ConnectIsTaken, ConnectIsRefused

\* A link that goes down posts its event.
LEMMA LinkDownKeeps ==
    ASSUME ConnectionInv, NEW event \in {"LEFT", "LOST"},
           driver' = [driver EXCEPT !.link = LinkDown],
           events' = Append(events, event)
    PROVE  KeepsLink
  <1>1. LinkDown \in [state : LinkStates, network : Nat]
    BY DEF LinkDown, LinkStates
  <1>2. driver' \in DriverStates
    BY <1>1 DEF ConnectionInv, ConnectionTypeOK, DriverStates
  <1>3. event \in EventKinds
    BY DEF EventKinds
  <1>4. events' \in Seq(EventKinds) /\ LossIsPending(events')
    BY <1>3, PostedEvent DEF ConnectionInv, ConnectionTypeOK
  <1> QED
    BY <1>2, <1>4 DEF KeepsLink

\* esp_wifi_disconnect().
LEMMA LinkIsClosedKeeps ==
    ASSUME ConnectionInv, LinkIsClosed
    PROVE  KeepsLink
  BY LinkDownKeeps DEF LinkIsClosed

\* A scan that begins or ends.
LEMMA ScanningKeeps ==
    ASSUME ConnectionInv, NEW scanning \in BOOLEAN,
           driver' = [driver EXCEPT !.scanning = scanning],
           events' \in {events, Append(events, "SCAN_DONE")}
    PROVE  KeepsLink
  <1>1. driver' \in DriverStates /\ driver'.link = driver.link
    BY DEF ConnectionInv, ConnectionTypeOK, DriverStates
  <1>2. "SCAN_DONE" \in EventKinds /\ events \in Seq(EventKinds)
    BY DEF EventKinds, ConnectionInv, ConnectionTypeOK
  <1>3. events' \in Seq(EventKinds) /\ (LossIsPending(events) => LossIsPending(events'))
    BY <1>2, PostedEvent
  <1> QED
    BY <1>1, <1>3 DEF KeepsLink

\* An event other than the loss of a link is taken.
LEMMA TakeKeeps ==
    ASSUME ConnectionInv, NEW event \in EventKinds \ {"LEFT", "LOST"}, Take(event),
           events' = Tail(events), UNCHANGED driver
    PROVE  KeepsLink
  <1>1. /\ Tail(events) \in Seq(EventKinds)
        /\ LossIsPending(events) => LossIsPending(Tail(events))
    BY HandledEvent DEF Take, ConnectionInv, ConnectionTypeOK
  <1> QED
    BY <1>1 DEF KeepsLink, ConnectionInv, ConnectionTypeOK

----------------------------------------------------------------------------
(* What a step leaves to do.                                                 *)

\* Task t goes on with steps that are not start().
Goes(t) ==
    \E steps \in Seq(Steps) :
        (todo[t] # <<>> /\ Continue(t, steps)) \/ Return(t, steps)

\* So it never comes back to start().
LEMMA GoesOn ==
    ASSUME Started, NEW t \in Tasks, Goes(t)
    PROVE  Started'
  BY TodoContinues, TodoReturns DEF Goes

\* The lists of steps that the actions leave.
LEMMA StepLists ==
    /\ <<>> \in Seq(Steps)
    /\ \A a \in Steps : <<a>> \in Seq(Steps)
    /\ \A a, b \in Steps : <<a, b>> \in Seq(Steps)
    /\ \A s, r \in Seq(Steps) : s \o r \in Seq(Steps)
    /\ AfterScan \in Seq(Steps)
  <1>1. /\ <<>> \in Seq(Steps)
        /\ \A a \in Steps : <<a>> \in Seq(Steps)
        /\ \A a, b \in Steps : <<a, b>> \in Seq(Steps)
    BY ShortSequences
  <1>2. \A s, r \in Seq(Steps) : s \o r \in Seq(Steps)
    BY ConcatenatedSequence
  <1> DEFINE rest == IF scan.applyAfter THEN <<"apply">>
                     ELSE IF scan.reconnect /\ ~staConnected
                          THEN <<"connect", "scheduleFallback">> ELSE <<>>
  <1>3. {"returnToAp", "apply", "connect", "scheduleFallback"} \subseteq Steps
    BY DEF Steps
  <1>4. rest \in Seq(Steps) /\ <<"returnToAp">> \in Seq(Steps)
    BY <1>1, <1>3
  <1>5. AfterScan = <<"returnToAp">> \o rest
    BY DEF AfterScan
  <1> HIDE DEF rest
  <1>6. AfterScan \in Seq(Steps)
    BY <1>2, <1>4, <1>5
  <1> QED
    BY <1>1, <1>2, <1>6

----------------------------------------------------------------------------
(* The steps of the tasks.                                                   *)

\* The connection is as it was, and its task goes on.
Proceeds(t) == KeepsLink /\ UNCHANGED <<configuration, staConnected>> /\ Goes(t)

\* Such a step keeps the invariant.
LEMMA ProceedsKeeps ==
    ASSUME ConnectionInv, Started, NEW t \in Tasks, Proceeds(t)
    PROVE  ConnectionInv' /\ Started'
  BY LinkIsKept, GoesOn DEF Proceeds

\* A task at a step has one.
LEMMA AtHasSteps == \A t, step : At(t, step) => todo[t] # <<>>
  BY DEF At

\* Steps that leave the driver alone.
LEMMA QuietStep ==
    ASSUME ConnectionInv, NEW t \in Tasks,
           \/ ScheduleFallback(t) \/ ConnectSta(t) \/ FailScan(t) \/ StopScanTimer(t)
           \/ CompleteScan(t) \/ ApplyConfiguration(t) \/ DeferToScan(t)
    PROVE  Proceeds(t)
  <1>1. UNCHANGED <<configuration, staConnected, driver, events>>
    BY DEF ScheduleFallback, ConnectSta, FailScan, StopScanTimer, CompleteScan,
           ApplyConfiguration, DeferToScan, serviceVars
  <1>2. KeepsLink
    BY <1>1, DriverAlone
  <1>3. {"connectCall", "stopScanTimer", "configure"} \subseteq Steps
    BY DEF Steps
  <1>4. \E steps \in Seq(Steps) : todo[t] # <<>> /\ Continue(t, steps)
    <2>1. <<"stopScanTimer">> \o AfterScan \in Seq(Steps)
      <3>1. <<"stopScanTimer">> \in Seq(Steps)
        BY <1>3, StepLists
      <3> QED
        BY <3>1, StepLists
    <2>2. /\ <<>> \in Seq(Steps) /\ <<"connectCall">> \in Seq(Steps)
          /\ <<"configure">> \in Seq(Steps) /\ AfterScan \in Seq(Steps)
      BY <1>3, StepLists
    <2>3. todo[t] # <<>>
      BY AtHasSteps DEF ScheduleFallback, ConnectSta, FailScan, StopScanTimer, CompleteScan,
             ApplyConfiguration, DeferToScan
    <2>4. \/ Continue(t, <<>>) \/ Continue(t, <<"connectCall">>) \/ Continue(t, <<"configure">>)
          \/ Continue(t, AfterScan) \/ Continue(t, <<"stopScanTimer">> \o AfterScan)
      BY DEF ScheduleFallback, ConnectSta, FailScan, StopScanTimer, CompleteScan,
             ApplyConfiguration, DeferToScan
    <2> QED
      BY <2>1, <2>2, <2>3, <2>4
  <1> QED
    BY <1>1, <1>2, <1>4 DEF Proceeds, Goes

\* The call of esp_wifi_connect().
LEMMA ConnectCallStep ==
    ASSUME ConnectionInv, NEW t \in Tasks, ConnectStaCall(t)
    PROVE  Proceeds(t)
  <1>1. KeepsLink /\ UNCHANGED <<configuration, staConnected>>
    BY ConnectKeeps DEF ConnectStaCall
  <1>2. todo[t] # <<>> /\ Continue(t, <<>>)
    BY AtHasSteps DEF ConnectStaCall
  <1> QED
    BY <1>1, <1>2, StepLists DEF Proceeds, Goes

\* A scan is begun by the driver, or fails.
LEMMA TryScanStep ==
    ASSUME ConnectionInv, NEW t \in Tasks, TryScan(t)
    PROVE  Proceeds(t)
  <1>1. UNCHANGED <<configuration, staConnected, events>>
    BY DEF TryScan
  <1>2. KeepsLink
    <2>1. driver' = driver \/ driver' = [driver EXCEPT !.scanning = TRUE]
      BY DEF TryScan
    <2> QED
      BY <1>1, <2>1, DriverAlone, ScanningKeeps
  <1>3. <<"failScan">> \in Seq(Steps) /\ <<>> \in Seq(Steps)
    <2>1. "failScan" \in Steps
      BY DEF Steps
    <2> QED
      BY <2>1, StepLists
  <1>4. todo[t] # <<>> /\ (Continue(t, <<>>) \/ Continue(t, <<"failScan">>))
    BY AtHasSteps DEF TryScan
  <1> QED
    BY <1>1, <1>2, <1>3, <1>4 DEF Proceeds, Goes

\* Steps that may set a mode of the driver.
LEMMA ModeStep ==
    ASSUME ConnectionInv, NEW t \in Tasks,
           ReturnToAp(t) \/ RecoverAp(t) \/ TransitionToStaOnly(t)
    PROVE  Proceeds(t)
  <1>1. UNCHANGED <<configuration, staConnected>>
    BY DEF ReturnToAp, RecoverAp, TransitionToStaOnly, serviceVars
  <1>2. \/ SetMode("AP") \/ SetMode("APSTA") \/ SetMode("STA") \/ UNCHANGED <<driver, events>>
    BY DEF ReturnToAp, RecoverAp, TransitionToStaOnly, EnableAp
  <1>3. KeepsLink
    BY <1>2, SetModeKeeps, DriverAlone
  <1>4. <<"scheduleFallback">> \in Seq(Steps) /\ <<>> \in Seq(Steps)
    <2>1. "scheduleFallback" \in Steps
      BY DEF Steps
    <2> QED
      BY <2>1, StepLists
  <1>5. /\ todo[t] # <<>>
        /\ Continue(t, <<>>) \/ Continue(t, <<"scheduleFallback">>) \/ Return(t, <<>>)
    BY AtHasSteps DEF ReturnToAp, RecoverAp, TransitionToStaOnly, EndTransition
  <1> QED
    BY <1>1, <1>3, <1>4, <1>5 DEF Proceeds, Goes

\* Mode and configuration of the driver: its link stays.
LEMMA ConfigureStep ==
    ASSUME ConnectionInv, NEW t \in Tasks, ConfigureDriver(t)
    PROVE  Proceeds(t)
  <1> DEFINE mode == IF apActive /\ ~staConnected THEN "APSTA" ELSE "STA"
  <1>0. mode \in {"AP", "STA", "APSTA"}
    OBVIOUS
  <1>1. UNCHANGED <<configuration, staConnected>>
    BY DEF ConfigureDriver
  <1>2. ASSUME SetMode(mode) \/ UNCHANGED <<driver, events>> PROVE KeepsLink
    BY <1>0, <1>2, SetModeKeeps, DriverAlone
  <1>3. ASSUME driver' = [driver EXCEPT !.mode = mode, !.network = configuration],
               events' = events \o ModeEvents(driver.mode, mode)
        PROVE  KeepsLink
    <2>1. ModeEvents(driver.mode, mode) \in Seq(EventKinds)
      BY ModeEventsType
    <2>2. /\ events' \in Seq(EventKinds)
          /\ LossIsPending(events) => LossIsPending(events')
      BY <1>3, <2>1, PostedEvents DEF ConnectionInv, ConnectionTypeOK
    <2>3. driver' \in DriverStates /\ driver'.link = driver.link
      BY <1>3 DEF ConnectionInv, ConnectionTypeOK, DriverStates
    <2> QED
      BY <2>2, <2>3 DEF KeepsLink
  <1>4. KeepsLink
    <2>1. \/ SetMode(mode) \/ UNCHANGED <<driver, events>>
          \/ /\ driver' = [driver EXCEPT !.mode = mode, !.network = configuration]
             /\ events' = events \o ModeEvents(driver.mode, mode)
      BY DEF ConfigureDriver
    <2> QED
      BY <1>2, <1>3, <2>1
  <1>5. <<"relink">> \in Seq(Steps) /\ <<"recoverAp">> \in Seq(Steps)
    <2>1. "relink" \in Steps /\ "recoverAp" \in Steps
      BY DEF Steps
    <2> QED
      BY <2>1, StepLists
  <1>6. todo[t] # <<>> /\ (Continue(t, <<"relink">>) \/ Continue(t, <<"recoverAp">>))
    BY AtHasSteps DEF ConfigureDriver
  <1> QED
    BY <1>1, <1>4, <1>5, <1>6 DEF Proceeds, Goes

\* The old link is closed, or a new one begun.
LEMMA RelinkStep ==
    ASSUME ConnectionInv, NEW t \in Tasks, Relink(t)
    PROVE  Proceeds(t)
  <1>1. UNCHANGED <<configuration, staConnected>>
    BY DEF Relink
  <1>2. \/ LinkIsClosed \/ (ConnectIsTaken /\ UNCHANGED events) \/ UNCHANGED <<driver, events>>
    BY DEF Relink
  <1>3. KeepsLink
    BY <1>2, LinkIsClosedKeeps, ConnectKeeps, DriverAlone
  <1>4. <<"scheduleFallback">> \in Seq(Steps) /\ <<"recoverAp">> \in Seq(Steps)
    <2>1. "scheduleFallback" \in Steps /\ "recoverAp" \in Steps
      BY DEF Steps
    <2> QED
      BY <2>1, StepLists
  <1>5. todo[t] # <<>> /\ (Continue(t, <<"scheduleFallback">>) \/ Continue(t, <<"recoverAp">>))
    BY AtHasSteps DEF Relink, EndTransition
  <1> QED
    BY <1>1, <1>3, <1>4, <1>5 DEF Proceeds, Goes

\* So do all the steps that any of the tasks may come to.
LEMMA StepProceeds ==
    ASSUME ConnectionInv, NEW t \in Tasks, Step(t)
    PROVE  Proceeds(t)
  BY QuietStep, ConnectCallStep, TryScanStep, ModeStep, ConfigureStep, RelinkStep DEF Step

----------------------------------------------------------------------------
(* Events, callbacks, requests and what the driver does of its own.          *)

\* Events that tell nothing of the link.
LEMMA EventStep ==
    ASSUME ConnectionInv, Started, StaStarted \/ ScanDone \/ ApStarted \/ ApStopped
    PROVE  ConnectionInv' /\ Started'
  <1>1. /\ UNCHANGED <<configuration, staConnected, driver>> /\ events' = Tail(events)
        /\ \E event \in EventKinds \ {"LEFT", "LOST"} : Take(event)
    BY DEF StaStarted, ScanDone, ApStarted, ApStopped, serviceVars, EventKinds
  <1>2. ConnectionInv'
    BY <1>1, TakeKeeps, LinkIsKept
  <1>3. {"tryScan", "connect", "completeScan", "failScan", "staOnly", "scheduleFallback"}
            \subseteq Steps
    BY DEF Steps
  <1>4. /\ <<>> \in Seq(Steps) /\ <<"tryScan">> \in Seq(Steps) /\ <<"connect">> \in Seq(Steps)
        /\ <<"completeScan">> \in Seq(Steps) /\ <<"failScan">> \in Seq(Steps)
        /\ <<"staOnly", "connect">> \in Seq(Steps) /\ <<"scheduleFallback">> \in Seq(Steps)
    BY <1>3, StepLists
  <1>5. \/ Return("event", <<>>) \/ Return("event", <<"tryScan">>)
        \/ Return("event", <<"connect">>) \/ Return("event", <<"completeScan">>)
        \/ Return("event", <<"failScan">>) \/ Return("event", <<"staOnly", "connect">>)
        \/ Return("event", <<"scheduleFallback">>) \/ UNCHANGED todo
    BY DEF StaStarted, ScanDone, ApStarted, ApStopped
  <1>6. Started'
    <2>1. "event" \in Tasks
      BY DEF Tasks
    <2>2. CASE UNCHANGED todo
      BY <2>2 DEF Started
    <2> QED
      BY <1>4, <1>5, <2>1, <2>2, TodoReturns
  <1> QED
    BY <1>2, <1>6

\* The loss of a link is handled: the device is no longer connected.
LEMMA DisconnectedStep ==
    ASSUME ConnectionInv, Started, StaDisconnected
    PROVE  ConnectionInv' /\ Started'
  <1>1. UNCHANGED <<configuration, driver>> /\ staConnected' = FALSE /\ events' = Tail(events)
        /\ events # <<>>
    BY DEF StaDisconnected, Take
  <1>2. ConnectionTypeOK'
    <2>1. events' \in Seq(EventKinds)
      BY <1>1, TailOfSequence DEF ConnectionInv, ConnectionTypeOK
    <2> QED
      BY <1>1, <2>1 DEF ConnectionInv, ConnectionTypeOK
  <1>3. ConnectionInv'
    BY <1>1, <1>2, NotConnected
  <1> DEFINE first == IF scan.running THEN <<"tryScan">>
                      ELSE IF Configured /\ ~sta.transition THEN <<"connect">> ELSE <<>>
  <1>4. {"tryScan", "connect", "scheduleFallback"} \subseteq Steps
    BY DEF Steps
  <1>5. first \in Seq(Steps) /\ <<"scheduleFallback">> \in Seq(Steps)
    BY <1>4, StepLists
  <1>6. Return("event", first \o <<"scheduleFallback">>)
    BY DEF StaDisconnected
  <1> HIDE DEF first
  <1>7. Started'
    BY <1>5, <1>6, StepLists, TodoReturns DEF Tasks
  <1> QED
    BY <1>3, <1>7

\* An address: the link it came over is still up, and is of the configured network.
LEMMA GotIpStep ==
    ASSUME ConnectionInv, Started, GotIp
    PROVE  ConnectionInv' /\ Started'
  <1>1. UNCHANGED <<configuration, driver>> /\ events' = Tail(events) /\ Take("GOT_IP")
    BY DEF GotIp
  <1>2. KeepsLink
    BY <1>1, TakeKeeps DEF EventKinds
  <1>3. CASE AddressIsExpected
    <2>1. staConnected' = TRUE /\ Return("event", <<"leaveAp">>)
      BY <1>3 DEF GotIp
    <2>2. driver'.link = [state |-> "up", network |-> configuration']
      BY <1>1, <1>3 DEF AddressIsExpected
    <2>3. ConnectionTypeOK'
      BY <1>1, <1>2, <2>1 DEF ConnectionInv, ConnectionTypeOK, KeepsLink
    <2>4. ConnectionInv'
      BY <2>2, <2>3 DEF ConnectionInv, ConnectedIsReal
    <2>5. "leaveAp" \in Steps
      BY DEF Steps
    <2>6. Started'
      BY <2>1, <2>5, StepLists, TodoReturns DEF Tasks
    <2> QED
      BY <2>4, <2>6
  <1>4. CASE ~AddressIsExpected
    <2>1. UNCHANGED <<staConnected, todo>>
      BY <1>4 DEF GotIp
    <2> QED
      BY <1>1, <1>2, <2>1, LinkIsKept DEF Started
  <1> QED
    BY <1>3, <1>4

\* The access point goes when the device is connected.
LEMMA LeaveApStep ==
    ASSUME ConnectionInv, LeaveAp
    PROVE  Proceeds("event")
  <1>1. /\ UNCHANGED <<configuration, staConnected>>
        /\ SetMode("STA") \/ UNCHANGED <<driver, events>>
    BY DEF LeaveAp, serviceVars
  <1>2. KeepsLink
    BY <1>1, SetModeKeeps, DriverAlone
  <1>3. todo["event"] # <<>> /\ Continue("event", <<>>)
    BY AtHasSteps DEF LeaveAp
  <1> QED
    BY <1>1, <1>2, <1>3, StepLists DEF Proceeds, Goes

\* What the timers' callbacks do is not start().
LEMMA CallbackType == \A timer \in Timers \ {"fallback"} : Callback(timer) \in Seq(Steps)
  <1>1. {"stopScan", "failScan", "apply", "connect", "staOnly"} \subseteq Steps
    BY DEF Steps
  <1>2. /\ <<"stopScan", "failScan">> \in Seq(Steps) /\ <<"apply">> \in Seq(Steps)
        /\ <<"connect">> \in Seq(Steps) /\ <<"staOnly">> \in Seq(Steps)
    BY <1>1, StepLists
  <1> QED
    BY <1>2 DEF Callback, Timers

\* The timer task.
LEMMA TimerStep ==
    ASSUME ConnectionInv, Started,
           \/ ExpireFallback \/ EnableFallbackAp \/ StopScan \/ \E timer \in Timers : Fire(timer)
    PROVE  ConnectionInv' /\ Started'
  <1>t. "timer" \in Tasks
    BY DEF Tasks
  <1>1. CASE ExpireFallback \/ \E timer \in Timers : Fire(timer)
    <2>1. UNCHANGED <<configuration, staConnected, driver, events>>
      BY <1>1 DEF ExpireFallback, Fire, serviceVars
    <2>2. "enableAp" \in Steps
      BY DEF Steps
    <2>3. \/ Return("timer", <<"enableAp">>) \/ Return("timer", <<>>)
          \/ \E timer \in Timers \ {"fallback"} : Return("timer", Callback(timer))
      BY <1>1 DEF ExpireFallback, Fire
    <2>4. \E steps \in Seq(Steps) : Return("timer", steps)
      BY <2>2, <2>3, CallbackType, StepLists
    <2> QED
      BY <1>t, <2>1, <2>4, DriverAlone, LinkIsKept, TodoReturns
  <1>2. CASE EnableFallbackAp
    <2>1. /\ UNCHANGED <<configuration, staConnected>>
          /\ SetMode("APSTA") \/ UNCHANGED <<driver, events>>
      BY <1>2 DEF EnableFallbackAp, EnableAp
    <2>2. "scheduleFallback" \in Steps
      BY DEF Steps
    <2>3. /\ todo["timer"] # <<>>
          /\ Continue("timer", <<>>) \/ Continue("timer", <<"scheduleFallback">>)
      BY <1>2, AtHasSteps DEF EnableFallbackAp
    <2>4. <<>> \in Seq(Steps) /\ <<"scheduleFallback">> \in Seq(Steps)
      BY <2>2, StepLists
    <2>5. Started'
      BY <1>t, <2>3, <2>4, TodoContinues
    <2> QED
      BY <2>1, <2>5, SetModeKeeps, DriverAlone, LinkIsKept
  <1>3. CASE StopScan
    <2>1. /\ UNCHANGED <<configuration, staConnected>>
          /\ driver' = [driver EXCEPT !.scanning = FALSE]
          /\ events' \in {events, Append(events, "SCAN_DONE")}
          /\ todo["timer"] # <<>> /\ Continue("timer", <<>>)
      BY <1>3, AtHasSteps DEF StopScan, serviceVars
    <2>2. Started'
      BY <1>t, <2>1, StepLists, TodoContinues
    <2> QED
      BY <2>1, <2>2, ScanningKeeps, LinkIsKept
  <1> QED
    BY <1>1, <1>2, <1>3

----------------------------------------------------------------------------
\* The HTTP task's own steps of a scan.
LEMMA ScanRequestStep ==
    ASSUME ConnectionInv, ArmScanTimeout \/ AddSta \/ LeaveForScan
    PROVE  Proceeds("http")
  <1>1. UNCHANGED <<configuration, staConnected>>
    BY DEF ArmScanTimeout, AddSta, LeaveForScan, serviceVars
  <1>2. KeepsLink
    <2>1. SetMode("APSTA") \/ LinkIsClosed \/ UNCHANGED <<driver, events>>
      BY DEF ArmScanTimeout, AddSta, LeaveForScan
    <2> QED
      BY <2>1, SetModeKeeps, LinkIsClosedKeeps, DriverAlone
  <1>3. {"addSta", "leave", "tryScan", "failScan"} \subseteq Steps
    BY DEF Steps
  <1>4. /\ <<>> \in Seq(Steps) /\ <<"addSta">> \in Seq(Steps) /\ <<"leave">> \in Seq(Steps)
        /\ <<"tryScan">> \in Seq(Steps) /\ <<"failScan">> \in Seq(Steps)
    BY <1>3, StepLists
  <1> DEFINE station == IF driver.mode = "AP" THEN <<"addSta">> ELSE <<>>
             begin == IF scan.reconnect THEN <<"leave">> ELSE <<"tryScan">>
  <1>5. station \o begin \in Seq(Steps)
    <2>1. station \in Seq(Steps) /\ begin \in Seq(Steps)
      BY <1>4
    <2> HIDE DEF station, begin
    <2> QED
      BY <2>1, StepLists
  <1>6. /\ todo["http"] # <<>>
        /\ \/ Continue("http", station \o begin) \/ Continue("http", <<>>)
           \/ Return("http", <<"failScan">>) \/ Return("http", <<>>)
           \/ Return("http", <<"tryScan">>)
    BY AtHasSteps DEF ArmScanTimeout, AddSta, LeaveForScan
  <1> HIDE DEF station, begin
  <1> QED
    BY <1>1, <1>2, <1>4, <1>5, <1>6 DEF Proceeds, Goes

\* Requests: a scan, or a configuration that takes the connection with it.
LEMMA RequestStep ==
    ASSUME ConnectionInv, Started, Requests
    PROVE  ConnectionInv' /\ Started'
  <1>1. {"armScan", "configure"} \subseteq Steps /\ "http" \in Tasks
    BY DEF Steps, Tasks
  <1>2. <<"armScan">> \in Seq(Steps) /\ <<"configure">> \in Seq(Steps)
    BY <1>1, StepLists
  <1>3. CASE RequestScan
    <2>1. UNCHANGED <<configuration, staConnected, driver, events>>
          /\ Return("http", <<"armScan">>)
      BY <1>3 DEF RequestScan
    <2> QED
      BY <1>1, <1>2, <2>1, DriverAlone, LinkIsKept, TodoReturns
  <1>4. CASE PutNetwork
    <2>1. UNCHANGED <<driver, events>>
      BY <1>4 DEF PutNetwork
    <2>2. CASE /\ configuration' = configuration + 1 /\ staConnected' = FALSE
               /\ Return("http", <<"configure">>)
      <3>1. configuration' \in Nat
        BY <2>2 DEF ConnectionInv, ConnectionTypeOK
      <3>2. staConnected' \in BOOLEAN
        BY <2>2
      <3>3. ConnectionTypeOK'
        BY <2>1, <3>1, <3>2 DEF ConnectionInv, ConnectionTypeOK
      <3> QED
        BY <1>1, <1>2, <2>2, <3>3, NotConnected, TodoReturns
    <2>3. CASE UNCHANGED <<configuration, staConnected, todo>>
      BY <2>1, <2>3, DriverAlone, LinkIsKept DEF Started
    <2> QED
      BY <1>4, <2>2, <2>3 DEF PutNetwork
  <1> QED
    BY <1>3, <1>4 DEF Requests

\* The driver: a link that comes up was not up before.
LEMMA DriverStep ==
    ASSUME ConnectionInv, Started, Driver
    PROVE  ConnectionInv' /\ Started'
  <1>1. UNCHANGED <<configuration, staConnected, todo>>
    BY DEF Driver, serviceVars
  <1>2. ASSUME LinkComesUp PROVE KeepsLink
    <2>1. /\ driver.link.state = "connecting"
          /\ driver' = [driver EXCEPT !.link.state = "up"]
          /\ events' = Append(events, "GOT_IP")
      BY <1>2 DEF LinkComesUp
    <2>2. "up" \in LinkStates /\ "GOT_IP" \in EventKinds
      BY DEF LinkStates, EventKinds
    <2>3. driver' \in DriverStates
      BY <2>1, <2>2 DEF ConnectionInv, ConnectionTypeOK, DriverStates
    <2>4. events' \in Seq(EventKinds) /\ (LossIsPending(events) => LossIsPending(events'))
      BY <2>1, <2>2, PostedEvent DEF ConnectionInv, ConnectionTypeOK
    <2> QED
      BY <2>1, <2>3, <2>4 DEF KeepsLink
  <1>3. ASSUME LinkIsLost PROVE KeepsLink
    BY <1>3, LinkDownKeeps DEF LinkIsLost
  <1>4. ASSUME ScanEnds PROVE KeepsLink
    BY <1>4, ScanningKeeps DEF ScanEnds
  <1>5. KeepsLink
    BY <1>2, <1>3, <1>4 DEF Driver
  <1> QED
    BY <1>1, <1>5, LinkIsKept DEF Started

\* Before start() there is nothing else to do.
LEMMA NothingElseAtStart ==
    ASSUME StartIsFirst, ~Started, Next
    PROVE  StartSta \/ StartAp
  <1>1. /\ todo = [t \in Tasks |-> IF t = "http" THEN <<"start">> ELSE <<>>]
        /\ events = <<>> /\ driver.mode = "OFF" /\ ~driver.scanning
        /\ driver.link = LinkDown /\ \A timer \in Timers : ~timers[timer]
    BY DEF StartIsFirst, Started
  <1>2. \A t \in Tasks : \A step : At(t, step) => t = "http" /\ step = "start"
    <2>1. \A t \in Tasks : todo[t] = IF t = "http" THEN <<"start">> ELSE <<>>
      BY <1>1
    <2>2. Head(<<"start">>) = "start"
      OBVIOUS
    <2> QED
      BY <2>1, <2>2 DEF At
  <1>3. {"event", "timer", "http"} = Tasks
    BY DEF Tasks
  <1>4. ASSUME NEW t \in Tasks, Step(t) PROVE FALSE
    BY <1>2, <1>4 DEF Step, ScheduleFallback, ConnectSta, ConnectStaCall, TryScan, FailScan,
           StopScanTimer, CompleteScan, ReturnToAp, ApplyConfiguration, DeferToScan,
           ConfigureDriver, Relink, RecoverAp, TransitionToStaOnly
  <1>5. ~(StaStarted \/ StaDisconnected \/ ScanDone \/ ApStarted \/ ApStopped \/ GotIp)
    BY <1>1 DEF StaStarted, StaDisconnected, ScanDone, ApStarted, ApStopped, GotIp, Take
  <1>6. ~(LeaveAp \/ EnableFallbackAp \/ StopScan \/ ArmScanTimeout \/ AddSta \/ LeaveForScan)
    <2>1. ~At("event", "leaveAp") /\ ~At("timer", "enableAp") /\ ~At("timer", "stopScan")
      BY <1>2, <1>3
    <2>2. ~At("http", "armScan") /\ ~At("http", "addSta") /\ ~At("http", "leave")
      BY <1>2, <1>3
    <2> QED
      BY <2>1, <2>2 DEF LeaveAp, EnableFallbackAp, StopScan, ArmScanTimeout, AddSta, LeaveForScan
  <1>7. ~ExpireFallback /\ \A timer \in Timers : ~Fire(timer)
    BY <1>1 DEF ExpireFallback, Fire, Timers
  <1>8. ~Requests
    BY <1>1 DEF Requests, RequestScan, PutNetwork, RequestArrives
  <1>9. ~Driver
    BY <1>1 DEF Driver, LinkComesUp, LinkIsLost, ScanEnds, LinkDown
  <1> QED
    BY <1>3, <1>4, <1>5, <1>6, <1>7, <1>8, <1>9 DEF Next, EventLoop, TimerTask, HttpTask

\* start(): nothing is connected yet.
LEMMA StartStep ==
    ASSUME ConnectionInv, StartIsFirst, ~Started, StartSta \/ StartAp
    PROVE  ConnectionInv' /\ Started'
  <1>1. /\ todo = [t \in Tasks |-> IF t = "http" THEN <<"start">> ELSE <<>>]
        /\ ~staConnected /\ events = <<>>
    BY DEF StartIsFirst, Started
  <1>2. "scheduleFallback" \in Steps /\ "STA_START" \in EventKinds
    BY DEF Steps, EventKinds
  <1>3. /\ <<>> \in Seq(Steps) /\ <<"scheduleFallback">> \in Seq(Steps)
        /\ <<"STA_START">> \in Seq(EventKinds)
    BY <1>2, StepLists, ShortSequences
  <1>4. UNCHANGED <<configuration, staConnected>>
    BY DEF StartSta, StartAp, serviceVars
  <1>5. ASSUME StartSta PROVE ConnectionInv'
    <2>1. /\ driver' = [driver EXCEPT !.mode = "STA", !.network = configuration]
          /\ events' = <<"STA_START">>
      BY <1>5 DEF StartSta
    <2>2. driver' \in DriverStates
      BY <2>1 DEF ConnectionInv, ConnectionTypeOK, DriverStates
    <2> QED
      BY <1>1, <1>3, <1>4, <2>1, <2>2, NotConnected DEF ConnectionInv, ConnectionTypeOK
  <1>6. ASSUME StartAp PROVE ConnectionInv'
    <2>1. SetMode("AP")
      BY <1>6 DEF StartAp
    <2> QED
      BY <1>4, <2>1, SetModeKeeps, LinkIsKept
  <1>7. Started'
    <2>1. Return("http", <<"scheduleFallback">>) \/ Return("http", <<>>)
      BY DEF StartSta, StartAp
    <2>2. \E steps \in Seq(Steps) : todo' = [todo EXCEPT !["http"] = steps]
      BY <1>3, <2>1 DEF Return
    <2> QED
      BY <1>1, <1>3, <2>2 DEF Started, Tasks
  <1> QED
    BY <1>5, <1>6, <1>7

\* Nothing is connected before start().
LEMMA InitConnected == Init => ConnectionInv /\ StartIsFirst
  <1> SUFFICES ASSUME Init PROVE ConnectionInv /\ StartIsFirst
    OBVIOUS
  <1>1. LinkDown \in [state : LinkStates, network : Nat]
    BY DEF LinkDown, LinkStates
  <1>2. driver = [mode |-> "OFF", link |-> LinkDown, network |-> 0, scanning |-> FALSE]
    BY DEF Init
  <1>3. driver \in DriverStates
    BY <1>1, <1>2 DEF DriverStates
  <1>4. <<>> \in Seq(EventKinds)
    BY ShortSequences
  <1>5. staConnected = FALSE /\ configuration \in Nat /\ events = <<>>
    BY DEF Init
  <1>6. ConnectionInv
    BY <1>3, <1>4, <1>5 DEF ConnectionInv, ConnectionTypeOK, ConnectedIsReal
  <1>7. \A timer \in Timers : timers[timer] = FALSE
    BY DEF Init
  <1>8. driver.mode = "OFF" /\ driver.scanning = FALSE /\ driver.link = LinkDown
    BY <1>2
  <1>9. StartIsFirst
    BY <1>5, <1>7, <1>8 DEF Init, StartIsFirst
  <1> QED
    BY <1>6, <1>9

\* A step keeps what is known of the connection, and start() is not come back to.
LEMMA ConnectionStep ==
    ASSUME ConnectionInv, StartIsFirst, [Next]_vars
    PROVE  ConnectionInv' /\ StartIsFirst' /\ (Next => Started')
  <1>1. CASE Started /\ Next
    <2>1. \A t \in Tasks : Step(t) => ConnectionInv' /\ Started'
      BY <1>1, StepProceeds, ProceedsKeeps
    <2>2. LeaveAp => ConnectionInv' /\ Started'
      BY <1>1, LeaveApStep, ProceedsKeeps DEF Tasks
    <2>3. ArmScanTimeout \/ AddSta \/ LeaveForScan => ConnectionInv' /\ Started'
      BY <1>1, ScanRequestStep, ProceedsKeeps DEF Tasks
    <2>4. ~(StartSta \/ StartAp)
      BY <1>1, StartIsOver DEF StartSta, StartAp, Tasks
    <2>5. "event" \in Tasks /\ "timer" \in Tasks /\ "http" \in Tasks
      BY DEF Tasks
    <2>6. ConnectionInv' /\ Started'
      BY <1>1, <2>1, <2>2, <2>3, <2>4, <2>5, EventStep, DisconnectedStep, GotIpStep,
         TimerStep, RequestStep, DriverStep DEF Next, EventLoop, TimerTask, HttpTask
    <2> QED
      BY <2>6 DEF Started, StartIsFirst
  <1>2. CASE ~Started /\ Next
    <2>1. ConnectionInv' /\ Started'
      BY <1>2, NothingElseAtStart, StartStep
    <2> QED
      BY <2>1 DEF Started, StartIsFirst
  <1>3. CASE UNCHANGED vars
    <2>1. ConnectionInv' /\ StartIsFirst'
      BY <1>3, LinkIsKept, DriverAlone DEF vars, serviceVars, StartIsFirst, Started
    <2>2. Started => Started'
      BY <1>3 DEF vars, Started
    <2> QED
      BY <1>1, <1>2, <2>1
  <1> QED
    BY <1>1, <1>2, <1>3

\* Whatever calls fail, links drop and answers come late, and however often the network
\* is configured: the device never says it is connected over a link that is gone or is
\* of another network, except until it has handled the event of the loss.
THEOREM ConnectedSafe == Spec => []ConnectedIsReal
  <1> DEFINE Inv == ConnectionInv /\ StartIsFirst
  <1>1. Init => Inv
    BY InitConnected
  <1>2. Inv /\ [Next]_vars => Inv'
    BY ConnectionStep
  <1>3. Inv => ConnectedIsReal
    BY DEF ConnectionInv
  <1> QED
    BY <1>1, <1>2, <1>3, PTL DEF Spec

----------------------------------------------------------------------------
(* The device never stops trying: what is left to do, and who has the lock.  *)

\* Steps of sections that keep the mode lock.
LockSteps == {"configure", "relink", "recoverAp", "connectCall", "leaveAp"}

\* Steps of which the whole list is known: only these lists are ever given up.
GivenUp == {"staOnly", "armScan", "addSta", "leave"}

ListIsKnown(steps) ==
    \/ steps \in {<<"staOnly">>, <<"staOnly", "connect">>, <<"armScan">>, <<"leave">>,
                  <<"addSta", "leave">>, <<"addSta", "tryScan">>}
    \/ Range(steps) \cap GivenUp = {}

Waits(step) == \E t \in Tasks : step \in Range(todo[t])

\* The step of the section that keeps the mode lock.
Stage == IF modeLock = None THEN "free" ELSE Head(todo[modeLock])

Locks(steps) == steps # <<>> /\ Head(steps) \in LockSteps

TodoInv ==
    /\ Started
    /\ modeLock \in Tasks \cup {None}
    /\ modeLock # None => Locks(todo[modeLock])
    /\ \A t \in Tasks :
           /\ Locks(todo[t]) => modeLock = t
           /\ todo[t] # <<>> => Range(Tail(todo[t])) \cap LockSteps = {}
           /\ ListIsKnown(todo[t])

\* The elements of a sequence are its head and those behind it,
LEMMA RangeOfTail ==
    ASSUME NEW S, NEW s \in Seq(S), s # <<>>
    PROVE  Range(s) = {Head(s)} \cup Range(Tail(s))
  <1>1. /\ DOMAIN s = 1 .. Len(s) /\ Len(s) \in Nat \ {0}
        /\ DOMAIN Tail(s) = 1 .. Len(s) - 1 /\ Head(s) = s[1]
        /\ \A n \in 1 .. Len(s) - 1 : Tail(s)[n] = s[n + 1]
    BY TailOfSequence
  <1>2. ASSUME NEW n \in DOMAIN s PROVE s[n] \in {Head(s)} \cup Range(Tail(s))
    <2>1. CASE n = 1
      BY <1>1, <2>1
    <2>2. CASE n # 1
      <3>1. n - 1 \in DOMAIN Tail(s) /\ (n - 1) + 1 = n
        BY <1>1, <2>2
      <3>2. Tail(s)[n - 1] = s[n]
        BY <1>1, <3>1
      <3> QED
        BY <3>1, <3>2 DEF Range
    <2> QED
      BY <2>1, <2>2
  <1>3. ASSUME NEW n \in DOMAIN Tail(s) PROVE Tail(s)[n] \in Range(s)
    <2>1. n + 1 \in DOMAIN s /\ Tail(s)[n] = s[n + 1]
      BY <1>1
    <2> QED
      BY <2>1 DEF Range
  <1>4. Head(s) \in Range(s)
    <2>1. 1 \in DOMAIN s
      BY <1>1
    <2> QED
      BY <1>1, <2>1 DEF Range
  <1> QED
    BY <1>2, <1>3, <1>4 DEF Range

\* those of a sequence made of two are theirs,
LEMMA RangeOfConcatenation ==
    ASSUME NEW S, NEW s \in Seq(S), NEW e \in Seq(S)
    PROVE  Range(s \o e) = Range(s) \cup Range(e)
  <1>1. /\ DOMAIN s = 1 .. Len(s) /\ Len(s) \in Nat /\ Len(e) \in Nat
        /\ DOMAIN (s \o e) = 1 .. Len(s) + Len(e)
        /\ \A n \in 1 .. Len(s) : (s \o e)[n] = s[n]
    BY ConcatenatedSequence
  <1>2. DOMAIN e = 1 .. Len(e) /\ \A n \in 1 .. Len(e) : (s \o e)[Len(s) + n] = e[n]
    OBVIOUS
  <1>3. ASSUME NEW n \in DOMAIN (s \o e) PROVE (s \o e)[n] \in Range(s) \cup Range(e)
    <2>1. CASE n \in 1 .. Len(s)
      BY <1>1, <2>1 DEF Range
    <2>2. CASE n \notin 1 .. Len(s)
      <3>1. n - Len(s) \in 1 .. Len(e) /\ Len(s) + (n - Len(s)) = n
        BY <1>1, <2>2
      <3>2. (s \o e)[n] = e[n - Len(s)]
        BY <1>2, <3>1
      <3> QED
        BY <1>2, <3>1, <3>2 DEF Range
    <2> QED
      BY <2>1, <2>2
  <1>4. ASSUME NEW n \in DOMAIN s PROVE s[n] \in Range(s \o e)
    <2>1. n \in DOMAIN (s \o e) /\ (s \o e)[n] = s[n]
      BY <1>1
    <2> QED
      BY <2>1 DEF Range
  <1>5. ASSUME NEW n \in DOMAIN e PROVE e[n] \in Range(s \o e)
    <2>1. Len(s) + n \in DOMAIN (s \o e) /\ (s \o e)[Len(s) + n] = e[n]
      BY <1>1, <1>2
    <2> QED
      BY <2>1 DEF Range
  <1> QED
    BY <1>3, <1>4, <1>5 DEF Range

\* and those of a short one are listed.
LEMMA RangeOfShort ==
    /\ Range(<<>>) = {}
    /\ \A a : Range(<<a>>) = {a}
    /\ \A a, b : Range(<<a, b>>) = {a, b}
  <1>1. Range(<<>>) = {}
    BY DEF Range
  <1>2. ASSUME NEW a PROVE Range(<<a>>) = {a}
    <2>1. DOMAIN <<a>> = {1} /\ <<a>>[1] = a
      OBVIOUS
    <2> QED
      BY <2>1 DEF Range
  <1>3. ASSUME NEW a, NEW b PROVE Range(<<a, b>>) = {a, b}
    <2>1. DOMAIN <<a, b>> = {1, 2} /\ <<a, b>>[1] = a /\ <<a, b>>[2] = b
      OBVIOUS
    <2> QED
      BY <2>1 DEF Range
  <1> QED
    BY <1>1, <1>2, <1>3

\* What is put behind a sequence leaves its head.
LEMMA HeadOfConcatenation ==
    ASSUME NEW S, NEW s \in Seq(S), NEW e \in Seq(S), s # <<>>
    PROVE  /\ s \o e # <<>>
           /\ Head(s \o e) = Head(s)
           /\ Tail(s \o e) = Tail(s) \o e
  OBVIOUS

\* A list of steps that a task gets, and what becomes of the lock.
Relocks(t, steps) ==
    IF Locks(steps)
    THEN modeLock \in {None, t} /\ modeLock' = t
    ELSE modeLock' = IF modeLock = t THEN None ELSE modeLock

\* What is left to do when task t has other steps left.
LEMMA TodoBecomes ==
    ASSUME TodoInv, NEW t \in Tasks, NEW new \in Seq(Steps),
           todo' = [todo EXCEPT ![t] = new], ListIsKnown(new),
           new # <<>> => Range(Tail(new)) \cap LockSteps = {},
           Relocks(t, new)
    PROVE  /\ TodoInv'
           /\ Stage' = IF Locks(new) THEN Head(new) ELSE IF modeLock = t THEN "free" ELSE Stage
           /\ \A x \in Range(new) : Waits(x)'
           /\ \A x : Waits(x) /\ (x \in Range(todo[t]) => x \in Range(new)) => Waits(x)'
  <1>1. todo \in [Tasks -> Seq(Steps)] /\ modeLock \in Tasks \cup {None}
    BY DEF TodoInv, Started
  <1>2. /\ todo' \in [Tasks -> Seq(Steps)] /\ todo'[t] = new
        /\ \A u \in Tasks \ {t} : todo'[u] = todo[u]
    BY <1>1
  <1>3. None \notin Tasks
    BY WifiAssumption DEF Tasks
  <1>4. modeLock' \in Tasks \cup {None}
    BY <1>1 DEF Relocks
  <1>5. modeLock' # None => Locks(todo[modeLock])'
    <2>1. CASE Locks(new)
      BY <1>2, <2>1 DEF Relocks, Locks
    <2>2. CASE ~Locks(new)
      <3>1. ASSUME modeLock' # None PROVE modeLock' = modeLock /\ modeLock \in Tasks \ {t}
        BY <1>1, <2>2, <3>1 DEF Relocks
      <3> QED
        BY <1>2, <3>1 DEF TodoInv, Locks
    <2> QED
      BY <2>1, <2>2
  <1>6. ASSUME NEW u \in Tasks
        PROVE  /\ Locks(todo'[u]) => modeLock' = u
               /\ todo'[u] # <<>> => Range(Tail(todo'[u])) \cap LockSteps = {}
               /\ ListIsKnown(todo'[u])
    <2>1. CASE u = t
      BY <1>2, <2>1 DEF Relocks
    <2>2. CASE u # t
      <3>1. todo'[u] = todo[u]
        BY <1>2, <2>2
      <3>2. Locks(todo[u]) => modeLock' = u
        BY <1>3, <2>2 DEF TodoInv, Relocks
      <3> QED
        BY <3>1, <3>2 DEF TodoInv
    <2> QED
      BY <2>1, <2>2
  <1>7. TodoInv'
    BY <1>2, <1>4, <1>5, <1>6 DEF TodoInv, Started, Locks, ListIsKnown
  <1>8. Stage' = IF Locks(new) THEN Head(new) ELSE IF modeLock = t THEN "free" ELSE Stage
    <2>1. CASE Locks(new)
      BY <1>2, <1>3, <2>1 DEF Relocks, Stage
    <2>2. CASE ~Locks(new)
      BY <1>1, <1>2, <1>3, <2>2 DEF Relocks, Stage
    <2> QED
      BY <2>1, <2>2
  <1>9. \A x \in Range(new) : Waits(x)'
    BY <1>2 DEF Waits
  <1>10. \A x : Waits(x) /\ (x \in Range(todo[t]) => x \in Range(new)) => Waits(x)'
    BY <1>2 DEF Waits
  <1> QED
    BY <1>7, <1>8, <1>9, <1>10

\* What is left when task t goes on from a step with others.
LEMMA TodoGoesOn ==
    ASSUME TodoInv, NEW t \in Tasks, NEW step \in Steps \ GivenUp, At(t, step),
           NEW steps \in Seq(Steps), Continue(t, steps),
           Range(steps) \cap GivenUp = {},
           steps # <<>> => Range(Tail(steps)) \cap LockSteps = {},
           IF Locks(steps) THEN modeLock \in {None, t} /\ modeLock' = t
           ELSE modeLock' = IF step \in LockSteps THEN None ELSE modeLock
    PROVE  /\ TodoInv'
           /\ Stage' = IF Locks(steps) THEN Head(steps)
                       ELSE IF step \in LockSteps THEN "free" ELSE Stage
           /\ \A x \in Range(steps) : Waits(x)'
           /\ \A x : Waits(x) /\ x # step => Waits(x)'
  <1> DEFINE rest == Tail(todo[t])
  <1>1. todo[t] \in Seq(Steps) /\ todo[t] # <<>> /\ Head(todo[t]) = step
    BY DEF TodoInv, Started, At
  <1>2. rest \in Seq(Steps) /\ Range(todo[t]) = {step} \cup Range(rest)
    BY <1>1, TailOfSequence, RangeOfTail
  <1>3. Range(rest) \cap LockSteps = {}
    BY <1>1 DEF TodoInv
  <1>14. todo' = [todo EXCEPT ![t] = steps \o rest]
    BY DEF Continue
  <1> HIDE DEF rest
  <1>4. Range(todo[t]) \cap GivenUp = {}
    <2>1. ListIsKnown(todo[t])
      BY DEF TodoInv
    <2>2. Head(<<"staOnly">>) = "staOnly" /\ Head(<<"staOnly", "connect">>) = "staOnly"
      OBVIOUS
    <2>3. /\ Head(<<"armScan">>) = "armScan" /\ Head(<<"leave">>) = "leave"
          /\ Head(<<"addSta", "leave">>) = "addSta" /\ Head(<<"addSta", "tryScan">>) = "addSta"
      OBVIOUS
    <2> QED
      BY <1>1, <2>1, <2>2, <2>3 DEF ListIsKnown, GivenUp
  <1>5. steps \o rest \in Seq(Steps) /\ Range(steps \o rest) = Range(steps) \cup Range(rest)
    BY <1>2, ConcatenatedSequence, RangeOfConcatenation
  <1>6. ListIsKnown(steps \o rest)
    BY <1>2, <1>4, <1>5 DEF ListIsKnown
  <1>7. steps = <<>> => steps \o rest = rest
    BY <1>2
  <1>8. rest # <<>> => Head(rest) \in Range(rest) /\ Range(Tail(rest)) \subseteq Range(rest)
    BY <1>2, RangeOfTail
  <1>9. steps # <<>> =>
            /\ steps \o rest # <<>>
            /\ Head(steps \o rest) = Head(steps)
            /\ Tail(steps \o rest) = Tail(steps) \o rest
    BY <1>2, HeadOfConcatenation
  <1>10. ASSUME steps # <<>>
         PROVE  Range(Tail(steps) \o rest) = Range(Tail(steps)) \cup Range(rest)
    <2> DEFINE more == Tail(steps)
    <2>1. more \in Seq(Steps) /\ rest \in Seq(Steps)
      BY <1>2, <1>10, TailOfSequence
    <2> HIDE DEF more
    <2>2. Range(more \o rest) = Range(more) \cup Range(rest)
      BY <2>1, RangeOfConcatenation
    <2> QED
      BY <2>2 DEF more
  <1>11. Locks(steps \o rest) <=> Locks(steps)
    BY <1>3, <1>7, <1>8, <1>9 DEF Locks
  <1>12. Locks(steps \o rest) => Head(steps \o rest) = Head(steps)
    BY <1>9, <1>11 DEF Locks
  <1>13. steps \o rest # <<>> => Range(Tail(steps \o rest)) \cap LockSteps = {}
    BY <1>3, <1>7, <1>8, <1>9, <1>10
  <1>15. modeLock = t <=> step \in LockSteps
    <2>1. None \notin Tasks
      BY WifiAssumption DEF Tasks
    <2>2. Locks(todo[t]) <=> step \in LockSteps
      BY <1>1 DEF Locks
    <2> QED
      BY <2>1, <2>2 DEF TodoInv
  <1>16. Relocks(t, steps \o rest)
    BY <1>11, <1>15 DEF Relocks
  <1>17. /\ TodoInv'
         /\ Stage' = IF Locks(steps \o rest) THEN Head(steps \o rest)
                     ELSE IF modeLock = t THEN "free" ELSE Stage
         /\ \A x \in Range(steps \o rest) : Waits(x)'
         /\ \A x : Waits(x) /\ (x \in Range(todo[t]) => x \in Range(steps \o rest))
                   => Waits(x)'
    BY <1>5, <1>6, <1>13, <1>14, <1>16, TodoBecomes
  <1>18. \A x : Waits(x) /\ x # step => Waits(x)'
    BY <1>2, <1>5, <1>17
  <1> QED
    BY <1>5, <1>11, <1>12, <1>15, <1>17, <1>18

\* What is left when an idle task begins something.
LEMMA TodoBegins ==
    ASSUME TodoInv, NEW t \in Tasks, Idle(t), NEW steps \in Seq(Steps), Return(t, steps),
           ListIsKnown(steps),
           steps # <<>> => Range(Tail(steps)) \cap LockSteps = {},
           IF Locks(steps) THEN modeLock = None /\ modeLock' = t
           ELSE modeLock' = modeLock
    PROVE  /\ TodoInv'
           /\ Stage' = IF Locks(steps) THEN Head(steps) ELSE Stage
           /\ \A x \in Range(steps) : Waits(x)'
           /\ \A x : Waits(x) => Waits(x)'
  <1>1. todo' = [todo EXCEPT ![t] = steps] /\ Range(todo[t]) = {}
    BY RangeOfShort DEF Return, Idle
  <1>2. modeLock # t
    <2>1. None \notin Tasks
      BY WifiAssumption DEF Tasks
    <2> QED
      BY <2>1 DEF TodoInv, Locks, Idle
  <1>3. Relocks(t, steps)
    BY <1>2 DEF Relocks
  <1> QED
    BY <1>1, <1>2, <1>3, TodoBecomes

----------------------------------------------------------------------------
(* The events that wait.                                                     *)

Posted(event) == event \in Range(events)

\* An event that ends the attempt in flight waits: the first loss after the device's own
\* disconnect is not one.
EndIsPending(posted, own) ==
    \E n \in DOMAIN posted :
        \/ posted[n] = "LOST"
        \/ /\ posted[n] = "LEFT"
           /\ own => \E m \in DOMAIN posted : m < n /\ posted[m] \in {"LEFT", "LOST"}

EventsAreKept ==
    /\ \A event : Posted(event) => Posted(event)'
    /\ LossIsPending(events) => LossIsPending(events')
    /\ \A own : EndIsPending(events, own) => EndIsPending(events', own)

\* They are kept when others are posted,
LEMMA EventsAdded ==
    ASSUME NEW s \in Seq(EventKinds), NEW e \in Seq(EventKinds)
    PROVE  /\ \A event : event \in Range(s) \cup Range(e) => event \in Range(s \o e)
           /\ LossIsPending(s) => LossIsPending(s \o e)
           /\ \A own : EndIsPending(s, own) => EndIsPending(s \o e, own)
  <1>1. /\ DOMAIN s = 1 .. Len(s) /\ Len(s) \in Nat /\ Len(e) \in Nat
        /\ DOMAIN (s \o e) = 1 .. Len(s) + Len(e)
        /\ \A n \in 1 .. Len(s) : (s \o e)[n] = s[n]
    BY ConcatenatedSequence
  <1>2. \A n \in DOMAIN s : n \in DOMAIN (s \o e) /\ (s \o e)[n] = s[n]
    BY <1>1
  <1>3. ASSUME NEW own, EndIsPending(s, own) PROVE EndIsPending(s \o e, own)
    <2>1. PICK n \in DOMAIN s :
              \/ s[n] = "LOST"
              \/ /\ s[n] = "LEFT"
                 /\ own => \E m \in DOMAIN s : m < n /\ s[m] \in {"LEFT", "LOST"}
      BY <1>3 DEF EndIsPending
    <2>2. \/ (s \o e)[n] = "LOST"
          \/ /\ (s \o e)[n] = "LEFT"
             /\ own => \E m \in DOMAIN (s \o e) : m < n /\ (s \o e)[m] \in {"LEFT", "LOST"}
      BY <1>2, <2>1
    <2> QED
      BY <1>2, <2>2 DEF EndIsPending
  <1> QED
    BY <1>3, PostedEvents, RangeOfConcatenation

\* and when one is,
LEMMA EventAdded ==
    ASSUME NEW s \in Seq(EventKinds), NEW e \in EventKinds
    PROVE  /\ \A event : event \in Range(s) \cup {e} => event \in Range(Append(s, e))
           /\ LossIsPending(s) => LossIsPending(Append(s, e))
           /\ \A own : EndIsPending(s, own) => EndIsPending(Append(s, e), own)
           /\ e \in {"LEFT", "LOST"} => LossIsPending(Append(s, e))
           /\ \A own : \/ e = "LOST"
                       \/ e = "LEFT" /\ (own => LossIsPending(s))
                       => EndIsPending(Append(s, e), own)
  <1>1. <<e>> \in Seq(EventKinds) /\ Append(s, e) = s \o <<e>> /\ Range(<<e>>) = {e}
    BY RangeOfShort
  <1>2. /\ DOMAIN s = 1 .. Len(s) /\ DOMAIN Append(s, e) = 1 .. Len(s) + 1
        /\ Len(s) \in Nat /\ \A n \in 1 .. Len(s) : Append(s, e)[n] = s[n]
        /\ Append(s, e)[Len(s) + 1] = e
    BY AppendedSequence
  <1>3. ASSUME NEW own, e = "LOST" \/ (e = "LEFT" /\ (own => LossIsPending(s)))
        PROVE  EndIsPending(Append(s, e), own)
    <2>1. Len(s) + 1 \in DOMAIN Append(s, e)
      BY <1>2
    <2>2. CASE e = "LOST"
      BY <1>2, <2>1, <2>2 DEF EndIsPending
    <2>3. CASE e = "LEFT" /\ ~own
      BY <1>2, <2>1, <2>3 DEF EndIsPending
    <2>4. CASE e = "LEFT" /\ LossIsPending(s)
      <3>1. PICK m \in DOMAIN s : s[m] \in {"LEFT", "LOST"}
        BY <2>4 DEF LossIsPending
      <3>2. /\ m \in DOMAIN Append(s, e) /\ m < Len(s) + 1
            /\ Append(s, e)[m] \in {"LEFT", "LOST"}
        BY <1>2, <3>1
      <3> QED
        BY <1>2, <2>1, <2>4, <3>2 DEF EndIsPending
    <2> QED
      BY <1>3, <2>2, <2>3, <2>4
  <1>4. \A event : event \in Range(s) \cup {e} => event \in Range(Append(s, e))
    BY <1>1, EventsAdded
  <1>5. /\ LossIsPending(s) => LossIsPending(Append(s, e))
        /\ \A own : EndIsPending(s, own) => EndIsPending(Append(s, e), own)
        /\ e \in {"LEFT", "LOST"} => LossIsPending(Append(s, e))
    BY <1>1, EventsAdded, PostedEvent
  <1> QED
    BY <1>3, <1>4, <1>5

\* and when one is handled, those behind it.
LEMMA EventHandled ==
    ASSUME NEW s \in Seq(EventKinds), s # <<>>
    PROVE  /\ \A event : event \in Range(s) /\ event # Head(s) => event \in Range(Tail(s))
           /\ Head(s) \notin {"LEFT", "LOST"} =>
                  \A own : EndIsPending(s, own) => EndIsPending(Tail(s), own)
           /\ Head(s) = "LEFT" /\ EndIsPending(s, TRUE) => EndIsPending(Tail(s), FALSE)
  <1>1. /\ DOMAIN s = 1 .. Len(s) /\ Len(s) \in Nat \ {0}
        /\ DOMAIN Tail(s) = 1 .. Len(s) - 1 /\ Head(s) = s[1]
        /\ \A n \in 1 .. Len(s) - 1 : Tail(s)[n] = s[n + 1]
    BY TailOfSequence
  <1>2. \A n \in DOMAIN s \ {1} : n - 1 \in DOMAIN Tail(s) /\ Tail(s)[n - 1] = s[n]
    <2> SUFFICES ASSUME NEW n \in DOMAIN s \ {1}
                 PROVE  n - 1 \in DOMAIN Tail(s) /\ Tail(s)[n - 1] = s[n]
      OBVIOUS
    <2>1. n - 1 \in DOMAIN Tail(s) /\ (n - 1) + 1 = n
      BY <1>1
    <2> QED
      BY <1>1, <2>1
  <1>3. ASSUME Head(s) \notin {"LEFT", "LOST"}, NEW own, EndIsPending(s, own)
        PROVE  EndIsPending(Tail(s), own)
    <2>1. PICK n \in DOMAIN s :
              \/ s[n] = "LOST"
              \/ /\ s[n] = "LEFT"
                 /\ own => \E m \in DOMAIN s : m < n /\ s[m] \in {"LEFT", "LOST"}
      BY <1>3 DEF EndIsPending
    <2>2. n # 1 /\ \A m \in DOMAIN s : s[m] \in {"LEFT", "LOST"} => m # 1
      BY <1>1, <1>3, <2>1
    <2>3. n - 1 \in DOMAIN Tail(s) /\ Tail(s)[n - 1] = s[n]
      BY <1>2, <2>2
    <2>4. CASE own /\ s[n] = "LEFT"
      <3>1. PICK m \in DOMAIN s : m < n /\ s[m] \in {"LEFT", "LOST"}
        BY <2>1, <2>4
      <3>2. m - 1 \in DOMAIN Tail(s) /\ Tail(s)[m - 1] = s[m] /\ m - 1 < n - 1
        BY <1>1, <1>2, <2>2, <3>1
      <3> QED
        BY <2>3, <2>4, <3>1, <3>2 DEF EndIsPending
    <2>5. CASE ~own /\ s[n] = "LEFT"
      BY <2>3, <2>5 DEF EndIsPending
    <2>6. CASE s[n] = "LOST"
      BY <2>3, <2>6 DEF EndIsPending
    <2> QED
      BY <2>1, <2>4, <2>5, <2>6
  <1>4. ASSUME Head(s) = "LEFT", EndIsPending(s, TRUE) PROVE EndIsPending(Tail(s), FALSE)
    <2>1. PICK n \in DOMAIN s :
              \/ s[n] = "LOST"
              \/ s[n] = "LEFT" /\ \E m \in DOMAIN s : m < n /\ s[m] \in {"LEFT", "LOST"}
      BY <1>4 DEF EndIsPending
    <2>2. n # 1
      BY <1>1, <1>4, <2>1
    <2>3. n - 1 \in DOMAIN Tail(s) /\ Tail(s)[n - 1] = s[n]
      BY <1>2, <2>2
    <2> QED
      BY <2>1, <2>3 DEF EndIsPending
  <1>5. \A event : event \in Range(s) /\ event # Head(s) => event \in Range(Tail(s))
    BY RangeOfTail
  <1> QED
    BY <1>3, <1>4, <1>5

----------------------------------------------------------------------------
(* What keeps the device trying.                                             *)

RetryTypeOK ==
    /\ sta \in [transition : BOOLEAN, inFlight : BOOLEAN, disconnectPending : BOOLEAN,
                applyPending : BOOLEAN]
    /\ scan \in [running : BOOLEAN, driverActive : BOOLEAN, reconnect : BOOLEAN,
                 applyAfter : BOOLEAN]
    /\ timers \in [Timers -> BOOLEAN]
    /\ stranded \in BOOLEAN

Transitions == {"configure", "relink", "recoverAp"}

\* A transition ends: it is under way, waits for the end of a scan, or is called for.
TransitionEnds ==
    sta.transition =>
        Stage \in Transitions \/ (scan.running /\ scan.applyAfter) \/ Waits("apply")

\* A configuration waits for a scan only while there is one, and a scan that holds
\* attempts back resumes them.
ScanResumes ==
    /\ scan.applyAfter => scan.running
    /\ scan.running /\ Configured /\ ~staConnected =>
           scan.reconnect \/ scan.applyAfter \/ Stage = "configure"

\* An attempt in flight without a link is still to be made, or its end is posted; the
\* loss that the device caused is posted.
AttemptIsReal ==
    /\ sta.inFlight /\ driver.link = LinkDown /\ ~stranded =>
           Stage = "connectCall" \/ EndIsPending(events, sta.disconnectPending)
    /\ sta.disconnectPending => LossIsPending(events)
    /\ Stage = "connectCall" => sta.inFlight /\ ~staConnected

\* Only a configured network is connected to.
NetworkIsKnown ==
    /\ driver.link # LinkDown => driver.link.network # 0
    /\ staConnected => Configured
    /\ Stage = "leaveAp" => staConnected

\* Something leads to the next attempt.
ConnectionIsSought ==
    Configured /\ ~staConnected /\ HasSta(driver.mode) /\ ~stranded =>
        \/ sta.inFlight \/ timers["connectRetry"]
        \/ scan.running \/ Stage \in Transitions \/ Waits("apply") \/ Waits("connect")
        \/ Posted("STA_START") \/ LossIsPending(events)

\* Something leads to the end of the access point.
ApIsLeft ==
    /\ staConnected =>
           \/ driver.mode = "STA" \/ timers["staOnlyRetry"]
           \/ sta.applyPending /\ (timers["connectRetry"] \/ Stage = "recoverAp")
           \/ scan.running /\ scan.applyAfter
           \/ Stage \in {"configure", "leaveAp"} \/ Waits("apply") \/ Waits("staOnly")
           \/ Posted("AP_START")
    /\ staConnected /\ Stage \in {"relink", "recoverAp"} =>
           driver.mode = "STA" \/ (Stage = "recoverAp" /\ sta.applyPending)

SoughtInv ==
    /\ RetryTypeOK
    /\ TransitionEnds /\ ScanResumes /\ AttemptIsReal /\ NetworkIsKnown
    /\ ConnectionIsSought /\ ApIsLeft

RetryInv == ConnectionTypeOK /\ TodoInv /\ SoughtInv

\* A mode that is set: what it adds has its event.
ModeIsKept ==
    /\ HasSta(driver'.mode) => HasSta(driver.mode) \/ Posted("STA_START")'
    /\ driver.mode = "STA" =>
           driver'.mode = "STA" \/ (Posted("AP_START")' /\ Stage \notin {"relink", "recoverAp"})

\* A step that takes nothing of this away.
LEMMA NothingIsTaken ==
    ASSUME RetryInv, TodoInv', RetryTypeOK',
           UNCHANGED <<configuration, staConnected, sta, stranded, Stage>>,
           scan'.running = scan.running, scan'.reconnect = scan.reconnect,
           scan'.applyAfter = scan.applyAfter,
           timers["connectRetry"] => timers'["connectRetry"],
           timers["staOnlyRetry"] => timers'["staOnlyRetry"] \/ Waits("staOnly")',
           driver'.link = driver.link, ModeIsKept, EventsAreKept,
           Waits("apply") => Waits("apply")',
           Waits("connect") => Waits("connect")',
           Waits("staOnly") => Waits("staOnly")'
    PROVE  SoughtInv'
  <1>1. TransitionEnds'
    BY DEF RetryInv, SoughtInv, TransitionEnds
  <1>2. ScanResumes'
    BY DEF RetryInv, SoughtInv, ScanResumes, Configured
  <1>3. AttemptIsReal'
    BY DEF RetryInv, SoughtInv, AttemptIsReal, EventsAreKept, LinkDown
  <1>4. NetworkIsKnown'
    BY DEF RetryInv, SoughtInv, NetworkIsKnown, Configured, LinkDown
  <1>5. ConnectionIsSought'
    BY DEF RetryInv, SoughtInv, ConnectionIsSought, Configured, EventsAreKept, ModeIsKept
  <1>6. ApIsLeft'
    BY DEF RetryInv, SoughtInv, ApIsLeft, EventsAreKept, ModeIsKept
  <1> QED
    BY <1>1, <1>2, <1>3, <1>4, <1>5, <1>6 DEF SoughtInv

\* The calls of the driver that set a mode.
LEMMA SetModeIsKept ==
    ASSUME ConnectionTypeOK, NEW mode \in {"AP", "STA", "APSTA"}, SetMode(mode)
    PROVE  /\ driver'.mode = mode /\ driver'.link = driver.link
           /\ EventsAreKept
           /\ HasSta(mode) => HasSta(driver.mode) \/ Posted("STA_START")'
           /\ HasAp(mode) => HasAp(driver.mode) \/ Posted("AP_START")'
  <1> DEFINE stops == IF HasAp(driver.mode) /\ ~HasAp(mode) THEN <<"AP_STOP">> ELSE <<>>
             station == IF HasSta(mode) /\ ~HasSta(driver.mode) THEN <<"STA_START">> ELSE <<>>
             starts == IF HasAp(mode) /\ ~HasAp(driver.mode) THEN <<"AP_START">> ELSE <<>>
  <1>1. stops \in Seq(EventKinds) /\ station \in Seq(EventKinds) /\ starts \in Seq(EventKinds)
    BY ShortSequences DEF EventKinds
  <1>2. /\ HasSta(mode) /\ ~HasSta(driver.mode) => "STA_START" \in Range(station)
        /\ HasAp(mode) /\ ~HasAp(driver.mode) => "AP_START" \in Range(starts)
    BY RangeOfShort
  <1>3. events' = events \o (stops \o station \o starts) /\ events \in Seq(EventKinds)
    BY DEF SetMode, ModeEvents, ConnectionTypeOK
  <1>4. driver'.mode = mode /\ driver'.link = driver.link
    BY DEF SetMode, ConnectionTypeOK, DriverStates
  <1> HIDE DEF stops, station, starts
  <1>5. /\ stops \o station \in Seq(EventKinds) /\ stops \o station \o starts \in Seq(EventKinds)
        /\ Range(stops \o station \o starts) = Range(stops) \cup Range(station) \cup Range(starts)
    <2> DEFINE both == stops \o station
    <2>1. both \in Seq(EventKinds) /\ Range(both) = Range(stops) \cup Range(station)
      BY <1>1, ConcatenatedSequence, RangeOfConcatenation
    <2> HIDE DEF both
    <2>2. /\ both \o starts \in Seq(EventKinds)
          /\ Range(both \o starts) = Range(both) \cup Range(starts)
      BY <1>1, <2>1, ConcatenatedSequence, RangeOfConcatenation
    <2> QED
      BY <2>1, <2>2 DEF both
  <1>6. /\ \A event : event \in Range(events) \cup Range(stops \o station \o starts)
                      => event \in Range(events')
        /\ LossIsPending(events) => LossIsPending(events')
        /\ \A own : EndIsPending(events, own) => EndIsPending(events', own)
    BY <1>3, <1>5, EventsAdded
  <1> QED
    BY <1>2, <1>4, <1>5, <1>6 DEF EventsAreKept, Posted

----------------------------------------------------------------------------
(* The steps of the tasks.                                                   *)

\* A task at a step of a section that keeps the lock has it; at another it waits for it.
LEMMA StageOfTask ==
    ASSUME TodoInv, NEW t \in Tasks, NEW step, At(t, step)
    PROVE  /\ step \in LockSteps => modeLock = t /\ Stage = step
           /\ step \notin LockSteps /\ ModeIsFree(t) => modeLock = None /\ Stage = "free"
  <1>1. None \notin Tasks
    BY WifiAssumption DEF Tasks
  <1>2. Locks(todo[t]) <=> step \in LockSteps
    BY DEF At, Locks
  <1> QED
    BY <1>1, <1>2 DEF TodoInv, ModeIsFree, Stage, At

\* Events are kept by a step that posts none.
LEMMA EventsAlone ==
    UNCHANGED events => EventsAreKept
  BY DEF EventsAreKept, Posted

\* The mode is kept by a step that leaves it alone.
LEMMA ModeAlone ==
    driver'.mode = driver.mode => ModeIsKept
  BY DEF ModeIsKept

\* Timers that a step starts or stops.
LEMMA TimersType ==
    ASSUME RetryTypeOK, NEW timer \in Timers
    PROVE  /\ Schedule(timer) => timers' \in [Timers -> BOOLEAN] /\ timers'[timer]
                                 /\ \A other \in Timers : timers[other] => timers'[other]
           /\ StopTimer(timer) => timers' \in [Timers -> BOOLEAN] /\ ~timers'[timer]
                                  /\ \A other \in Timers \ {timer} : timers'[other] = timers[other]
  BY DEF RetryTypeOK, Schedule, StopTimer

\* Steps that neither connect nor end anything.
LEMMA PlainStep ==
    ASSUME RetryInv, NEW t \in Tasks,
           ScheduleFallback(t) \/ StopScanTimer(t) \/ TryScan(t) \/ ReturnToAp(t)
    PROVE  TodoInv' /\ SoughtInv'
  <1>0. ConnectionTypeOK /\ TodoInv /\ RetryTypeOK
    BY DEF RetryInv, SoughtInv
  <1>1. PICK step \in {"scheduleFallback", "stopScanTimer", "tryScan", "returnToAp"},
             steps \in {<<>>, <<"failScan">>} : At(t, step) /\ Continue(t, steps)
    BY DEF ScheduleFallback, StopScanTimer, TryScan, ReturnToAp
  <1>2. modeLock' = modeLock
    BY DEF ScheduleFallback, StopScanTimer, TryScan, ReturnToAp
  <1>3. /\ steps \in Seq(Steps) /\ Range(steps) \cap GivenUp = {} /\ ~Locks(steps)
        /\ steps # <<>> => Range(Tail(steps)) \cap LockSteps = {}
    <2>1. "failScan" \in Steps
      BY DEF Steps
    <2>2. /\ <<>> \in Seq(Steps) /\ <<"failScan">> \in Seq(Steps)
          /\ Head(<<"failScan">>) = "failScan" /\ Tail(<<"failScan">>) = <<>>
      BY <2>1, StepLists
    <2> QED
      BY <2>2, RangeOfShort DEF GivenUp, LockSteps, Locks
  <1>4. step \in Steps \ GivenUp /\ step \notin LockSteps
        /\ step \notin {"apply", "connect", "staOnly"}
    BY DEF Steps, GivenUp, LockSteps
  <1>5. /\ TodoInv' /\ Stage' = Stage
        /\ \A x : Waits(x) /\ x # step => Waits(x)'
    BY <1>0, <1>1, <1>2, <1>3, <1>4, TodoGoesOn
  <1>6. UNCHANGED <<configuration, staConnected, sta, stranded>>
    BY DEF ScheduleFallback, StopScanTimer, TryScan, ReturnToAp, serviceVars, boundVars
  <1>7. /\ scan' \in [running : BOOLEAN, driverActive : BOOLEAN, reconnect : BOOLEAN,
                      applyAfter : BOOLEAN]
        /\ scan'.running = scan.running /\ scan'.reconnect = scan.reconnect
        /\ scan'.applyAfter = scan.applyAfter
    <2>1. scan' = scan \/ scan' = [scan EXCEPT !.driverActive = TRUE]
      BY DEF ScheduleFallback, StopScanTimer, TryScan, ReturnToAp, serviceVars
    <2> QED
      BY <1>0, <2>1 DEF RetryTypeOK
  <1>8. /\ timers' \in [Timers -> BOOLEAN]
        /\ timers["connectRetry"] => timers'["connectRetry"]
        /\ timers["staOnlyRetry"] => timers'["staOnlyRetry"]
    <2>1. timers' = timers \/ Schedule("fallback") \/ StopTimer("scanTimeout")
      BY DEF ScheduleFallback, StopScanTimer, TryScan, ReturnToAp, ArmFallback
    <2> QED
      BY <1>0, <2>1, TimersType DEF RetryTypeOK, Timers
  <1>9. driver'.link = driver.link /\ ModeIsKept /\ EventsAreKept
    <2>1. CASE ReturnToAp(t)
      <3>1. SetMode("AP") \/ UNCHANGED <<driver, events>>
        BY <2>1 DEF ReturnToAp
      <3>2. Stage = "free"
        BY <1>0, <2>1, StageOfTask DEF ReturnToAp, LockSteps
      <3>3. SetMode("AP") => driver'.link = driver.link /\ ModeIsKept /\ EventsAreKept
        BY <1>0, <3>2, SetModeIsKept DEF ModeIsKept, HasAp, HasSta
      <3> QED
        BY <3>1, <3>3, EventsAlone, ModeAlone
    <2>2. CASE ~ReturnToAp(t)
      <3>1. UNCHANGED events /\ driver'.mode = driver.mode /\ driver'.link = driver.link
        BY <1>0, <2>2 DEF ScheduleFallback, StopScanTimer, TryScan, ConnectionTypeOK, DriverStates
      <3> QED
        BY <3>1, EventsAlone, ModeAlone
    <2> QED
      BY <2>1, <2>2
  <1>10. RetryTypeOK'
    BY <1>0, <1>6, <1>7, <1>8 DEF RetryTypeOK
  <1> QED
    BY <1>4, <1>5, <1>6, <1>7, <1>8, <1>9, <1>10, NothingIsTaken

\* The lists of one step and of none.
LEMMA ListOfOne ==
    ASSUME NEW x \in Steps
    PROVE  /\ <<x>> \in Seq(Steps) /\ Range(<<x>>) = {x} /\ Head(<<x>>) = x
           /\ Range(Tail(<<x>>)) = {}
           /\ Locks(<<x>>) <=> x \in LockSteps
  <1>1. <<x>> \in Seq(Steps) /\ <<x>> # <<>> /\ Head(<<x>>) = x /\ Tail(<<x>>) = <<>>
    OBVIOUS
  <1> QED
    BY <1>1, RangeOfShort DEF Locks

\* A task that goes on with one step, or is through with it,
LEMMA GoesOnWithOne ==
    ASSUME TodoInv, NEW t \in Tasks, NEW step \in Steps \ GivenUp, At(t, step),
           NEW x \in Steps \ GivenUp, Continue(t, <<x>>),
           IF x \in LockSteps THEN modeLock \in {None, t} /\ modeLock' = t
           ELSE modeLock' = IF step \in LockSteps THEN None ELSE modeLock
    PROVE  /\ TodoInv'
           /\ Stage' = IF x \in LockSteps THEN x ELSE IF step \in LockSteps THEN "free" ELSE Stage
           /\ Waits(x)'
           /\ \A y : Waits(y) /\ y # step => Waits(y)'
  <1> DEFINE steps == <<x>>
  <1>1. /\ steps \in Seq(Steps) /\ Range(steps) = {x} /\ Head(steps) = x
        /\ Range(Tail(steps)) = {} /\ (Locks(steps) <=> x \in LockSteps)
    BY ListOfOne
  <1>2. Continue(t, steps)
    OBVIOUS
  <1> HIDE DEF steps
  <1> QED
    BY <1>1, <1>2, TodoGoesOn

\* with nothing,
LEMMA GoesOnWithNone ==
    ASSUME TodoInv, NEW t \in Tasks, NEW step \in Steps \ GivenUp, At(t, step),
           Continue(t, <<>>),
           modeLock' = IF step \in LockSteps THEN None ELSE modeLock
    PROVE  /\ TodoInv'
           /\ Stage' = IF step \in LockSteps THEN "free" ELSE Stage
           /\ \A y : Waits(y) /\ y # step => Waits(y)'
  <1> DEFINE steps == <<>>
  <1>1. /\ steps \in Seq(Steps) /\ Range(steps) = {} /\ steps = <<>> /\ ~Locks(steps)
    BY RangeOfShort, StepLists DEF Locks
  <1>2. Continue(t, steps)
    OBVIOUS
  <1> HIDE DEF steps
  <1> QED
    BY <1>1, <1>2, TodoGoesOn

\* An attempt is made, put off, or left to what holds it back.
LEMMA ConnectStep ==
    ASSUME RetryInv, NEW t \in Tasks, ConnectSta(t)
    PROVE  TodoInv' /\ SoughtInv'
  <1>0. ConnectionTypeOK /\ TodoInv /\ RetryTypeOK
    BY DEF RetryInv, SoughtInv
  <1>1. At(t, "connect") /\ ModeIsFree(t) /\ modeLock = None /\ Stage = "free"
    BY <1>0, StageOfTask DEF ConnectSta, LockSteps
  <1>2. "connect" \in Steps \ GivenUp /\ "connectCall" \in Steps \ GivenUp
        /\ "connectCall" \in LockSteps /\ "connect" \notin LockSteps
        /\ "connectRetry" \in Timers
    BY DEF Steps, GivenUp, LockSteps, Timers
  <1>3. UNCHANGED <<configuration, staConnected, scan, driver, events, stranded>>
    BY DEF ConnectSta
  <1>e. EventsAreKept
    BY <1>3, EventsAlone
  <1>4. CASE /\ MayConnect /\ HasSta(driver.mode)
             /\ sta' = [sta EXCEPT !.inFlight = TRUE]
             /\ Continue(t, <<"connectCall">>)
             /\ modeLock' = t
             /\ UNCHANGED timers
    <2>1. TodoInv' /\ Stage' = "connectCall" /\ \A y : Waits(y) /\ y # "connect" => Waits(y)'
      BY <1>0, <1>1, <1>2, <1>4, GoesOnWithOne
    <2>2. RetryTypeOK' /\ sta'.inFlight /\ sta'.transition = sta.transition
          /\ sta'.disconnectPending = sta.disconnectPending /\ sta'.applyPending = sta.applyPending
      BY <1>0, <1>3, <1>4 DEF RetryTypeOK
    <2>3. ~sta.transition /\ ~scan.running /\ ~staConnected
      BY <1>4 DEF MayConnect
    <2>4. TransitionEnds' /\ ScanResumes' /\ NetworkIsKnown'
      BY <1>1, <1>3, <2>1, <2>2, <2>3
         DEF RetryInv, SoughtInv, TransitionEnds, ScanResumes, NetworkIsKnown, Configured, LinkDown
    <2>5. AttemptIsReal'
      BY <1>3, <1>e, <2>1, <2>2, <2>3 DEF RetryInv, SoughtInv, AttemptIsReal
    <2>6. ConnectionIsSought' /\ ApIsLeft'
      BY <1>3, <2>1, <2>2, <2>3 DEF ConnectionIsSought, ApIsLeft
    <2> QED
      BY <2>1, <2>2, <2>4, <2>5, <2>6 DEF SoughtInv
  <1>5. ASSUME Continue(t, <<>>), UNCHANGED <<sta, modeLock>>,
               \/ Schedule("connectRetry")
               \/ UNCHANGED timers /\ ~(MayConnect /\ HasSta(driver.mode))
        PROVE  TodoInv' /\ SoughtInv'
    <2>1. TodoInv' /\ Stage' = "free" /\ \A y : Waits(y) /\ y # "connect" => Waits(y)'
      BY <1>0, <1>1, <1>2, <1>5, GoesOnWithNone
    <2>2. /\ timers' \in [Timers -> BOOLEAN]
          /\ timers["connectRetry"] => timers'["connectRetry"]
          /\ timers["staOnlyRetry"] => timers'["staOnlyRetry"]
          /\ timers' = timers \/ timers'["connectRetry"]
      BY <1>0, <1>2, <1>5, TimersType DEF RetryTypeOK, Timers
    <2>3. RetryTypeOK'
      BY <1>0, <1>3, <1>5, <2>2 DEF RetryTypeOK
    <2>4. TransitionEnds' /\ ScanResumes' /\ NetworkIsKnown'
      BY <1>1, <1>3, <1>5, <2>1
         DEF RetryInv, SoughtInv, TransitionEnds, ScanResumes, NetworkIsKnown, Configured, LinkDown
    <2>5. AttemptIsReal'
      BY <1>1, <1>3, <1>5, <1>e, <2>1 DEF RetryInv, SoughtInv, AttemptIsReal
    <2>6. ConnectionIsSought'
      <3>1. CASE timers'["connectRetry"]
        BY <3>1 DEF ConnectionIsSought
      <3>2. CASE ~(MayConnect /\ HasSta(driver.mode))
        <4>1. \/ ~Configured \/ staConnected \/ ~HasSta(driver.mode)
              \/ scan.running \/ sta.transition \/ sta.inFlight
          BY <3>2 DEF MayConnect
        <4>2. sta.transition => scan.running \/ Waits("apply")'
          BY <1>1, <2>1 DEF RetryInv, SoughtInv, TransitionEnds, Transitions
        <4> QED
          BY <1>3, <1>5, <4>1, <4>2 DEF ConnectionIsSought, Configured
      <3> QED
        BY <1>5, <1>0, <1>2, <3>1, <3>2, TimersType
    <2>7. ApIsLeft'
      BY <1>1, <1>3, <1>5, <1>e, <2>1, <2>2 DEF RetryInv, SoughtInv, ApIsLeft, EventsAreKept
    <2> QED
      BY <2>1, <2>3, <2>4, <2>5, <2>6, <2>7 DEF SoughtInv
  <1> QED
    BY <1>4, <1>5 DEF ConnectSta

\* The call itself is taken, or tried again later.
LEMMA ConnectCallIsSought ==
    ASSUME RetryInv, NEW t \in Tasks, ConnectStaCall(t)
    PROVE  TodoInv' /\ SoughtInv'
  <1>0. ConnectionTypeOK /\ TodoInv /\ RetryTypeOK
    BY DEF RetryInv, SoughtInv
  <1>1. At(t, "connectCall") /\ Stage = "connectCall"
    BY <1>0, StageOfTask DEF ConnectStaCall, LockSteps
  <1>2. "connectCall" \in Steps \ GivenUp /\ "connectCall" \in LockSteps
        /\ "connectRetry" \in Timers
    BY DEF Steps, GivenUp, LockSteps, Timers
  <1>3. /\ UNCHANGED <<configuration, staConnected, scan, events, stranded>>
        /\ modeLock' = None /\ Continue(t, <<>>)
    BY DEF ConnectStaCall
  <1>4. TodoInv' /\ Stage' = "free" /\ \A y : Waits(y) /\ y # "connectCall" => Waits(y)'
    BY <1>0, <1>1, <1>2, <1>3, GoesOnWithNone
  <1>e. EventsAreKept /\ ~staConnected /\ sta.inFlight
    BY <1>1, <1>3, EventsAlone DEF RetryInv, SoughtInv, AttemptIsReal
  <1>5. /\ driver'.link # LinkDown => driver'.link.network # 0
        /\ driver'.mode = driver.mode
        /\ \/ /\ sta' = sta /\ StopTimer("connectRetry")
              /\ driver'.link # LinkDown
           \/ /\ sta' = [sta EXCEPT !.inFlight = FALSE] /\ Schedule("connectRetry")
              /\ driver' = driver
    <2>1. CASE ConnectIsTaken /\ StopTimer("connectRetry") /\ UNCHANGED sta
      <3>1. CASE CanConnect
        <4>1. driver'.link = Connecting /\ driver'.mode = driver.mode /\ driver.network # 0
          BY <1>0, <2>1, <3>1 DEF ConnectIsTaken, ConnectionTypeOK, DriverStates
        <4>2. Connecting.state # LinkDown.state /\ Connecting.network # 0
          BY <4>1 DEF Connecting, LinkDown
        <4> QED
          BY <2>1, <4>1, <4>2
      <3>2. CASE ~CanConnect
        <4>1. driver' = driver /\ driver.link # LinkDown
          BY <2>1, <3>2 DEF ConnectIsTaken, CanConnect
        <4>2. driver.link.network # 0
          BY <4>1 DEF RetryInv, SoughtInv, NetworkIsKnown
        <4> QED
          BY <2>1, <4>1, <4>2
      <3> QED
        BY <3>1, <3>2
    <2>2. CASE ConnectIsRefused /\ sta' = [sta EXCEPT !.inFlight = FALSE]
               /\ Schedule("connectRetry")
      BY <2>2 DEF ConnectIsRefused, RetryInv, SoughtInv, NetworkIsKnown
    <2> QED
      BY <2>1, <2>2 DEF ConnectStaCall
  <1>6. /\ timers' \in [Timers -> BOOLEAN]
        /\ sta'.inFlight \/ timers'["connectRetry"]
        /\ RetryTypeOK'
        /\ sta'.transition = sta.transition /\ sta'.disconnectPending = sta.disconnectPending
        /\ sta'.inFlight => driver'.link # LinkDown
    <2>1. CASE sta' = sta /\ StopTimer("connectRetry") /\ driver'.link # LinkDown
      BY <1>0, <1>2, <1>3, <1>e, <2>1, TimersType DEF RetryTypeOK
    <2>2. CASE sta' = [sta EXCEPT !.inFlight = FALSE] /\ Schedule("connectRetry")
      BY <1>0, <1>2, <1>3, <2>2, TimersType DEF RetryTypeOK
    <2> QED
      BY <1>5, <2>1, <2>2
  <1>7. TransitionEnds' /\ ScanResumes' /\ NetworkIsKnown'
    BY <1>1, <1>3, <1>4, <1>5, <1>6
       DEF RetryInv, SoughtInv, TransitionEnds, ScanResumes, NetworkIsKnown, Configured,
           Transitions, LinkDown
  <1>8. AttemptIsReal'
    BY <1>3, <1>4, <1>6, <1>e DEF RetryInv, SoughtInv, AttemptIsReal, LinkDown
  <1>9. ConnectionIsSought' /\ ApIsLeft'
    BY <1>3, <1>6, <1>e DEF ConnectionIsSought, ApIsLeft
  <1> QED
    BY <1>4, <1>6, <1>7, <1>8, <1>9 DEF SoughtInv

\* The list that follows a scan.
LEMMA AfterScanList ==
    ASSUME NEW first \in {<<>>, <<"stopScanTimer">>}
    PROVE  /\ first \o AfterScan \in Seq(Steps)
           /\ Range(first \o AfterScan) \cap (GivenUp \cup LockSteps) = {}
           /\ first \o AfterScan # <<>> /\ ~Locks(first \o AfterScan)
           /\ Range(Tail(first \o AfterScan)) \cap LockSteps = {}
           /\ scan.applyAfter => "apply" \in Range(first \o AfterScan)
           /\ ~scan.applyAfter /\ scan.reconnect /\ ~staConnected =>
                  "connect" \in Range(first \o AfterScan)
  <1> DEFINE back == <<"returnToAp">>
             rest == IF scan.applyAfter THEN <<"apply">>
                     ELSE IF scan.reconnect /\ ~staConnected
                          THEN <<"connect", "scheduleFallback">> ELSE <<>>
             some == {"stopScanTimer", "returnToAp", "apply", "connect", "scheduleFallback"}
  <1>1. some \subseteq Steps /\ some \cap (GivenUp \cup LockSteps) = {}
    BY DEF Steps, GivenUp, LockSteps
  <1>2. /\ first \in Seq(some) /\ back \in Seq(some) /\ rest \in Seq(some)
        /\ back # <<>>
    BY ShortSequences
  <1>3. /\ scan.applyAfter => "apply" \in Range(rest)
        /\ ~scan.applyAfter /\ scan.reconnect /\ ~staConnected => "connect" \in Range(rest)
    BY RangeOfShort
  <1>4. AfterScan = back \o rest
    BY DEF AfterScan
  <1> HIDE DEF back, rest
  <1> DEFINE after == back \o rest
  <1>5. after \in Seq(some) /\ after # <<>> /\ Range(rest) \subseteq Range(after)
    BY <1>2, ConcatenatedSequence, HeadOfConcatenation, RangeOfConcatenation
  <1> HIDE DEF after
  <1> DEFINE all == first \o after
  <1>6. all \in Seq(some) /\ Range(after) \subseteq Range(all)
    BY <1>2, <1>5, ConcatenatedSequence, RangeOfConcatenation
  <1>7. all # <<>>
    BY <1>2, <1>5
  <1> HIDE DEF all, some
  <1>8. Range(all) = {Head(all)} \cup Range(Tail(all))
    BY <1>6, <1>7, RangeOfTail
  <1>9. Range(all) \subseteq some
    BY <1>6 DEF Range
  <1>10. all \in Seq(Steps)
    BY <1>1, <1>6
  <1>11. Range(all) \cap (GivenUp \cup LockSteps) = {} /\ Head(all) \notin LockSteps
    BY <1>1, <1>8, <1>9
  <1>12. all = first \o AfterScan
    BY <1>4 DEF all, after
  <1> QED
    BY <1>3, <1>5, <1>6, <1>7, <1>8, <1>10, <1>11, <1>12 DEF Locks

\* The end of a scan calls for what it held back.
LEMMA EndOfScanStep ==
    ASSUME RetryInv, NEW t \in Tasks, FailScan(t) \/ CompleteScan(t)
    PROVE  TodoInv' /\ SoughtInv'
  <1>0. ConnectionTypeOK /\ TodoInv /\ RetryTypeOK
    BY DEF RetryInv, SoughtInv
  <1>1. /\ UNCHANGED <<configuration, staConnected, sta, timers, driver, events, modeLock,
                       stranded>>
        /\ ModeIsKept /\ EventsAreKept
    BY EventsAlone, ModeAlone DEF FailScan, CompleteScan, boundVars
  <1>2. PICK step \in {"failScan", "completeScan"} : At(t, step)
    BY DEF FailScan, CompleteScan
  <1>3. step \in Steps \ GivenUp /\ step \notin LockSteps
        /\ step \notin {"apply", "connect", "staOnly"}
    BY DEF Steps, GivenUp, LockSteps
  <1>4. CASE UNCHANGED scan /\ Continue(t, <<>>)
    <2>1. TodoInv' /\ Stage' = Stage /\ \A y : Waits(y) /\ y # step => Waits(y)'
      BY <1>0, <1>1, <1>2, <1>3, <1>4, GoesOnWithNone
    <2>2. RetryTypeOK'
      BY <1>0, <1>1, <1>4 DEF RetryTypeOK
    <2> QED
      BY <1>1, <1>3, <1>4, <2>1, <2>2, NothingIsTaken
  <1>5. ASSUME NEW first \in {<<>>, <<"stopScanTimer">>}, scan' = EndedScan,
               Continue(t, first \o AfterScan)
        PROVE  TodoInv' /\ SoughtInv'
    <2> DEFINE steps == first \o AfterScan
    <2>1. /\ steps \in Seq(Steps) /\ Range(steps) \cap (GivenUp \cup LockSteps) = {}
          /\ ~Locks(steps) /\ Range(Tail(steps)) \cap LockSteps = {}
          /\ scan.applyAfter => "apply" \in Range(steps)
          /\ ~scan.applyAfter /\ scan.reconnect /\ ~staConnected => "connect" \in Range(steps)
      BY AfterScanList
    <2>2. Continue(t, steps)
      BY <1>5
    <2> HIDE DEF steps
    <2>3. /\ TodoInv' /\ Stage' = Stage
          /\ \A x \in Range(steps) : Waits(x)'
          /\ \A y : Waits(y) /\ y # step => Waits(y)'
      BY <1>0, <1>1, <1>2, <1>3, <2>1, <2>2, TodoGoesOn
    <2>4. /\ RetryTypeOK'
          /\ ~scan'.running /\ ~scan'.applyAfter /\ ~scan'.reconnect
      BY <1>0, <1>1, <1>5 DEF RetryTypeOK, EndedScan
    <2>5. /\ Waits("apply") => Waits("apply")'
          /\ Waits("connect") => Waits("connect")'
          /\ Waits("staOnly") => Waits("staOnly")'
          /\ scan.applyAfter => Waits("apply")'
          /\ ~scan.applyAfter /\ scan.reconnect /\ ~staConnected => Waits("connect")'
      BY <1>3, <2>1, <2>3
    <2>6. TransitionEnds' /\ ScanResumes' /\ NetworkIsKnown'
      BY <1>1, <2>3, <2>4, <2>5
         DEF RetryInv, SoughtInv, TransitionEnds, ScanResumes, NetworkIsKnown, Configured
    <2>7. AttemptIsReal'
      BY <1>1, <2>3 DEF RetryInv, SoughtInv, AttemptIsReal
    <2>8. ConnectionIsSought'
      <3>1. Configured /\ ~staConnected /\ scan.running =>
                Stage \in Transitions \/ Waits("apply")' \/ Waits("connect")'
        BY <2>5 DEF RetryInv, SoughtInv, ScanResumes, Transitions
      <3> QED
        BY <1>1, <2>3, <2>5, <3>1
           DEF RetryInv, SoughtInv, ConnectionIsSought, Configured, EventsAreKept
    <2>9. ApIsLeft'
      BY <1>1, <2>3, <2>5 DEF RetryInv, SoughtInv, ApIsLeft, EventsAreKept
    <2> QED
      BY <2>3, <2>4, <2>6, <2>7, <2>8, <2>9 DEF SoughtInv
  <1>6. <<>> \o AfterScan = AfterScan
    BY StepLists
  <1>7. FailScan(t) => \/ UNCHANGED scan /\ Continue(t, <<>>)
                       \/ scan' = EndedScan /\ Continue(t, <<"stopScanTimer">> \o AfterScan)
    BY DEF FailScan
  <1>8. CompleteScan(t) => scan' = EndedScan /\ Continue(t, <<>> \o AfterScan)
    BY <1>6 DEF CompleteScan
  <1> QED
    BY <1>4, <1>5, <1>7, <1>8

\* A configuration is applied, or left to the end of the scan.
LEMMA ApplyStep ==
    ASSUME RetryInv, NEW t \in Tasks, ApplyConfiguration(t) \/ DeferToScan(t)
    PROVE  TodoInv' /\ SoughtInv'
  <1>0. ConnectionTypeOK /\ TodoInv /\ RetryTypeOK
    BY DEF RetryInv, SoughtInv
  <1>1. /\ UNCHANGED <<configuration, staConnected, timers, driver, events, stranded>>
        /\ EventsAreKept
    BY EventsAlone DEF ApplyConfiguration, DeferToScan, boundVars
  <1>2. {"apply", "configure"} \subseteq Steps \ GivenUp /\ "configure" \in LockSteps
        /\ "apply" \notin LockSteps
    BY DEF Steps, GivenUp, LockSteps
  <1>3. CASE ApplyConfiguration(t)
    <2>1. /\ At(t, "apply") /\ ModeIsFree(t) /\ modeLock' = t
          /\ Continue(t, <<"configure">>)
          /\ sta' = [sta EXCEPT !.transition = TRUE] /\ UNCHANGED scan
      BY <1>3 DEF ApplyConfiguration
    <2>2. modeLock = None /\ Stage = "free"
      BY <1>0, <1>2, <2>1, StageOfTask
    <2>3. TodoInv' /\ Stage' = "configure" /\ \A y : Waits(y) /\ y # "apply" => Waits(y)'
      BY <1>0, <1>2, <2>1, <2>2, GoesOnWithOne
    <2>4. RetryTypeOK' /\ sta'.inFlight = sta.inFlight
          /\ sta'.disconnectPending = sta.disconnectPending
      BY <1>0, <1>1, <2>1 DEF RetryTypeOK
    <2>5. TransitionEnds' /\ ScanResumes' /\ NetworkIsKnown'
      BY <1>1, <2>1, <2>2, <2>3
         DEF RetryInv, SoughtInv, TransitionEnds, ScanResumes, NetworkIsKnown, Configured,
             Transitions, LinkDown
    <2>6. AttemptIsReal'
      BY <1>1, <2>2, <2>3, <2>4 DEF RetryInv, SoughtInv, AttemptIsReal, LinkDown
    <2>7. ConnectionIsSought' /\ ApIsLeft'
      BY <2>3 DEF ConnectionIsSought, ApIsLeft, Transitions
    <2> QED
      BY <2>3, <2>4, <2>5, <2>6, <2>7 DEF SoughtInv
  <1>4. CASE DeferToScan(t)
    <2>1. /\ At(t, "configure") /\ scan.running /\ modeLock' = None
          /\ Continue(t, <<>>)
          /\ scan' = [scan EXCEPT !.applyAfter = TRUE, !.reconnect = TRUE] /\ UNCHANGED sta
      BY <1>4 DEF DeferToScan
    <2>2. Stage = "configure"
      BY <1>0, <1>2, <2>1, StageOfTask
    <2>3. TodoInv' /\ Stage' = "free" /\ \A y : Waits(y) /\ y # "configure" => Waits(y)'
      BY <1>0, <1>2, <2>1, GoesOnWithNone
    <2>4. RetryTypeOK' /\ scan'.running /\ scan'.applyAfter
      BY <1>0, <1>1, <2>1 DEF RetryTypeOK
    <2>5. TransitionEnds' /\ ScanResumes' /\ NetworkIsKnown'
      BY <1>1, <2>1, <2>3, <2>4
         DEF RetryInv, SoughtInv, TransitionEnds, ScanResumes, NetworkIsKnown, Configured, LinkDown
    <2>6. AttemptIsReal'
      BY <1>1, <2>1, <2>2, <2>3 DEF RetryInv, SoughtInv, AttemptIsReal, LinkDown
    <2>7. ConnectionIsSought' /\ ApIsLeft'
      BY <2>3, <2>4 DEF ConnectionIsSought, ApIsLeft, Transitions
    <2> QED
      BY <2>3, <2>4, <2>5, <2>6, <2>7 DEF SoughtInv
  <1> QED
    BY <1>3, <1>4

\* The mode and the configuration of the driver are set; or they fail, and the access
\* point is to come back.
LEMMA ConfigureIsSought ==
    ASSUME RetryInv, NEW t \in Tasks, ConfigureDriver(t)
    PROVE  TodoInv' /\ SoughtInv'
  <1>0. ConnectionTypeOK /\ TodoInv /\ RetryTypeOK
    BY DEF RetryInv, SoughtInv
  <1> DEFINE mode == IF apActive /\ ~staConnected THEN "APSTA" ELSE "STA"
  <1>1. /\ At(t, "configure") /\ ~scan.running
        /\ UNCHANGED <<configuration, staConnected, scan, timers, modeLock, stranded>>
    BY DEF ConfigureDriver
  <1>2. {"configure", "relink", "recoverAp"} \subseteq (Steps \ GivenUp) \cap LockSteps
    BY DEF Steps, GivenUp, LockSteps
  <1>3. modeLock = t /\ Stage = "configure"
    BY <1>0, <1>1, <1>2, StageOfTask
  <1>4. /\ EventsAreKept /\ driver'.link = driver.link
        /\ staConnected => driver'.mode = "STA" \/ driver' = driver
    <2>1. CASE /\ driver' = [driver EXCEPT !.mode = mode, !.network = configuration]
               /\ events' = events \o ModeEvents(driver.mode, mode)
      <3>1. ModeEvents(driver.mode, mode) \in Seq(EventKinds)
        BY ModeEventsType
      <3>2. EventsAreKept
        BY <1>0, <2>1, <3>1, EventsAdded DEF EventsAreKept, Posted, ConnectionTypeOK
      <3> QED
        BY <1>0, <2>1, <3>2 DEF ConnectionTypeOK, DriverStates
    <2>2. CASE SetMode(mode)
      BY <1>0, <2>2, SetModeIsKept
    <2>3. CASE UNCHANGED <<driver, events>>
      BY <2>3, EventsAlone
    <2> QED
      BY <2>1, <2>2, <2>3 DEF ConfigureDriver
  <1>5. CASE /\ sta' = [sta EXCEPT !.applyPending = FALSE]
             /\ Continue(t, <<"relink">>)
             /\ driver' = [driver EXCEPT !.mode = mode, !.network = configuration]
    <2>1. TodoInv' /\ Stage' = "relink" /\ \A y : Waits(y) /\ y # "configure" => Waits(y)'
      BY <1>0, <1>1, <1>2, <1>3, <1>5, GoesOnWithOne
    <2>2. /\ RetryTypeOK' /\ sta'.inFlight = sta.inFlight
          /\ sta'.disconnectPending = sta.disconnectPending
      BY <1>0, <1>1, <1>5 DEF RetryTypeOK
    <2>3. staConnected => driver'.mode = "STA"
      BY <1>0, <1>5 DEF ConnectionTypeOK, DriverStates
    <2>4. TransitionEnds' /\ ScanResumes' /\ NetworkIsKnown'
      BY <1>1, <1>3, <1>4, <2>1
         DEF RetryInv, SoughtInv, TransitionEnds, ScanResumes, NetworkIsKnown, Configured,
             Transitions, LinkDown
    <2>5. AttemptIsReal'
      BY <1>1, <1>3, <1>4, <2>1, <2>2
         DEF RetryInv, SoughtInv, AttemptIsReal, LinkDown, EventsAreKept
    <2>6. ConnectionIsSought' /\ ApIsLeft'
      BY <1>1, <2>1, <2>3 DEF ConnectionIsSought, ApIsLeft, Transitions
    <2> QED
      BY <2>1, <2>2, <2>4, <2>5, <2>6 DEF SoughtInv
  <1>6. CASE /\ sta' = [sta EXCEPT !.applyPending = TRUE]
             /\ Continue(t, <<"recoverAp">>)
    <2>1. TodoInv' /\ Stage' = "recoverAp" /\ \A y : Waits(y) /\ y # "configure" => Waits(y)'
      BY <1>0, <1>1, <1>2, <1>3, <1>6, GoesOnWithOne
    <2>2. /\ RetryTypeOK' /\ sta'.inFlight = sta.inFlight /\ sta'.applyPending
          /\ sta'.disconnectPending = sta.disconnectPending
      BY <1>0, <1>1, <1>6 DEF RetryTypeOK
    <2>4. TransitionEnds' /\ ScanResumes' /\ NetworkIsKnown'
      BY <1>1, <1>3, <1>4, <2>1
         DEF RetryInv, SoughtInv, TransitionEnds, ScanResumes, NetworkIsKnown, Configured,
             Transitions, LinkDown
    <2>5. AttemptIsReal'
      BY <1>1, <1>3, <1>4, <2>1, <2>2
         DEF RetryInv, SoughtInv, AttemptIsReal, LinkDown, EventsAreKept
    <2>6. ConnectionIsSought' /\ ApIsLeft'
      BY <1>1, <2>1, <2>2 DEF ConnectionIsSought, ApIsLeft, Transitions
    <2> QED
      BY <2>1, <2>2, <2>4, <2>5, <2>6 DEF SoughtInv
  <1> QED
    BY <1>5, <1>6 DEF ConfigureDriver

\* The link is set up anew, and the transition ends; or that fails.
LEMMA RelinkIsSought ==
    ASSUME RetryInv, NEW t \in Tasks, Relink(t)
    PROVE  TodoInv' /\ SoughtInv'
  <1>0. ConnectionTypeOK /\ TodoInv /\ RetryTypeOK
    BY DEF RetryInv, SoughtInv
  <1>1. At(t, "relink") /\ UNCHANGED <<configuration, staConnected, scan>>
    BY DEF Relink
  <1>2. /\ {"relink", "recoverAp"} \subseteq (Steps \ GivenUp) \cap LockSteps
        /\ "scheduleFallback" \in (Steps \ GivenUp) \ LockSteps
        /\ "connectRetry" \in Timers /\ "LEFT" \in EventKinds
    BY DEF Steps, GivenUp, LockSteps, Timers, EventKinds
  <1>3. /\ modeLock = t /\ Stage = "relink"
        /\ staConnected => driver.mode = "STA"
    BY <1>0, <1>1, <1>2, StageOfTask DEF RetryInv, SoughtInv, ApIsLeft
  <1>4. ASSUME NEW attempt, EndTransition(t, attempt)
        PROVE  TodoInv' /\ Stage' = "free" /\ \A y : Waits(y) /\ y # "relink" => Waits(y)'
    BY <1>0, <1>1, <1>2, <1>4, GoesOnWithOne DEF EndTransition
  <1>5. CASE /\ LinkIsClosed
             /\ stranded' = (stranded \/ sta.inFlight)
             /\ Schedule("connectRetry")
             /\ EndTransition(t, [sta EXCEPT !.disconnectPending = TRUE])
    <2>1. TodoInv' /\ Stage' = "free" /\ \A y : Waits(y) /\ y # "relink" => Waits(y)'
      BY <1>4, <1>5
    <2>2. /\ sta' = [sta EXCEPT !.disconnectPending = TRUE, !.transition = FALSE]
          /\ events' = Append(events, "LEFT")
          /\ driver' = [driver EXCEPT !.link = LinkDown]
      BY <1>0, <1>5 DEF EndTransition, LinkIsClosed, RetryTypeOK
    <2>3. /\ sta'.inFlight = sta.inFlight /\ ~sta'.transition /\ timers'["connectRetry"]
          /\ timers' \in [Timers -> BOOLEAN]
      BY <1>0, <1>2, <1>5, <2>2, TimersType DEF RetryTypeOK
    <2>4. RetryTypeOK'
      <3>1. sta' \in [transition : BOOLEAN, inFlight : BOOLEAN, disconnectPending : BOOLEAN,
                      applyPending : BOOLEAN]
        BY <1>0, <2>2 DEF RetryTypeOK
      <3>2. stranded' \in BOOLEAN
        BY <1>5
      <3> QED
        BY <1>0, <1>1, <2>3, <3>1, <3>2 DEF RetryTypeOK
    <2>5. LossIsPending(events') /\ driver'.mode = driver.mode /\ driver'.link = LinkDown
      BY <1>0, <1>2, <2>2, EventAdded DEF ConnectionTypeOK, DriverStates
    <2>6. TransitionEnds' /\ ScanResumes' /\ NetworkIsKnown'
      BY <1>1, <1>3, <2>1, <2>3, <2>5
         DEF RetryInv, SoughtInv, TransitionEnds, ScanResumes, NetworkIsKnown, Configured, LinkDown
    <2>7. AttemptIsReal'
      BY <1>5, <2>1, <2>3, <2>5 DEF AttemptIsReal
    <2>8. ConnectionIsSought' /\ ApIsLeft'
      BY <1>1, <1>3, <2>1, <2>3, <2>5 DEF ConnectionIsSought, ApIsLeft
    <2> QED
      BY <2>1, <2>4, <2>6, <2>7, <2>8 DEF SoughtInv
  <1>6. CASE /\ driver.link = LinkDown /\ ConnectIsTaken
             /\ StopTimer("connectRetry")
             /\ EndTransition(t, [sta EXCEPT !.inFlight = TRUE, !.disconnectPending = FALSE])
             /\ UNCHANGED <<events, stranded>>
    <2>1. TodoInv' /\ Stage' = "free" /\ \A y : Waits(y) /\ y # "relink" => Waits(y)'
      BY <1>4, <1>6
    <2>2. sta' = [sta EXCEPT !.inFlight = TRUE, !.disconnectPending = FALSE,
                             !.transition = FALSE]
      BY <1>0, <1>6 DEF EndTransition, RetryTypeOK
    <2>3. driver' = [driver EXCEPT !.link = Connecting] /\ driver.network # 0
      BY <1>6 DEF ConnectIsTaken, CanConnect
    <2>4. /\ driver'.mode = driver.mode /\ driver'.link # LinkDown /\ driver'.link.network # 0
      <3>1. Connecting.state # LinkDown.state /\ Connecting.network # 0
        BY <2>3 DEF Connecting, LinkDown
      <3> QED
        BY <1>0, <2>3, <3>1 DEF ConnectionTypeOK, DriverStates
    <2>5. RetryTypeOK' /\ sta'.inFlight /\ ~sta'.transition /\ ~sta'.disconnectPending
      BY <1>0, <1>1, <1>2, <1>6, <2>2, TimersType DEF RetryTypeOK
    <2>6. TransitionEnds' /\ ScanResumes' /\ NetworkIsKnown'
      BY <1>1, <1>3, <2>1, <2>4, <2>5
         DEF RetryInv, SoughtInv, TransitionEnds, ScanResumes, NetworkIsKnown, Configured
    <2>7. AttemptIsReal'
      BY <2>1, <2>4, <2>5 DEF AttemptIsReal, LinkDown
    <2>8. ConnectionIsSought' /\ ApIsLeft'
      BY <1>1, <1>3, <2>1, <2>4, <2>5 DEF ConnectionIsSought, ApIsLeft
    <2> QED
      BY <2>1, <2>5, <2>6, <2>7, <2>8 DEF SoughtInv
  <1>7. CASE /\ sta' = [sta EXCEPT !.disconnectPending = FALSE,
                                   !.inFlight = @ /\ driver.link # LinkDown]
             /\ Continue(t, <<"recoverAp">>)
             /\ UNCHANGED <<timers, driver, events, modeLock, stranded>>
    <2>1. TodoInv' /\ Stage' = "recoverAp" /\ \A y : Waits(y) /\ y # "relink" => Waits(y)'
      BY <1>0, <1>1, <1>2, <1>3, <1>7, GoesOnWithOne
    <2>2. /\ (sta.inFlight /\ driver.link # LinkDown) \in BOOLEAN
          /\ sta' = [sta EXCEPT !.disconnectPending = FALSE,
                                !.inFlight = sta.inFlight /\ driver.link # LinkDown]
      BY <1>7
    <2>3. RetryTypeOK' /\ ~sta'.disconnectPending
          /\ sta'.inFlight = (sta.inFlight /\ driver.link # LinkDown)
      BY <1>0, <1>1, <1>7, <2>2 DEF RetryTypeOK
    <2>6. TransitionEnds' /\ ScanResumes' /\ NetworkIsKnown'
      BY <1>1, <1>3, <1>7, <2>1, <2>3
         DEF RetryInv, SoughtInv, TransitionEnds, ScanResumes, NetworkIsKnown, Configured,
             Transitions, LinkDown
    <2>7. AttemptIsReal'
      BY <1>7, <2>1, <2>3 DEF AttemptIsReal, LinkDown
    <2>8. ConnectionIsSought' /\ ApIsLeft'
      BY <1>1, <1>3, <1>7, <2>1 DEF ConnectionIsSought, ApIsLeft, Transitions
    <2> QED
      BY <2>1, <2>3, <2>6, <2>7, <2>8 DEF SoughtInv
  <1> QED
    BY <1>5, <1>6, <1>7 DEF Relink

\* The access point comes back, and the transition ends.
LEMMA RecoverIsSought ==
    ASSUME RetryInv, NEW t \in Tasks, RecoverAp(t)
    PROVE  TodoInv' /\ SoughtInv'
  <1>0. ConnectionTypeOK /\ TodoInv /\ RetryTypeOK
    BY DEF RetryInv, SoughtInv
  <1>1. /\ At(t, "recoverAp") /\ UNCHANGED <<configuration, staConnected, scan, stranded>>
        /\ Schedule("connectRetry") /\ EndTransition(t, sta)
    BY DEF RecoverAp
  <1>2. /\ "recoverAp" \in (Steps \ GivenUp) \cap LockSteps
        /\ "scheduleFallback" \in (Steps \ GivenUp) \ LockSteps /\ "connectRetry" \in Timers
    BY DEF Steps, GivenUp, LockSteps, Timers
  <1>3. /\ modeLock = t /\ Stage = "recoverAp"
        /\ staConnected => driver.mode = "STA" \/ sta.applyPending
    BY <1>0, <1>1, <1>2, StageOfTask DEF RetryInv, SoughtInv, ApIsLeft
  <1>4. TodoInv' /\ Stage' = "free" /\ \A y : Waits(y) /\ y # "recoverAp" => Waits(y)'
    BY <1>0, <1>1, <1>2, GoesOnWithOne DEF EndTransition
  <1>5. /\ sta' = [sta EXCEPT !.transition = FALSE]
        /\ sta'.inFlight = sta.inFlight /\ ~sta'.transition
        /\ sta'.applyPending = sta.applyPending
        /\ sta'.disconnectPending = sta.disconnectPending
        /\ timers'["connectRetry"] /\ RetryTypeOK'
    BY <1>0, <1>1, <1>2, TimersType DEF EndTransition, RetryTypeOK
  <1>6. /\ EventsAreKept /\ driver'.link = driver.link
        /\ driver.mode = "STA" => driver'.mode = "STA" \/ Posted("AP_START")'
    <2>1. SetMode("APSTA") \/ UNCHANGED <<driver, events>>
      BY DEF RecoverAp, EnableAp
    <2>2. SetMode("APSTA") => /\ EventsAreKept /\ driver'.link = driver.link
                              /\ driver.mode = "STA" => Posted("AP_START")'
      BY <1>0, SetModeIsKept DEF HasAp
    <2> QED
      BY <2>1, <2>2, EventsAlone
  <1>7. TransitionEnds' /\ ScanResumes' /\ NetworkIsKnown'
    BY <1>1, <1>3, <1>4, <1>5, <1>6
       DEF RetryInv, SoughtInv, TransitionEnds, ScanResumes, NetworkIsKnown, Configured, LinkDown
  <1>8. AttemptIsReal'
    BY <1>1, <1>3, <1>4, <1>5, <1>6
       DEF RetryInv, SoughtInv, AttemptIsReal, EventsAreKept, LinkDown
  <1>9. ConnectionIsSought' /\ ApIsLeft'
    BY <1>1, <1>3, <1>4, <1>5, <1>6 DEF ConnectionIsSought, ApIsLeft
  <1> QED
    BY <1>4, <1>5, <1>7, <1>8, <1>9 DEF SoughtInv

\* The access point goes, or that is tried again later.
LEMMA StaOnlyIsSought ==
    ASSUME RetryInv, NEW t \in Tasks, TransitionToStaOnly(t)
    PROVE  TodoInv' /\ SoughtInv'
  <1>0. ConnectionTypeOK /\ TodoInv /\ RetryTypeOK
    BY DEF RetryInv, SoughtInv
  <1>1. /\ At(t, "staOnly") /\ ModeIsFree(t)
        /\ UNCHANGED <<configuration, staConnected, sta, scan, modeLock, stranded>>
    BY DEF TransitionToStaOnly, serviceVars
  <1>2. modeLock = None /\ Stage = "free" /\ "staOnlyRetry" \in Timers
    BY <1>0, <1>1, StageOfTask DEF LockSteps, Timers
  <1>3. todo[t] = <<"staOnly">> \/ todo[t] = <<"staOnly", "connect">>
    <2>1. todo[t] \in Seq(Steps) /\ todo[t] # <<>> /\ Head(todo[t]) = "staOnly"
      BY <1>0, <1>1 DEF TodoInv, Started, At
    <2>2. "staOnly" \in Range(todo[t])
      BY <2>1, RangeOfTail
    <2>3. ListIsKnown(todo[t])
      BY <1>0 DEF TodoInv
    <2>4. /\ Head(<<"armScan">>) = "armScan" /\ Head(<<"leave">>) = "leave"
          /\ Head(<<"addSta", "leave">>) = "addSta" /\ Head(<<"addSta", "tryScan">>) = "addSta"
      OBVIOUS
    <2> QED
      BY <2>1, <2>2, <2>3, <2>4 DEF ListIsKnown, GivenUp
  <1>4. /\ Tail(<<"staOnly">>) = <<>> /\ Tail(<<"staOnly", "connect">>) = <<"connect">>
        /\ Range(<<"staOnly">>) = {"staOnly"}
        /\ Range(<<"staOnly", "connect">>) = {"staOnly", "connect"}
    <2>1. Tail(<<"staOnly">>) = <<>> /\ Tail(<<"staOnly", "connect">>) = <<"connect">>
      OBVIOUS
    <2> QED
      BY <2>1, RangeOfShort
  <1>5. \A y : y \in Range(todo[t]) => y \in {"staOnly", "connect"}
    BY <1>3, <1>4
  <1>6. ASSUME NEW new \in {<<>>, <<"connect">>}, todo' = [todo EXCEPT ![t] = new]
        PROVE  /\ TodoInv' /\ Stage' = "free"
               /\ \A y : Waits(y) /\ (y \in Range(todo[t]) => y \in Range(new)) => Waits(y)'
    <2>1. "connect" \in (Steps \ GivenUp) \ LockSteps
      BY DEF Steps, GivenUp, LockSteps
    <2>2. /\ new \in Seq(Steps) /\ ListIsKnown(new) /\ ~Locks(new)
          /\ new # <<>> => Range(Tail(new)) \cap LockSteps = {}
      <3>1. CASE new = <<>>
        BY <3>1, StepLists, RangeOfShort DEF ListIsKnown, Locks
      <3>2. CASE new = <<"connect">>
        <4>1. new \in Seq(Steps) /\ Range(new) = {"connect"} /\ Range(Tail(new)) = {}
              /\ ~Locks(new)
          BY <2>1, <3>2, ListOfOne
        <4> QED
          BY <2>1, <4>1 DEF ListIsKnown
      <3> QED
        BY <3>1, <3>2
    <2>3. modeLock # t
      BY <1>2, WifiAssumption DEF Tasks
    <2>4. Relocks(t, new)
      BY <1>1, <2>2, <2>3 DEF Relocks
    <2> QED
      BY <1>0, <1>2, <1>6, <2>2, <2>3, <2>4, TodoBecomes
  <1>7. CASE /\ staConnected /\ ~sta.transition
             /\ SetMode("STA") /\ StopTimer("staOnlyRetry") /\ Return(t, <<>>)
    <2>1. /\ TodoInv' /\ Stage' = "free"
          /\ \A y : Waits(y) /\ y \notin {"staOnly", "connect"} => Waits(y)'
      BY <1>5, <1>6, <1>7 DEF Return
    <2>2. driver'.mode = "STA" /\ driver'.link = driver.link /\ EventsAreKept
      BY <1>0, <1>7, SetModeIsKept
    <2>3. RetryTypeOK'
      BY <1>0, <1>1, <1>2, <1>7, TimersType DEF RetryTypeOK
    <2>4. TransitionEnds' /\ ScanResumes' /\ NetworkIsKnown'
      BY <1>1, <1>2, <1>7, <2>1, <2>2
         DEF RetryInv, SoughtInv, TransitionEnds, ScanResumes, NetworkIsKnown, Configured, LinkDown
    <2>5. AttemptIsReal'
      BY <1>1, <1>2, <2>1, <2>2 DEF RetryInv, SoughtInv, AttemptIsReal, EventsAreKept, LinkDown
    <2>6. ConnectionIsSought' /\ ApIsLeft'
      BY <1>1, <1>7, <2>2 DEF ConnectionIsSought, ApIsLeft
    <2> QED
      BY <2>1, <2>3, <2>4, <2>5, <2>6 DEF SoughtInv
  <1>8. ASSUME Continue(t, <<>>), UNCHANGED <<driver, events>>,
               \/ Schedule("staOnlyRetry")
               \/ UNCHANGED timers /\ (~staConnected \/ sta.transition)
        PROVE  TodoInv' /\ SoughtInv'
    <2>1. PICK new \in {<<>>, <<"connect">>} :
              /\ todo' = [todo EXCEPT ![t] = new]
              /\ \A y : y \in Range(todo[t]) /\ y # "staOnly" => y \in Range(new)
      <3>1. <<>> \o Tail(todo[t]) = Tail(todo[t])
        BY <1>3, <1>4
      <3>2. todo' = [todo EXCEPT ![t] = Tail(todo[t])]
        BY <1>8, <3>1 DEF Continue
      <3> QED
        BY <1>3, <1>4, <3>2, RangeOfShort
    <2>2. /\ TodoInv' /\ Stage' = "free" /\ \A y : Waits(y) /\ y # "staOnly" => Waits(y)'
      BY <1>6, <2>1
    <2>3. /\ timers' \in [Timers -> BOOLEAN]
          /\ timers["connectRetry"] => timers'["connectRetry"]
          /\ timers["staOnlyRetry"] => timers'["staOnlyRetry"]
          /\ timers' = timers \/ timers'["staOnlyRetry"]
      BY <1>0, <1>2, <1>8, TimersType DEF RetryTypeOK, Timers
    <2>4. RetryTypeOK' /\ EventsAreKept
      BY <1>0, <1>1, <1>8, <2>3, EventsAlone DEF RetryTypeOK
    <2>5. TransitionEnds' /\ ScanResumes' /\ NetworkIsKnown'
      BY <1>1, <1>2, <1>8, <2>2
         DEF RetryInv, SoughtInv, TransitionEnds, ScanResumes, NetworkIsKnown, Configured, LinkDown
    <2>6. AttemptIsReal'
      BY <1>1, <1>2, <1>8, <2>2, <2>4
         DEF RetryInv, SoughtInv, AttemptIsReal, EventsAreKept, LinkDown
    <2>7. ConnectionIsSought'
      BY <1>1, <1>2, <1>8, <2>2, <2>3, <2>4
         DEF RetryInv, SoughtInv, ConnectionIsSought, Configured, EventsAreKept
    <2>8. ApIsLeft'
      <3>1. sta.transition => (scan.running /\ scan.applyAfter) \/ Waits("apply")'
        BY <1>2, <2>2 DEF RetryInv, SoughtInv, TransitionEnds, Transitions
      <3>2. timers'["staOnlyRetry"] \/ ~staConnected \/ sta.transition
        BY <1>0, <1>2, <1>8, TimersType
      <3> QED
        BY <1>1, <2>2, <3>1, <3>2 DEF ApIsLeft
    <2> QED
      BY <2>2, <2>4, <2>5, <2>6, <2>7, <2>8 DEF SoughtInv
  <1> QED
    BY <1>7, <1>8 DEF TransitionToStaOnly

----------------------------------------------------------------------------
(* The event loop.                                                           *)

\* An idle task that begins with one step.
LEMMA BeginsWithOne ==
    ASSUME TodoInv, NEW t \in Tasks, Idle(t), NEW x \in Steps, Return(t, <<x>>),
           ListIsKnown(<<x>>),
           IF x \in LockSteps THEN modeLock = None /\ modeLock' = t
           ELSE modeLock' = modeLock
    PROVE  /\ TodoInv'
           /\ Stage' = IF x \in LockSteps THEN x ELSE Stage
           /\ Waits(x)' /\ \A y : Waits(y) => Waits(y)'
  <1> DEFINE steps == <<x>>
  <1>1. /\ steps \in Seq(Steps) /\ Range(steps) = {x} /\ Head(steps) = x
        /\ Range(Tail(steps)) = {} /\ (Locks(steps) <=> x \in LockSteps)
    BY ListOfOne
  <1>2. Return(t, steps) /\ ListIsKnown(steps)
    OBVIOUS
  <1> HIDE DEF steps
  <1> QED
    BY <1>1, <1>2, TodoBegins

\* An idle task that begins with two steps.
LEMMA BeginsWithTwo ==
    ASSUME TodoInv, NEW t \in Tasks, Idle(t), NEW x \in Steps \ LockSteps,
           NEW y \in Steps \ LockSteps, Return(t, <<x, y>>),
           ListIsKnown(<<x, y>>), UNCHANGED modeLock
    PROVE  /\ TodoInv' /\ Stage' = Stage
           /\ Waits(x)' /\ Waits(y)' /\ \A z : Waits(z) => Waits(z)'
  <1> DEFINE steps == <<x, y>>
  <1>1. /\ steps \in Seq(Steps) /\ Range(steps) = {x, y}
        /\ Head(steps) = x /\ Tail(steps) = <<y>> /\ Range(<<y>>) = {y}
    BY RangeOfShort
  <1>2. Return(t, steps) /\ ListIsKnown(steps)
    OBVIOUS
  <1> HIDE DEF steps
  <1> QED
    BY <1>1, <1>2, TodoBegins DEF Locks

\* An idle task that begins with none.
LEMMA BeginsWithNone ==
    ASSUME TodoInv, NEW t \in Tasks, Idle(t), Return(t, <<>>), UNCHANGED modeLock
    PROVE  TodoInv' /\ Stage' = Stage /\ \A y : Waits(y) => Waits(y)'
  <1> DEFINE steps == <<>>
  <1>1. /\ steps \in Seq(Steps) /\ steps = <<>> /\ ~Locks(steps) /\ ListIsKnown(steps)
    BY StepLists, RangeOfShort DEF Locks, ListIsKnown
  <1>2. Return(t, steps)
    OBVIOUS
  <1> HIDE DEF steps
  <1> QED
    BY <1>1, <1>2, TodoBegins

\* A task whose list is left alone.
LEMMA TodoAlone ==
    ASSUME TodoInv, UNCHANGED <<todo, modeLock>>
    PROVE  TodoInv' /\ Stage' = Stage /\ \A y : Waits(y)' = Waits(y)
  BY DEF TodoInv, Started, Locks, ListIsKnown, Stage, Waits

\* Lists of ordinary steps are known.
LEMMA OrdinaryLists ==
    /\ \A x : x \notin GivenUp => ListIsKnown(<<x>>)
    /\ \A x, y : x \notin GivenUp /\ y \notin GivenUp => ListIsKnown(<<x, y>>)
  BY RangeOfShort DEF ListIsKnown

\* Handling an event keeps those behind it.
LEMMA TakeIsKept ==
    ASSUME ConnectionTypeOK, NEW event \in EventKinds, Take(event), events' = Tail(events)
    PROVE  /\ \A other : Posted(other) /\ other # event => Posted(other)'
           /\ event \notin {"LEFT", "LOST"} =>
                  /\ LossIsPending(events) => LossIsPending(events')
                  /\ \A own : EndIsPending(events, own) => EndIsPending(events', own)
           /\ event = "LEFT" /\ EndIsPending(events, TRUE) => EndIsPending(events', FALSE)
  BY EventHandled, HandledEvent DEF Take, Posted, ConnectionTypeOK

\* The station has started: an attempt, unless something holds it back.
LEMMA StaStartedIsSought ==
    ASSUME RetryInv, StaStarted
    PROVE  TodoInv' /\ SoughtInv'
  <1>0. ConnectionTypeOK /\ TodoInv /\ RetryTypeOK
    BY DEF RetryInv, SoughtInv
  <1>1. /\ Take("STA_START") /\ events' = Tail(events) /\ Idle("event")
        /\ UNCHANGED <<configuration, staConnected, sta, scan, timers, driver, modeLock,
                       stranded>>
    BY DEF StaStarted, Take, serviceVars, boundVars
  <1>2. "event" \in Tasks /\ "STA_START" \in EventKinds
        /\ {"tryScan", "connect"} \subseteq (Steps \ GivenUp) \ LockSteps
    BY DEF Tasks, EventKinds, Steps, GivenUp, LockSteps
  <1>3. /\ TodoInv' /\ Stage' = Stage /\ \A y : Waits(y) => Waits(y)'
        /\ Configured /\ ~scan.running => Waits("connect")' \/ sta.transition
    <2>1. CASE scan.running
      BY <1>0, <1>1, <1>2, <2>1, BeginsWithOne, OrdinaryLists DEF StaStarted
    <2>2. CASE ~scan.running /\ Configured /\ ~sta.transition
      BY <1>0, <1>1, <1>2, <2>2, BeginsWithOne, OrdinaryLists DEF StaStarted
    <2>3. CASE ~scan.running /\ ~(Configured /\ ~sta.transition)
      BY <1>0, <1>1, <1>2, <2>3, BeginsWithNone DEF StaStarted
    <2> QED
      BY <2>1, <2>2, <2>3
  <1>4. /\ Posted("AP_START") => Posted("AP_START")'
        /\ LossIsPending(events) => LossIsPending(events')
        /\ \A own : EndIsPending(events, own) => EndIsPending(events', own)
    BY <1>0, <1>1, <1>2, TakeIsKept
  <1>5. RetryTypeOK'
    BY <1>0, <1>1 DEF RetryTypeOK
  <1>6. TransitionEnds' /\ ScanResumes' /\ NetworkIsKnown'
    BY <1>1, <1>3
       DEF RetryInv, SoughtInv, TransitionEnds, ScanResumes, NetworkIsKnown, Configured, LinkDown
  <1>7. AttemptIsReal'
    BY <1>1, <1>3, <1>4 DEF RetryInv, SoughtInv, AttemptIsReal, LinkDown
  <1>8. ConnectionIsSought'
    BY <1>1, <1>3, <1>6 DEF ConnectionIsSought, TransitionEnds, Configured
  <1>9. ApIsLeft'
    BY <1>1, <1>3, <1>4 DEF RetryInv, SoughtInv, ApIsLeft
  <1> QED
    BY <1>3, <1>5, <1>6, <1>7, <1>8, <1>9 DEF SoughtInv

\* Events that the access point and a scan post.
LEMMA OtherEventIsSought ==
    ASSUME RetryInv, ScanDone \/ ApStarted \/ ApStopped
    PROVE  TodoInv' /\ SoughtInv'
  <1>0. ConnectionTypeOK /\ TodoInv /\ RetryTypeOK
    BY DEF RetryInv, SoughtInv
  <1>1. PICK event \in {"SCAN_DONE", "AP_START", "AP_STOP"} :
            Take(event) /\ (event = "AP_START" => ApStarted)
    BY DEF ScanDone, ApStarted, ApStopped
  <1>2. /\ events' = Tail(events) /\ Idle("event") /\ event \in EventKinds
        /\ UNCHANGED <<configuration, staConnected, sta, scan, driver, modeLock, stranded>>
    BY <1>1 DEF ScanDone, ApStarted, ApStopped, Take, serviceVars, boundVars, EventKinds
  <1>3. /\ "event" \in Tasks
        /\ {"completeScan", "failScan", "connect", "scheduleFallback"}
               \subseteq (Steps \ GivenUp) \ LockSteps
        /\ "staOnly" \in Steps \ LockSteps /\ "scanTimeout" \in Timers
    BY DEF Tasks, Steps, GivenUp, LockSteps, Timers
  <1>4. /\ TodoInv' /\ Stage' = Stage /\ \A y : Waits(y) => Waits(y)'
        /\ ApStarted => Waits("staOnly")'
    <2>1. CASE ScanDone
      <3>1. ~ApStarted
        <4>1. Head(events) = "SCAN_DONE"
          BY <2>1 DEF ScanDone, Take
        <4> QED
          BY <4>1 DEF ApStarted, Take
      <3>2. CASE scan.running
        <4>1. PICK ending \in {"completeScan", "failScan"} : Return("event", <<ending>>)
          BY <2>1, <3>2 DEF ScanDone
        <4> QED
          BY <1>0, <1>2, <1>3, <3>1, <4>1, BeginsWithOne, OrdinaryLists
      <3>3. CASE ~scan.running
        BY <1>0, <1>2, <2>1, <3>1, <3>3, TodoAlone DEF ScanDone
      <3> QED
        BY <3>2, <3>3
    <2>2. CASE ApStarted
      <3>1. ListIsKnown(<<"staOnly", "connect">>) /\ Return("event", <<"staOnly", "connect">>)
        BY <2>2 DEF ListIsKnown, ApStarted
      <3> QED
        BY <1>0, <1>2, <1>3, <3>1, BeginsWithTwo
    <2>3. CASE ApStopped
      <3>1. ~ApStarted
        <4>1. Head(events) = "AP_STOP"
          BY <2>3 DEF ApStopped, Take
        <4> QED
          BY <4>1 DEF ApStarted, Take
      <3>2. Return("event", <<"scheduleFallback">>) \/ Return("event", <<>>)
        BY <2>3 DEF ApStopped
      <3> QED
        BY <1>0, <1>2, <1>3, <3>1, <3>2, BeginsWithOne, BeginsWithNone, OrdinaryLists
    <2> QED
      BY <2>1, <2>2, <2>3
  <1>5. /\ timers' \in [Timers -> BOOLEAN]
        /\ timers'["connectRetry"] = timers["connectRetry"]
        /\ timers'["staOnlyRetry"] = timers["staOnlyRetry"]
    <2>1. timers' = timers \/ StopTimer("scanTimeout")
      BY DEF ScanDone, ApStarted, ApStopped
    <2> QED
      BY <1>0, <1>3, <2>1, TimersType DEF RetryTypeOK, Timers
  <1>6. RetryTypeOK'
    BY <1>0, <1>2, <1>5 DEF RetryTypeOK
  <1>7. /\ Posted("STA_START") => Posted("STA_START")'
        /\ Posted("AP_START") => Posted("AP_START")' \/ Waits("staOnly")'
        /\ LossIsPending(events) => LossIsPending(events')
        /\ \A own : EndIsPending(events, own) => EndIsPending(events', own)
    BY <1>0, <1>1, <1>2, <1>4, TakeIsKept
  <1>8. TransitionEnds' /\ ScanResumes' /\ NetworkIsKnown'
    BY <1>2, <1>4
       DEF RetryInv, SoughtInv, TransitionEnds, ScanResumes, NetworkIsKnown, Configured, LinkDown
  <1>9. AttemptIsReal'
    BY <1>2, <1>4, <1>7 DEF RetryInv, SoughtInv, AttemptIsReal, LinkDown
  <1>10. ConnectionIsSought' /\ ApIsLeft'
    BY <1>2, <1>4, <1>5, <1>7
       DEF RetryInv, SoughtInv, ConnectionIsSought, ApIsLeft, Configured
  <1> QED
    BY <1>4, <1>6, <1>8, <1>9, <1>10 DEF SoughtInv

\* The loss of a link is handled.
LEMMA LossIsSought ==
    ASSUME RetryInv, StaDisconnected
    PROVE  TodoInv' /\ SoughtInv'
  <1>0. ConnectionTypeOK /\ TodoInv /\ RetryTypeOK
    BY DEF RetryInv, SoughtInv
  <1> DEFINE own == sta.disconnectPending /\ Head(events) = "LEFT"
             inFlight == sta.inFlight /\ own
             reconnect == scan.reconnect \/ (scan.running /\ Configured)
             first == IF scan.running THEN <<"tryScan">>
                      ELSE IF Configured /\ ~sta.transition THEN <<"connect">> ELSE <<>>
  <1>1. /\ Take("LEFT") \/ Take("LOST")
        /\ modeLock = None /\ events' = Tail(events) /\ Idle("event")
        /\ staConnected' = FALSE
        /\ sta' = [sta EXCEPT !.disconnectPending = FALSE, !.inFlight = inFlight]
        /\ scan' = [scan EXCEPT !.reconnect = reconnect]
        /\ UNCHANGED <<configuration, timers, driver, modeLock, stranded>>
    BY DEF StaDisconnected, InFlightAfter, Take, boundVars
  <1>2. inFlight \in BOOLEAN /\ reconnect \in BOOLEAN
    OBVIOUS
  <1>3. /\ RetryTypeOK'
        /\ ~sta'.disconnectPending /\ sta'.inFlight = inFlight
        /\ sta'.transition = sta.transition
        /\ scan'.running = scan.running /\ scan'.applyAfter = scan.applyAfter
        /\ scan'.reconnect = reconnect
    BY <1>0, <1>1, <1>2 DEF RetryTypeOK
  <1>4. /\ TodoInv' /\ Stage' = Stage /\ \A y : Waits(y) => Waits(y)'
        /\ Configured /\ ~scan.running /\ ~sta.transition => Waits("connect")'
    <2>1. Return("event", first \o <<"scheduleFallback">>)
      BY DEF StaDisconnected
    <2> DEFINE some == {"tryScan", "connect", "scheduleFallback"}
               back == <<"scheduleFallback">>
    <2>2. some \subseteq (Steps \ GivenUp) \ LockSteps /\ "event" \in Tasks
      BY DEF Steps, GivenUp, LockSteps, Tasks
    <2>3. first \in Seq(some) /\ back \in Seq(some) /\ back # <<>>
      BY ShortSequences
    <2>4. Configured /\ ~scan.running /\ ~sta.transition => "connect" \in Range(first)
      BY RangeOfShort
    <2> HIDE DEF first, back
    <2> DEFINE all == first \o back
    <2>5. all \in Seq(some) /\ Range(first) \subseteq Range(all)
      BY <2>3, ConcatenatedSequence, RangeOfConcatenation
    <2>6. all # <<>>
      BY <2>3
    <2>7. Return("event", all)
      BY <2>1 DEF back
    <2> HIDE DEF all, some
    <2>8. Range(all) = {Head(all)} \cup Range(Tail(all)) /\ Range(all) \subseteq some
      <3>1. Range(all) = {Head(all)} \cup Range(Tail(all))
        BY <2>5, <2>6, RangeOfTail
      <3>2. Range(all) \subseteq some
        BY <2>5 DEF Range
      <3> QED
        BY <3>1, <3>2
    <2>9. /\ all \in Seq(Steps) /\ ListIsKnown(all) /\ ~Locks(all)
          /\ Range(Tail(all)) \cap LockSteps = {}
      BY <2>2, <2>5, <2>8 DEF ListIsKnown, Locks
    <2>10. /\ TodoInv' /\ Stage' = Stage
           /\ \A x \in Range(all) : Waits(x)'
           /\ \A y : Waits(y) => Waits(y)'
      BY <1>0, <1>1, <2>2, <2>7, <2>9, TodoBegins
    <2> QED
      BY <2>4, <2>5, <2>10
  <1>5. Stage = "free"
    BY <1>1 DEF Stage
  <1>6. TransitionEnds' /\ NetworkIsKnown'
    BY <1>1, <1>3, <1>4, <1>5
       DEF RetryInv, SoughtInv, TransitionEnds, NetworkIsKnown, Configured, LinkDown
  <1>7. ScanResumes'
    BY <1>1, <1>3 DEF RetryInv, SoughtInv, ScanResumes, Configured
  <1>8. AttemptIsReal'
    <2>1. ASSUME inFlight, driver.link = LinkDown, ~stranded
          PROVE  EndIsPending(events', FALSE)
      <3>1. sta.disconnectPending = TRUE /\ sta.inFlight
        BY <1>0, <2>1 DEF RetryTypeOK
      <3>2. EndIsPending(events, TRUE)
        BY <1>5, <2>1, <3>1 DEF RetryInv, SoughtInv, AttemptIsReal
      <3>3. Take("LEFT") /\ "LEFT" \in EventKinds
        BY <1>1, <2>1 DEF Take, EventKinds
      <3> QED
        BY <1>0, <1>1, <3>2, <3>3, TakeIsKept
    <2>2. sta'.disconnectPending = FALSE
      BY <1>0, <1>1 DEF RetryTypeOK
    <2>3. sta'.inFlight = inFlight /\ driver'.link = driver.link /\ stranded' = stranded
          /\ Stage' = "free"
      BY <1>1, <1>3, <1>4, <1>5
    <2> HIDE DEF inFlight
    <2>4. EndIsPending(events, sta.disconnectPending)' <=> EndIsPending(events', FALSE)
      BY <2>2
    <2> QED
      BY <2>1, <2>2, <2>3, <2>4 DEF AttemptIsReal, LinkDown
  <1>9. ConnectionIsSought'
    BY <1>1, <1>3, <1>4, <1>6 DEF ConnectionIsSought, TransitionEnds, Configured
  <1>10. ApIsLeft'
    BY <1>1 DEF ApIsLeft
  <1> QED
    BY <1>3, <1>4, <1>6, <1>7, <1>8, <1>9, <1>10 DEF SoughtInv

\* An address: the device is connected, and the access point is to go.
LEMMA AddressIsSought ==
    ASSUME RetryInv, GotIp
    PROVE  TodoInv' /\ SoughtInv'
  <1>0. ConnectionTypeOK /\ TodoInv /\ RetryTypeOK
    BY DEF RetryInv, SoughtInv
  <1>1. /\ Take("GOT_IP") /\ modeLock = None /\ events' = Tail(events) /\ Idle("event")
        /\ UNCHANGED <<configuration, scan, timers, driver, stranded>>
    BY DEF GotIp, Take, boundVars
  <1>2. "event" \in Tasks /\ "GOT_IP" \in EventKinds
        /\ "leaveAp" \in (Steps \ GivenUp) \cap LockSteps
    BY DEF Tasks, EventKinds, Steps, GivenUp, LockSteps
  <1>4. /\ Posted("STA_START") => Posted("STA_START")'
        /\ Posted("AP_START") => Posted("AP_START")'
        /\ LossIsPending(events) => LossIsPending(events')
        /\ \A own : EndIsPending(events, own) => EndIsPending(events', own)
    BY <1>0, <1>1, <1>2, TakeIsKept
  <1>5. CASE AddressIsExpected
    <2>1. /\ staConnected' = TRUE
          /\ sta' = [sta EXCEPT !.inFlight = FALSE, !.disconnectPending = FALSE]
          /\ modeLock' = "event" /\ Return("event", <<"leaveAp">>)
      BY <1>5 DEF GotIp
    <2>2. TodoInv' /\ Stage' = "leaveAp" /\ \A y : Waits(y) => Waits(y)'
      BY <1>0, <1>1, <1>2, <2>1, BeginsWithOne, OrdinaryLists
    <2>3. /\ RetryTypeOK' /\ ~sta'.inFlight /\ ~sta'.disconnectPending
          /\ sta'.transition = sta.transition
      BY <1>0, <1>1, <2>1 DEF RetryTypeOK
    <2>4. Configured /\ ~sta.transition
      <3>1. driver.link.state = "up" /\ driver.link.network = configuration /\ ~sta.transition
        BY <1>5 DEF AddressIsExpected
      <3>2. driver.link # LinkDown
        BY <3>1 DEF LinkDown
      <3> QED
        BY <3>1, <3>2 DEF RetryInv, SoughtInv, NetworkIsKnown, Configured
    <2>5. TransitionEnds' /\ ScanResumes' /\ NetworkIsKnown'
      BY <1>1, <2>1, <2>2, <2>3, <2>4
         DEF RetryInv, SoughtInv, TransitionEnds, ScanResumes, NetworkIsKnown, Configured, LinkDown
    <2>6. AttemptIsReal' /\ ConnectionIsSought' /\ ApIsLeft'
      BY <2>1, <2>2, <2>3 DEF AttemptIsReal, ConnectionIsSought, ApIsLeft
    <2> QED
      BY <2>2, <2>3, <2>5, <2>6 DEF SoughtInv
  <1>6. CASE UNCHANGED <<staConnected, sta, fallbackArmed, modeLock, todo>>
    <2>1. TodoInv' /\ Stage' = Stage /\ \A y : Waits(y)' = Waits(y)
      BY <1>0, <1>6, TodoAlone
    <2>2. RetryTypeOK'
      BY <1>0, <1>1, <1>6 DEF RetryTypeOK
    <2>3. TransitionEnds' /\ ScanResumes' /\ NetworkIsKnown'
      BY <1>1, <1>6, <2>1
         DEF RetryInv, SoughtInv, TransitionEnds, ScanResumes, NetworkIsKnown, Configured, LinkDown
    <2>4. AttemptIsReal'
      BY <1>1, <1>4, <1>6, <2>1 DEF RetryInv, SoughtInv, AttemptIsReal, LinkDown
    <2>5. ConnectionIsSought' /\ ApIsLeft'
      BY <1>1, <1>4, <1>6, <2>1
         DEF RetryInv, SoughtInv, ConnectionIsSought, ApIsLeft, Configured
    <2> QED
      BY <2>1, <2>2, <2>3, <2>4, <2>5 DEF SoughtInv
  <1> QED
    BY <1>5, <1>6 DEF GotIp

\* The access point goes with the connection, or is tried again.
LEMMA LeaveApIsSought ==
    ASSUME RetryInv, LeaveAp
    PROVE  TodoInv' /\ SoughtInv'
  <1>0. ConnectionTypeOK /\ TodoInv /\ RetryTypeOK
    BY DEF RetryInv, SoughtInv
  <1>1. /\ At("event", "leaveAp") /\ modeLock' = None /\ Continue("event", <<>>)
        /\ UNCHANGED <<configuration, staConnected, sta, scan, stranded>>
    BY DEF LeaveAp, serviceVars
  <1>2. "event" \in Tasks /\ "leaveAp" \in (Steps \ GivenUp) \cap LockSteps
    BY DEF Tasks, Steps, GivenUp, LockSteps
  <1>3. Stage = "leaveAp" /\ staConnected
    BY <1>0, <1>1, <1>2, StageOfTask DEF RetryInv, SoughtInv, NetworkIsKnown
  <1>4. TodoInv' /\ Stage' = "free" /\ \A y : Waits(y) /\ y # "leaveAp" => Waits(y)'
    BY <1>0, <1>1, <1>2, GoesOnWithNone
  <1>5. /\ timers' \in [Timers -> BOOLEAN]
        /\ driver'.link = driver.link /\ EventsAreKept
        /\ driver'.mode = "STA" \/ timers'["staOnlyRetry"]
    <2>1. TimersWhenConnected \in [Timers -> BOOLEAN]
      BY <1>0 DEF TimersWhenConnected, RetryTypeOK
    <2>2. /\ TimersWhenApStays \in [Timers -> BOOLEAN]
          /\ TimersWhenApStays["staOnlyRetry"]
      BY <2>1 DEF TimersWhenApStays, Timers
    <2>3. CASE SetMode("STA") /\ timers' = TimersWhenConnected
      BY <1>0, <2>1, <2>3, SetModeIsKept
    <2>4. CASE timers' = TimersWhenApStays /\ UNCHANGED <<driver, events>>
      BY <2>2, <2>4, EventsAlone
    <2> QED
      BY <2>3, <2>4 DEF LeaveAp
  <1>6. RetryTypeOK'
    BY <1>0, <1>1, <1>5 DEF RetryTypeOK
  <1>7. TransitionEnds' /\ ScanResumes' /\ NetworkIsKnown'
    BY <1>1, <1>3, <1>4, <1>5
       DEF RetryInv, SoughtInv, TransitionEnds, ScanResumes, NetworkIsKnown, Configured,
           Transitions, LinkDown
  <1>8. AttemptIsReal'
    BY <1>1, <1>3, <1>4, <1>5
       DEF RetryInv, SoughtInv, AttemptIsReal, EventsAreKept, LinkDown
  <1>9. ConnectionIsSought' /\ ApIsLeft'
    BY <1>1, <1>3, <1>4, <1>5 DEF ConnectionIsSought, ApIsLeft
  <1> QED
    BY <1>4, <1>6, <1>7, <1>8, <1>9 DEF SoughtInv

----------------------------------------------------------------------------
(* The timer task, requests and the driver.                                  *)

\* A timer that fires leaves what it is for to its task.
LEMMA FireIsSought ==
    ASSUME RetryInv, NEW timer \in Timers, Fire(timer)
    PROVE  TodoInv' /\ SoughtInv'
  <1>0. ConnectionTypeOK /\ TodoInv /\ RetryTypeOK
    BY DEF RetryInv, SoughtInv
  <1>1. /\ Idle("timer") /\ timer # "fallback" /\ StopTimer(timer)
        /\ Return("timer", Callback(timer))
        /\ UNCHANGED <<configuration, staConnected, sta, scan, driver, events, modeLock,
                       stranded>>
    BY DEF Fire, serviceVars, boundVars
  <1>2. /\ "timer" \in Tasks
        /\ {"stopScan", "failScan", "apply", "connect"} \subseteq (Steps \ GivenUp) \ LockSteps
        /\ "staOnly" \in Steps \ LockSteps /\ ListIsKnown(<<"staOnly">>)
    BY DEF Tasks, Steps, GivenUp, LockSteps, ListIsKnown
  <1>3. /\ timers' \in [Timers -> BOOLEAN]
        /\ \A other \in Timers \ {timer} : timers'[other] = timers[other]
    BY <1>0, <1>1, TimersType
  <1>4. RetryTypeOK' /\ EventsAreKept /\ ModeIsKept
    BY <1>0, <1>1, <1>3, EventsAlone, ModeAlone DEF RetryTypeOK
  <1>5. CASE timer \in {"scanTimeout", "staOnlyRetry"}
    <2>1. /\ TodoInv' /\ Stage' = Stage /\ \A y : Waits(y) => Waits(y)'
          /\ timer = "staOnlyRetry" => Waits("staOnly")'
      <3>1. CASE timer = "scanTimeout"
        <4>1. Return("timer", <<"stopScan", "failScan">>)
          BY <1>1, <3>1 DEF Callback
        <4> QED
          BY <1>0, <1>1, <1>2, <3>1, <4>1, BeginsWithTwo, OrdinaryLists
      <3>2. CASE timer = "staOnlyRetry"
        <4>1. Return("timer", <<"staOnly">>)
          BY <1>1, <3>2 DEF Callback
        <4> QED
          BY <1>0, <1>1, <1>2, <4>1, BeginsWithOne
      <3> QED
        BY <1>5, <3>1, <3>2
    <2>2. /\ timers'["connectRetry"] = timers["connectRetry"]
          /\ timers["staOnlyRetry"] => timers'["staOnlyRetry"] \/ Waits("staOnly")'
      BY <1>3, <1>5, <2>1 DEF Timers
    <2> QED
      BY <1>1, <1>4, <2>1, <2>2, NothingIsTaken
  <1>6. CASE timer = "connectRetry"
    <2>1. /\ TodoInv' /\ Stage' = Stage /\ \A y : Waits(y) => Waits(y)'
          /\ IF sta.applyPending THEN Waits("apply")' ELSE Waits("connect")'
      <3>1. CASE sta.applyPending
        <4>1. Return("timer", <<"apply">>)
          BY <1>1, <1>6, <3>1 DEF Callback
        <4> QED
          BY <1>0, <1>1, <1>2, <3>1, <4>1, BeginsWithOne, OrdinaryLists
      <3>2. CASE ~sta.applyPending
        <4>1. Return("timer", <<"connect">>)
          BY <1>1, <1>6, <3>2 DEF Callback
        <4> QED
          BY <1>0, <1>1, <1>2, <3>2, <4>1, BeginsWithOne, OrdinaryLists
      <3> QED
        BY <3>1, <3>2
    <2>2. timers'["staOnlyRetry"] = timers["staOnlyRetry"]
      BY <1>3, <1>6 DEF Timers
    <2>3. TransitionEnds' /\ ScanResumes' /\ NetworkIsKnown'
      BY <1>1, <2>1
         DEF RetryInv, SoughtInv, TransitionEnds, ScanResumes, NetworkIsKnown, Configured, LinkDown
    <2>4. AttemptIsReal'
      BY <1>1, <1>4, <2>1 DEF RetryInv, SoughtInv, AttemptIsReal, LinkDown, EventsAreKept
    <2>5. ConnectionIsSought'
      BY <2>1 DEF ConnectionIsSought
    <2>6. ApIsLeft'
      BY <1>1, <1>4, <2>1, <2>2 DEF RetryInv, SoughtInv, ApIsLeft, EventsAreKept
    <2> QED
      BY <1>4, <2>1, <2>3, <2>4, <2>5, <2>6 DEF SoughtInv
  <1> QED
    BY <1>1, <1>5, <1>6 DEF Timers

\* The fallback, and the end of a scan that took too long.
LEMMA TimerTaskIsSought ==
    ASSUME RetryInv, ExpireFallback \/ EnableFallbackAp \/ StopScan
    PROVE  TodoInv' /\ SoughtInv'
  <1>0. ConnectionTypeOK /\ TodoInv /\ RetryTypeOK
    BY DEF RetryInv, SoughtInv
  <1>1. UNCHANGED <<configuration, staConnected, sta, scan, modeLock, stranded>>
    BY DEF ExpireFallback, EnableFallbackAp, StopScan, serviceVars, boundVars
  <1>2. /\ "timer" \in Tasks /\ "fallback" \in Timers
        /\ {"enableAp", "stopScan", "scheduleFallback"} \subseteq (Steps \ GivenUp) \ LockSteps
    BY DEF Tasks, Timers, Steps, GivenUp, LockSteps
  <1>3. CASE ExpireFallback
    <2>1. TodoInv' /\ Stage' = Stage /\ \A y : Waits(y) => Waits(y)'
      <3>1. /\ Idle("timer")
            /\ Return("timer", <<"enableAp">>) \/ Return("timer", <<>>)
        BY <1>3 DEF ExpireFallback
      <3> QED
        BY <1>0, <1>1, <1>2, <3>1, BeginsWithOne, BeginsWithNone, OrdinaryLists
    <2>2. UNCHANGED <<driver, events>> /\ StopTimer("fallback")
      BY <1>3 DEF ExpireFallback
    <2>3. /\ timers' \in [Timers -> BOOLEAN]
          /\ timers'["connectRetry"] = timers["connectRetry"]
          /\ timers'["staOnlyRetry"] = timers["staOnlyRetry"]
      BY <1>0, <1>2, <2>2, TimersType DEF Timers
    <2>4. RetryTypeOK' /\ EventsAreKept /\ ModeIsKept
      BY <1>0, <1>1, <2>2, <2>3, EventsAlone, ModeAlone DEF RetryTypeOK
    <2> QED
      BY <1>1, <2>1, <2>2, <2>3, <2>4, NothingIsTaken
  <1>4. ASSUME NEW step \in {"enableAp", "stopScan"}, At("timer", step),
               Continue("timer", <<"scheduleFallback">>) \/ Continue("timer", <<>>)
        PROVE  TodoInv' /\ Stage' = Stage /\ \A y : Waits(y) /\ y # step => Waits(y)'
    BY <1>0, <1>1, <1>2, <1>4, GoesOnWithOne, GoesOnWithNone
  <1>5. CASE EnableFallbackAp
    <2>1. /\ At("timer", "enableAp") /\ ModeIsFree("timer") /\ UNCHANGED timers
          /\ Continue("timer", <<"scheduleFallback">>) \/ Continue("timer", <<>>)
          /\ SetMode("APSTA") \/ UNCHANGED <<driver, events>>
      BY <1>5 DEF EnableFallbackAp, EnableAp
    <2>2. TodoInv' /\ Stage' = Stage /\ \A y : Waits(y) /\ y # "enableAp" => Waits(y)'
      BY <1>4, <2>1
    <2>3. Stage = "free"
      BY <1>0, <1>2, <2>1, StageOfTask
    <2>4. driver'.link = driver.link /\ ModeIsKept /\ EventsAreKept
      <3>1. SetMode("APSTA") => driver'.link = driver.link /\ ModeIsKept /\ EventsAreKept
        <4> SUFFICES ASSUME SetMode("APSTA")
                     PROVE  driver'.link = driver.link /\ ModeIsKept /\ EventsAreKept
          OBVIOUS
        <4>1. /\ driver'.mode = "APSTA" /\ driver'.link = driver.link /\ EventsAreKept
              /\ HasSta(driver.mode) \/ Posted("STA_START")'
              /\ HasAp(driver.mode) \/ Posted("AP_START")'
          BY <1>0, SetModeIsKept DEF HasSta, HasAp
        <4> QED
          BY <2>3, <4>1 DEF ModeIsKept, HasAp
      <3> QED
        BY <2>1, <3>1, EventsAlone, ModeAlone
    <2>5. RetryTypeOK'
      BY <1>0, <1>1, <2>1 DEF RetryTypeOK
    <2> QED
      BY <1>1, <2>1, <2>2, <2>4, <2>5, NothingIsTaken
  <1>6. CASE StopScan
    <2>1. /\ At("timer", "stopScan") /\ Continue("timer", <<>>) /\ UNCHANGED timers
          /\ driver' = [driver EXCEPT !.scanning = FALSE]
          /\ events' \in {events, Append(events, "SCAN_DONE")}
      BY <1>6 DEF StopScan
    <2>2. TodoInv' /\ Stage' = Stage /\ \A y : Waits(y) /\ y # "stopScan" => Waits(y)'
      BY <1>4, <2>1
    <2>3. driver'.mode = driver.mode /\ driver'.link = driver.link
      BY <1>0, <2>1 DEF ConnectionTypeOK, DriverStates
    <2>4. EventsAreKept /\ ModeIsKept
      <3>1. "SCAN_DONE" \in EventKinds /\ events \in Seq(EventKinds)
        BY <1>0 DEF EventKinds, ConnectionTypeOK
      <3>2. events' = Append(events, "SCAN_DONE") => EventsAreKept
        BY <3>1, EventAdded DEF EventsAreKept, Posted
      <3> QED
        BY <2>1, <2>3, <3>2, EventsAlone, ModeAlone
    <2>5. RetryTypeOK'
      BY <1>0, <1>1, <2>1 DEF RetryTypeOK
    <2> QED
      BY <1>1, <2>1, <2>2, <2>3, <2>4, <2>5, NothingIsTaken
  <1> QED
    BY <1>3, <1>5, <1>6

\* What the driver does of its own.
LEMMA DriverIsSought ==
    ASSUME RetryInv, Driver
    PROVE  TodoInv' /\ SoughtInv'
  <1>0. ConnectionTypeOK /\ TodoInv /\ RetryTypeOK /\ events \in Seq(EventKinds)
    BY DEF RetryInv, SoughtInv, ConnectionTypeOK
  <1>1. UNCHANGED <<configuration, staConnected, sta, scan, timers, todo, modeLock, stranded>>
    BY DEF Driver, serviceVars
  <1>2. TodoInv' /\ Stage' = Stage /\ (\A y : Waits(y)' = Waits(y)) /\ RetryTypeOK'
    BY <1>0, <1>1, TodoAlone DEF RetryTypeOK
  <1>3. {"GOT_IP", "LOST", "SCAN_DONE"} \subseteq EventKinds
    BY DEF EventKinds
  <1>4. EventsAreKept /\ driver'.mode = driver.mode
    <2>1. PICK event \in EventKinds : events' = Append(events, event)
      BY <1>3 DEF Driver, LinkComesUp, LinkIsLost, ScanEnds
    <2>2. driver'.mode = driver.mode
      BY <1>0 DEF Driver, LinkComesUp, LinkIsLost, ScanEnds, ConnectionTypeOK, DriverStates
    <2> QED
      BY <1>0, <2>1, <2>2, EventAdded DEF EventsAreKept, Posted
  <1>5. CASE ScanEnds
    <2>1. driver'.link = driver.link
      BY <1>0, <1>5 DEF ScanEnds, ConnectionTypeOK, DriverStates
    <2> QED
      BY <1>1, <1>2, <1>4, <2>1, ModeAlone, NothingIsTaken
  <1>6. CASE LinkComesUp \/ LinkIsLost
    <2>1. /\ driver'.link # LinkDown => driver'.link.network # 0
          /\ driver'.link = LinkDown => \A own : EndIsPending(events', own)
      <3>1. CASE LinkComesUp
        <4>1. /\ driver'.link.state = "up" /\ driver'.link.network = driver.link.network
              /\ driver.link.state = "connecting"
          BY <1>0, <3>1 DEF LinkComesUp, ConnectionTypeOK, DriverStates
        <4>2. driver'.link # LinkDown /\ driver.link # LinkDown
          BY <4>1 DEF LinkDown
        <4> QED
          BY <4>1, <4>2 DEF RetryInv, SoughtInv, NetworkIsKnown
      <3>2. CASE LinkIsLost
        <4>1. events' = Append(events, "LOST") /\ driver'.link = LinkDown
          BY <1>0, <3>2 DEF LinkIsLost, ConnectionTypeOK, DriverStates
        <4> QED
          BY <1>0, <1>3, <4>1, EventAdded
      <3> QED
        BY <1>6, <3>1, <3>2
    <2>2. TransitionEnds' /\ ScanResumes' /\ NetworkIsKnown'
      BY <1>1, <1>2, <2>1
         DEF RetryInv, SoughtInv, TransitionEnds, ScanResumes, NetworkIsKnown, Configured, LinkDown
    <2>3. AttemptIsReal'
      BY <1>1, <1>2, <1>4, <2>1 DEF RetryInv, SoughtInv, AttemptIsReal, EventsAreKept, LinkDown
    <2>4. ConnectionIsSought' /\ ApIsLeft'
      BY <1>1, <1>2, <1>4
         DEF RetryInv, SoughtInv, ConnectionIsSought, ApIsLeft, EventsAreKept, Configured
    <2> QED
      BY <1>2, <2>2, <2>3, <2>4 DEF SoughtInv
  <1> QED
    BY <1>5, <1>6 DEF Driver

\* The HTTP task gives up a list of a scan, or is through with a step of it.
LEMMA ScanListBecomes ==
    ASSUME TodoInv, UNCHANGED modeLock, NEW step \in {"armScan", "addSta", "leave"},
           At("http", step),
           NEW new \in {<<>>, <<"leave">>, <<"tryScan">>, <<"failScan">>,
                        <<"addSta", "leave">>, <<"addSta", "tryScan">>},
           todo' = [todo EXCEPT !["http"] = new]
    PROVE  /\ TodoInv' /\ Stage' = Stage
           /\ \A y \in {"apply", "connect", "staOnly"} : Waits(y) => Waits(y)'
  <1>1. "http" \in Tasks /\ None \notin Tasks
    BY WifiAssumption DEF Tasks
  <1>2. todo["http"] \in {<<"armScan">>, <<"leave">>, <<"addSta", "leave">>,
                          <<"addSta", "tryScan">>}
    <2>1. todo["http"] \in Seq(Steps) /\ todo["http"] # <<>> /\ Head(todo["http"]) = step
      BY <1>1 DEF TodoInv, Started, At
    <2>2. step \in Range(todo["http"]) /\ ListIsKnown(todo["http"])
      BY <1>1, <2>1, RangeOfTail DEF TodoInv
    <2>3. Head(<<"staOnly">>) = "staOnly" /\ Head(<<"staOnly", "connect">>) = "staOnly"
      OBVIOUS
    <2> QED
      BY <2>1, <2>2, <2>3 DEF ListIsKnown, GivenUp
  <1>3. \A y \in {"apply", "connect", "staOnly"} : y \notin Range(todo["http"])
    BY <1>2, RangeOfShort
  <1>4. modeLock # "http"
    BY <1>1, StageOfTask DEF TodoInv, Locks, At, LockSteps
  <1>5. /\ new \in Seq(Steps) /\ ListIsKnown(new) /\ ~Locks(new)
        /\ new # <<>> => Range(Tail(new)) \cap LockSteps = {}
    <2>1. {"leave", "tryScan", "failScan", "addSta"} \subseteq Steps \ LockSteps
      BY DEF Steps, LockSteps
    <2>2. new \in Seq(Steps)
      BY <2>1, ShortSequences
    <2>3. Range(new) \subseteq {"leave", "tryScan", "failScan", "addSta"}
      BY RangeOfShort
    <2>4. new # <<>> => Range(new) = {Head(new)} \cup Range(Tail(new))
      BY <2>2, RangeOfTail
    <2>5. ListIsKnown(new)
      <3>1. CASE new \in {<<"leave">>, <<"addSta", "leave">>, <<"addSta", "tryScan">>}
        BY <3>1 DEF ListIsKnown
      <3>2. CASE new \in {<<>>, <<"tryScan">>, <<"failScan">>}
        BY <3>2, RangeOfShort DEF ListIsKnown, GivenUp
      <3> QED
        BY <3>1, <3>2
    <2> QED
      BY <2>1, <2>2, <2>3, <2>4, <2>5 DEF Locks
  <1>6. Relocks("http", new)
    BY <1>4, <1>5 DEF Relocks
  <1> QED
    BY <1>1, <1>3, <1>4, <1>5, <1>6, TodoBecomes

\* The HTTP task's own steps of a scan.
LEMMA ScanRequestIsSought ==
    ASSUME RetryInv, ArmScanTimeout \/ AddSta \/ LeaveForScan
    PROVE  TodoInv' /\ SoughtInv'
  <1>0. ConnectionTypeOK /\ TodoInv /\ RetryTypeOK /\ events \in Seq(EventKinds)
    BY DEF RetryInv, SoughtInv, ConnectionTypeOK
  <1>1. UNCHANGED <<configuration, staConnected, sta, scan, modeLock, stranded>>
    BY DEF ArmScanTimeout, AddSta, LeaveForScan, serviceVars
  <1>2. "http" \in Tasks /\ "scanTimeout" \in Timers /\ "LEFT" \in EventKinds
    BY DEF Tasks, Timers, EventKinds
  <1>3. /\ Tail(<<"armScan">>) = <<>> /\ Tail(<<"leave">>) = <<>>
        /\ Tail(<<"addSta", "leave">>) = <<"leave">>
        /\ Tail(<<"addSta", "tryScan">>) = <<"tryScan">>
        /\ Head(<<"armScan">>) = "armScan" /\ Head(<<"leave">>) = "leave"
        /\ Head(<<"addSta", "leave">>) = "addSta" /\ Head(<<"addSta", "tryScan">>) = "addSta"
        /\ Head(<<"staOnly">>) = "staOnly" /\ Head(<<"staOnly", "connect">>) = "staOnly"
    OBVIOUS
  <1>4. ASSUME NEW step \in {"armScan", "addSta", "leave"}, At("http", step)
        PROVE  /\ todo["http"] \in {<<"armScan">>, <<"leave">>, <<"addSta", "leave">>,
                                    <<"addSta", "tryScan">>}
               /\ Head(todo["http"]) = step
    <2>1. todo["http"] \in Seq(Steps) /\ todo["http"] # <<>> /\ Head(todo["http"]) = step
      BY <1>0, <1>2, <1>4 DEF TodoInv, Started, At
    <2>2. step \in Range(todo["http"]) /\ ListIsKnown(todo["http"])
      BY <1>0, <1>2, <2>1, RangeOfTail DEF TodoInv
    <2> QED
      BY <1>3, <2>1, <2>2 DEF ListIsKnown, GivenUp
  <1>5. CASE ArmScanTimeout
    <2>1. /\ At("http", "armScan") /\ Schedule("scanTimeout") /\ UNCHANGED <<driver, events>>
      BY <1>5 DEF ArmScanTimeout
    <2>2. Tail(todo["http"]) = <<>>
      BY <1>3, <1>4, <2>1
    <2> DEFINE station == IF driver.mode = "AP" THEN <<"addSta">> ELSE <<>>
               begin == IF scan.reconnect THEN <<"leave">> ELSE <<"tryScan">>
    <2>3. (station \o begin) \o <<>> \in {<<"leave">>, <<"tryScan">>, <<"addSta", "leave">>,
                                          <<"addSta", "tryScan">>}
      <3>1. /\ <<"addSta">> \o <<"leave">> = <<"addSta", "leave">>
            /\ <<"addSta">> \o <<"tryScan">> = <<"addSta", "tryScan">>
        <4>1. {"addSta", "leave", "tryScan"} \subseteq Steps
          BY DEF Steps
        <4> QED
          BY <4>1, PairOf
      <3>2. <<>> \o <<"leave">> = <<"leave">> /\ <<>> \o <<"tryScan">> = <<"tryScan">>
        OBVIOUS
      <3>3. <<"addSta", "leave">> \o <<>> = <<"addSta", "leave">>
        OBVIOUS
      <3>4. <<"addSta", "tryScan">> \o <<>> = <<"addSta", "tryScan">>
        OBVIOUS
      <3>5. <<"leave">> \o <<>> = <<"leave">> /\ <<"tryScan">> \o <<>> = <<"tryScan">>
        OBVIOUS
      <3>6. CASE driver.mode = "AP"
        BY <3>1, <3>3, <3>4, <3>6, Zenon
      <3>7. CASE driver.mode # "AP"
        BY <3>2, <3>5, <3>7, Zenon
      <3> QED
        BY <3>6, <3>7
    <2>4. \E new \in {<<>>, <<"leave">>, <<"tryScan">>, <<"failScan">>,
                      <<"addSta", "leave">>, <<"addSta", "tryScan">>} :
              todo' = [todo EXCEPT !["http"] = new]
      <3>1. CASE Return("http", <<"failScan">>)
        BY <3>1 DEF Return
      <3>2. CASE Continue("http", station \o begin)
        <4>1. todo' = [todo EXCEPT !["http"] = (station \o begin) \o <<>>]
          BY <2>2, <3>2 DEF Continue
        <4> HIDE DEF station, begin
        <4> QED
          BY <2>3, <4>1
      <3> QED
        BY <1>5, <3>1, <3>2 DEF ArmScanTimeout
    <2>5. /\ TodoInv' /\ Stage' = Stage
          /\ \A y \in {"apply", "connect", "staOnly"} : Waits(y) => Waits(y)'
      BY <1>0, <1>1, <2>1, <2>4, ScanListBecomes
    <2>6. /\ timers' \in [Timers -> BOOLEAN]
          /\ timers["connectRetry"] => timers'["connectRetry"]
          /\ timers["staOnlyRetry"] => timers'["staOnlyRetry"]
      BY <1>0, <1>2, <2>1, TimersType DEF Timers
    <2>7. RetryTypeOK' /\ EventsAreKept /\ ModeIsKept
      BY <1>0, <1>1, <2>1, <2>6, EventsAlone, ModeAlone DEF RetryTypeOK
    <2> QED
      BY <1>1, <2>1, <2>5, <2>6, <2>7, NothingIsTaken
  <1>6. CASE AddSta
    <2>1. /\ At("http", "addSta") /\ ModeIsFree("http") /\ UNCHANGED timers
          /\ SetMode("APSTA") \/ UNCHANGED <<driver, events>>
          /\ Return("http", <<"failScan">>) \/ Continue("http", <<>>)
      BY <1>6 DEF AddSta
    <2>2. <<>> \o Tail(todo["http"]) \in {<<"leave">>, <<"tryScan">>}
      <3>1. Tail(todo["http"]) \in {<<"leave">>, <<"tryScan">>}
        <4>1. /\ todo["http"] \in {<<"armScan">>, <<"leave">>, <<"addSta", "leave">>,
                                   <<"addSta", "tryScan">>}
              /\ Head(todo["http"]) = "addSta"
          BY <1>4, <2>1
        <4> QED
          BY <1>3, <4>1
      <3>2. <<>> \o <<"leave">> = <<"leave">> /\ <<>> \o <<"tryScan">> = <<"tryScan">>
        OBVIOUS
      <3> QED
        BY <3>1, <3>2
    <2>3. \E new \in {<<>>, <<"leave">>, <<"tryScan">>, <<"failScan">>,
                      <<"addSta", "leave">>, <<"addSta", "tryScan">>} :
              todo' = [todo EXCEPT !["http"] = new]
      BY <2>1, <2>2 DEF Return, Continue
    <2>4. /\ TodoInv' /\ Stage' = Stage
          /\ \A y \in {"apply", "connect", "staOnly"} : Waits(y) => Waits(y)'
      BY <1>0, <1>1, <2>1, <2>3, ScanListBecomes
    <2>5. Stage = "free"
      BY <1>0, <1>2, <2>1, StageOfTask DEF LockSteps
    <2>6. driver'.link = driver.link /\ ModeIsKept /\ EventsAreKept
      <3>1. SetMode("APSTA") => driver'.link = driver.link /\ ModeIsKept /\ EventsAreKept
        <4> SUFFICES ASSUME SetMode("APSTA")
                     PROVE  driver'.link = driver.link /\ ModeIsKept /\ EventsAreKept
          OBVIOUS
        <4>1. /\ driver'.mode = "APSTA" /\ driver'.link = driver.link /\ EventsAreKept
              /\ HasSta(driver.mode) \/ Posted("STA_START")'
              /\ HasAp(driver.mode) \/ Posted("AP_START")'
          BY <1>0, SetModeIsKept DEF HasSta, HasAp
        <4> QED
          BY <2>5, <4>1 DEF ModeIsKept, HasAp
      <3> QED
        BY <2>1, <3>1, EventsAlone, ModeAlone
    <2>7. RetryTypeOK'
      BY <1>0, <1>1, <2>1 DEF RetryTypeOK
    <2> QED
      BY <1>1, <2>1, <2>4, <2>6, <2>7, NothingIsTaken
  <1>7. CASE LeaveForScan
    <2>1. /\ At("http", "leave") /\ UNCHANGED timers
          /\ Return("http", <<>>) \/ Return("http", <<"tryScan">>)
          /\ LinkIsClosed \/ UNCHANGED <<driver, events>>
      BY <1>7 DEF LeaveForScan
    <2>2. \E new \in {<<>>, <<"leave">>, <<"tryScan">>, <<"failScan">>,
                      <<"addSta", "leave">>, <<"addSta", "tryScan">>} :
              todo' = [todo EXCEPT !["http"] = new]
      BY <2>1 DEF Return
    <2>3. /\ TodoInv' /\ Stage' = Stage
          /\ \A y \in {"apply", "connect", "staOnly"} : Waits(y) => Waits(y)'
      BY <1>0, <1>1, <2>1, <2>2, ScanListBecomes
    <2>4. RetryTypeOK'
      BY <1>0, <1>1, <2>1 DEF RetryTypeOK
    <2>5. CASE UNCHANGED <<driver, events>>
      BY <1>1, <2>1, <2>3, <2>4, <2>5, EventsAlone, ModeAlone, NothingIsTaken
    <2>6. CASE LinkIsClosed
      <3>1. events' = Append(events, "LEFT") /\ driver'.link = LinkDown
            /\ driver'.mode = driver.mode
        BY <1>0, <2>6 DEF LinkIsClosed, ConnectionTypeOK, DriverStates
      <3>2. /\ EventsAreKept
            /\ \A own : (own => LossIsPending(events)) => EndIsPending(events', own)
        BY <1>0, <1>2, <3>1, EventAdded DEF EventsAreKept, Posted
      <3>3. TransitionEnds' /\ ScanResumes' /\ NetworkIsKnown'
        BY <1>1, <2>3, <3>1
           DEF RetryInv, SoughtInv, TransitionEnds, ScanResumes, NetworkIsKnown, Configured,
               LinkDown
      <3>4. AttemptIsReal'
        BY <1>1, <2>3, <3>1, <3>2 DEF RetryInv, SoughtInv, AttemptIsReal, EventsAreKept, LinkDown
      <3>5. ConnectionIsSought' /\ ApIsLeft'
        BY <1>1, <2>1, <2>3, <3>1, <3>2
           DEF RetryInv, SoughtInv, ConnectionIsSought, ApIsLeft, EventsAreKept, Configured
      <3> QED
        BY <2>3, <2>4, <3>3, <3>4, <3>5 DEF SoughtInv
    <2> QED
      BY <2>1, <2>5, <2>6
  <1> QED
    BY <1>5, <1>6, <1>7

\* Requests: a scan, which resumes what it holds back, and a configuration.
LEMMA RequestIsSought ==
    ASSUME RetryInv, Requests
    PROVE  TodoInv' /\ SoughtInv'
  <1>0. ConnectionTypeOK /\ TodoInv /\ RetryTypeOK
    BY DEF RetryInv, SoughtInv
  <1>1. /\ Idle("http") /\ "http" \in Tasks
        /\ UNCHANGED <<timers, driver, events, stranded>> /\ EventsAreKept
        /\ "armScan" \in Steps \ LockSteps /\ ListIsKnown(<<"armScan">>)
        /\ "configure" \in (Steps \ GivenUp) \cap LockSteps
    BY EventsAlone DEF Requests, RequestScan, PutNetwork, RequestArrives, Tasks, Steps,
       LockSteps, GivenUp, ListIsKnown
  <1>2. CASE RequestScan
    <2> DEFINE reconnect == Configured /\ ~staConnected
    <2>1. /\ ~scan.running /\ Return("http", <<"armScan">>)
          /\ scan' = [scan EXCEPT !.running = TRUE, !.driverActive = FALSE,
                                  !.reconnect = reconnect]
          /\ UNCHANGED <<configuration, staConnected, sta, modeLock>>
      BY <1>2 DEF RequestScan
    <2>2. TodoInv' /\ Stage' = Stage /\ \A y : Waits(y) => Waits(y)'
      BY <1>0, <1>1, <2>1, BeginsWithOne
    <2>3. reconnect \in BOOLEAN
      OBVIOUS
    <2>4. /\ RetryTypeOK' /\ scan'.running /\ scan'.reconnect = reconnect
          /\ scan'.applyAfter = scan.applyAfter
      BY <1>0, <1>1, <2>1, <2>3 DEF RetryTypeOK
    <2>5. TransitionEnds' /\ ScanResumes' /\ NetworkIsKnown'
      BY <1>1, <2>1, <2>2, <2>4
         DEF RetryInv, SoughtInv, TransitionEnds, ScanResumes, NetworkIsKnown, Configured, LinkDown
    <2>6. AttemptIsReal'
      BY <1>1, <2>1, <2>2 DEF RetryInv, SoughtInv, AttemptIsReal, EventsAreKept, LinkDown
    <2>7. ConnectionIsSought' /\ ApIsLeft'
      BY <1>1, <2>1, <2>2, <2>4
         DEF RetryInv, SoughtInv, ConnectionIsSought, ApIsLeft, EventsAreKept
    <2> QED
      BY <2>2, <2>4, <2>5, <2>6, <2>7 DEF SoughtInv
  <1>3. CASE /\ modeLock = None
             /\ configuration' = configuration + 1
             /\ staConnected' = FALSE
             /\ sta' = [sta EXCEPT !.transition = TRUE, !.inFlight = FALSE]
             /\ modeLock' = "http"
             /\ Return("http", <<"configure">>)
             /\ UNCHANGED scan
    <2>1. TodoInv' /\ Stage' = "configure" /\ \A y : Waits(y) => Waits(y)'
      BY <1>0, <1>1, <1>3, BeginsWithOne, OrdinaryLists
    <2>2. RetryTypeOK' /\ ~sta'.inFlight /\ sta'.disconnectPending = sta.disconnectPending
      BY <1>0, <1>1, <1>3 DEF RetryTypeOK
    <2>3. TransitionEnds' /\ ScanResumes' /\ NetworkIsKnown'
      BY <1>1, <1>3, <2>1
         DEF RetryInv, SoughtInv, TransitionEnds, ScanResumes, NetworkIsKnown, Transitions, LinkDown
    <2>4. AttemptIsReal'
      BY <1>1, <2>1, <2>2 DEF RetryInv, SoughtInv, AttemptIsReal, EventsAreKept
    <2>5. ConnectionIsSought' /\ ApIsLeft'
      BY <1>3, <2>1 DEF ConnectionIsSought, ApIsLeft, Transitions
    <2> QED
      BY <2>1, <2>2, <2>3, <2>4, <2>5 DEF SoughtInv
  <1>4. CASE /\ sta' = AfterPersistFails
             /\ UNCHANGED <<configuration, staConnected, modeLock, todo, scan>>
             /\ modeLock = None
    <2>1. TodoInv' /\ Stage' = Stage /\ \A y : Waits(y)' = Waits(y)
      BY <1>0, <1>4, TodoAlone
    <2>2. /\ RetryTypeOK' /\ ~sta'.transition /\ sta'.inFlight = sta.inFlight
          /\ sta'.disconnectPending = sta.disconnectPending
          /\ sta'.applyPending = sta.applyPending
      BY <1>0, <1>1, <1>4 DEF RetryTypeOK, AfterPersistFails
    <2>3. TransitionEnds' /\ ScanResumes' /\ NetworkIsKnown'
      BY <1>1, <1>4, <2>1, <2>2
         DEF RetryInv, SoughtInv, TransitionEnds, ScanResumes, NetworkIsKnown, Configured, LinkDown
    <2>4. AttemptIsReal'
      BY <1>1, <1>4, <2>1, <2>2 DEF RetryInv, SoughtInv, AttemptIsReal, EventsAreKept, LinkDown
    <2>5. ConnectionIsSought' /\ ApIsLeft'
      BY <1>1, <1>4, <2>1, <2>2
         DEF RetryInv, SoughtInv, ConnectionIsSought, ApIsLeft, EventsAreKept, Configured
    <2> QED
      BY <2>1, <2>2, <2>3, <2>4, <2>5 DEF SoughtInv
  <1> QED
    BY <1>2, <1>3, <1>4 DEF Requests, PutNetwork

----------------------------------------------------------------------------
(* start(), and all the steps.                                               *)

BeforeStart ==
    /\ RetryTypeOK
    /\ ~sta.transition /\ ~sta.inFlight /\ ~sta.disconnectPending
    /\ ~scan.running /\ ~scan.applyAfter

\* Nothing is tried before start(), which leaves it to the first event of the station.
LEMMA StartIsSought ==
    ASSUME ConnectionInv, StartIsFirst, ~Started, BeforeStart, StartSta \/ StartAp
    PROVE  TodoInv' /\ SoughtInv'
  <1>1. /\ todo = [t \in Tasks |-> IF t = "http" THEN <<"start">> ELSE <<>>]
        /\ ~staConnected /\ events = <<>> /\ modeLock = None /\ driver.link = LinkDown
    BY DEF StartIsFirst, Started
  <1>2. UNCHANGED <<configuration, staConnected, sta, scan, timers, stranded, modeLock>>
    BY DEF StartSta, StartAp, serviceVars
  <1>3. ConnectionInv' /\ Started'
    BY StartStep
  <1>4. \E new \in {<<>>, <<"scheduleFallback">>} : todo' = [todo EXCEPT !["http"] = new]
    BY DEF StartSta, StartAp, Return
  <1>5. \A t \in Tasks : todo'[t] \in {<<>>, <<"scheduleFallback">>}
    BY <1>1, <1>4
  <1>6. TodoInv'
    <2>1. "scheduleFallback" \in Steps
      BY DEF Steps
    <2>2. /\ Range(<<"scheduleFallback">>) = {"scheduleFallback"}
          /\ Range(Tail(<<"scheduleFallback">>)) = {} /\ ~Locks(<<"scheduleFallback">>)
      BY <2>1, ListOfOne DEF LockSteps
    <2>3. ~Locks(<<>>) /\ ListIsKnown(<<>>) /\ ListIsKnown(<<"scheduleFallback">>)
      BY <2>2, RangeOfShort DEF Locks, ListIsKnown, GivenUp
    <2>4. \A t \in Tasks : /\ ~Locks(todo'[t]) /\ ListIsKnown(todo'[t])
                           /\ todo'[t] # <<>> => Range(Tail(todo'[t])) \cap LockSteps = {}
      BY <1>5, <2>2, <2>3
    <2> QED
      BY <1>1, <1>2, <1>3, <2>4 DEF TodoInv
  <1>7. Stage' = "free"
    BY <1>1, <1>2 DEF Stage
  <1>8. HasSta(driver'.mode) => Posted("STA_START")'
    <2>1. CASE StartSta
      <3>1. events' = <<"STA_START">>
        BY <2>1 DEF StartSta
      <3> QED
        BY <3>1, RangeOfShort DEF Posted
    <2>2. CASE StartAp
      <3>1. driver'.mode = "AP"
        BY <2>2 DEF StartAp, SetMode, ConnectionInv, ConnectionTypeOK, DriverStates
      <3> QED
        BY <3>1 DEF HasSta
    <2> QED
      BY <2>1, <2>2
  <1>9. driver'.link = LinkDown
    BY <1>1 DEF StartSta, StartAp, SetMode, ConnectionInv, ConnectionTypeOK, DriverStates
  <1>10. RetryTypeOK' /\ TransitionEnds' /\ ScanResumes'
    BY <1>2 DEF BeforeStart, RetryTypeOK, TransitionEnds, ScanResumes
  <1>11. AttemptIsReal' /\ NetworkIsKnown'
    BY <1>1, <1>2, <1>7, <1>9 DEF BeforeStart, AttemptIsReal, NetworkIsKnown, LinkDown
  <1>12. ConnectionIsSought' /\ ApIsLeft'
    BY <1>1, <1>2, <1>8 DEF ConnectionIsSought, ApIsLeft
  <1> QED
    BY <1>6, <1>10, <1>11, <1>12 DEF SoughtInv

\* Any step after start().
LEMMA EveryStepIsSought ==
    ASSUME RetryInv, Next
    PROVE  TodoInv' /\ SoughtInv'
  <1>1. Started /\ "http" \in Tasks /\ "event" \in Tasks /\ "timer" \in Tasks
    BY DEF RetryInv, TodoInv, Tasks
  <1>2. ASSUME NEW t \in Tasks, Step(t) PROVE TodoInv' /\ SoughtInv'
    BY <1>2, PlainStep, ConnectStep, ConnectCallIsSought, EndOfScanStep, ApplyStep,
       ConfigureIsSought, RelinkIsSought, RecoverIsSought, StaOnlyIsSought DEF Step
  <1>3. ~(StartSta \/ StartAp)
    BY <1>1, StartIsOver DEF StartSta, StartAp
  <1>4. EventLoop => TodoInv' /\ SoughtInv'
    BY <1>1, <1>2, StaStartedIsSought, LossIsSought, OtherEventIsSought, AddressIsSought,
       LeaveApIsSought DEF EventLoop
  <1>5. TimerTask \/ ExpireFallback \/ (\E timer \in Timers : Fire(timer))
            => TodoInv' /\ SoughtInv'
    BY <1>1, <1>2, TimerTaskIsSought, FireIsSought DEF TimerTask
  <1>6. HttpTask => TodoInv' /\ SoughtInv'
    BY <1>1, <1>2, <1>3, ScanRequestIsSought DEF HttpTask
  <1> QED
    BY <1>4, <1>5, <1>6, RequestIsSought, DriverIsSought DEF Next

\* When every callback has ended and every event was handled, only what was promised is
\* left.
LEMMA QuietIsSought ==
    ASSUME RetryInv
    PROVE  RetriesArePending
  <1> SUFFICES ASSUME Quiet PROVE RetriesArePending
    BY DEF RetriesArePending
  <1>1. events = <<>> /\ \A t \in Tasks : todo[t] = <<>>
    BY DEF Quiet, Idle
  <1>2. \A step : ~Waits(step) /\ ~Posted(step)
    BY <1>1, RangeOfShort DEF Waits, Posted
  <1>3. Stage = "free"
    BY <1>1 DEF RetryInv, TodoInv, Locks, Stage
  <1>4. ~LossIsPending(events) /\ \A own : ~EndIsPending(events, own)
    BY <1>1 DEF LossIsPending, EndIsPending
  <1> QED
    BY <1>2, <1>3, <1>4 DEF RetryInv, SoughtInv, TransitionEnds, ScanResumes, AttemptIsReal,
       ConnectionIsSought, ApIsLeft, Transitions, RetriesArePending

\* What is sought at the beginning.
LEMMA InitSought == Init => BeforeStart /\ ~Started
  <1> SUFFICES ASSUME Init PROVE BeforeStart /\ ~Started
    OBVIOUS
  <1>1. BeforeStart
    BY DEF Init, BeforeStart, RetryTypeOK
  <1>2. At("http", "start") /\ "http" \in Tasks
    <2>1. Head(<<"start">>) = "start" /\ <<"start">> # <<>>
      OBVIOUS
    <2> QED
      BY <2>1 DEF Init, At, Tasks
  <1> QED
    BY <1>1, <1>2, StartIsOver

\* Whatever calls fail, links drop and answers come late, and however scans, requests and
\* changes of the configuration fall between the callbacks: when all of them have ended,
\* an attempt, a retry timer or a scan is there to go on to the network, no transition and
\* no waiting configuration is left behind, and an access point that is to go will go.
THEOREM RetriesSafe == Spec => []RetriesArePending
  <1> DEFINE Inv == /\ ConnectionInv /\ StartIsFirst
                    /\ Started => RetryInv
                    /\ ~Started => BeforeStart
  <1>1. Init => Inv
    BY InitConnected, InitSought
  <1>2. Inv /\ [Next]_vars => Inv'
    <2> SUFFICES ASSUME Inv, [Next]_vars PROVE Inv'
      OBVIOUS
    <2>1. ConnectionInv' /\ StartIsFirst' /\ (Next => Started')
      BY ConnectionStep
    <2>2. CASE Next
      <3>1. TodoInv' /\ SoughtInv'
        <4>1. CASE Started
          BY <2>2, <4>1, EveryStepIsSought
        <4>2. CASE ~Started
          BY <2>2, <4>2, NothingElseAtStart, StartIsSought
        <4> QED
          BY <4>1, <4>2
      <3> QED
        BY <2>1, <2>2, <3>1 DEF RetryInv, ConnectionInv
    <2>3. CASE UNCHANGED vars
      <3>1. UNCHANGED <<configuration, staConnected, sta, scan, timers, driver, events, todo,
                        modeLock, stranded>>
        BY <2>3 DEF vars, serviceVars, boundVars
      <3>2. RetryInv => RetryInv'
        <4> SUFFICES ASSUME RetryInv PROVE RetryInv'
          OBVIOUS
        <4>1. TodoInv' /\ Stage' = Stage /\ \A y : Waits(y)' = Waits(y)
          BY <3>1, TodoAlone DEF RetryInv
        <4>2. RetryTypeOK' /\ EventsAreKept /\ ModeIsKept
          BY <3>1, EventsAlone, ModeAlone DEF RetryInv, SoughtInv, RetryTypeOK
        <4>3. SoughtInv'
          BY <3>1, <4>1, <4>2, NothingIsTaken
        <4> QED
          BY <2>1, <4>1, <4>3 DEF RetryInv, ConnectionInv
      <3>3. (Started' <=> Started) /\ (BeforeStart => BeforeStart')
        BY <3>1 DEF Started, BeforeStart, RetryTypeOK
      <3> QED
        BY <2>1, <3>2, <3>3
    <2> QED
      BY <2>2, <2>3
  <1>3. Inv => RetriesArePending
    <2>1. Started => (Inv => RetriesArePending)
      BY QuietIsSought
    <2>2. Inv /\ ~Started => ~Quiet
      <3> SUFFICES ASSUME Inv, ~Started PROVE ~Quiet
        OBVIOUS
      <3>1. todo["http"] = <<"start">> /\ "http" \in Tasks
        BY DEF StartIsFirst, Started, Tasks
      <3> QED
        BY <3>1 DEF Quiet, Idle
    <2> QED
      BY <2>1, <2>2 DEF RetriesArePending
  <1> QED
    BY <1>1, <1>2, <1>3, PTL DEF Spec
=============================================================================
