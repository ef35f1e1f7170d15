------------------------- MODULE HistoryObservations -------------------------
(***************************************************************************)
(* HistoryObservationMailbox (history_support.cpp): ControlTask calls      *)
(* observe() with the snapshot of each cycle, HistoryTask calls try_pop(). *)
(* A call of observe() is one step for its decision and one for each push, *)
(* so that HistoryTask may pop between them; the two halves of a pop are   *)
(* CommandMailbox's kind of ring and taken for one step.                   *)
(*                                                                         *)
(* Of a snapshot only the session and its status are kept; successive ones *)
(* obey SessionLifecycle, which leaves open whether anything else changed  *)
(* and whether a sample is due.                                            *)
(***************************************************************************)
EXTENDS Integers, Sequences

CONSTANTS
    MailboxCapacity,            \* history_mailbox_capacity, 16
    MaxSessions                 \* bound: sessions started

ASSUME ObservationAssumption ==
    /\ MailboxCapacity \in Nat \ {0, 1}
    /\ MaxSessions \in Nat

NoSession == 0

Lifecycle == {"START", "END"}

VARIABLES
    current,                    \* the snapshot observe() was last called with
    previous,                   \* what remember() kept
    initialized,                \* initialized_
    pushes,                     \* kinds that this call has yet to push
    mailbox,
    recorded                    \* lifecycle observations popped so far

observationVars == <<current, previous, initialized, pushes, mailbox, recorded>>

----------------------------------------------------------------------------
(* The snapshots.                                                          *)

View(status, session) == [status |-> status, session |-> session]

\* A session that ended stays ended; without one the application idles or has a fault.
SameSession ==
    {View(status, current.session) :
        status \in IF current.session = NoSession THEN {"Idle", "Fault"}
                   ELSE {"Stopped", "Fault"}
                          \cup {s \in {"Running"} : current.status = "Running"}}

\* A session may start and end within one tick.
NewSession ==
    IF current.status # "Running" /\ current.session < MaxSessions
    THEN {View(status, current.session + 1) : status \in {"Running", "Stopped", "Fault"}}
    ELSE {}

----------------------------------------------------------------------------
(* observe()                                                               *)

IsRunning(view) == view.status = "Running"

IsStarting(view) ==
    IsRunning(view) /\ (initialized /\ IsRunning(previous) => previous.session # view.session)

IsEnding(view) ==
    /\ initialized /\ IsRunning(previous)
    /\ previous.session = view.session /\ ~IsRunning(view)

IsTerminal(view) == view.session # NoSession /\ view.status \in {"Stopped", "Fault"}

IsTerminalFirstSeen(view) ==
    IsTerminal(view) /\ (initialized => previous.session # view.session)

\* Mutant of PairRoom: there is room for the START.
RoomForStart == 1

PairRoom == 2

HasCapacity(count) == Len(mailbox) <= MailboxCapacity - count

\* A CHANGE if anything changed, a SAMPLE if sixty seconds have passed.
Ordinary == {<<>>, <<"CHANGE">>, <<"SAMPLE">>, <<"CHANGE", "SAMPLE">>}

Plans(view) ==
    IF IsStarting(view) THEN {<<"START">>}
    ELSE IF IsEnding(view) THEN {<<"END">>}
    ELSE IF IsTerminalFirstSeen(view) THEN {<<"START", "END">>}
    ELSE IF IsRunning(view) THEN Ordinary
    ELSE {<<>>}

Remember(view) == previous' = view /\ initialized' = TRUE

\* The pair is refused as a whole, and tried again with a later snapshot.
IsRefused(view, plan) == Len(plan) = 2 /\ plan[1] = "START" /\ ~HasCapacity(PairRoom)

Observe ==
    /\ pushes = <<>>
    /\ \E view \in SameSession \cup NewSession : \E plan \in Plans(view) :
         /\ current' = view
         /\ pushes' = IF IsRefused(view, plan) THEN <<>> ELSE plan
         /\ IF plan = <<>> THEN Remember(view) ELSE UNCHANGED <<previous, initialized>>
    /\ UNCHANGED <<mailbox, recorded>>

\* Ordinary observations leave the last slot to an END.
Limit(kind) == IF kind \in Lifecycle THEN MailboxCapacity ELSE MailboxCapacity - 1

IsAdmitted(kind) == Len(mailbox) < Limit(kind)

EndsPushes(rest) ==
    /\ pushes' = rest
    /\ IF rest = <<>> THEN Remember(current) ELSE UNCHANGED <<previous, initialized>>

Push ==
    /\ pushes # <<>>
    /\ IsAdmitted(Head(pushes))
    /\ mailbox' = Append(mailbox, [kind |-> Head(pushes), session |-> current.session])
    /\ EndsPushes(Tail(pushes))
    /\ UNCHANGED <<current, recorded>>

\* Mutant of IsRetried: a refused END is dropped as an ordinary observation is.
IsNotRetried(kind) == kind = "START"

IsRetried(kind) == kind \in Lifecycle

\* A refused START or END ends the call before remember(); another is lost.
Refuse ==
    /\ pushes # <<>>
    /\ ~IsAdmitted(Head(pushes))
    /\ IF IsRetried(Head(pushes))
       THEN pushes' = <<>> /\ UNCHANGED <<previous, initialized>>
       ELSE EndsPushes(Tail(pushes))
    /\ UNCHANGED <<current, mailbox, recorded>>

----------------------------------------------------------------------------
(* try_pop()                                                               *)

Pop ==
    /\ mailbox # <<>>
    /\ mailbox' = Tail(mailbox)
    /\ recorded' = IF Head(mailbox).kind \in Lifecycle
                   THEN Append(recorded, Head(mailbox)) ELSE recorded
    /\ UNCHANGED <<current, previous, initialized, pushes>>

ObservationInit ==
    /\ current = View("Idle", NoSession)
    /\ previous = View("Idle", NoSession)
    /\ initialized = FALSE
    /\ pushes = <<>> /\ mailbox = <<>> /\ recorded = <<>>

ObserveTick == Observe \/ Push \/ Refuse

ObservationNext == ObserveTick \/ Pop

\* ControlTask observes every second; HistoryTask, whose flash may be deferred for a
\* while, goes on popping.
ObservationSpec ==
    /\ ObservationInit /\ [][ObservationNext]_observationVars
    /\ WF_observationVars(ObserveTick)
    /\ WF_observationVars(Pop)

----------------------------------------------------------------------------
(* Properties.                                                             *)

Stream == recorded \o mailbox

\* However full the mailbox was and however often a START or END was refused, what
\* HistoryTask gets of a session is its START, then what happened in it, then at most one
\* END, and nothing of it after that or after the START of another.
SessionsAreInOrder ==
    \A j \in DOMAIN Stream :
        /\ \E i \in 1 .. j : Stream[i] = [kind |-> "START", session |-> Stream[j].session]
        /\ \A i \in 1 .. j - 1 :
              /\ Stream[i].session <= Stream[j].session
              /\ Stream[i].session = Stream[j].session =>
                    Stream[i].kind # "END" /\ Stream[j].kind # "START"

IsRecorded(kind, session) ==
    \E i \in DOMAIN recorded : recorded[i] = [kind |-> kind, session |-> session]

\* A session that ended gets its START and its END recorded, although both were refused
\* by a full mailbox, unless another session starts before there was room.
EndsAreRecorded ==
    \A s \in 1 .. MaxSessions :
        current = View("Stopped", s) \/ current = View("Fault", s)
            ~> \/ current.session # s
               \/ IsRecorded("START", s) /\ IsRecorded("END", s)

=============================================================================
