----------------------------- MODULE CommandQueue -----------------------------
(***************************************************************************)
(* What a command mailbox promises: a bounded queue between one producer   *)
(* and one consumer.  The last place is kept for Stop; a message is        *)
(* delivered once, whole and in order; Full and empty are answered only    *)
(* when they are true.                                                     *)
(***************************************************************************)
EXTENDS Naturals, Sequences

CONSTANTS Messages, Urgent, Capacity, None

VARIABLES
    pending,                    \* accepted and not delivered
    offered,                    \* the producer's call, None between two calls
    answer,                     \* what its last call returned
    received                    \* what the consumer's last call returned

Limit(message) == IF message \in Urgent THEN Capacity ELSE Capacity - 1

Init == pending = <<>> /\ offered = None /\ answer = "Accepted" /\ received = None

Offer ==
    /\ offered = None
    /\ offered' \in Messages
    /\ UNCHANGED <<pending, answer, received>>

Accept ==
    /\ offered # None
    /\ Len(pending) < Limit(offered)
    /\ pending' = Append(pending, offered)
    /\ offered' = None
    /\ answer' = "Accepted"
    /\ UNCHANGED received

Refuse ==
    /\ offered # None
    /\ Len(pending) >= Limit(offered)
    /\ offered' = None
    /\ answer' = "Full"
    /\ UNCHANGED <<pending, received>>

Deliver ==
    /\ pending # <<>>
    /\ received' = Head(pending)
    /\ pending' = Tail(pending)
    /\ UNCHANGED <<offered, answer>>

FindEmpty ==
    /\ pending = <<>>
    /\ received' = None
    /\ UNCHANGED <<pending, offered, answer>>

Next == Offer \/ Accept \/ Refuse \/ Deliver \/ FindEmpty

Spec == Init /\ [][Next]_<<pending, offered, answer, received>>

=============================================================================
