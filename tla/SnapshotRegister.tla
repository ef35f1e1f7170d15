--------------------------- MODULE SnapshotRegister ---------------------------
(***************************************************************************)
(* What SnapshotExchange promises: a register that one task overwrites and *)
(* any number of tasks lease.  A lease is of the value that was current at *)
(* one instant of the call and never changes while it is held.             *)
(***************************************************************************)
CONSTANTS Readers, Snapshots, None

VARIABLES
    current,                    \* the published snapshot or None
    leases                      \* what every reader holds or None

Init ==
    /\ current = None
    /\ leases = [r \in Readers |-> None]

Publish ==
    /\ current' \in Snapshots
    /\ UNCHANGED leases

Acquire(r) ==
    /\ leases[r] = None
    /\ current # None
    /\ leases' = [leases EXCEPT ![r] = current]
    /\ UNCHANGED current

Release(r) ==
    /\ leases[r] # None
    /\ leases' = [leases EXCEPT ![r] = None]
    /\ UNCHANGED current

Next == Publish \/ \E r \in Readers : Acquire(r) \/ Release(r)

Spec == Init /\ [][Next]_<<current, leases>>

=============================================================================
