------------------------------ MODULE HttpAccess ------------------------------
(***************************************************************************)
(* Who may use the HTTP API, and what is left of its configuration after a *)
(* power cut (local_connectivity.cpp over local_network_support.cpp).  The *)
(* device keeps two blobs in NVS: its network and its password.  Firmware  *)
(* before them kept single keys, which initialize_nvs() migrates and       *)
(* leaves where they are.  One httpd task handles the requests one after   *)
(* another; a PUT is a step for its write and one for what follows it, so  *)
(* that the power may be cut in between.                                   *)
(*                                                                         *)
(* Time is relative and coarse: ages and remaining blocks, saturated where *)
(* the code no longer tells values apart.  NVS is external: a blob is      *)
(* replaced as a whole, and a write that fails may have replaced it.  What *)
(* WifiConnectivity does with a new network is not repeated here, nor is   *)
(* what CommandMailbox does with a command.                                *)
(***************************************************************************)
EXTENDS Integers, FiniteSets

CONSTANTS
    Initial,                    \* initial_device_password
    NoNetwork,                  \* has_sta_credentials = false
    Passwords, Networks,
    Peers,                      \* addresses that requests come from
    PeerCapacity,               \* LoginRateLimiter::peer_capacity, 4
    FailuresBeforeBlock,        \* 5
    MaximumExponent,            \* 3
    InitialBlock,               \* 30 s
    MaximumBlock,               \* 5 min
    ResetAfter,                 \* 10 min
    IdleTimeout                 \* HttpSessionState::idle_timeout, 30 min

Keys == {"wifi", "authentication"}

Missing == [missing |-> TRUE]
Invalid == [invalid |-> TRUE]
Claims == {"Missing", "Unclaimed", "Claimed", "Invalid"}

ASSUME HttpAccessAssumption ==
    /\ Initial \in Passwords /\ NoNetwork \in Networks
    /\ Missing \notin Passwords \cup Networks /\ Invalid \notin Passwords
    /\ "none" \notin Peers
    /\ PeerCapacity \in Nat \ {0} /\ FailuresBeforeBlock \in Nat \ {0}
    /\ MaximumExponent \in Nat
    /\ InitialBlock \in Nat \ {0} /\ MaximumBlock \in Nat \ {0}
    /\ ResetAfter \in Nat \ {0} /\ IdleTimeout \in Nat \ {0}

VARIABLES
    stored,                     \* the blobs: key -> value or Missing
    legacy,                     \* the keys of older firmware: network, password, claim
    server,                     \* "off", "failed", "serving" or the key being migrated
    configuration,              \* configuration_: key -> value
    change,                     \* the PUT being handled: a key and a value, or NoChange
    reach,                      \* interfaces that are up: "AP", "STA"
    session,                    \* session_state_, or NoSession
    limits,                     \* login_rate_limiter_: tracked peer -> entry
    expected,                   \* ghost: key -> values its owner may find in force
    ownFailures                 \* ghost: peer -> failed logins since a success

nvsVars == <<stored, legacy>>
requestVars == <<change, session>>
ghostVars == <<expected, ownFailures>>
accessVars == <<nvsVars, server, configuration, requestVars, reach, limits, ghostVars>>

NoChange == [key |-> "none"]
NoSession == [holder |-> "none"]

----------------------------------------------------------------------------
(* initialize_nvs()                                                        *)

LegacyNetwork == IF legacy.network \in Networks THEN legacy.network ELSE NoNetwork

\* decide_legacy_authentication_migration() and what initialize_nvs() does with it.
MigrationIsRejected ==
    \/ legacy.password = Invalid \/ legacy.claim = "Invalid"
    \/ legacy.password = Missing /\ legacy.claim = "Claimed"

MigratedPassword ==
    IF legacy.password = Missing \/ legacy.claim = "Unclaimed" THEN Initial
    ELSE legacy.password

\* Mutant of IsMigrated: the old keys, which are never erased, win.
HasLegacyKey(key) ==
    \/ stored[key] = Missing
    \/ key = "authentication" /\ legacy.password \in Passwords

IsMigrated(key) == stored[key] = Missing

LoadedNetwork == IF IsMigrated("wifi") THEN LegacyNetwork ELSE stored["wifi"]

LoadedPassword ==
    IF IsMigrated("authentication") THEN MigratedPassword ELSE stored["authentication"]

NextToMigrate(keys) ==
    IF "wifi" \in keys THEN "wifi"
    ELSE IF "authentication" \in keys THEN "authentication" ELSE "serving"

Boot ==
    /\ server = "off"
    /\ ~(IsMigrated("authentication") /\ MigrationIsRejected)
    /\ configuration' = [key \in Keys |->
                            IF key = "wifi" THEN LoadedNetwork ELSE LoadedPassword]
    /\ server' = NextToMigrate({key \in Keys : IsMigrated(key)})
    /\ UNCHANGED <<nvsVars, requestVars, reach, limits, ghostVars>>

\* The old keys make no sense, or NVS cannot be read: without HTTP until the next boot.
BootFails ==
    /\ server = "off"
    /\ server' = "failed"
    /\ UNCHANGED <<nvsVars, configuration, requestVars, reach, limits, ghostVars>>

Replaces(key, value) == stored' = [stored EXCEPT ![key] = value] /\ UNCHANGED legacy

\* persist_wifi_configuration(), then persist_authentication_configuration().
Migrate ==
    /\ server \in Keys
    /\ Replaces(server, configuration[server])
    /\ server' = NextToMigrate({key \in Keys \ {server} : IsMigrated(key)})
    /\ UNCHANGED <<configuration, requestVars, reach, limits, ghostVars>>

MigrationFails ==
    /\ server \in Keys
    /\ Replaces(server, configuration[server]) \/ UNCHANGED nvsVars
    /\ server' = "failed"
    /\ UNCHANGED <<configuration, requestVars, reach, limits, ghostVars>>

----------------------------------------------------------------------------
(* Requests.                                                               *)

\* classify_http_request_scope(): with the open access point up, an address of the
\* station's does not show where a request came in.
Scope(interface) ==
    IF interface \notin reach THEN "Rejected"
    ELSE IF interface = "AP" THEN "Commissioning"
    ELSE IF "AP" \in reach THEN "Rejected" ELSE "Operational"

\* httpd's task is free, and the request came in to that interface.
IsHandled(scope) ==
    /\ server = "serving" /\ change = NoChange
    /\ \E interface \in {"AP", "STA"} : Scope(interface) = scope

IsAuthenticated(peer) == session.holder = peer /\ session.idle < IdleTimeout

Touched == [session EXCEPT !.idle = 0]

IsPermitted(peer) == peer \in DOMAIN limits => limits[peer].blocked = 0

NewEntry == [failures |-> 0, age |-> 0, blocked |-> 0]

IsOldest(peer) == \A other \in DOMAIN limits : limits[peer].age >= limits[other].age

\* Mutant of Allocated: only the address of the oldest entry is replaced.
AllocatedOver(peer, oldest) == limits[oldest]

Allocated(peer, oldest) == NewEntry

\* find_or_allocate(): the peers that remain tracked, and the entry of this one.
Allocation(peer) ==
    IF peer \in DOMAIN limits THEN {<<DOMAIN limits, limits[peer]>>}
    ELSE IF Cardinality(DOMAIN limits) < PeerCapacity
         THEN {<<DOMAIN limits, NewEntry>>}
    ELSE {<<DOMAIN limits \ {oldest}, Allocated(peer, oldest)>> :
             oldest \in {p \in DOMAIN limits : IsOldest(p)}}

Least(a, b) == IF a < b THEN a ELSE b

Block(failures) ==
    IF failures < FailuresBeforeBlock THEN 0
    ELSE Least(InitialBlock * 2 ^ (failures - FailuresBeforeBlock), MaximumBlock)

\* More failures than that make no difference.
SaturatedFailures(count) == Least(count, FailuresBeforeBlock + MaximumExponent)

AfterFailure(entry) ==
    LET failures == SaturatedFailures(
                        IF entry.age >= ResetAfter THEN 1 ELSE entry.failures + 1)
    IN  [failures |-> failures, age |-> 0,
         blocked |-> IF failures < FailuresBeforeBlock THEN entry.blocked
                     ELSE Block(failures)]

RecordFailure(peer) ==
    \E allocation \in Allocation(peer) :
        limits' = [p \in allocation[1] \cup {peer} |->
                      IF p = peer THEN AfterFailure(allocation[2]) ELSE limits[p]]

RecordSuccess(peer) == limits' = [p \in DOMAIN limits \ {peer} |-> limits[p]]

\* The only session is the last one.
Login(peer) ==
    /\ IsHandled("Operational")
    /\ IsPermitted(peer)
    /\ RecordSuccess(peer)
    /\ session' = [holder |-> peer, idle |-> 0,
                   password |-> configuration["authentication"]]
    /\ ownFailures' = [ownFailures EXCEPT ![peer] = 0]
    /\ UNCHANGED <<nvsVars, server, configuration, change, reach, expected>>

\* A wrong password or an unreadable form.
LoginFails(peer) ==
    /\ IsHandled("Operational")
    /\ IsPermitted(peer)
    /\ RecordFailure(peer)
    /\ ownFailures' = [ownFailures EXCEPT ![peer] = Least(@ + 1, FailuresBeforeBlock)]
    /\ UNCHANGED <<nvsVars, server, configuration, requestVars, reach, expected>>

\* Any request that changes nothing here.
Visit(peer) ==
    /\ IsHandled("Operational")
    /\ IsAuthenticated(peer)
    /\ session' = Touched
    /\ UNCHANGED <<nvsVars, server, configuration, change, reach, limits, ghostVars>>

Logout(peer) ==
    /\ IsHandled("Operational")
    /\ IsAuthenticated(peer)
    /\ session' = NoSession
    /\ UNCHANGED <<nvsVars, server, configuration, change, reach, limits, ghostVars>>

BeginChange(key, value) ==
    /\ change' = [key |-> key, value |-> value, isWritten |-> FALSE]
    /\ expected' = [expected EXCEPT ![key] = @ \cup {value}]
    /\ UNCHANGED <<nvsVars, server, configuration, reach, limits, ownFailures>>

\* With the current password in the request.
PutPassword(peer, password) ==
    /\ IsHandled("Operational")
    /\ IsAuthenticated(peer)
    /\ session' = Touched
    /\ BeginChange("authentication", password)

PutNetwork(peer, network) ==
    /\ network # NoNetwork
    /\ \/ IsHandled("Operational") /\ IsAuthenticated(peer) /\ session' = Touched
       \/ IsHandled("Commissioning") /\ UNCHANGED session
    /\ BeginChange("wifi", network)

IsWriting == change # NoChange /\ ~change.isWritten

WriteChange ==
    /\ IsWriting
    /\ Replaces(change.key, change.value)
    /\ change' = [change EXCEPT !.isWritten = TRUE]
    /\ UNCHANGED <<server, configuration, session, reach, limits, ghostVars>>

\* 503: the old configuration stays in force, whatever NVS now holds.
ChangeFails ==
    /\ IsWriting
    /\ Replaces(change.key, change.value) \/ UNCHANGED nvsVars
    /\ change' = NoChange
    /\ UNCHANGED <<server, configuration, session, reach, limits, ghostVars>>

\* handle_password_put() ends with a logout.
SessionAfter(key) == IF key = "authentication" THEN NoSession ELSE session

CompleteChange ==
    /\ change # NoChange /\ change.isWritten
    /\ configuration' = [configuration EXCEPT ![change.key] = change.value]
    /\ expected' = [expected EXCEPT ![change.key] = {change.value}]
    /\ session' = SessionAfter(change.key)
    /\ change' = NoChange
    /\ UNCHANGED <<nvsVars, server, reach, limits, ownFailures>>

----------------------------------------------------------------------------
(* Time, the network, the power.                                           *)

Elapsed(entry) ==
    [failures |-> entry.failures,
     age |-> Least(entry.age + 1, ResetAfter),
     blocked |-> IF entry.blocked = 0 THEN 0 ELSE entry.blocked - 1]

\* One unit of time. A handler takes less.
Tick ==
    /\ server = "serving" /\ change = NoChange
    /\ limits' = [p \in DOMAIN limits |-> Elapsed(limits[p])]
    /\ session' = IF session = NoSession THEN session
                  ELSE [session EXCEPT !.idle = Least(@ + 1, IdleTimeout)]
    /\ UNCHANGED <<nvsVars, server, configuration, change, reach, ghostVars>>

\* WifiConnectivity says when.
ReachChanges ==
    /\ server = "serving"
    /\ reach' \in SUBSET {"AP", "STA"} \ {reach}
    /\ UNCHANGED <<nvsVars, server, configuration, requestVars, limits, ghostVars>>

NotLoaded == [key \in Keys |-> IF key = "wifi" THEN NoNetwork ELSE Initial]

NoEntries == [peer \in {} |-> NewEntry]

NoFailures == [peer \in Peers |-> 0]

\* The owner knows the password of a device that was claimed, and reads the initial one
\* of any other in the manual.
ExpectedPassword ==
    IF legacy.claim = "Unclaimed" \/ legacy.password = Missing THEN Initial
    ELSE legacy.password

AccessInit ==
    /\ stored = [key \in Keys |-> Missing]
    /\ legacy \in [network : Networks \cup {Missing},
                   password : Passwords \cup {Missing, Invalid}, claim : Claims]
    /\ server = "off" /\ configuration = NotLoaded
    /\ change = NoChange /\ session = NoSession
    /\ reach = {} /\ limits = NoEntries /\ ownFailures = NoFailures
    /\ expected = [key \in Keys |-> IF key = "wifi" THEN {LegacyNetwork}
                                    ELSE {ExpectedPassword}]

PowerCut ==
    /\ server # "off"
    /\ server' = "off" /\ configuration' = NotLoaded
    /\ change' = NoChange /\ session' = NoSession
    /\ reach' = {} /\ limits' = NoEntries /\ ownFailures' = NoFailures
    /\ UNCHANGED <<nvsVars, expected>>

AccessNext ==
    \/ Boot \/ BootFails \/ Migrate \/ MigrationFails
    \/ \E peer \in Peers :
          \/ Login(peer) \/ LoginFails(peer) \/ Visit(peer) \/ Logout(peer)
          \/ \E password \in Passwords : PutPassword(peer, password)
          \/ \E network \in Networks : PutNetwork(peer, network)
    \/ WriteChange \/ ChangeFails \/ CompleteChange
    \/ Tick \/ ReachChanges \/ PowerCut

AccessSpec == AccessInit /\ [][AccessNext]_accessVars

----------------------------------------------------------------------------
(* Properties.                                                             *)

\* Wherever the power was cut in a migration or a change, and whatever a failed write left
\* behind, the device serves with values its owner knows of: the last that were
\* acknowledged, or those of a request since then that was not.
ConfigurationIsAccountedFor ==
    server = "serving" => \A key \in Keys : configuration[key] \in expected[key]

\* A login that was valid under an older password is not valid any more.
SessionsAreOfThePassword ==
    session # NoSession => session.password = configuration["authentication"]

\* Nobody is turned away but for five failures of their own since they last got in, however
\* many others fail and share the few entries of the table.
OnlyOwnFailuresBlock ==
    \A peer \in Peers : ~IsPermitted(peer) => ownFailures[peer] = FailuresBeforeBlock

=============================================================================
