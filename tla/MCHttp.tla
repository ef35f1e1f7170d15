-------------------------------- MODULE MCHttp --------------------------------
(* The HTTP task: the mailbox it pushes commands into, the configuration it   *)
(* keeps, and the table of failed logins. A behaviour explores one of them:   *)
(* they meet only in that one task uses all three, a request at a time.       *)
(* The mailbox has three places and sequences that wrap after six. With the   *)
(* configuration, power cuts and failing writes come anywhere, and two peers  *)
(* log in without an error. With the table, three peers share two entries,    *)
(* the device stays up and its configuration is not changed.                  *)
EXTENDS CommandMailbox, HttpAccess

CONSTANTS c1, t1, t2, p1, p2, n1, n2, a, b, c

VARIABLE part

mcVars == <<mailboxVars, accessVars, part>>

IsNew == legacy = [network |-> Missing, password |-> Missing, claim |-> "Missing"]

MCInit ==
    /\ MailboxInit /\ AccessInit
    /\ part \in {"mailbox", "configuration", "logins"}
    /\ part # "configuration" => IsNew

ConfigurationStep ==
    \/ Boot \/ BootFails \/ Migrate \/ MigrationFails
    \/ \E peer \in {a, b} :
          \/ Login(peer) \/ Visit(peer) \/ Logout(peer)
          \/ \E password \in Passwords : PutPassword(peer, password)
          \/ \E network \in Networks : PutNetwork(peer, network)
    \/ WriteChange \/ ChangeFails \/ CompleteChange
    \/ ReachChanges \/ PowerCut

LoginStep ==
    \/ Boot \/ Migrate
    \/ \E peer \in Peers : Login(peer) \/ LoginFails(peer) \/ Visit(peer) \/ Logout(peer)
    \/ Tick
    \/ reach = {} /\ ReachChanges

MCNext ==
    /\ \/ part = "mailbox" /\ MailboxNext /\ UNCHANGED accessVars
       \/ part = "configuration" /\ ConfigurationStep /\ UNCHANGED mailboxVars
       \/ part = "logins" /\ LoginStep /\ UNCHANGED mailboxVars
    /\ UNCHANGED part

MCSpec == MCInit /\ [][MCNext]_mcVars

=============================================================================
