-------------------------- MODULE MCSessionTracking --------------------------
(***************************************************************************)
(* Small worlds for SessionTracking: what an Agent truthfully observed on  *)
(* one server, cut into the messages it spools.  The model checker posts   *)
(* them in every order, any number of times.  A time is half a second.     *)
(***************************************************************************)
EXTENDS SessionTracking

CONSTANTS alice, bob

MCAccounts == {"Alice", "ALICE", "bob"}
MCPrincipalOf == [a \in MCAccounts |-> IF a = "bob" THEN bob ELSE alice]
MCEventIds == {"9", "10", "11", "12", "13", "14", "15"}
\* "10" comes before "9" as a string.
MCIdRank == [i \in MCEventIds |->
    CASE i = "10" -> 0 [] i = "11" -> 1 [] i = "12" -> 2 [] i = "13" -> 3
      [] i = "14" -> 4 [] i = "15" -> 5 [] OTHER -> 9]

Ev(type, psid, id, account, ip, at) ==
    [type |-> type, provider_session_id |-> psid, provider_event_id |-> id,
     account |-> account, source_ip |-> ip, occurred_at |-> at]
Ob(psid, account, state, logon, ip) ==
    [provider_session_id |-> psid, account |-> account, state |-> state,
     logon_at |-> logon, source_ip |-> ip]
Batch(boot, at, items) ==
    [contract |-> 1, kind |-> "events", boot_time |-> boot, agent_time |-> at,
     items |-> items]
Snapshot(boot, at, items) ==
    [contract |-> 1, kind |-> "snapshot", boot_time |-> boot, agent_time |-> at,
     items |-> items]

\* One session, disconnected and resumed elsewhere, in a first boot at 0 or 1
\* (the same second); the session id is used again after a reboot at 20.
TwoBoots ==
    {Batch(0, 5, {Ev("LOGON", "2", "9", "Alice", "home", 2),
                  Ev("DISCONNECT", "2", "10", "ALICE", NULL, 4)}),
     Batch(1, 7, {Ev("RECONNECT", "2", "11", "Alice", "work", 6)}),
     Batch(0, 9, {Ev("LOGOFF", "2", "12", "Alice", NULL, 8)}),
     Snapshot(1, 5, {Ob("2", "ALICE", "DISCONNECTED", 2, NULL)}),
     Batch(20, 23, {Ev("LOGON", "2", "13", "Alice", "home", 22)}),
     Snapshot(20, 23, {Ob("2", "Alice", "ACTIVE", NULL, "home")})}

\* One boot, events only: a session id used twice by one user and then by
\* another, each event in a message of its own.
OneLongBoot ==
    {Batch(0, 3, {Ev("LOGON", "2", "9", "Alice", "home", 2)}),
     Batch(1, 5, {Ev("DISCONNECT", "2", "10", "ALICE", NULL, 4)}),
     Batch(1, 7, {Ev("RECONNECT", "2", "11", "Alice", "work", 6)}),
     Batch(0, 9, {Ev("LOGOFF", "2", "12", "Alice", NULL, 8)}),
     Batch(1, 11, {Ev("LOGON", "2", "13", "ALICE", "work", 10)}),
     Batch(0, 13, {Ev("LOGOFF", "2", "14", "Alice", NULL, 12)}),
     Batch(0, 15, {Ev("LOGON", "2", "15", "bob", NULL, 14)})}

\* A session seen by a snapshot before the batch with its LOGON arrives.
LateLogon ==
    {Snapshot(0, 5, {Ob("2", "Alice", "DISCONNECTED", 2, NULL)}),
     Batch(0, 3, {Ev("LOGON", "2", "9", "Alice", "home", 2)}),
     Batch(0, 5, {Ev("DISCONNECT", "2", "10", "Alice", NULL, 4)}),
     Batch(0, 7, {Ev("RECONNECT", "2", "11", "Alice", "work", 6)})}

\* A backlog delivered within one second: a whole session, a second one that
\* a snapshot shows before its LOGON arrives, its LOGOFF, and that LOGON.
Backlog ==
    {Batch(0, 5, {Ev("LOGON", "2", "9", "Alice", "home", 2),
                  Ev("LOGOFF", "2", "10", "Alice", NULL, 3)}),
     Snapshot(0, 6, {Ob("2", "Alice", "ACTIVE", 5, "work")}),
     Batch(0, 9, {Ev("LOGOFF", "2", "12", "Alice", NULL, 8)}),
     Batch(0, 9, {Ev("LOGON", "2", "11", "Alice", "work", 5)})}

\* A snapshot of nobody, and the logon of a moment later.
SlowSnapshot ==
    {Snapshot(0, 3, {}),
     Batch(0, 5, {Ev("LOGON", "2", "9", "Alice", "home", 4)})}

Batch2(platform, protocol, boot, at, items) ==
    [contract |-> 2, kind |-> "events", platform |-> platform,
     protocol |-> protocol, boot_id |-> boot, agent_time |-> at, items |-> items]
Snapshot2(platform, protocol, boot, at, items) ==
    [Batch2(platform, protocol, boot, at, items) EXCEPT !.kind = "snapshot"]

(* A database that served the API before migration 0003, on SQLite: the    *)
(* boot ids the migration filled in spell boot time 0 in their own way.    *)
MigratedMessages ==
    {Batch(0, 3, {Ev("LOGON", "2", "9", "Alice", "home", 2)}),
     Batch(1, 5, {Ev("DISCONNECT", "2", "10", "Alice", NULL, 4)}),
     Snapshot(0, 7, {Ob("2", "Alice", "DISCONNECTED", 2, NULL),
                     Ob("3", "bob", "ACTIVE", NULL, "work")}),
     Snapshot(0, 9, {}),
     Batch(20, 23, {Ev("LOGON", "2", "13", "Alice", "home", 22)})}

MigratedMessage == [Normalize(Batch(0, 3, {})) EXCEPT !.boot_id = <<"cast", 0>>]
MigratedLogon == Ev("LOGON", "2", "9", "Alice", "home", 2)

\* The row of MigratedLogon, its fingerprint untouched by the migration.
MigratedInit ==
    /\ server = [last_boot_id |-> <<"cast", 0>>, last_boot_at |-> 0]
    /\ sessions = [i \in {1} |-> LoggedOn(MigratedMessage, MigratedLogon)]
    /\ events = {EventRow(MigratedMessage, MigratedLogon)}
    /\ req = NoRequest
    /\ unflushed = {}
    /\ saved = Store

MigratedSpec == MigratedInit /\ [][Next]_vars
=============================================================================
