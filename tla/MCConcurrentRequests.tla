------------------------- MODULE MCConcurrentRequests -------------------------
(***************************************************************************)
(* Small worlds for ConcurrentRequests, in half seconds as those of        *)
(* MCSessionTracking: one session of one user, contract 1.                 *)
(***************************************************************************)
EXTENDS ConcurrentRequests

MCIds == {"10", "11", "12", "13"}
MCIdRank == [i \in MCIds |-> CASE i = "10" -> 0 [] i = "11" -> 1 [] i = "12" -> 2
                              [] i = "13" -> 3]
MCPrincipalOf == [a \in {"Alice"} |-> "alice"]

Ev(type, id, at) ==
    [type |-> type, provider_session_id |-> "2", provider_event_id |-> id,
     account |-> "Alice", source_ip |-> NULL, occurred_at |-> at]
Batch(boot, at, items) ==
    [contract |-> 1, kind |-> "events", boot_time |-> boot, agent_time |-> at,
     items |-> items]
Snapshot(boot, at, state, logon) ==
    [Batch(boot, at, {[provider_session_id |-> "2", account |-> "Alice", state |-> state,
                       logon_at |-> logon, source_ip |-> NULL]}) EXCEPT !.kind = "snapshot"]

\* The session in two batches, beside a snapshot that shows it: all posted
\* in any order, any number of times.
CloseAndSnapshot ==
    {Batch(0, 5, {Ev("LOGON", "10", 2), Ev("DISCONNECT", "11", 4)}),
     Batch(0, 9, {Ev("LOGOFF", "12", 8)}),
     Snapshot(0, 7, "DISCONNECTED", NULL)}

\* A LOGON beside a snapshot that says when the session began.
TimedSnapshot ==
    {Batch(0, 3, {Ev("LOGON", "10", 2)}),
     Snapshot(0, 3, "ACTIVE", 2)}

\* A batch of one boot beside the first post of the next boot.
RebootBeside ==
    {Batch(0, 3, {Ev("LOGON", "10", 2)}),
     Batch(20, 23, {Ev("LOGON", "11", 22)})}
=============================================================================
