---------------------------- MODULE SessionQueries ----------------------------
(***************************************************************************)
(* What the two query APIs answer about the sessions of one server, as     *)
(* functions of the committed tables: app/api/servers.py for contract 1,   *)
(* app/api/v2.py for contract 2.  Ordering and pages are in HistoryPaging; *)
(* this module is about which rows and events an answer holds.             *)
(***************************************************************************)
EXTENDS SessionTracking

VARIABLE platform   \* servers.platform, as the last committed request left it

\* Mutant: a query of contract 1 forgets the protocol.
RowsOfAnyProtocol(protocol, states) ==
    {i \in DOMAIN saved.sessions : saved.sessions[i].state \in states}

Rows(protocol, states) ==
    {i \in DOMAIN saved.sessions : /\ saved.sessions[i].protocol = protocol
                                   /\ saved.sessions[i].state \in states}

-----------------------------------------------------------------------------
(* Contract 1.                                                             *)

NotFound == [found |-> FALSE]

IsV1Server == platform \in {NULL, "windows"}

\* What the summary counts; the rest of it is the server's own item.
ServerSummary ==
    [active_users |->
         Cardinality({saved.sessions[i].account : i \in Rows("RDP", {"ACTIVE"})}),
     active_sessions |-> Cardinality(Rows("RDP", {"ACTIVE"})),
     disconnected_sessions |-> Cardinality(Rows("RDP", {"DISCONNECTED"})),
     open_sessions |-> Cardinality(Rows("RDP", OpenStates))]

SessionItem(i) ==
    LET s == saved.sessions[i]
    IN  [id |-> i, account |-> s.account, state |-> s.state, logon_at |-> s.logon_at,
         logoff_at |-> s.logoff_at, disconnect_count |-> s.disconnect_count,
         end_reason |-> s.end_reason]

\* All that GET /api/v1/servers/{server_id}/... answers of sessions.  The summary
\* and the list of servers also show the server itself: its name, its agent's
\* version, when it was last heard of and when it started.  Every accepted post
\* changes that, one for SSH too.
V1Sessions ==
    IF IsV1Server
    THEN [found |-> TRUE, summary |-> ServerSummary,
          active |-> {SessionItem(i) : i \in Rows("RDP", {"ACTIVE"})},
          history |-> {SessionItem(i) : i \in Rows("RDP", {"CLOSED"})}]
    ELSE NotFound

-----------------------------------------------------------------------------
(* Contract 2.                                                             *)

\* Mutant: a timeline without the events at its ends.
TimelineInside(i) ==
    LET s == saved.sessions[i]
    IN  {row \in saved.events :
            /\ row.protocol = s.protocol
            /\ row.event.provider_session_id = s.provider_session_id
            /\ row.boot_id = s.boot_id
            /\ s.logon_at = NULL \/ row.event.occurred_at >= s.logon_at
            /\ s.logoff_at = NULL \/ row.event.occurred_at < s.logoff_at}

\* The events between a session's logon and its logoff, where it knows them.
Timeline(i) ==
    LET s == saved.sessions[i]
    IN  {row \in saved.events :
            /\ row.protocol = s.protocol
            /\ row.event.provider_session_id = s.provider_session_id
            /\ row.boot_id = s.boot_id
            /\ s.logon_at = NULL \/ row.event.occurred_at >= s.logon_at
            /\ s.logoff_at = NULL \/ row.event.occurred_at <= s.logoff_at}

-----------------------------------------------------------------------------
(* The queries beside the requests.                                        *)

QueriesInit == Init /\ platform = NULL

QueriesNext ==
    \/ /\ Begin \/ Fail
       /\ UNCHANGED platform
    \/ /\ req # NoRequest
       /\ \E x \in req.todo : IngestEvent(x) \/ Observe(x)
       /\ UNCHANGED platform
    \/ /\ FinishEvents \/ FinishSnapshot
       /\ platform' = req.msg.platform

QueriesSpec == QueriesInit /\ [][QueriesNext]_<<vars, platform>>

-----------------------------------------------------------------------------
(* What the answers promise.                                               *)

(* The timeline of a session holds the LOGON that began it and the LOGOFF  *)
(* that ended it, in whatever order and however often they were delivered. *)
(* (A session that something else ended may end before it began.)          *)
TimelineHoldsItsEnds ==
    \A i \in DOMAIN saved.sessions :
        LET s == saved.sessions[i]
            at(type, t) == {row \in Accepted(type, s) : row.event.occurred_at = t}
            shown(type, t) == at(type, t) \intersect Timeline(i) # {}
        IN  /\ s.end_reason = "LOGOFF" => shown("LOGOFF", s.logoff_at)
            /\ s.end_reason \in {NULL, "LOGOFF"} /\ at("LOGON", s.logon_at) # {}
                   => shown("LOGON", s.logon_at)

(* docs/phase4-global-history.md: "Events from an earlier or later         *)
(* lifecycle are therefore excluded from the selected session timeline."   *)
(* No event stands in the timelines of two sessions.                       *)
TimelinesApart ==
    \A i, j \in DOMAIN saved.sessions :
        i # j => Timeline(i) \intersect Timeline(j) = {}

(* README.md, of the first contract: "The v1 read surface remains RDP-only *)
(* so future SSH telemetry cannot change existing Grafana behavior."       *)
(* While the server keeps its boot and its platform, a request for SSH     *)
(* leaves every count and row of sessions that contract 1 answers as it    *)
(* was, whatever ids the rows share with those of RDP.                     *)
SshUnseenInBoot ==
    [][(FinishEvents \/ FinishSnapshot)
          /\ req.msg.protocol = "SSH"
          /\ platform = req.msg.platform
          /\ saved.server.last_boot_id = req.msg.boot_id =>
          V1Sessions' = V1Sessions]_<<vars, platform>>

(* The same sentence without the condition.                                *)
SshUnseenByV1 ==
    [][(FinishEvents \/ FinishSnapshot) /\ req.msg.protocol = "SSH" =>
          V1Sessions' = V1Sessions]_<<vars, platform>>
=============================================================================
