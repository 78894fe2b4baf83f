--------------------------- MODULE SessionTracking ---------------------------
(***************************************************************************)
(* How the API turns what one monitored server's Agent posts into rows of  *)
(* the sessions table: event ingestion (app/services/event_ingestion.py),  *)
(* snapshot reconciliation (app/services/reconciliation.py) and the        *)
(* session reducer both use (app/services/session_state.py).               *)
(*                                                                         *)
(* A request is one database transaction.  It begins by closing what an    *)
(* earlier boot left open, walks its events or its observed sessions one   *)
(* by one, and commits; a failure on the way rolls everything back.  The   *)
(* Agent spools and resends, so a message may be posted any number of      *)
(* times and in any order.  This module takes requests one at a time.      *)
(*                                                                         *)
(* server, sessions and events are what the open transaction sees; saved   *)
(* is the committed copy of the three.  Display columns (agent version,    *)
(* host names, legacy integer ids, duration) are left out, a hash is the   *)
(* value it is taken of.                                                   *)
(***************************************************************************)
EXTENDS Integers, FiniteSets

CONSTANTS
    Messages,        \* the posts the Agents make, as they travel
    SessionIds,      \* bound: primary keys of sessions rows (random, ordered)
    Accounts,        \* account names as Windows spells them
    PrincipalOf,     \* an account name casefolded, with its domain
    ProviderIds,     \* provider session ids
    EventIds,        \* provider event ids, strings
    IdRank,          \* their string order
    BootTokens,      \* opaque boot ids of contract 2
    Addresses,       \* source addresses
    TicksPerSecond,  \* resolution of a posted time
    ClockAdvance,    \* how far the row clock may move between two inserts
    NULL

Times == Nat
Maybe(S) == S \union {NULL}
Platforms == {"windows", "linux"}
Protocols == {"RDP", "SSH"}
OpenStates == {"ACTIVE", "DISCONNECTED"}
EventTypes == {"LOGON", "DISCONNECT", "RECONNECT", "LOGOFF"}

(* A boot identifier: the formatted boot time of contract 1, the opaque    *)
(* token of contract 2, or the CAST of migration 0003, which on SQLite     *)
(* spells a boot time in another way than contract 1 does.                 *)
BootIds == ({"v1", "cast"} \X Times) \union ({"v2"} \X BootTokens)

Event ==
    [type: EventTypes, provider_session_id: ProviderIds,
     provider_event_id: EventIds, account: Accounts,
     source_ip: Maybe(Addresses), occurred_at: Times]

Observation ==
    [provider_session_id: ProviderIds, account: Accounts, state: OpenStates,
     logon_at: Maybe(Times), source_ip: Maybe(Addresses)]

V1Message(kind, Item) ==
    [contract: {1}, kind: {kind}, boot_time: Times, agent_time: Times,
     items: SUBSET Item]

V2Message(kind, Item) ==
    [contract: {2}, kind: {kind}, platform: Platforms, protocol: Protocols,
     boot_id: BootTokens, agent_time: Times, items: SUBSET Item]

ASSUME MessagesAssumption ==
    Messages \subseteq V1Message("events", Event)
                       \union V1Message("snapshot", Observation)
                       \union V2Message("events", Event)
                       \union V2Message("snapshot", Observation)
ASSUME EnvelopesAssumption ==
    \A m \in Messages : m.kind = "events" =>
        /\ m.items # {}
        /\ m.contract = 2 /\ m.protocol = "SSH" =>
               \A e \in m.items : e.type \in {"LOGON", "LOGOFF"}
ASSUME IdsAssumption == SessionIds \subseteq Nat /\ ClockAdvance \subseteq Nat
ASSUME RankAssumption == IdRank \in [EventIds -> Nat]
ASSUME TicksAssumption == TicksPerSecond \in Nat \ {0}
ASSUME NullAssumption == NULL \notin Nat \union BootIds \union Addresses
                                      \union {"LOGOFF", "REBOOT", "RECONCILIATION"}

VARIABLES
    server,     \* the servers row: last_boot_id, last_boot_at
    sessions,   \* the sessions table, by primary key
    events,     \* the session_events table
    req,        \* the request in progress, or NoRequest
    unflushed,  \* rows whose new boot_id is not yet in the database
    saved       \* the committed server, sessions and events

vars == <<server, sessions, events, req, unflushed, saved>>

-----------------------------------------------------------------------------
(* Normalisation: both contracts become one message (normalization.py).    *)

\* Mutant: boot times compared to the fraction of a second.
ExactBootTime(t) == t

\* Boot times are kept in whole seconds: every reader of boot_time rounds it,
\* so a normalised message carries it rounded.
NormalizeBootTime(t) == t - (t % TicksPerSecond)

V1BootId(t) == <<"v1", NormalizeBootTime(t)>>

NormalizeV1(m) ==
    [contract |-> 1, kind |-> m.kind, platform |-> "windows", protocol |-> "RDP",
     boot_id |-> V1BootId(m.boot_time), boot_time |-> NormalizeBootTime(m.boot_time),
     agent_time |-> m.agent_time, items |-> m.items]

NormalizeV2(m) ==
    [contract |-> 2, kind |-> m.kind, platform |-> m.platform, protocol |-> m.protocol,
     boot_id |-> <<"v2", m.boot_id>>, boot_time |-> NULL,
     agent_time |-> m.agent_time, items |-> m.items]

Normalize(m) == IF m.contract = 1 THEN NormalizeV1(m) ELSE NormalizeV2(m)

(* What makes two posted events the same event.  Contract 1 includes the   *)
(* time and the Windows event id (its type here), contract 2 neither time  *)
(* nor user.                                                               *)
Fingerprint(m, e) ==
    IF m.contract = 1
    THEN <<1, e.provider_event_id, e.type, e.provider_session_id, m.boot_time,
           e.occurred_at>>
    ELSE <<2, m.platform, m.protocol, m.boot_id, e.provider_event_id, e.type,
           e.provider_session_id>>

EventRow(m, e) ==
    [event_fingerprint |-> Fingerprint(m, e), protocol |-> m.protocol,
     platform |-> m.platform, boot_id |-> m.boot_id, event |-> e]

\* The order events of one batch are applied in; equal keys keep any order.
Before(e, f) ==
    \/ e.occurred_at < f.occurred_at
    \/ /\ e.occurred_at = f.occurred_at
       /\ IdRank[e.provider_event_id] < IdRank[f.provider_event_id]

-----------------------------------------------------------------------------
(* The rows, and the two queries on them.                                  *)

IsOpen(s) == s.state \in OpenStates

SameUser(a, b) == PrincipalOf[a] = PrincipalOf[b]

(* x, an event or an observed session of message m, speaks of session s.   *)
Concerns(m, x, s) ==
    /\ s.protocol = m.protocol
    /\ s.boot_id = m.boot_id
    /\ s.provider_session_id = x.provider_session_id
    /\ SameUser(s.account, x.account)

(* Queries run in the database, which an API request's unflushed changes   *)
(* have not reached (autoflush=False).                                     *)
Stored == DOMAIN sessions \ unflushed

\* Mutants: the lookup misses disconnected rows, or finds closed ones.
ActiveSessions(m, x) ==
    {i \in Stored : /\ sessions[i].state = "ACTIVE"
                    /\ Concerns(m, x, sessions[i])}
AllSessions(m, x) == {i \in Stored : Concerns(m, x, sessions[i])}

OpenSessions(m, x) ==
    {i \in Stored : IsOpen(sessions[i]) /\ Concerns(m, x, sessions[i])}

\* Newest row first: by created_at, then by primary key.
Newer(i, j) ==
    \/ sessions[i].created_at > sessions[j].created_at
    \/ sessions[i].created_at = sessions[j].created_at /\ i >= j

LatestSession(m, x) ==
    LET all == {i \in Stored : Concerns(m, x, sessions[i])}
    IN  {i \in all : \A j \in all : Newer(i, j)}

\* Mutant: a LOGON is never delayed.
NoDelayedLogon(m, e) == FALSE

\* A LOGON no later than the logoff of the newest row it concerns.
DelayedLogon(m, e) ==
    \E i \in LatestSession(m, e) :
        /\ sessions[i].state = "CLOSED"
        /\ sessions[i].logoff_at # NULL
        /\ e.occurred_at <= sessions[i].logoff_at

\* Mutant: a close that does not say why.
ClosedUnexplained(s, at, reason) ==
    [s EXCEPT !.state = "CLOSED", !.logoff_at = at]

Closed(s, at, reason) ==
    [s EXCEPT !.state = "CLOSED", !.logoff_at = at, !.end_reason = reason]

Store == [server |-> server, sessions |-> sessions, events |-> events]

NoRequest == [kind |-> "idle"]

-----------------------------------------------------------------------------
(* Begin a request: close_previous_boot_sessions_common, which both        *)
(* handlers call before they look at a single event or session.            *)

\* Mutant: a boot is known by its identifier only.
NeverLegacy(m) == FALSE

SameLegacyBoot(m) ==
    /\ m.boot_time # NULL
    /\ server.last_boot_at # NULL
    /\ NormalizeBootTime(server.last_boot_at) = m.boot_time

ServerAfter(m) ==
    [last_boot_id |-> m.boot_id,
     last_boot_at |-> IF m.boot_time # NULL THEN m.boot_time ELSE server.last_boot_at]

\* Mutant: rows keep the old spelling of their boot.
NoneAdopted(m) == {}

\* The open rows of the same boot time that take over the new spelling of it.
Adopted(m) ==
    IF SameLegacyBoot(m) /\ server.last_boot_id # m.boot_id
    THEN {i \in DOMAIN sessions : /\ IsOpen(sessions[i])
                                  /\ sessions[i].boot_time = m.boot_time}
    ELSE {}

\* A first boot, the same boot, or the same boot spelled otherwise.
KeepBoot(m) ==
    /\ \/ server.last_boot_id \in {NULL, m.boot_id}
       \/ SameLegacyBoot(m)
    /\ sessions' = [i \in DOMAIN sessions |->
                        IF i \in Adopted(m)
                        THEN [sessions[i] EXCEPT !.boot_id = m.boot_id]
                        ELSE sessions[i]]
    /\ unflushed' = Adopted(m)

\* Mutant: a reboot ends active sessions only.
ChangeBootActiveOnly(m) ==
    /\ server.last_boot_id \notin {NULL, m.boot_id}
    /\ ~SameLegacyBoot(m)
    /\ sessions' = [i \in DOMAIN sessions |->
                        IF sessions[i].state = "ACTIVE" /\ sessions[i].boot_id # m.boot_id
                        THEN Closed(sessions[i], m.agent_time, "REBOOT")
                        ELSE sessions[i]]
    /\ unflushed' = {}

\* Any other boot, an earlier one included, ends the sessions left open.
ChangeBoot(m) ==
    /\ server.last_boot_id \notin {NULL, m.boot_id}
    /\ ~SameLegacyBoot(m)
    /\ LET at == IF m.boot_time # NULL THEN m.boot_time ELSE m.agent_time
       IN  sessions' = [i \in DOMAIN sessions |->
                            IF IsOpen(sessions[i]) /\ sessions[i].boot_id # m.boot_id
                            THEN Closed(sessions[i], at, "REBOOT")
                            ELSE sessions[i]]
    /\ unflushed' = {}

StartWith(m) ==
    /\ KeepBoot(m) \/ ChangeBoot(m)
    /\ server' = ServerAfter(m)
    /\ req' = [kind |-> m.kind, msg |-> m, todo |-> m.items, seen |-> {}]
    /\ UNCHANGED <<events, saved>>

Begin ==
    /\ req = NoRequest
    /\ \E m \in Messages : StartWith(Normalize(m))

-----------------------------------------------------------------------------
(* Event ingestion, one event at a time: ingest_normalized_events and      *)
(* apply_normalized_event.                                                 *)

NextEvent(e) ==
    /\ req.kind = "events"
    /\ e \in req.todo
    /\ \A f \in req.todo : ~Before(f, e)
    /\ req' = [req EXCEPT !.todo = @ \ {e}]
    /\ UNCHANGED <<server, saved>>

\* Mutant: no lookup of the fingerprint.
NeverDuplicate(e) == FALSE

IsDuplicate(e) ==
    \E row \in events : row.event_fingerprint = Fingerprint(req.msg, e)

SkipDuplicate(e) ==
    /\ NextEvent(e)
    /\ IsDuplicate(e)
    /\ UNCHANGED <<sessions, events, unflushed>>

\* Record a new event; the flush that follows reaches every pending row.
Accept(e) ==
    /\ NextEvent(e)
    /\ ~IsDuplicate(e)
    /\ events' = events \union {EventRow(req.msg, e)}
    /\ unflushed' = {}

\* A row is stamped when it is inserted, ClockAdvance after the newest one.
Stamps == {0} \union {sessions[j].created_at : j \in DOMAIN sessions}

Insert(i, row) ==
    /\ i \in SessionIds \ DOMAIN sessions
    /\ \E t \in Stamps, d \in ClockAdvance :
          /\ \A u \in Stamps : u <= t
          /\ sessions' = [j \in DOMAIN sessions \union {i} |->
                             IF j = i THEN [row EXCEPT !.created_at = t + d]
                                      ELSE sessions[j]]

Update(i, row) == sessions' = [sessions EXCEPT ![i] = row]

NoEffect == UNCHANGED sessions

LoggedOn(m, e) ==
    [protocol |-> m.protocol, platform |-> m.platform, boot_id |-> m.boot_id,
     provider_session_id |-> e.provider_session_id, account |-> e.account,
     boot_time |-> IF m.boot_time # NULL THEN m.boot_time ELSE e.occurred_at,
     state |-> "ACTIVE", logon_at |-> e.occurred_at, logoff_at |-> NULL,
     last_connected_at |-> e.occurred_at, last_disconnected_at |-> NULL,
     initial_source_ip |-> e.source_ip, last_source_ip |-> e.source_ip,
     disconnect_count |-> 0, end_reason |-> NULL, created_at |-> 0]

LogonNew(e, i) ==
    /\ Accept(e)
    /\ e.type = "LOGON"
    /\ OpenSessions(req.msg, e) = {}
    /\ ~DelayedLogon(req.msg, e)
    /\ Insert(i, LoggedOn(req.msg, e))

LogonDelayed(e) ==
    /\ Accept(e)
    /\ e.type = "LOGON"
    /\ OpenSessions(req.msg, e) = {}
    /\ DelayedLogon(req.msg, e)
    /\ NoEffect

\* x, unless it is the database's null.
Default(x, y) == IF x = NULL THEN y ELSE x

\* The time stands in the row, and it is later than t.
LaterThan(stamp, t) == stamp # NULL /\ t < stamp

\* Mutant: a LOGON stamps the connection whatever its time.
LogonOpenUnordered(e, i) ==
    /\ Accept(e)
    /\ e.type = "LOGON"
    /\ i \in OpenSessions(req.msg, e)
    /\ Update(i, [sessions[i] EXCEPT !.state = "ACTIVE",
                                     !.last_connected_at = e.occurred_at])

\* A LOGON for a session that is open makes it active, however old it is; only
\* the connection columns look at its time.
LogonOpen(e, i) ==
    /\ Accept(e)
    /\ e.type = "LOGON"
    /\ i \in OpenSessions(req.msg, e)
    /\ LET s == sessions[i]
           fresh == ~LaterThan(s.last_connected_at, e.occurred_at)
       IN  Update(i, [s EXCEPT
               !.state = "ACTIVE",
               !.logon_at = Default(@, e.occurred_at),
               !.initial_source_ip = Default(@, e.source_ip),
               !.last_connected_at = IF fresh THEN e.occurred_at ELSE @,
               !.last_source_ip = IF fresh THEN Default(e.source_ip, @) ELSE @])

Unattached(e) ==
    /\ Accept(e)
    /\ e.type # "LOGON"
    /\ OpenSessions(req.msg, e) = {}
    /\ NoEffect

\* Mutant: a DISCONNECT older than the last connection counts.
DisconnectStale(e, i) ==
    /\ Accept(e)
    /\ e.type = "DISCONNECT"
    /\ i \in OpenSessions(req.msg, e)
    /\ Update(i, [sessions[i] EXCEPT !.state = "DISCONNECTED",
                                     !.last_disconnected_at = e.occurred_at,
                                     !.disconnect_count = @ + 1])

Disconnect(e, i) ==
    /\ Accept(e)
    /\ e.type = "DISCONNECT"
    /\ i \in OpenSessions(req.msg, e)
    /\ LET s == sessions[i]
       IN  IF LaterThan(s.last_connected_at, e.occurred_at)
              \/ LaterThan(s.last_disconnected_at, e.occurred_at)
           THEN NoEffect
           ELSE Update(i, [s EXCEPT !.state = "DISCONNECTED",
                                    !.last_disconnected_at = e.occurred_at,
                                    !.disconnect_count = @ + 1])

\* Mutant: a RECONNECT fills a missing initial origin.
ReconnectFillsInitial(e, i) ==
    /\ Accept(e)
    /\ e.type = "RECONNECT"
    /\ i \in OpenSessions(req.msg, e)
    /\ Update(i, [sessions[i] EXCEPT !.state = "ACTIVE",
                                     !.initial_source_ip = Default(@, e.source_ip),
                                     !.last_connected_at = e.occurred_at])

Reconnect(e, i) ==
    /\ Accept(e)
    /\ e.type = "RECONNECT"
    /\ i \in OpenSessions(req.msg, e)
    /\ LET s == sessions[i]
       IN  IF LaterThan(s.last_disconnected_at, e.occurred_at)
              \/ LaterThan(s.last_connected_at, e.occurred_at)
           THEN NoEffect
           ELSE Update(i, [s EXCEPT !.state = "ACTIVE",
                                    !.last_connected_at = e.occurred_at,
                                    !.last_source_ip = Default(e.source_ip, @)])

\* Mutant: a LOGOFF older than the logon closes the session.
LogoffStale(e, i) ==
    /\ Accept(e)
    /\ e.type = "LOGOFF"
    /\ i \in OpenSessions(req.msg, e)
    /\ Update(i, Closed(sessions[i], e.occurred_at, "LOGOFF"))

Logoff(e, i) ==
    /\ Accept(e)
    /\ e.type = "LOGOFF"
    /\ i \in OpenSessions(req.msg, e)
    /\ IF LaterThan(sessions[i].logon_at, e.occurred_at)
       THEN NoEffect
       ELSE Update(i, Closed(sessions[i], e.occurred_at, "LOGOFF"))

IngestEvent(e) ==
    \/ SkipDuplicate(e)
    \/ LogonDelayed(e)
    \/ Unattached(e)
    \/ \E i \in SessionIds :
          LogonNew(e, i) \/ LogonOpen(e, i) \/ Disconnect(e, i)
          \/ Reconnect(e, i) \/ Logoff(e, i)

Commit ==
    /\ saved' = [server |-> server, sessions |-> sessions', events |-> events]
    /\ req' = NoRequest
    /\ unflushed' = {}
    /\ UNCHANGED <<server, events>>

FinishEvents ==
    /\ req.kind = "events"
    /\ req.todo = {}
    /\ UNCHANGED sessions
    /\ Commit

-----------------------------------------------------------------------------
(* Snapshot reconciliation: reconcile_normalized_snapshot.                 *)

\* One observed session; row i stands for it from now on.
NextObserved(o, i) ==
    /\ req.kind = "snapshot"
    /\ o \in req.todo
    /\ req' = [req EXCEPT !.todo = @ \ {o}, !.seen = @ \union {i}]
    /\ UNCHANGED <<server, events, saved>>

\* Mutant: the boot time of an observed session is left to the Agent.
ObservedUntimed(m, o) ==
    [protocol |-> m.protocol, platform |-> m.platform, boot_id |-> m.boot_id,
     provider_session_id |-> o.provider_session_id, account |-> o.account,
     boot_time |-> o.logon_at, state |-> o.state,
     logon_at |-> o.logon_at, logoff_at |-> NULL,
     last_connected_at |-> o.logon_at, last_disconnected_at |-> NULL,
     initial_source_ip |-> o.source_ip, last_source_ip |-> o.source_ip,
     disconnect_count |-> 0, end_reason |-> NULL, created_at |-> 0]

Observed(m, o) ==
    [protocol |-> m.protocol, platform |-> m.platform, boot_id |-> m.boot_id,
     provider_session_id |-> o.provider_session_id, account |-> o.account,
     boot_time |-> Default(m.boot_time, Default(o.logon_at, m.agent_time)),
     state |-> o.state, logon_at |-> o.logon_at, logoff_at |-> NULL,
     last_connected_at |-> IF o.state = "ACTIVE" THEN o.logon_at ELSE NULL,
     last_disconnected_at |-> IF o.state = "DISCONNECTED" THEN m.agent_time ELSE NULL,
     initial_source_ip |-> o.source_ip, last_source_ip |-> o.source_ip,
     disconnect_count |-> 0, end_reason |-> NULL, created_at |-> 0]

ObserveNew(o, i) ==
    /\ NextObserved(o, i)
    /\ OpenSessions(req.msg, o) = {}
    /\ Insert(i, Observed(req.msg, o))
    /\ unflushed' = {}

\* Mutant: a snapshot takes over an address but not the state.
ObserveAddress(o, i) ==
    /\ NextObserved(o, i)
    /\ i \in OpenSessions(req.msg, o)
    /\ Update(i, [sessions[i] EXCEPT !.last_source_ip = Default(o.source_ip, @)])
    /\ UNCHANGED unflushed

ObserveKnown(o, i) ==
    /\ NextObserved(o, i)
    /\ i \in OpenSessions(req.msg, o)
    /\ LET s == sessions[i]
           moved == s.state # o.state
           at == req.msg.agent_time
       IN  Update(i, [s EXCEPT
               !.state = o.state,
               !.last_connected_at = IF moved /\ o.state = "ACTIVE" THEN at ELSE @,
               !.last_disconnected_at =
                   IF moved /\ o.state = "DISCONNECTED" THEN at ELSE @,
               !.logon_at = Default(@, o.logon_at),
               !.last_source_ip = Default(o.source_ip, @)])
    /\ UNCHANGED unflushed

Observe(o) == \E i \in SessionIds : ObserveNew(o, i) \/ ObserveKnown(o, i)

\* Mutant: rows of every protocol.
MissingAnyProtocol(m) ==
    {i \in Stored \ req.seen : IsOpen(sessions[i]) /\ sessions[i].boot_id = m.boot_id}

\* Rows of the snapshot's protocol, platform and boot it did not show.
Missing(m) ==
    {i \in Stored \ req.seen :
        /\ IsOpen(sessions[i])
        /\ sessions[i].protocol = m.protocol
        /\ sessions[i].platform = m.platform
        /\ sessions[i].boot_id = m.boot_id}

FinishSnapshot ==
    /\ req.kind = "snapshot"
    /\ req.todo = {}
    /\ sessions' = [i \in DOMAIN sessions |->
                        IF i \in Missing(req.msg)
                        THEN Closed(sessions[i], req.msg.agent_time, "RECONCILIATION")
                        ELSE sessions[i]]
    /\ Commit

-----------------------------------------------------------------------------
(* A request that fails before its commit, or an API that stops: the       *)
(* database keeps nothing of it.  The Agent posts the message again.       *)
Fail ==
    /\ req # NoRequest
    /\ server' = saved.server
    /\ sessions' = saved.sessions
    /\ events' = saved.events
    /\ req' = NoRequest
    /\ unflushed' = {}
    /\ UNCHANGED saved

Handle ==
    \/ Begin
    \/ /\ req # NoRequest
       /\ \E x \in req.todo : IngestEvent(x) \/ Observe(x)
    \/ FinishEvents
    \/ FinishSnapshot

Next == Handle \/ Fail

\* A server as register_server leaves it: no boot seen, no row.
Init ==
    /\ server = [last_boot_id |-> NULL, last_boot_at |-> NULL]
    /\ sessions = [i \in {} |-> NULL]
    /\ events = {}
    /\ req = NoRequest
    /\ unflushed = {}
    /\ saved = Store

Spec == Init /\ [][Next]_vars

-----------------------------------------------------------------------------
(* Types.                                                                  *)

Row ==
    [protocol: Protocols, platform: Platforms, boot_id: BootIds,
     provider_session_id: ProviderIds, account: Accounts, boot_time: Times,
     state: OpenStates \union {"CLOSED"},
     logon_at: Maybe(Times), logoff_at: Maybe(Times),
     last_connected_at: Maybe(Times), last_disconnected_at: Maybe(Times),
     initial_source_ip: Maybe(Addresses), last_source_ip: Maybe(Addresses),
     disconnect_count: Nat, created_at: Nat,
     end_reason: Maybe({"LOGOFF", "REBOOT", "RECONCILIATION"})]

ServerRow == [last_boot_id: Maybe(BootIds), last_boot_at: Maybe(Times)]

IsTable(T) == DOMAIN T \subseteq SessionIds /\ T \in [DOMAIN T -> Row]

NormalForm(Item, kind) ==
    [contract: {1, 2}, kind: {kind}, platform: Platforms, protocol: Protocols,
     boot_id: BootIds, boot_time: Maybe(Times), agent_time: Times,
     items: SUBSET Item]

Request(Item, kind) ==
    [kind: {kind}, msg: NormalForm(Item, kind), todo: SUBSET Item,
     seen: SUBSET SessionIds]

(* Every column holds a value of its domain and the open request is        *)
(* well formed.                                                            *)
TypeOK ==
    /\ server \in ServerRow
    /\ IsTable(sessions)
    /\ \A row \in events \union saved.events : row.event \in Event
    /\ req \in {NoRequest} \union Request(Event, "events")
                           \union Request(Observation, "snapshot")
    /\ unflushed \in SUBSET DOMAIN sessions
    /\ saved.server \in ServerRow
    /\ IsTable(saved.sessions)


-----------------------------------------------------------------------------
(* Safety of the committed rows.                                           *)

\* A closed row says when and why, an open row says neither.
Consistent(T) ==
    \A i \in DOMAIN T :
        /\ T[i].state = "CLOSED" <=> T[i].logoff_at # NULL
        /\ T[i].state = "CLOSED" <=> T[i].end_reason # NULL

(* CLOSED, logoff_at and end_reason are written together whichever of the  *)
(* three ways a session ends in, and no later event touches one of them.   *)
RowsConsistent == Consistent(saved.sessions)

SameIdentity(s, t) ==
    /\ s.protocol = t.protocol
    /\ s.boot_id = t.boot_id
    /\ s.provider_session_id = t.provider_session_id
    /\ SameUser(s.account, t.account)

OneOpen(T) ==
    \A i, j \in DOMAIN T :
        IsOpen(T[i]) /\ IsOpen(T[j]) /\ SameIdentity(T[i], T[j]) => i = j

(* At most one open row stands for one session of one user in one boot:    *)
(* events and snapshots find the row the other created.  No unique index   *)
(* of the schema says so.                                                  *)
OneOpenPerIdentity == OneOpen(saved.sessions)

Current(T, boot) ==
    \A i \in DOMAIN T : IsOpen(T[i]) => T[i].boot_id = boot

(* What is open belongs to the boot the server row names: a reboot leaves  *)
(* no session of an earlier boot open, whatever is posted late.            *)
OpenInCurrentBoot == Current(saved.sessions, saved.server.last_boot_id)

(* A committed CLOSED row is final: no event, snapshot, reboot or replay   *)
(* reopens it, rewrites it or deletes it.                                  *)
ClosedIsFinal ==
    [][\A i \in DOMAIN saved.sessions :
          saved.sessions[i].state = "CLOSED" =>
              /\ i \in DOMAIN saved'.sessions
              /\ saved'.sessions[i] = saved.sessions[i]]_vars

\* Every event of the request was committed earlier.
Replayed ==
    \A e \in req.msg.items :
        \E row \in saved.events : row.event_fingerprint = Fingerprint(req.msg, e)

SameBoot(m) ==
    \/ saved.server.last_boot_id = m.boot_id
    \/ saved.server.last_boot_at # NULL /\ saved.server.last_boot_at = m.boot_time

(* A batch resent in the boot it was taken in changes nothing but, after   *)
(* migration 0003, the spelling of the boot in open rows.                  *)
ReplayInBootIsSafe ==
    [][FinishEvents /\ Replayed /\ SameBoot(req.msg) =>
          /\ saved'.events = saved.events
          /\ DOMAIN saved'.sessions = DOMAIN saved.sessions
          /\ \A i \in DOMAIN saved.sessions :
                saved'.sessions[i] \in
                    {saved.sessions[i],
                     [saved.sessions[i] EXCEPT !.boot_id = req.msg.boot_id]}]_vars

(* docs/phase3-generic-api-v2.md, "Idempotency and ordering": "Replaying   *)
(* the same event is safe."  A resent batch leaves every row as it was.    *)
ReplayIsSafe ==
    [][FinishEvents /\ Replayed => saved'.sessions = saved.sessions]_vars

\* The open rows a snapshot of message m governs.
Governed(T, m) ==
    {i \in DOMAIN T : /\ IsOpen(T[i])
                      /\ T[i].protocol = m.protocol
                      /\ T[i].platform = m.platform
                      /\ T[i].boot_id = m.boot_id}

(* Once a snapshot is committed, the open rows it governs are the sessions *)
(* it showed, each once and in the state it showed.                        *)
SnapshotSettles ==
    [][FinishSnapshot =>
          LET m == req.msg
              T == saved'.sessions
          IN  /\ \A o \in m.items :
                    \E i \in Governed(T, m) : /\ Concerns(m, o, T[i])
                                              /\ T[i].state = o.state
              /\ \A i \in Governed(T, m) : \E o \in m.items : Concerns(m, o, T[i])
              /\ Cardinality(Governed(T, m)) = Cardinality(m.items)]_vars

(* A request for one protocol leaves the rows of the other alone while the *)
(* server stays in its boot.                                               *)
ProtocolsApart ==
    [][(FinishEvents \/ FinishSnapshot)
          /\ saved.server.last_boot_id = req.msg.boot_id =>
          \A i \in DOMAIN saved.sessions :
              saved.sessions[i].protocol # req.msg.protocol =>
                  saved'.sessions[i] = saved.sessions[i]]_vars


-----------------------------------------------------------------------------
(* What rows claim, against the events and boots behind them.              *)

\* The accepted events of one type that speak of session s.
Accepted(type, s) ==
    {row \in saved.events :
        /\ row.event.type = type
        /\ Concerns(row, row.event, s)}

(* However often events are resent and however they are regrouped, each    *)
(* accepted DISCONNECT counts once, in one row of its session.             *)
DisconnectsCounted ==
    \A i \in DOMAIN saved.sessions :
        saved.sessions[i].disconnect_count
            <= Cardinality(Accepted("DISCONNECT", saved.sessions[i]))

(* A row ended by LOGOFF ended at the time of an accepted LOGOFF of that   *)
(* session, and no earlier than its logon.                                 *)
LogoffIsBacked ==
    \A i \in DOMAIN saved.sessions :
        LET s == saved.sessions[i]
        IN  s.end_reason = "LOGOFF" =>
                /\ \E row \in Accepted("LOGOFF", s) :
                      row.event.occurred_at = s.logoff_at
                /\ s.logon_at = NULL \/ s.logon_at <= s.logoff_at

(* docs/phase2-rdp-origin-v1.md: a known initial origin is never rewritten,*)
(* and only a LOGON fills one that is missing.                             *)
OriginFrozen ==
    [][\A i \in DOMAIN saved.sessions :
          saved'.sessions[i].initial_source_ip # saved.sessions[i].initial_source_ip =>
              /\ saved.sessions[i].initial_source_ip = NULL
              /\ \E e \in req.msg.items : /\ req.kind = "events"
                                          /\ e.type = "LOGON"]_vars

\* A stamp that was set stays set and moves forward only.
Advances(old, new) == old # NULL => new # NULL /\ old <= new

(* However late its events arrive, a batch never moves the times a session *)
(* was last connected and last disconnected back.                          *)
TimesAdvance ==
    [][FinishEvents =>
          \A i \in DOMAIN saved.sessions :
              LET s == saved.sessions[i]
                  t == saved'.sessions[i]
              IN  /\ Advances(s.last_connected_at, t.last_connected_at)
                  /\ Advances(s.last_disconnected_at, t.last_disconnected_at)]_vars

\* The whole session s lies before session t.
Precedes(s, t) == s.logoff_at # NULL /\ s.logoff_at < t.logon_at

(* The sessions of one id and user in one boot are disjoint in time, in    *)
(* whatever order their events arrive.                                     *)
LogonsAreDisjoint ==
    \A i, j \in DOMAIN saved.sessions :
        LET s == saved.sessions[i]
            t == saved.sessions[j]
        IN  i # j /\ SameIdentity(s, t) => Precedes(s, t) \/ Precedes(t, s)

(* docs/phase3-generic-api-v2.md: "A delayed LOGON older than an already   *)
(* closed matching session does not create a second session."              *)
DelayedLogonsIgnored ==
    [][req.kind = "events" =>
          \A i \in DOMAIN sessions' \ DOMAIN sessions, j \in DOMAIN sessions :
              LET s == sessions[j]
                  t == sessions'[i]
              IN  s.state = "CLOSED" /\ SameIdentity(s, t) => s.logoff_at < t.logon_at]_vars

\* An open row is in the state of the later of its two times.
UpToDate(s) ==
    /\ s.state = "ACTIVE" /\ s.last_disconnected_at # NULL =>
           /\ s.last_connected_at # NULL
           /\ s.last_disconnected_at <= s.last_connected_at
    /\ s.state = "DISCONNECTED" /\ s.last_connected_at # NULL =>
           /\ s.last_disconnected_at # NULL
           /\ s.last_connected_at <= s.last_disconnected_at

(* docs/phase3-generic-api-v2.md: "The session reducer ignores stale state *)
(* transitions that would move a session backward in time."  An open       *)
(* session is in the state of the later of its two times.                  *)
StaleTransitionsIgnored ==
    \A i \in DOMAIN saved.sessions : UpToDate(saved.sessions[i])

Connection(s) == <<s.state, s.last_connected_at, s.last_disconnected_at>>

(* The same sentence, of the transitions that do look at the times.  Of a  *)
(* DISCONNECT and a RECONNECT the later one decides, in whatever order and *)
(* number of batches they come and whatever a LOGON or a snapshot made of  *)
(* the row before: a batch without a LOGON of the session leaves its state *)
(* and times, or leaves it in the state of the later of the two.           *)
LaterTransitionWins ==
    [][FinishEvents =>
          \A i \in DOMAIN saved.sessions :
              LET s == saved.sessions[i]
                  t == saved'.sessions[i]
              IN  \/ Connection(t) = Connection(s)
                  \/ UpToDate(t)
                  \/ \E e \in req.msg.items : /\ e.type = "LOGON"
                                              /\ Concerns(req.msg, e, t)]_vars

(* docs/phase3-generic-api-v2.md, the same sentence.  A session that a     *)
(* LOGOFF ended was neither connected nor disconnected after its end.      *)
LogoffIsLast ==
    \A i \in DOMAIN saved.sessions :
        LET s == saved.sessions[i]
        IN  s.end_reason = "LOGOFF" =>
                /\ s.last_connected_at = NULL \/ s.last_connected_at <= s.logoff_at
                /\ s.last_disconnected_at = NULL \/ s.last_disconnected_at <= s.logoff_at

(* docs/system-architecture.md, "End reasons": "RECONCILIATION - WTS no    *)
(* longer observed an open session."  What a snapshot ends began before    *)
(* the snapshot was taken.                                                 *)
ReconciledAfterLogon ==
    \A i \in DOMAIN saved.sessions :
        LET s == saved.sessions[i]
        IN  s.end_reason = "RECONCILIATION" /\ s.logon_at # NULL =>
                s.logon_at <= s.logoff_at

\* All the Agent's boot times fall in one second.
OneBoot ==
    \A m, n \in Messages :
        /\ m.contract = 1
        /\ n.contract = 1
        /\ m.boot_time \div TicksPerSecond = n.boot_time \div TicksPerSecond

(* A server that booted once never has a session ended by REBOOT, whatever *)
(* the fraction of a second its messages give the boot time.               *)
NoFalseReboot ==
    OneBoot => \A i \in DOMAIN saved.sessions :
                   saved.sessions[i].end_reason # "REBOOT"

-----------------------------------------------------------------------------
(* The committed tables keep the promise of SessionLifecycle.              *)

\* Whose session s is, within a boot, its state and why it ended.
Shown(s) ==
    [who |-> <<s.protocol, s.provider_session_id, PrincipalOf[s.account]>>,
     state |-> s.state, end_reason |-> s.end_reason]
ShownRows(T) == [i \in DOMAIN T |-> Shown(T[i])]

Lifecycle == INSTANCE SessionLifecycle
    WITH Boots <- BootIds,
         boot <- saved.server.last_boot_id,
         rows <- ShownRows(saved.sessions)

(* docs/system-architecture.md, section 9, for whole requests: a batch     *)
(* ends sessions by LOGOFF only, a snapshot by RECONCILIATION only, either *)
(* after ending all that were open by REBOOT if it comes from another      *)
(* boot; nothing ended changes and no user's session is open twice.        *)
FollowsLifecycle == Lifecycle!Spec
=============================================================================
