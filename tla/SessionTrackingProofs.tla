------------------------ MODULE SessionTrackingProofs ------------------------
(***************************************************************************)
(* Proofs about SessionTracking, for every set of messages, accounts and   *)
(* primary keys: type correctness first, then the invariants that rest on  *)
(* it, each with the strengthening that makes it inductive; last, that     *)
(* SessionTracking implements SessionLifecycle.                            *)
(***************************************************************************)
EXTENDS SessionTracking, FiniteSetTheorems, TLAPS

-----------------------------------------------------------------------------
(* The operators the model is built from.                                  *)

\* A whole second is a time: normalize_boot_time never leaves the domain.
LEMMA BootTimeType == \A t \in Nat : NormalizeBootTime(t) \in Nat
<1> SUFFICES ASSUME NEW t \in Nat PROVE NormalizeBootTime(t) \in Nat
  OBVIOUS
<1>1. t % TicksPerSecond \in 0..(TicksPerSecond - 1)
  BY TicksAssumption
<1>2. t = TicksPerSecond * (t \div TicksPerSecond) + (t % TicksPerSecond)
  BY TicksAssumption
<1>3. t \div TicksPerSecond \in Nat
  BY TicksAssumption
<1>4. TicksPerSecond * (t \div TicksPerSecond) \in Nat
  BY <1>3, TicksAssumption
<1> QED BY <1>1, <1>2, <1>4 DEF NormalizeBootTime

\* Both contracts normalise to well-formed messages.
LEMMA NormalizeType ==
    \A m \in Messages :
        Normalize(m) \in NormalForm(Event, "events")
                         \union NormalForm(Observation, "snapshot")
<1> SUFFICES ASSUME NEW m \in Messages
             PROVE  Normalize(m) \in NormalForm(Event, "events")
                                     \union NormalForm(Observation, "snapshot")
  OBVIOUS
<1>1. CASE m \in V1Message("events", Event) \union V1Message("snapshot", Observation)
  <2>1. NormalizeBootTime(m.boot_time) \in Times
    BY <1>1, BootTimeType DEF V1Message, Times
  <2>2. V1BootId(m.boot_time) \in BootIds
    BY <2>1 DEF V1BootId, BootIds
  <2> QED
    BY <1>1, <2>1, <2>2
       DEF V1Message, Normalize, NormalizeV1, NormalForm, Platforms, Protocols, Maybe
<1>2. CASE m \in V2Message("events", Event) \union V2Message("snapshot", Observation)
  BY <1>2 DEF V2Message, Normalize, NormalizeV2, NormalForm, BootIds, Maybe
<1> QED BY <1>1, <1>2, MessagesAssumption

LEMMA ClosedType ==
    ASSUME NEW s \in Row, NEW at \in Times,
           NEW reason \in {"LOGOFF", "REBOOT", "RECONCILIATION"}
    PROVE  Closed(s, at, reason) \in Row
BY DEF Row, Closed, Maybe

\* The column updates of the three events that leave a session open.
LEMMA ConnectedType ==
    ASSUME NEW s \in Row, NEW logon \in Maybe(Times), NEW first \in Maybe(Addresses),
           NEW at \in Maybe(Times), NEW last \in Maybe(Addresses)
    PROVE  /\ [s EXCEPT !.state = "ACTIVE", !.logon_at = logon,
                        !.initial_source_ip = first, !.last_connected_at = at,
                        !.last_source_ip = last] \in Row
           /\ [s EXCEPT !.state = "ACTIVE", !.last_connected_at = at,
                        !.last_source_ip = last] \in Row
<1>1. [s EXCEPT !.state = "ACTIVE", !.logon_at = logon,
                !.initial_source_ip = first, !.last_connected_at = at,
                !.last_source_ip = last] \in Row
  BY DEF Row, OpenStates
<1>2. [s EXCEPT !.state = "ACTIVE", !.last_connected_at = at,
                !.last_source_ip = last] \in Row
  BY DEF Row, OpenStates
<1> QED BY <1>1, <1>2

LEMMA DisconnectedType ==
    ASSUME NEW s \in Row, NEW at \in Maybe(Times), NEW count \in Nat
    PROVE  [s EXCEPT !.state = "DISCONNECTED", !.last_disconnected_at = at,
                     !.disconnect_count = count] \in Row
BY DEF Row, OpenStates

LEMMA ObservedType ==
    ASSUME NEW s \in Row, NEW state \in OpenStates \union {"CLOSED"},
           NEW connected \in Maybe(Times), NEW disconnected \in Maybe(Times),
           NEW logon \in Maybe(Times), NEW last \in Maybe(Addresses)
    PROVE  [s EXCEPT !.state = state, !.last_connected_at = connected,
                     !.last_disconnected_at = disconnected, !.logon_at = logon,
                     !.last_source_ip = last] \in Row
BY DEF Row

\* Replacing one row keeps a table a table of the same keys.
LEMMA UpdateType ==
    ASSUME IsTable(sessions), NEW i \in DOMAIN sessions, NEW row \in Row,
           Update(i, row)
    PROVE  IsTable(sessions') /\ DOMAIN sessions' = DOMAIN sessions
BY DEF IsTable, Update

LEMMA InsertType ==
    ASSUME IsTable(sessions), NEW i, NEW row \in Row, Insert(i, row)
    PROVE  IsTable(sessions') /\ DOMAIN sessions' = DOMAIN sessions \union {i}
<1> PICK t \in Stamps, d \in ClockAdvance :
       sessions' = [j \in DOMAIN sessions \union {i} |->
                       IF j = i THEN [row EXCEPT !.created_at = t + d]
                                ELSE sessions[j]]
  BY DEF Insert
<1>1. t + d \in Nat
  BY IdsAssumption DEF IsTable, Stamps, Row
<1>2. [row EXCEPT !.created_at = t + d] \in Row
  BY <1>1 DEF Row
<1>3. i \in SessionIds
  BY DEF Insert
<1> QED BY <1>2, <1>3 DEF IsTable

-----------------------------------------------------------------------------
(* Type correctness.                                                       *)

LEMMA EventRequest ==
    ASSUME TypeOK, req.kind = "events"
    PROVE  req \in Request(Event, "events")
BY DEF TypeOK, NoRequest, Request

LEMMA SnapshotRequest ==
    ASSUME TypeOK, req.kind = "snapshot"
    PROVE  req \in Request(Observation, "snapshot")
BY DEF TypeOK, NoRequest, Request

\* A message starts a request of its kind, whatever was in progress.
LEMMA StartType ==
    ASSUME server \in ServerRow, IsTable(sessions), NEW m \in Messages,
           StartWith(Normalize(m))
    PROVE  /\ server' \in ServerRow
           /\ IsTable(sessions')
           /\ unflushed' \in SUBSET DOMAIN sessions'
           /\ req' \in Request(Event, "events") \union Request(Observation, "snapshot")
           /\ req'.kind = Normalize(m).kind /\ req'.msg = Normalize(m)
           /\ req'.todo = Normalize(m).items
<1> DEFINE n == Normalize(m)
<1>1. n \in NormalForm(Event, "events") \union NormalForm(Observation, "snapshot")
  BY NormalizeType
<1>2. /\ n.boot_id \in BootIds
      /\ n.boot_time \in Maybe(Times)
      /\ n.agent_time \in Times
  BY <1>1 DEF NormalForm
<1> HIDE DEF n
<1>3. server' \in ServerRow
  BY <1>2 DEF StartWith, ServerAfter, ServerRow, Maybe, n
<1>4. req' \in Request(Event, "events") \union Request(Observation, "snapshot")
  <2>1. req' = [kind |-> n.kind, msg |-> n, todo |-> n.items, seen |-> {}]
    BY DEF StartWith, n
  <2> QED BY <1>1, <2>1 DEF Request, NormalForm
<1>5. IsTable(sessions') /\ unflushed' \subseteq DOMAIN sessions'
  <2>1. CASE KeepBoot(n)
    <3>1. \A i \in DOMAIN sessions : [sessions[i] EXCEPT !.boot_id = n.boot_id] \in Row
      BY <1>2 DEF IsTable, Row
    <3>2. Adopted(n) \subseteq DOMAIN sessions
      BY DEF Adopted
    <3> QED BY <2>1, <3>1, <3>2 DEF KeepBoot, IsTable
  <2>2. CASE ChangeBoot(n)
    <3>1. PICK at \in Times :
             sessions' = [i \in DOMAIN sessions |->
                             IF IsOpen(sessions[i]) /\ sessions[i].boot_id # n.boot_id
                             THEN Closed(sessions[i], at, "REBOOT") ELSE sessions[i]]
      BY <1>2, <2>2 DEF ChangeBoot, Maybe
    <3>2. \A i \in DOMAIN sessions : Closed(sessions[i], at, "REBOOT") \in Row
      BY ClosedType DEF IsTable
    <3> QED BY <2>2, <3>1, <3>2 DEF ChangeBoot, IsTable
  <2> QED BY <2>1, <2>2 DEF StartWith, n
<1> QED BY <1>3, <1>4, <1>5 DEF StartWith, n

LEMMA BeginType == ASSUME TypeOK, Begin PROVE TypeOK'
<1> PICK m \in Messages : StartWith(Normalize(m))
  BY DEF Begin
<1>1. server \in ServerRow /\ IsTable(sessions)
  BY DEF TypeOK
<1> QED BY <1>1, StartType DEF StartWith, TypeOK

\* An accepted event keeps the types if what it does to the table does.
LEMMA AcceptType ==
    ASSUME TypeOK, NEW e, Accept(e), IsTable(sessions')
    PROVE  TypeOK'
<1>1. req \in Request(Event, "events") /\ e \in Event
  BY EventRequest DEF Accept, NextEvent, Request
<1>2. req' \in Request(Event, "events")
  BY <1>1 DEF Accept, NextEvent, Request
<1>3. \A row \in events' \union saved'.events : row.event \in Event
  BY <1>1 DEF Accept, NextEvent, EventRow, TypeOK
<1> QED BY <1>2, <1>3 DEF Accept, NextEvent, TypeOK

LEMMA OpenIsRow ==
    ASSUME TypeOK, NEW m, NEW x, NEW i \in OpenSessions(m, x)
    PROVE  i \in DOMAIN sessions /\ sessions[i] \in Row /\ IsOpen(sessions[i])
BY DEF TypeOK, IsTable, OpenSessions, Stored

LEMMA LogonNewType == ASSUME TypeOK, NEW e, NEW i, LogonNew(e, i) PROVE TypeOK'
<1>1. req \in Request(Event, "events") /\ e \in Event
  BY EventRequest DEF LogonNew, Accept, NextEvent, Request
<1>2. req.msg \in NormalForm(Event, "events")
  BY <1>1 DEF Request
<1>3. LoggedOn(req.msg, e) \in Row
  BY <1>1, <1>2 DEF LoggedOn, NormalForm, Event, Row, Maybe, OpenStates, Times
<1>4. IsTable(sessions')
  BY <1>3, InsertType DEF LogonNew, TypeOK
<1> QED BY <1>4, AcceptType DEF LogonNew

LEMMA LogonOpenType == ASSUME TypeOK, NEW e, NEW i, LogonOpen(e, i) PROVE TypeOK'
<1>1. e \in Event
  BY EventRequest DEF LogonOpen, Accept, NextEvent, Request
<1>2. i \in DOMAIN sessions /\ sessions[i] \in Row
  BY OpenIsRow DEF LogonOpen
<1> DEFINE s == sessions[i]
           fresh == ~LaterThan(s.last_connected_at, e.occurred_at)
           row == [s EXCEPT
               !.state = "ACTIVE",
               !.logon_at = Default(@, e.occurred_at),
               !.initial_source_ip = Default(@, e.source_ip),
               !.last_connected_at = IF fresh THEN e.occurred_at ELSE @,
               !.last_source_ip = IF fresh THEN Default(e.source_ip, @) ELSE @]
<1>3. row \in Row
  <2>1. /\ Default(s.logon_at, e.occurred_at) \in Maybe(Times)
        /\ Default(s.initial_source_ip, e.source_ip) \in Maybe(Addresses)
        /\ (IF fresh THEN e.occurred_at ELSE s.last_connected_at) \in Maybe(Times)
        /\ (IF fresh THEN Default(e.source_ip, s.last_source_ip)
                     ELSE s.last_source_ip) \in Maybe(Addresses)
    BY <1>1, <1>2 DEF Row, Event, Default, Maybe
  <2> HIDE DEF fresh
  <2> QED BY <1>2, <2>1, ConnectedType
<1>4. Update(i, row)
  BY DEF LogonOpen
<1>5. IsTable(sessions')
  BY <1>2, <1>3, <1>4, UpdateType DEF TypeOK
<1> QED BY <1>5, AcceptType DEF LogonOpen

LEMMA DisconnectType == ASSUME TypeOK, NEW e, NEW i, Disconnect(e, i) PROVE TypeOK'
<1>1. e \in Event
  BY EventRequest DEF Disconnect, Accept, NextEvent, Request
<1>2. i \in DOMAIN sessions /\ sessions[i] \in Row
  BY OpenIsRow DEF Disconnect
<1> DEFINE row == [sessions[i] EXCEPT !.state = "DISCONNECTED",
                                      !.last_disconnected_at = e.occurred_at,
                                      !.disconnect_count = @ + 1]
<1>3. row \in Row
  <2>1. e.occurred_at \in Maybe(Times)
    BY <1>1 DEF Event, Maybe
  <2>2. sessions[i].disconnect_count + 1 \in Nat
    BY <1>2 DEF Row
  <2> QED BY <1>2, <2>1, <2>2, DisconnectedType
<1>4. NoEffect \/ Update(i, row)
  BY DEF Disconnect
<1>5. IsTable(sessions')
  BY <1>2, <1>3, <1>4, UpdateType DEF NoEffect, TypeOK
<1> QED BY <1>5, AcceptType DEF Disconnect

LEMMA ReconnectType == ASSUME TypeOK, NEW e, NEW i, Reconnect(e, i) PROVE TypeOK'
<1>1. e \in Event
  BY EventRequest DEF Reconnect, Accept, NextEvent, Request
<1>2. i \in DOMAIN sessions /\ sessions[i] \in Row
  BY OpenIsRow DEF Reconnect
<1> DEFINE row == [sessions[i] EXCEPT !.state = "ACTIVE",
                                      !.last_connected_at = e.occurred_at,
                                      !.last_source_ip = Default(e.source_ip, @)]
<1>3. row \in Row
  <2>1. /\ e.occurred_at \in Maybe(Times)
        /\ Default(e.source_ip, sessions[i].last_source_ip) \in Maybe(Addresses)
    BY <1>1, <1>2 DEF Row, Event, Default, Maybe
  <2> QED BY <1>2, <2>1, ConnectedType
<1>4. NoEffect \/ Update(i, row)
  BY DEF Reconnect
<1>5. IsTable(sessions')
  BY <1>2, <1>3, <1>4, UpdateType DEF NoEffect, TypeOK
<1> QED BY <1>5, AcceptType DEF Reconnect

LEMMA LogoffType == ASSUME TypeOK, NEW e, NEW i, Logoff(e, i) PROVE TypeOK'
<1>1. e \in Event
  BY EventRequest DEF Logoff, Accept, NextEvent, Request
<1>2. i \in DOMAIN sessions /\ sessions[i] \in Row
  BY OpenIsRow DEF Logoff
<1>3. Closed(sessions[i], e.occurred_at, "LOGOFF") \in Row
  BY <1>1, <1>2, ClosedType DEF Event
<1>4. NoEffect \/ Update(i, Closed(sessions[i], e.occurred_at, "LOGOFF"))
  BY DEF Logoff
<1>5. IsTable(sessions')
  BY <1>2, <1>3, <1>4, UpdateType DEF NoEffect, TypeOK
<1> QED BY <1>5, AcceptType DEF Logoff


LEMMA EventType ==
    ASSUME TypeOK, NEW e, IngestEvent(e)
    PROVE  TypeOK'
<1>1. CASE SkipDuplicate(e)
  <2>1. req' \in Request(Event, "events")
    BY <1>1, EventRequest DEF SkipDuplicate, NextEvent, Request
  <2> QED BY <1>1, <2>1 DEF SkipDuplicate, NextEvent, TypeOK
<1>2. CASE LogonDelayed(e) \/ Unattached(e)
  <2>1. IsTable(sessions')
    BY <1>2 DEF LogonDelayed, Unattached, NoEffect, TypeOK
  <2> QED BY <1>2, <2>1, AcceptType DEF LogonDelayed, Unattached
<1>3. CASE \E i \in SessionIds : \/ LogonNew(e, i) \/ LogonOpen(e, i)
                                 \/ Disconnect(e, i) \/ Reconnect(e, i)
                                 \/ Logoff(e, i)
  BY <1>3, LogonNewType, LogonOpenType, DisconnectType, ReconnectType, LogoffType
<1> QED BY <1>1, <1>2, <1>3 DEF IngestEvent

LEMMA ObserveType == ASSUME TypeOK, NEW o, Observe(o) PROVE TypeOK'
<1> PICK i \in SessionIds : ObserveNew(o, i) \/ ObserveKnown(o, i)
  BY DEF Observe
<1>1. req \in Request(Observation, "snapshot") /\ o \in Observation
  BY SnapshotRequest DEF ObserveNew, ObserveKnown, NextObserved, Request
<1>2. req' \in Request(Observation, "snapshot")
  BY <1>1, ZenonT(60) DEF ObserveNew, ObserveKnown, NextObserved, Request
<1>3. req.msg \in NormalForm(Observation, "snapshot")
  BY <1>1 DEF Request
<1>4. IsTable(sessions') /\ unflushed' \subseteq DOMAIN sessions'
  <2>1. CASE ObserveNew(o, i)
    <3>1. Observed(req.msg, o) \in Row
      BY <1>1, <1>3 DEF Observed, NormalForm, Observation, Row, Maybe, Default,
                        OpenStates, Times
    <3> QED BY <2>1, <3>1, InsertType DEF ObserveNew, TypeOK
  <2>2. CASE ObserveKnown(o, i)
    <3>1. i \in DOMAIN sessions /\ sessions[i] \in Row
      BY <2>2, OpenIsRow DEF ObserveKnown
    <3> DEFINE s == sessions[i]
               moved == s.state # o.state
               at == req.msg.agent_time
               row == [s EXCEPT
                   !.state = o.state,
                   !.last_connected_at = IF moved /\ o.state = "ACTIVE" THEN at ELSE @,
                   !.last_disconnected_at =
                       IF moved /\ o.state = "DISCONNECTED" THEN at ELSE @,
                   !.logon_at = Default(@, o.logon_at),
                   !.last_source_ip = Default(o.source_ip, @)]
    <3>2. row \in Row
      <4>1. /\ o.state \in OpenStates \union {"CLOSED"}
            /\ (IF moved /\ o.state = "ACTIVE" THEN at ELSE s.last_connected_at)
                   \in Maybe(Times)
            /\ (IF moved /\ o.state = "DISCONNECTED" THEN at
                ELSE s.last_disconnected_at) \in Maybe(Times)
            /\ Default(s.logon_at, o.logon_at) \in Maybe(Times)
            /\ Default(o.source_ip, s.last_source_ip) \in Maybe(Addresses)
        BY <1>1, <1>3, <3>1 DEF Row, Observation, NormalForm, Default, Maybe
      <4> HIDE DEF moved, at
      <4> QED BY <3>1, <4>1, ObservedType, ZenonT(60)
    <3>3. Update(i, row) /\ unflushed' = unflushed
      BY <2>2 DEF ObserveKnown
    <3> QED BY <3>1, <3>2, <3>3, UpdateType DEF TypeOK
  <2> QED BY <2>1, <2>2
<1> QED BY <1>2, <1>4 DEF ObserveNew, ObserveKnown, NextObserved, TypeOK

LEMMA FinishType ==
    ASSUME TypeOK, FinishEvents \/ FinishSnapshot
    PROVE  TypeOK'
<1>1. IsTable(sessions')
  <2>1. CASE FinishEvents
    BY <2>1 DEF FinishEvents, TypeOK
  <2>2. CASE FinishSnapshot
    <3>1. req.msg.agent_time \in Times
      BY <2>2, SnapshotRequest DEF FinishSnapshot, Request, NormalForm
    <3>2. \A i \in DOMAIN sessions :
              Closed(sessions[i], req.msg.agent_time, "RECONCILIATION") \in Row
      BY <3>1, ClosedType DEF TypeOK, IsTable
    <3> QED BY <2>2, <3>2 DEF FinishSnapshot, TypeOK, IsTable
  <2> QED BY <2>1, <2>2
<1> QED BY <1>1 DEF FinishEvents, FinishSnapshot, Commit, TypeOK

LEMMA FailType == ASSUME TypeOK, Fail PROVE TypeOK'
BY DEF Fail, TypeOK

(* Every column of every row, of the open transaction and of the committed *)
(* database alike, holds a value of its domain, whatever the Agents post.  *)
THEOREM TypeCorrect == Spec => []TypeOK
<1>1. Init => TypeOK
  BY DEF Init, TypeOK, ServerRow, Maybe, IsTable, Store
<1>2. TypeOK /\ [Next]_vars => TypeOK'
  <2> SUFFICES ASSUME TypeOK, [Next]_vars PROVE TypeOK'
    OBVIOUS
  <2>1. CASE Begin
    BY <2>1, BeginType
  <2>2. CASE \E x \in req.todo : IngestEvent(x) \/ Observe(x)
    BY <2>2, EventType, ObserveType
  <2>3. CASE FinishEvents \/ FinishSnapshot
    BY <2>3, FinishType
  <2>4. CASE Fail
    BY <2>4, FailType
  <2>5. CASE UNCHANGED vars
    BY <2>5 DEF vars, TypeOK
  <2> QED BY <2>1, <2>2, <2>3, <2>4, <2>5 DEF Next, Handle
<1> QED BY <1>1, <1>2, PTL DEF Spec


-----------------------------------------------------------------------------
(* What a step may do to the table: change open rows, or insert one.       *)

\* Open row s becomes t: still open, or closed with a time and a reason.
Evolves(s, t) ==
    /\ SameIdentity(s, t)
    /\ t.boot_id = s.boot_id
    /\ t.platform = s.platform
    /\ \/ /\ IsOpen(t)
          /\ t.logoff_at = s.logoff_at
          /\ t.end_reason = s.end_reason
       \/ /\ t.state = "CLOSED"
          /\ t.logoff_at # NULL
          /\ t.end_reason # NULL

RowStep ==
    /\ DOMAIN sessions' = DOMAIN sessions
    /\ \A i \in DOMAIN sessions :
          \/ sessions'[i] = sessions[i]
          \/ IsOpen(sessions[i]) /\ Evolves(sessions[i], sessions'[i])

InsertStep(i) ==
    /\ i \notin DOMAIN sessions
    /\ DOMAIN sessions' = DOMAIN sessions \union {i}
    /\ \A j \in DOMAIN sessions : sessions'[j] = sessions[j]
    /\ IsOpen(sessions'[i])
    /\ sessions'[i].logoff_at = NULL
    /\ sessions'[i].end_reason = NULL
    /\ sessions'[i].disconnect_count = 0
    /\ sessions'[i].boot_id = req.msg.boot_id
    /\ sessions'[i].protocol = req.msg.protocol
    /\ sessions'[i].platform = req.msg.platform
    /\ \A j \in Stored : IsOpen(sessions[j]) => ~SameIdentity(sessions'[i], sessions[j])

\* A boot that is only spelled otherwise renames the boot of open rows.
RenameStep ==
    /\ DOMAIN sessions' = DOMAIN sessions
    /\ \A i \in DOMAIN sessions :
          \/ sessions'[i] = sessions[i]
          \/ /\ IsOpen(sessions[i])
             /\ IsOpen(sessions'[i])
             /\ sessions'[i].protocol = sessions[i].protocol
             /\ sessions'[i].platform = sessions[i].platform
             /\ sessions'[i].logoff_at = sessions[i].logoff_at
             /\ sessions'[i].end_reason = sessions[i].end_reason

\* A close evolves any row that has a time and a reason to give.
LEMMA ClosedEvolves ==
    ASSUME NEW s \in Row, NEW at \in Times,
           NEW reason \in {"LOGOFF", "REBOOT", "RECONCILIATION"}
    PROVE  Evolves(s, Closed(s, at, reason))
<1> DEFINE t == Closed(s, at, reason)
<1>1. /\ t.protocol = s.protocol
      /\ t.platform = s.platform
      /\ t.boot_id = s.boot_id
      /\ t.provider_session_id = s.provider_session_id
      /\ t.account = s.account
      /\ t.state = "CLOSED"
      /\ t.logoff_at = at
      /\ t.end_reason = reason
  BY DEF Closed, Row
<1>2. at # NULL /\ reason # NULL
  BY NullAssumption DEF Times
<1> QED BY <1>1, <1>2 DEF Evolves, SameIdentity, SameUser

\* An update of an open row that touches neither identity nor end.
LEMMA UpdateStep ==
    ASSUME TypeOK, NEW i \in DOMAIN sessions, IsOpen(sessions[i]), NEW row,
           Evolves(sessions[i], row), Update(i, row)
    PROVE  RowStep
BY DEF TypeOK, IsTable, Update, RowStep

LEMMA InsertShape ==
    ASSUME TypeOK, NEW x, NEW i, NEW row \in Row, Insert(i, row),
           OpenSessions(req.msg, x) = {},
           row.protocol = req.msg.protocol, row.platform = req.msg.platform,
           row.boot_id = req.msg.boot_id,
           row.provider_session_id = x.provider_session_id, row.account = x.account,
           IsOpen(row), row.logoff_at = NULL, row.end_reason = NULL,
           row.disconnect_count = 0
    PROVE  InsertStep(i)
<1> PICK t \in Stamps, d \in ClockAdvance :
       sessions' = [j \in DOMAIN sessions \union {i} |->
                       IF j = i THEN [row EXCEPT !.created_at = t + d]
                                ELSE sessions[j]]
  BY DEF Insert
<1> DEFINE new == [row EXCEPT !.created_at = t + d]
<1>1. sessions'[i] = new /\ i \notin DOMAIN sessions
  BY DEF Insert
<1>2. /\ new.protocol = req.msg.protocol
      /\ new.platform = req.msg.platform
      /\ new.boot_id = req.msg.boot_id
      /\ new.provider_session_id = x.provider_session_id
      /\ new.account = x.account
      /\ new.state = row.state
      /\ new.logoff_at = NULL
      /\ new.end_reason = NULL
      /\ new.disconnect_count = 0
  BY DEF Row
<1>3. ASSUME NEW j \in Stored, IsOpen(sessions[j]), SameIdentity(new, sessions[j])
      PROVE  FALSE
  <2>1. Concerns(req.msg, x, sessions[j])
    BY <1>2, <1>3 DEF SameIdentity, Concerns, SameUser
  <2> QED BY <1>3, <2>1 DEF OpenSessions
<1> HIDE DEF new
<1>4. /\ DOMAIN sessions' = DOMAIN sessions \union {i}
      /\ \A j \in DOMAIN sessions : sessions'[j] = sessions[j]
  BY <1>1
<1> QED BY <1>1, <1>2, <1>3, <1>4 DEF InsertStep, IsOpen


\* Seven columns name a session and its end; an update of others evolves it.
LEMMA SameEndEvolves ==
    ASSUME NEW s, NEW t, IsOpen(s), IsOpen(t),
           t.protocol = s.protocol, t.platform = s.platform, t.boot_id = s.boot_id,
           t.provider_session_id = s.provider_session_id, t.account = s.account,
           t.logoff_at = s.logoff_at, t.end_reason = s.end_reason
    PROVE  Evolves(s, t)
BY DEF Evolves, SameIdentity, SameUser

LEMMA LogonOpenStep == ASSUME TypeOK, NEW e, NEW i, LogonOpen(e, i) PROVE RowStep
<1> DEFINE s == sessions[i]
           fresh == ~LaterThan(s.last_connected_at, e.occurred_at)
           row == [s EXCEPT
               !.state = "ACTIVE",
               !.logon_at = Default(@, e.occurred_at),
               !.initial_source_ip = Default(@, e.source_ip),
               !.last_connected_at = IF fresh THEN e.occurred_at ELSE @,
               !.last_source_ip = IF fresh THEN Default(e.source_ip, @) ELSE @]
<1>1. i \in DOMAIN sessions /\ s \in Row /\ IsOpen(s)
  BY OpenIsRow DEF LogonOpen
<1>2. Update(i, row)
  BY DEF LogonOpen
<1>3. Evolves(s, row)
  <2> HIDE DEF fresh
  <2>1. /\ row.protocol = s.protocol
        /\ row.platform = s.platform
        /\ row.boot_id = s.boot_id
        /\ row.provider_session_id = s.provider_session_id
        /\ row.account = s.account
        /\ row.state = "ACTIVE"
        /\ row.logoff_at = s.logoff_at
        /\ row.end_reason = s.end_reason
    BY <1>1 DEF Row
  <2> HIDE DEF s, row
  <2> QED BY <1>1, <2>1, SameEndEvolves DEF IsOpen, OpenStates
<1> QED BY <1>1, <1>2, <1>3, UpdateStep

LEMMA DisconnectStep ==
    ASSUME TypeOK, NEW e, NEW i, Disconnect(e, i) PROVE RowStep
<1> DEFINE s == sessions[i]
           row == [s EXCEPT !.state = "DISCONNECTED",
                            !.last_disconnected_at = e.occurred_at,
                            !.disconnect_count = @ + 1]
<1>1. i \in DOMAIN sessions /\ s \in Row /\ IsOpen(s)
  BY OpenIsRow DEF Disconnect
<1>2. NoEffect \/ Update(i, row)
  BY DEF Disconnect
<1>3. Evolves(s, row)
  <2>1. /\ row.protocol = s.protocol
        /\ row.platform = s.platform
        /\ row.boot_id = s.boot_id
        /\ row.provider_session_id = s.provider_session_id
        /\ row.account = s.account
        /\ row.state = "DISCONNECTED"
        /\ row.logoff_at = s.logoff_at
        /\ row.end_reason = s.end_reason
    BY <1>1 DEF Row
  <2> HIDE DEF s, row
  <2> QED BY <1>1, <2>1, SameEndEvolves DEF IsOpen, OpenStates
<1>4. CASE NoEffect
  BY <1>4 DEF NoEffect, RowStep
<1>5. CASE Update(i, row)
  BY <1>1, <1>3, <1>5, UpdateStep
<1> QED BY <1>2, <1>4, <1>5

LEMMA ReconnectStep ==
    ASSUME TypeOK, NEW e, NEW i, Reconnect(e, i) PROVE RowStep
<1> DEFINE s == sessions[i]
           row == [s EXCEPT !.state = "ACTIVE",
                            !.last_connected_at = e.occurred_at,
                            !.last_source_ip = Default(e.source_ip, @)]
<1>1. i \in DOMAIN sessions /\ s \in Row /\ IsOpen(s)
  BY OpenIsRow DEF Reconnect
<1>2. NoEffect \/ Update(i, row)
  BY DEF Reconnect
<1>3. Evolves(s, row)
  <2>1. /\ row.protocol = s.protocol
        /\ row.platform = s.platform
        /\ row.boot_id = s.boot_id
        /\ row.provider_session_id = s.provider_session_id
        /\ row.account = s.account
        /\ row.state = "ACTIVE"
        /\ row.logoff_at = s.logoff_at
        /\ row.end_reason = s.end_reason
    BY <1>1 DEF Row
  <2> HIDE DEF s, row
  <2> QED BY <1>1, <2>1, SameEndEvolves DEF IsOpen, OpenStates
<1>4. CASE NoEffect
  BY <1>4 DEF NoEffect, RowStep
<1>5. CASE Update(i, row)
  BY <1>1, <1>3, <1>5, UpdateStep
<1> QED BY <1>2, <1>4, <1>5

LEMMA LogoffStep == ASSUME TypeOK, NEW e, NEW i, Logoff(e, i) PROVE RowStep
<1> DEFINE row == Closed(sessions[i], e.occurred_at, "LOGOFF")
<1>1. i \in DOMAIN sessions /\ sessions[i] \in Row /\ IsOpen(sessions[i])
  BY OpenIsRow DEF Logoff
<1>2. e.occurred_at \in Times
  BY EventRequest DEF Logoff, Accept, NextEvent, Request, Event
<1>3. NoEffect \/ Update(i, row)
  BY DEF Logoff
<1>4. Evolves(sessions[i], row)
  BY <1>1, <1>2, ClosedEvolves
<1>5. CASE NoEffect
  BY <1>5 DEF NoEffect, RowStep
<1>6. CASE Update(i, row)
  BY <1>1, <1>4, <1>6, UpdateStep
<1> QED BY <1>3, <1>5, <1>6

LEMMA LogonNewStep ==
    ASSUME TypeOK, NEW e, NEW i, LogonNew(e, i) PROVE InsertStep(i)
<1> DEFINE row == LoggedOn(req.msg, e)
<1>1. req \in Request(Event, "events") /\ e \in Event
  BY EventRequest DEF LogonNew, Accept, NextEvent, Request
<1>2. req.msg \in NormalForm(Event, "events")
  BY <1>1 DEF Request
<1>3. row \in Row
  BY <1>1, <1>2 DEF LoggedOn, NormalForm, Event, Row, Maybe, OpenStates, Times
<1>4. /\ row.protocol = req.msg.protocol
      /\ row.platform = req.msg.platform
      /\ row.boot_id = req.msg.boot_id
      /\ row.provider_session_id = e.provider_session_id
      /\ row.account = e.account
      /\ IsOpen(row)
      /\ row.logoff_at = NULL
      /\ row.end_reason = NULL
      /\ row.disconnect_count = 0
  BY DEF LoggedOn, IsOpen, OpenStates
<1>5. Insert(i, row) /\ OpenSessions(req.msg, e) = {}
  BY DEF LogonNew
<1> HIDE DEF row
<1> QED BY <1>3, <1>4, <1>5, InsertShape

LEMMA ObserveNewStep ==
    ASSUME TypeOK, NEW o, NEW i, ObserveNew(o, i) PROVE InsertStep(i)
<1> DEFINE row == Observed(req.msg, o)
<1>1. req \in Request(Observation, "snapshot") /\ o \in Observation
  BY SnapshotRequest DEF ObserveNew, NextObserved, Request
<1>2. req.msg \in NormalForm(Observation, "snapshot")
  BY <1>1 DEF Request
<1>3. row \in Row
  BY <1>1, <1>2 DEF Observed, NormalForm, Observation, Row, Maybe, Default,
                    OpenStates, Times
<1>4. /\ row.protocol = req.msg.protocol
      /\ row.platform = req.msg.platform
      /\ row.boot_id = req.msg.boot_id
      /\ row.provider_session_id = o.provider_session_id
      /\ row.account = o.account
      /\ IsOpen(row)
      /\ row.logoff_at = NULL
      /\ row.end_reason = NULL
      /\ row.disconnect_count = 0
  BY <1>1 DEF Observed, Observation, IsOpen
<1>5. Insert(i, row) /\ OpenSessions(req.msg, o) = {}
  BY DEF ObserveNew
<1> HIDE DEF row
<1> QED BY <1>3, <1>4, <1>5, InsertShape

LEMMA ObserveKnownStep ==
    ASSUME TypeOK, NEW o, NEW i, ObserveKnown(o, i) PROVE RowStep
<1> DEFINE s == sessions[i]
           moved == s.state # o.state
           at == req.msg.agent_time
           row == [s EXCEPT
               !.state = o.state,
               !.last_connected_at = IF moved /\ o.state = "ACTIVE" THEN at ELSE @,
               !.last_disconnected_at =
                   IF moved /\ o.state = "DISCONNECTED" THEN at ELSE @,
               !.logon_at = Default(@, o.logon_at),
               !.last_source_ip = Default(o.source_ip, @)]
<1>1. i \in DOMAIN sessions /\ s \in Row /\ IsOpen(s)
  BY OpenIsRow DEF ObserveKnown
<1>2. o.state \in OpenStates
  BY SnapshotRequest DEF ObserveKnown, NextObserved, Request, Observation
<1>3. Update(i, row)
  BY DEF ObserveKnown
<1>4. Evolves(s, row)
  <2> HIDE DEF moved, at
  <2>1. /\ row.protocol = s.protocol
        /\ row.platform = s.platform
        /\ row.boot_id = s.boot_id
        /\ row.provider_session_id = s.provider_session_id
        /\ row.account = s.account
        /\ row.state = o.state
        /\ row.logoff_at = s.logoff_at
        /\ row.end_reason = s.end_reason
    BY <1>1 DEF Row
  <2> QED BY <1>1, <1>2, <2>1, SameEndEvolves, ZenonT(60) DEF IsOpen
<1> QED BY <1>1, <1>3, <1>4, UpdateStep

(* One event or one observed session changes open rows of the table or     *)
(* inserts one that no open row in sight shares its identity with.         *)
LEMMA ItemStep ==
    ASSUME TypeOK, NEW x, IngestEvent(x) \/ Observe(x)
    PROVE  /\ RowStep \/ \E i : InsertStep(i)
           /\ UNCHANGED <<server, saved>>
           /\ req.kind \in {"events", "snapshot"}
           /\ req'.kind = req.kind
           /\ req'.msg = req.msg
           /\ unflushed' \in {unflushed, {}}
<1>1. RowStep \/ \E i : InsertStep(i)
  <2>1. CASE SkipDuplicate(x) \/ LogonDelayed(x) \/ Unattached(x)
    BY <2>1 DEF SkipDuplicate, LogonDelayed, Unattached, NoEffect, RowStep
  <2>2. CASE \E i \in SessionIds : \/ LogonNew(x, i) \/ LogonOpen(x, i)
                                   \/ Disconnect(x, i) \/ Reconnect(x, i)
                                   \/ Logoff(x, i)
    BY <2>2, LogonNewStep, LogonOpenStep, DisconnectStep, ReconnectStep, LogoffStep
  <2>3. CASE Observe(x)
    BY <2>3, ObserveNewStep, ObserveKnownStep DEF Observe
  <2> QED BY <2>1, <2>2, <2>3 DEF IngestEvent
<1>2. CASE IngestEvent(x)
  <2>1. NextEvent(x) /\ unflushed' \in {unflushed, {}}
    BY <1>2 DEF IngestEvent, SkipDuplicate, LogonDelayed, Unattached, LogonNew,
                LogonOpen, Disconnect, Reconnect, Logoff, Accept
  <2> QED BY <1>1, <2>1, EventRequest DEF NextEvent, Request
<1>3. CASE Observe(x)
  <2>1. PICK i \in SessionIds : NextObserved(x, i)
    BY <1>3 DEF Observe, ObserveNew, ObserveKnown
  <2>2. unflushed' \in {unflushed, {}}
    BY <1>3 DEF Observe, ObserveNew, ObserveKnown
  <2> QED BY <1>1, <2>1, <2>2, SnapshotRequest DEF NextObserved, Request
<1> QED BY <1>2, <1>3

\* A message begins by renaming a boot or by closing what it left open.
LEMMA StartStep ==
    ASSUME IsTable(sessions), NEW m \in Messages, StartWith(Normalize(m))
    PROVE  \/ KeepBoot(Normalize(m)) /\ RenameStep
           \/ ChangeBoot(Normalize(m)) /\ RowStep
<1> DEFINE n == Normalize(m)
<1>1. n.boot_time \in Maybe(Times) /\ n.agent_time \in Times
  BY NormalizeType DEF NormalForm
<1> HIDE DEF n
<1>2. CASE KeepBoot(n)
  <2>1. \A i \in Adopted(n) : i \in DOMAIN sessions /\ IsOpen(sessions[i])
    BY DEF Adopted
  <2>2. ASSUME NEW i \in Adopted(n)
        PROVE  LET t == [sessions[i] EXCEPT !.boot_id = n.boot_id]
               IN  /\ IsOpen(t)
                   /\ t.protocol = sessions[i].protocol
                   /\ t.platform = sessions[i].platform
                   /\ t.logoff_at = sessions[i].logoff_at
                   /\ t.end_reason = sessions[i].end_reason
    <3>1. sessions[i] \in Row /\ IsOpen(sessions[i])
      BY <2>1 DEF IsTable
    <3> QED BY <3>1 DEF Row, IsOpen
  <2>3. RenameStep
    BY <1>2, <2>1, <2>2 DEF KeepBoot, RenameStep
  <2> QED BY <1>2, <2>3 DEF n
<1>3. CASE ChangeBoot(n)
  <2>1. PICK at \in Times :
           sessions' = [i \in DOMAIN sessions |->
                           IF IsOpen(sessions[i]) /\ sessions[i].boot_id # n.boot_id
                           THEN Closed(sessions[i], at, "REBOOT") ELSE sessions[i]]
    BY <1>1, <1>3 DEF ChangeBoot, Maybe
  <2>2. \A i \in DOMAIN sessions : Evolves(sessions[i], Closed(sessions[i], at, "REBOOT"))
    BY ClosedEvolves DEF IsTable
  <2>3. RowStep
    BY <2>1, <2>2 DEF RowStep
  <2> QED BY <1>3, <2>3 DEF n
<1> QED BY <1>2, <1>3 DEF StartWith, n

LEMMA BeginStep ==
    ASSUME TypeOK, Begin
    PROVE  (RowStep \/ RenameStep) /\ UNCHANGED saved
BY StartStep DEF Begin, StartWith, TypeOK

\* The end of a request closes what a snapshot missed, and commits the table.
LEMMA FinishStep ==
    ASSUME TypeOK, FinishEvents \/ FinishSnapshot
    PROVE  /\ RowStep
           /\ saved'.sessions = sessions'
           /\ saved'.server = server
           /\ UNCHANGED server
           /\ req' = NoRequest
           /\ unflushed' = {}
<1>1. CASE FinishEvents
  BY <1>1 DEF FinishEvents, Commit, RowStep
<1>2. CASE FinishSnapshot
  <2>1. req.msg.agent_time \in Times
    BY <1>2, SnapshotRequest DEF FinishSnapshot, Request, NormalForm
  <2>2. \A i \in DOMAIN sessions :
           Evolves(sessions[i], Closed(sessions[i], req.msg.agent_time, "RECONCILIATION"))
    BY <2>1, ClosedEvolves DEF TypeOK, IsTable
  <2>3. RowStep
    BY <1>2, <2>2 DEF FinishSnapshot, Missing, RowStep
  <2> QED BY <1>2, <2>3 DEF FinishSnapshot, Commit
<1> QED BY <1>1, <1>2

-----------------------------------------------------------------------------
(* Closed rows.                                                            *)

\* Every way a row may change keeps the table consistent.
LEMMA ConsistentStep ==
    ASSUME Consistent(sessions), RowStep \/ RenameStep \/ \E i : InsertStep(i)
    PROVE  Consistent(sessions')
<1> USE DEF Consistent
<1>1. CASE RowStep
  BY <1>1 DEF RowStep, Evolves, IsOpen, OpenStates
<1>2. CASE RenameStep
  BY <1>2 DEF RenameStep, IsOpen, OpenStates
<1>3. CASE \E i : InsertStep(i)
  BY <1>3 DEF InsertStep, IsOpen, OpenStates
<1> QED BY <1>1, <1>2, <1>3

\* The transaction's own table is consistent too: that is what it commits.
ConsistentInv == Consistent(sessions) /\ Consistent(saved.sessions)

LEMMA ConsistentInductive == ASSUME TypeOK, ConsistentInv, [Next]_vars PROVE ConsistentInv'
<1>1. CASE Begin
  BY <1>1, BeginStep, ConsistentStep DEF ConsistentInv
<1>2. CASE \E x \in req.todo : IngestEvent(x) \/ Observe(x)
  BY <1>2, ItemStep, ConsistentStep DEF ConsistentInv
<1>3. CASE FinishEvents \/ FinishSnapshot
  BY <1>3, FinishStep, ConsistentStep DEF ConsistentInv
<1>4. CASE Fail
  BY <1>4 DEF Fail, ConsistentInv
<1>5. CASE UNCHANGED vars
  BY <1>5 DEF vars, ConsistentInv
<1> QED BY <1>1, <1>2, <1>3, <1>4, <1>5 DEF Next, Handle

LEMMA ConsistentInitial == Init => ConsistentInv
BY DEF Init, Store, ConsistentInv, Consistent

(* In the committed table a row is CLOSED exactly when it has a logoff     *)
(* time, and exactly when it has an end reason.                            *)
THEOREM RowsAlwaysConsistent == Spec => []RowsConsistent
<1>1. TypeOK /\ ConsistentInv /\ [Next]_vars => ConsistentInv'
  BY ConsistentInductive
<1>2. ConsistentInv => RowsConsistent
  BY DEF ConsistentInv, RowsConsistent
<1> QED BY <1>1, <1>2, ConsistentInitial, TypeCorrect, PTL DEF Spec

\* The open transaction still holds the closed rows of table T as they are.
Keeps(T, U) ==
    \A i \in DOMAIN T : T[i].state = "CLOSED" => i \in DOMAIN U /\ U[i] = T[i]
KeptInv == Keeps(saved.sessions, sessions)

LEMMA KeepsStep ==
    ASSUME NEW T, Keeps(T, sessions), RowStep \/ RenameStep \/ \E i : InsertStep(i)
    PROVE  Keeps(T, sessions')
<1> USE DEF Keeps
<1>1. CASE RowStep
  BY <1>1 DEF RowStep, IsOpen, OpenStates
<1>2. CASE RenameStep
  BY <1>2 DEF RenameStep, IsOpen, OpenStates
<1>3. CASE \E i : InsertStep(i)
  BY <1>3 DEF InsertStep
<1> QED BY <1>1, <1>2, <1>3

LEMMA KeptStep ==
    ASSUME TypeOK, KeptInv, [Next]_vars
    PROVE  KeptInv' /\ Keeps(saved.sessions, saved'.sessions)
<1>1. CASE Begin
  BY <1>1, BeginStep, KeepsStep DEF KeptInv, Keeps
<1>2. CASE \E x \in req.todo : IngestEvent(x) \/ Observe(x)
  BY <1>2, ItemStep, KeepsStep DEF KeptInv, Keeps
<1>3. CASE FinishEvents \/ FinishSnapshot
  BY <1>3, FinishStep, KeepsStep DEF KeptInv, Keeps
<1>4. CASE Fail
  BY <1>4 DEF Fail, KeptInv, Keeps
<1>5. CASE UNCHANGED vars
  BY <1>5 DEF vars, KeptInv, Keeps
<1> QED BY <1>1, <1>2, <1>3, <1>4, <1>5 DEF Next, Handle

(* No step reopens, rewrites or deletes a committed CLOSED row.            *)
THEOREM ClosedStaysClosed == Spec => ClosedIsFinal
<1>1. Init => KeptInv
  BY DEF Init, Store, KeptInv, Keeps
<1>2. TypeOK /\ KeptInv /\ [Next]_vars => KeptInv'
  BY KeptStep
<1>3. TypeOK /\ KeptInv /\ [Next]_vars =>
         [\A i \in DOMAIN saved.sessions :
             saved.sessions[i].state = "CLOSED" =>
                 /\ i \in DOMAIN saved'.sessions
                 /\ saved'.sessions[i] = saved.sessions[i]]_vars
  BY KeptStep DEF Keeps
<1> QED BY <1>1, <1>2, <1>3, TypeCorrect, PTL DEF Spec, ClosedIsFinal

-----------------------------------------------------------------------------
(* What one event does to one row that is already there.                   *)

\* A time that no guard found stale moves a stamp forward.
LEMMA FreshAdvances ==
    ASSUME NEW stamp \in Maybe(Times), NEW t \in Times, ~LaterThan(stamp, t)
    PROVE  Advances(stamp, t)
BY NullAssumption DEF Maybe, Times, LaterThan, Advances

LEMMA AdvancesSame == \A stamp \in Maybe(Times) : Advances(stamp, stamp)
BY DEF Maybe, Times, Advances

LEMMA AdvancesFurther ==
    ASSUME NEW r \in Maybe(Times), NEW s \in Maybe(Times), NEW t \in Maybe(Times),
           Advances(r, s), Advances(s, t)
    PROVE  Advances(r, t)
BY NullAssumption DEF Maybe, Times, Advances

\* Neither stamp moves back from row s to row t.
Forward(s, t) ==
    /\ Advances(s.last_connected_at, t.last_connected_at)
    /\ Advances(s.last_disconnected_at, t.last_disconnected_at)

\* The origin stands, or was unknown and may be filled.
OriginKept(s, t, may) ==
    t.initial_source_ip # s.initial_source_ip => s.initial_source_ip = NULL /\ may

\* Row s after event e is t: what the reducer promises of each row.
Reduces(e, s, t) ==
    /\ Forward(s, t)
    /\ OriginKept(s, t, e.type = "LOGON")
    /\ t.end_reason # s.end_reason =>
          /\ e.type = "LOGOFF"
          /\ t.end_reason = "LOGOFF"
          /\ t.logoff_at = e.occurred_at
          /\ t.logon_at = NULL \/ t.logon_at <= t.logoff_at
    /\ t.end_reason = s.end_reason =>
          \/ s.end_reason # "LOGOFF"
          \/ t.logon_at = s.logon_at /\ t.logoff_at = s.logoff_at
    /\ t.disconnect_count # s.disconnect_count =>
          /\ e.type = "DISCONNECT"
          /\ t.disconnect_count = s.disconnect_count + 1

LEMMA NothingReduces == ASSUME NEW e, NEW s \in Row PROVE Reduces(e, s, s)
BY AdvancesSame DEF Row, Reduces, Forward, OriginKept

LEMMA LogonReduces ==
    ASSUME NEW e \in Event, e.type = "LOGON", NEW s \in Row, s.end_reason = NULL
    PROVE  LET fresh == ~LaterThan(s.last_connected_at, e.occurred_at)
           IN  Reduces(e, s, [s EXCEPT
                   !.state = "ACTIVE",
                   !.logon_at = Default(@, e.occurred_at),
                   !.initial_source_ip = Default(@, e.source_ip),
                   !.last_connected_at = IF fresh THEN e.occurred_at ELSE @,
                   !.last_source_ip = IF fresh THEN Default(e.source_ip, @) ELSE @])
<1> DEFINE fresh == ~LaterThan(s.last_connected_at, e.occurred_at)
           t == [s EXCEPT
                   !.state = "ACTIVE",
                   !.logon_at = Default(@, e.occurred_at),
                   !.initial_source_ip = Default(@, e.source_ip),
                   !.last_connected_at = IF fresh THEN e.occurred_at ELSE @,
                   !.last_source_ip = IF fresh THEN Default(e.source_ip, @) ELSE @]
<1>1. /\ s.last_connected_at \in Maybe(Times)
      /\ s.last_disconnected_at \in Maybe(Times)
      /\ e.occurred_at \in Times
  BY DEF Row, Event
<1>2. fresh => Advances(s.last_connected_at, e.occurred_at)
  BY <1>1, FreshAdvances
<1> HIDE DEF fresh
<1>3. /\ t.initial_source_ip = Default(s.initial_source_ip, e.source_ip)
      /\ t.last_connected_at = IF fresh THEN e.occurred_at ELSE s.last_connected_at
      /\ t.last_disconnected_at = s.last_disconnected_at
      /\ t.end_reason = s.end_reason
      /\ t.disconnect_count = s.disconnect_count
  BY DEF Row
<1> HIDE DEF t
<1>4. Forward(s, t)
  BY <1>1, <1>2, <1>3, AdvancesSame DEF Forward
<1>5. OriginKept(s, t, e.type = "LOGON")
  BY <1>3 DEF OriginKept, Default
<1>6. s.end_reason # "LOGOFF"
  BY NullAssumption
<1>7. Reduces(e, s, t)
  BY <1>3, <1>4, <1>5, <1>6 DEF Reduces
<1> QED BY <1>7 DEF t, fresh

LEMMA DisconnectReduces ==
    ASSUME NEW e \in Event, e.type = "DISCONNECT", NEW s \in Row, s.end_reason = NULL,
           ~LaterThan(s.last_disconnected_at, e.occurred_at)
    PROVE  Reduces(e, s, [s EXCEPT !.state = "DISCONNECTED",
                                   !.last_disconnected_at = e.occurred_at,
                                   !.disconnect_count = @ + 1])
<1> DEFINE t == [s EXCEPT !.state = "DISCONNECTED",
                          !.last_disconnected_at = e.occurred_at,
                          !.disconnect_count = @ + 1]
<1>1. Advances(s.last_disconnected_at, e.occurred_at)
  BY FreshAdvances DEF Row, Event
<1>2. /\ t.initial_source_ip = s.initial_source_ip
      /\ t.last_connected_at = s.last_connected_at
      /\ t.last_disconnected_at = e.occurred_at
      /\ t.end_reason = s.end_reason
      /\ t.disconnect_count = s.disconnect_count + 1
  BY DEF Row
<1>3. Advances(s.last_connected_at, s.last_connected_at) /\ s.end_reason # "LOGOFF"
  BY AdvancesSame, NullAssumption DEF Row
<1> HIDE DEF t
<1>4. Reduces(e, s, t)
  BY <1>1, <1>2, <1>3 DEF Reduces, Forward, OriginKept
<1> QED BY <1>4 DEF t

LEMMA ReconnectReduces ==
    ASSUME NEW e \in Event, e.type = "RECONNECT", NEW s \in Row, s.end_reason = NULL,
           ~LaterThan(s.last_connected_at, e.occurred_at)
    PROVE  Reduces(e, s, [s EXCEPT !.state = "ACTIVE",
                                   !.last_connected_at = e.occurred_at,
                                   !.last_source_ip = Default(e.source_ip, @)])
<1> DEFINE t == [s EXCEPT !.state = "ACTIVE",
                          !.last_connected_at = e.occurred_at,
                          !.last_source_ip = Default(e.source_ip, @)]
<1>1. Advances(s.last_connected_at, e.occurred_at)
  BY FreshAdvances DEF Row, Event
<1>2. /\ t.initial_source_ip = s.initial_source_ip
      /\ t.last_connected_at = e.occurred_at
      /\ t.last_disconnected_at = s.last_disconnected_at
      /\ t.end_reason = s.end_reason
      /\ t.disconnect_count = s.disconnect_count
  BY DEF Row
<1>3. Advances(s.last_disconnected_at, s.last_disconnected_at) /\ s.end_reason # "LOGOFF"
  BY AdvancesSame, NullAssumption DEF Row
<1> HIDE DEF t
<1>4. Reduces(e, s, t)
  BY <1>1, <1>2, <1>3 DEF Reduces, Forward, OriginKept
<1> QED BY <1>4 DEF t

LEMMA LogoffReduces ==
    ASSUME NEW e \in Event, e.type = "LOGOFF", NEW s \in Row, s.end_reason = NULL,
           ~LaterThan(s.logon_at, e.occurred_at)
    PROVE  Reduces(e, s, Closed(s, e.occurred_at, "LOGOFF"))
<1> DEFINE t == Closed(s, e.occurred_at, "LOGOFF")
<1>1. Advances(s.logon_at, e.occurred_at)
  BY FreshAdvances DEF Row, Event
<1>2. /\ t.initial_source_ip = s.initial_source_ip
      /\ t.last_connected_at = s.last_connected_at
      /\ t.last_disconnected_at = s.last_disconnected_at
      /\ t.logon_at = s.logon_at
      /\ t.logoff_at = e.occurred_at
      /\ t.end_reason = "LOGOFF"
      /\ t.disconnect_count = s.disconnect_count
  BY DEF Row, Closed
<1>3. /\ Advances(s.last_connected_at, s.last_connected_at)
      /\ Advances(s.last_disconnected_at, s.last_disconnected_at)
      /\ s.end_reason # "LOGOFF"
  BY AdvancesSame, NullAssumption DEF Row
<1> HIDE DEF t
<1>4. Reduces(e, s, t)
  BY <1>1, <1>2, <1>3 DEF Reduces, Forward, OriginKept, Advances
<1> QED BY <1>4 DEF t

(* One event: every row that was there is reduced, and one that changes    *)
(* was open, is of the session the event speaks of, and the event is new.  *)
LEMMA EventReduces ==
    ASSUME TypeOK, Consistent(sessions), NEW e, IngestEvent(e), NEW i \in DOMAIN sessions
    PROVE  /\ i \in DOMAIN sessions'
           /\ Reduces(e, sessions[i], sessions'[i])
           /\ sessions'[i] # sessions[i] =>
                 /\ Accept(e)
                 /\ IsOpen(sessions[i])
                 /\ Concerns(req.msg, e, sessions[i])
                 /\ Concerns(req.msg, e, sessions'[i])
<1> DEFINE s == sessions[i]
<1>1. s \in Row
  BY DEF TypeOK, IsTable
<1>2. e \in Event
  BY EventRequest DEF IngestEvent, SkipDuplicate, LogonDelayed, Unattached, LogonNew,
                      LogonOpen, Disconnect, Reconnect, Logoff, Accept, NextEvent, Request
<1>3. \A m, k : k \in OpenSessions(m, e) =>
         /\ k \in DOMAIN sessions
         /\ IsOpen(sessions[k])
         /\ sessions[k].end_reason = NULL
         /\ Concerns(m, e, sessions[k])
  BY DEF OpenSessions, Stored, Consistent, IsOpen, OpenStates
<1>4. ASSUME UNCHANGED sessions
      PROVE  i \in DOMAIN sessions' /\ Reduces(e, s, sessions'[i]) /\ sessions'[i] = s
  BY <1>1, <1>4, NothingReduces
<1>5. ASSUME NEW k \in OpenSessions(req.msg, e), NEW row, Update(k, row),
             Reduces(e, sessions[k], row), SameIdentity(sessions[k], row), Accept(e)
      PROVE  /\ i \in DOMAIN sessions'
             /\ Reduces(e, s, sessions'[i])
             /\ sessions'[i] # s =>
                 /\ Accept(e)
                 /\ IsOpen(s)
                 /\ Concerns(req.msg, e, s)
                 /\ Concerns(req.msg, e, sessions'[i])
  <2>1. sessions' = [sessions EXCEPT ![k] = row]
    BY <1>5 DEF Update
  <2>2. Concerns(req.msg, e, row)
    BY <1>3, <1>5 DEF Concerns, SameIdentity, SameUser
  <2>3. CASE i = k
    BY <1>3, <1>5, <2>1, <2>2, <2>3
  <2>4. CASE i # k
    BY <1>1, <2>1, <2>4, NothingReduces
  <2> QED BY <2>3, <2>4
<1> HIDE DEF s
<1>6. CASE SkipDuplicate(e) \/ LogonDelayed(e) \/ Unattached(e)
  BY <1>4, <1>6 DEF SkipDuplicate, LogonDelayed, Unattached, NoEffect, s
<1>7. ASSUME NEW k \in SessionIds, LogonNew(e, k)
      PROVE  i \in DOMAIN sessions' /\ Reduces(e, s, sessions'[i]) /\ sessions'[i] = s
  BY <1>1, <1>7, LogonNewStep, NothingReduces DEF InsertStep, s
<1>8. ASSUME NEW k, k \in OpenSessions(req.msg, e)
      PROVE  sessions[k] \in Row /\ sessions[k].end_reason = NULL
  BY <1>3, <1>8, OpenIsRow
<1>9. ASSUME NEW k \in SessionIds, NEW row, Accept(e), k \in OpenSessions(req.msg, e),
             Update(k, row), RowStep
      PROVE  SameIdentity(sessions[k], row)
  <2>1. k \in DOMAIN sessions /\ sessions'[k] = row
    BY <1>3, <1>9 DEF Update
  <2> QED BY <1>9, <2>1 DEF RowStep, Evolves, SameIdentity, SameUser
<1>10. ASSUME NEW k \in SessionIds, LogonOpen(e, k)
       PROVE  \E row : /\ Accept(e)
                       /\ k \in OpenSessions(req.msg, e)
                       /\ Update(k, row)
                       /\ Reduces(e, sessions[k], row)
  BY <1>2, <1>8, <1>10, LogonReduces DEF LogonOpen
<1>11. ASSUME NEW k \in SessionIds, Disconnect(e, k)
       PROVE  \/ UNCHANGED sessions
              \/ \E row : /\ Accept(e)
                          /\ k \in OpenSessions(req.msg, e)
                          /\ Update(k, row)
                          /\ Reduces(e, sessions[k], row)
  BY <1>2, <1>8, <1>11, DisconnectReduces DEF Disconnect, NoEffect
<1>12. ASSUME NEW k \in SessionIds, Reconnect(e, k)
       PROVE  \/ UNCHANGED sessions
              \/ \E row : /\ Accept(e)
                          /\ k \in OpenSessions(req.msg, e)
                          /\ Update(k, row)
                          /\ Reduces(e, sessions[k], row)
  BY <1>2, <1>8, <1>12, ReconnectReduces DEF Reconnect, NoEffect
<1>13. ASSUME NEW k \in SessionIds, Logoff(e, k)
       PROVE  \/ UNCHANGED sessions
              \/ \E row : /\ Accept(e)
                          /\ k \in OpenSessions(req.msg, e)
                          /\ Update(k, row)
                          /\ Reduces(e, sessions[k], row)
  BY <1>2, <1>8, <1>13, LogoffReduces DEF Logoff, NoEffect
<1>14. ASSUME NEW k \in SessionIds, LogonOpen(e, k) \/ Disconnect(e, k)
                                    \/ Reconnect(e, k) \/ Logoff(e, k)
       PROVE  RowStep
  BY <1>14, LogonOpenStep, DisconnectStep, ReconnectStep, LogoffStep
<1> QED BY <1>4, <1>5, <1>6, <1>7, <1>9, <1>10, <1>11, <1>12, <1>13, <1>14
        DEF IngestEvent, s

-----------------------------------------------------------------------------
(* What the other steps leave of an open row.                              *)

\* Row s becomes t: unchanged, or open before and ended for such a reason only.
Leaves(s, t, reasons) ==
    \/ t = s
    \/ /\ IsOpen(s)
       /\ t.initial_source_ip = s.initial_source_ip
       /\ t.disconnect_count = s.disconnect_count
       /\ t.end_reason \in {s.end_reason} \union reasons

LEMMA ClosedLeaves ==
    ASSUME NEW s \in Row, IsOpen(s), NEW at, NEW reason
    PROVE  /\ Leaves(s, Closed(s, at, reason), {reason})
           /\ Closed(s, at, reason).last_connected_at = s.last_connected_at
           /\ Closed(s, at, reason).last_disconnected_at = s.last_disconnected_at
BY DEF Row, Closed, Leaves

LEMMA BeginLeaves ==
    ASSUME TypeOK, Begin, NEW i \in DOMAIN sessions
    PROVE  /\ DOMAIN sessions' = DOMAIN sessions
           /\ Leaves(sessions[i], sessions'[i], {"REBOOT"})
           /\ sessions'[i].last_connected_at = sessions[i].last_connected_at
           /\ sessions'[i].last_disconnected_at = sessions[i].last_disconnected_at
<1> PICK m \in Messages : StartWith(Normalize(m))
  BY DEF Begin
<1> DEFINE n == Normalize(m)
<1> HIDE DEF n
<1>1. sessions[i] \in Row
  BY DEF TypeOK, IsTable
<1>2. CASE KeepBoot(n)
  <2>1. CASE i \in Adopted(n)
    <3> DEFINE t == [sessions[i] EXCEPT !.boot_id = n.boot_id]
    <3>1. i \in DOMAIN sessions /\ IsOpen(sessions[i])
      BY <2>1 DEF Adopted
    <3>2. sessions'[i] = t /\ DOMAIN sessions' = DOMAIN sessions
      BY <1>2, <2>1 DEF KeepBoot
    <3>3. /\ t.initial_source_ip = sessions[i].initial_source_ip
          /\ t.disconnect_count = sessions[i].disconnect_count
          /\ t.end_reason = sessions[i].end_reason
          /\ t.last_connected_at = sessions[i].last_connected_at
          /\ t.last_disconnected_at = sessions[i].last_disconnected_at
      BY <1>1 DEF Row
    <3> HIDE DEF t
    <3> QED BY <3>1, <3>2, <3>3 DEF Leaves
  <2>2. CASE i \notin Adopted(n)
    BY <1>2, <2>2 DEF KeepBoot, Leaves
  <2> QED BY <2>1, <2>2
<1>3. CASE ChangeBoot(n)
  <2>1. PICK at :
           sessions' = [j \in DOMAIN sessions |->
                           IF IsOpen(sessions[j]) /\ sessions[j].boot_id # n.boot_id
                           THEN Closed(sessions[j], at, "REBOOT") ELSE sessions[j]]
    BY <1>3 DEF ChangeBoot
  <2>2. CASE ~(IsOpen(sessions[i]) /\ sessions[i].boot_id # n.boot_id)
    <3>1. sessions'[i] = sessions[i]
      BY <2>1, <2>2
    <3> QED BY <2>1, <3>1 DEF Leaves
  <2>3. CASE IsOpen(sessions[i]) /\ sessions[i].boot_id # n.boot_id
    <3>1. sessions'[i] = Closed(sessions[i], at, "REBOOT")
      BY <2>1, <2>3
    <3> QED BY <1>1, <2>1, <2>3, <3>1, ClosedLeaves
  <2> QED BY <2>2, <2>3
<1> QED BY <1>2, <1>3 DEF StartWith, n

LEMMA ObserveLeaves ==
    ASSUME TypeOK, NEW o, Observe(o), NEW i \in DOMAIN sessions
    PROVE  i \in DOMAIN sessions' /\ Leaves(sessions[i], sessions'[i], {})
<1>1. ASSUME NEW k \in SessionIds, ObserveNew(o, k)
      PROVE  i \in DOMAIN sessions' /\ sessions'[i] = sessions[i]
  BY <1>1, ObserveNewStep DEF InsertStep
<1>2. ASSUME NEW k \in SessionIds, ObserveKnown(o, k)
      PROVE  i \in DOMAIN sessions' /\ Leaves(sessions[i], sessions'[i], {})
  <2> DEFINE s == sessions[k]
             moved == s.state # o.state
             at == req.msg.agent_time
             row == [s EXCEPT
                 !.state = o.state,
                 !.last_connected_at = IF moved /\ o.state = "ACTIVE" THEN at ELSE @,
                 !.last_disconnected_at =
                     IF moved /\ o.state = "DISCONNECTED" THEN at ELSE @,
                 !.logon_at = Default(@, o.logon_at),
                 !.last_source_ip = Default(o.source_ip, @)]
  <2>1. k \in DOMAIN sessions /\ s \in Row /\ IsOpen(s)
    BY <1>2, OpenIsRow DEF ObserveKnown
  <2>2. Update(k, row)
    BY <1>2 DEF ObserveKnown
  <2> HIDE DEF moved, at
  <2>3. /\ row.initial_source_ip = s.initial_source_ip
        /\ row.disconnect_count = s.disconnect_count
        /\ row.end_reason = s.end_reason
    BY <2>1 DEF Row
  <2> HIDE DEF row
  <2>4. sessions' = [sessions EXCEPT ![k] = row]
    BY <2>2 DEF Update
  <2>5. CASE i = k
    BY <2>1, <2>3, <2>4, <2>5 DEF Leaves
  <2>6. CASE i # k
    BY <2>4, <2>6 DEF Leaves
  <2> QED BY <2>5, <2>6
<1> QED BY <1>1, <1>2 DEF Observe, Leaves

LEMMA FinishLeaves ==
    ASSUME TypeOK, FinishEvents \/ FinishSnapshot, NEW i \in DOMAIN sessions
    PROVE  /\ DOMAIN sessions' = DOMAIN sessions
           /\ Leaves(sessions[i], sessions'[i], {"RECONCILIATION"})
           /\ FinishEvents => sessions' = sessions
           /\ saved'.sessions = sessions' /\ saved'.events = events /\ events' = events
<1>1. sessions[i] \in Row
  BY DEF TypeOK, IsTable
<1>2. CASE FinishEvents
  BY <1>2 DEF FinishEvents, Commit, Leaves
<1>3. CASE FinishSnapshot
  <2>1. i \in Missing(req.msg) => IsOpen(sessions[i])
    BY DEF Missing
  <2>2. \/ sessions'[i] = sessions[i]
        \/ /\ IsOpen(sessions[i])
           /\ sessions'[i] = Closed(sessions[i], req.msg.agent_time, "RECONCILIATION")
    BY <1>3, <2>1 DEF FinishSnapshot
  <2>3. Leaves(sessions[i], sessions'[i], {"RECONCILIATION"})
    BY <1>1, <2>2, ClosedLeaves DEF Leaves
  <2>4. ~FinishEvents
    BY <1>3 DEF FinishEvents, FinishSnapshot
  <2> QED BY <1>3, <2>3, <2>4 DEF FinishSnapshot, Commit
<1> QED BY <1>2, <1>3

\* What an event request and a snapshot request are in the middle of.
LEMMA ItemOfRequest ==
    ASSUME TypeOK, NEW x, IngestEvent(x) \/ Observe(x)
    PROVE  /\ req # NoRequest /\ req' # NoRequest
           /\ req'.kind = req.kind /\ req'.msg = req.msg
           /\ x \in req.todo /\ req'.todo \subseteq req.todo
           /\ saved' = saved
           /\ IngestEvent(x) => req.kind = "events" /\ events \subseteq events'
           /\ Observe(x) => req.kind = "snapshot" /\ events' = events
<1>1. /\ req # NoRequest /\ req' # NoRequest
      /\ req'.kind = req.kind /\ req'.msg = req.msg
      /\ saved' = saved
  BY ItemStep DEF NoRequest
<1>2. CASE IngestEvent(x)
  <2>1. NextEvent(x) /\ events \subseteq events'
    BY <1>2 DEF IngestEvent, SkipDuplicate, LogonDelayed, Unattached, LogonNew,
                LogonOpen, Disconnect, Reconnect, Logoff, Accept
  <2>2. req'.todo = req.todo \ {x} /\ req.kind = "events"
    BY <2>1, EventRequest DEF NextEvent, Request
  <2>3. ~Observe(x)
    BY <2>2 DEF Observe, ObserveNew, ObserveKnown, NextObserved
  <2> QED BY <1>1, <2>1, <2>2, <2>3 DEF NextEvent
<1>3. CASE Observe(x)
  <2>1. PICK k : NextObserved(x, k)
    BY <1>3 DEF Observe, ObserveNew, ObserveKnown
  <2>2. req'.todo = req.todo \ {x} /\ req.kind = "snapshot"
    BY <2>1, SnapshotRequest DEF NextObserved, Request
  <2>3. ~IngestEvent(x)
    BY <2>2 DEF IngestEvent, SkipDuplicate, LogonDelayed, Unattached, LogonNew,
                LogonOpen, Disconnect, Reconnect, Logoff, Accept, NextEvent
  <2> QED BY <1>1, <2>1, <2>2, <2>3 DEF NextObserved
<1> QED BY <1>2, <1>3

-----------------------------------------------------------------------------
(* Rows that a LOGOFF ended.                                               *)

\* Of the events E, one of this type speaks of session s.
Behind(E, type, s) ==
    {row \in E : row.event.type = type /\ Concerns(row, row.event, s)}

BackedBy(E, s) ==
    /\ \E row \in Behind(E, "LOGOFF", s) : row.event.occurred_at = s.logoff_at
    /\ s.logon_at = NULL \/ s.logon_at <= s.logoff_at

Backed(T, E) == \A i \in DOMAIN T : T[i].end_reason = "LOGOFF" => BackedBy(E, T[i])

BackedInv ==
    /\ ConsistentInv
    /\ Backed(sessions, events)
    /\ Backed(saved.sessions, saved.events)

\* An accepted event stands in the table with what it concerns.
LEMMA AcceptedConcerns ==
    ASSUME NEW e, Accept(e)
    PROVE  /\ EventRow(req.msg, e) \in events'
           /\ EventRow(req.msg, e).event = e
           /\ \A s : Concerns(EventRow(req.msg, e), e, s) <=> Concerns(req.msg, e, s)
BY DEF Accept, EventRow, Concerns

LEMMA MoreEventsBack ==
    ASSUME NEW E, NEW F, E \subseteq F, NEW s, BackedBy(E, s)
    PROVE  BackedBy(F, s)
BY DEF BackedBy, Behind

\* A row that a request leaves as LOGOFF it found so.
LEMMA LeavesBacked ==
    ASSUME NEW s, NEW t, NEW reasons, Leaves(s, t, reasons), "LOGOFF" \notin reasons,
           IsOpen(s) => s.end_reason = NULL, t.end_reason = "LOGOFF"
    PROVE  t = s
BY NullAssumption DEF Leaves

LEMMA OpenHasNoReason ==
    ASSUME NEW T, Consistent(T), NEW i \in DOMAIN T, IsOpen(T[i])
    PROVE  T[i].end_reason = NULL /\ T[i].logoff_at = NULL
BY DEF Consistent, IsOpen, OpenStates

LEMMA EventBacked ==
    ASSUME TypeOK, BackedInv, NEW e, IngestEvent(e)
    PROVE  Backed(sessions', events')
<1> SUFFICES ASSUME NEW i \in DOMAIN sessions', sessions'[i].end_reason = "LOGOFF"
             PROVE  BackedBy(events', sessions'[i])
  BY DEF Backed
<1>1. events \subseteq events'
  BY ItemOfRequest
<1>2. CASE i \in DOMAIN sessions /\ sessions'[i] = sessions[i]
  BY <1>1, <1>2, MoreEventsBack DEF BackedInv, Backed
<1>3. CASE i \in DOMAIN sessions /\ sessions'[i] # sessions[i]
  <2>1. /\ Reduces(e, sessions[i], sessions'[i])
        /\ Accept(e)
        /\ IsOpen(sessions[i])
        /\ Concerns(req.msg, e, sessions'[i])
    BY <1>3, EventReduces DEF BackedInv, ConsistentInv
  <2>2. sessions[i].end_reason = NULL
    BY <1>3, <2>1, OpenHasNoReason DEF BackedInv, ConsistentInv
  <2>3. /\ e.type = "LOGOFF"
        /\ sessions'[i].logoff_at = e.occurred_at
        /\ sessions'[i].logon_at = NULL \/ sessions'[i].logon_at <= sessions'[i].logoff_at
    BY <2>1, <2>2, NullAssumption DEF Reduces
  <2>4. EventRow(req.msg, e) \in Behind(events', "LOGOFF", sessions'[i])
    BY <2>1, <2>3, AcceptedConcerns DEF Behind
  <2> QED BY <2>1, <2>3, <2>4, AcceptedConcerns DEF BackedBy
<1>4. CASE i \notin DOMAIN sessions
  <2>1. \E k : InsertStep(k) /\ i = k
    BY <1>4, ItemStep DEF InsertStep, RowStep
  <2> QED BY <2>1, NullAssumption DEF InsertStep
<1> QED BY <1>2, <1>3, <1>4

LEMMA ObserveBacked ==
    ASSUME TypeOK, BackedInv, NEW o, Observe(o)
    PROVE  Backed(sessions', events')
<1> SUFFICES ASSUME NEW i \in DOMAIN sessions', sessions'[i].end_reason = "LOGOFF"
             PROVE  BackedBy(events', sessions'[i])
  BY DEF Backed
<1>1. CASE i \in DOMAIN sessions
  <2>1. sessions'[i] = sessions[i]
    BY <1>1, ObserveLeaves, LeavesBacked, OpenHasNoReason DEF BackedInv, ConsistentInv
  <2> QED BY <1>1, <2>1, ItemOfRequest DEF BackedInv, Backed
<1>2. CASE i \notin DOMAIN sessions
  <2>1. \E k : InsertStep(k) /\ i = k
    BY <1>2, ItemStep DEF InsertStep, RowStep
  <2> QED BY <2>1, NullAssumption DEF InsertStep
<1> QED BY <1>1, <1>2

LEMMA BackedStep ==
    ASSUME TypeOK, BackedInv, ConsistentInv', [Next]_vars
    PROVE  BackedInv'
<1>1. CASE Begin
  <2>1. events' = events /\ saved' = saved
    BY <1>1 DEF Begin, StartWith
  <2>2. \A i \in DOMAIN sessions :
           /\ DOMAIN sessions' = DOMAIN sessions
           /\ sessions'[i].end_reason = "LOGOFF" => sessions'[i] = sessions[i]
    BY <1>1, BeginLeaves, LeavesBacked, OpenHasNoReason DEF BackedInv, ConsistentInv
  <2>3. DOMAIN sessions' = DOMAIN sessions
    BY <1>1, BeginStep DEF RowStep, RenameStep
  <2>4. Backed(sessions', events)
    BY <2>2, <2>3 DEF BackedInv, Backed
  <2> QED BY <2>1, <2>4 DEF BackedInv
<1>2. CASE \E x \in req.todo : IngestEvent(x) \/ Observe(x)
  BY <1>2, EventBacked, ObserveBacked, ItemStep DEF BackedInv
<1>3. CASE FinishEvents \/ FinishSnapshot
  <2>1. \A i \in DOMAIN sessions :
           sessions'[i].end_reason = "LOGOFF" => sessions'[i] = sessions[i]
    BY <1>3, FinishLeaves, LeavesBacked, OpenHasNoReason DEF BackedInv, ConsistentInv
  <2>2. DOMAIN sessions' = DOMAIN sessions
    BY <1>3, FinishStep DEF RowStep
  <2>3. Backed(sessions', events)
    BY <2>1, <2>2 DEF BackedInv, Backed
  <2>4. saved'.events = events /\ events' = events
    BY <1>3 DEF FinishEvents, FinishSnapshot, Commit
  <2> QED BY <1>3, <2>3, <2>4, FinishStep DEF BackedInv
<1>4. CASE Fail
  BY <1>4 DEF Fail, BackedInv
<1>5. CASE UNCHANGED vars
  BY <1>5 DEF vars, BackedInv
<1> QED BY <1>1, <1>2, <1>3, <1>4, <1>5 DEF Next, Handle

-----------------------------------------------------------------------------
(* What one request may do to the committed rows.                          *)

\* The request in progress carries a LOGON.
PostsLogon == req.kind = "events" /\ \E e \in req.msg.items : e.type = "LOGON"

\* Row s of the committed table is row t of the open transaction.
SoFar(s, t) ==
    /\ OriginKept(s, t, PostsLogon)
    /\ req.kind = "events" => Forward(s, t)

RequestInv ==
    /\ req = NoRequest => sessions = saved.sessions
    /\ req # NoRequest =>
          /\ req.todo \subseteq req.msg.items
          /\ \A i \in DOMAIN saved.sessions :
                i \in DOMAIN sessions /\ SoFar(saved.sessions[i], sessions[i])

LEMMA ForwardFurther ==
    ASSUME NEW r \in Row, NEW s \in Row, NEW t \in Row, Forward(r, s), Forward(s, t)
    PROVE  Forward(r, t)
<1>1. \A x \in {r, s, t} : /\ x.last_connected_at \in Maybe(Times)
                           /\ x.last_disconnected_at \in Maybe(Times)
  BY DEF Row
<1> QED BY <1>1, AdvancesFurther DEF Forward

LEMMA OriginKeptFurther ==
    ASSUME NEW r, NEW s, NEW t, NEW may, NEW also, also => may,
           OriginKept(r, s, may), OriginKept(s, t, also)
    PROVE  OriginKept(r, t, may)
BY DEF OriginKept

LEMMA BeginRequest ==
    ASSUME TypeOK, RequestInv, Begin
    PROVE  RequestInv'
<1> PICK m \in Messages : StartWith(Normalize(m))
  BY DEF Begin
<1> DEFINE n == Normalize(m)
<1>1. n.kind # "idle"
  BY NormalizeType DEF NormalForm
<1> HIDE DEF n
<1>2. req' = [kind |-> n.kind, msg |-> n, todo |-> n.items, seen |-> {}]
  BY DEF StartWith, n
<1>3. req' # NoRequest /\ req'.todo = req'.msg.items
  BY <1>1, <1>2 DEF NoRequest
<1>4. sessions = saved.sessions /\ saved' = saved
  BY DEF Begin, RequestInv, StartWith
<1>5. ASSUME NEW i \in DOMAIN sessions
      PROVE  /\ i \in DOMAIN sessions'
             /\ Forward(sessions[i], sessions'[i])
             /\ sessions'[i].initial_source_ip = sessions[i].initial_source_ip
  <2>1. sessions[i] \in Row
    BY DEF TypeOK, IsTable
  <2>2. /\ DOMAIN sessions' = DOMAIN sessions
        /\ Leaves(sessions[i], sessions'[i], {"REBOOT"})
        /\ sessions'[i].last_connected_at = sessions[i].last_connected_at
        /\ sessions'[i].last_disconnected_at = sessions[i].last_disconnected_at
    BY BeginLeaves
  <2>3. Forward(sessions[i], sessions'[i])
    BY <2>1, <2>2, AdvancesSame DEF Forward, Row
  <2>4. sessions'[i].initial_source_ip = sessions[i].initial_source_ip
    BY <2>2 DEF Leaves
  <2> QED BY <2>2, <2>3, <2>4
<1> QED BY <1>3, <1>4, <1>5 DEF RequestInv, SoFar, OriginKept

LEMMA ItemRequest ==
    ASSUME TypeOK, TypeOK', ConsistentInv, RequestInv, NEW x, IngestEvent(x) \/ Observe(x)
    PROVE  RequestInv'
<1>1. /\ req # NoRequest /\ req' # NoRequest
      /\ req'.kind = req.kind /\ req'.msg = req.msg
      /\ x \in req.todo /\ req'.todo \subseteq req.todo
      /\ saved' = saved
      /\ IngestEvent(x) => req.kind = "events"
      /\ Observe(x) => req.kind = "snapshot"
  BY ItemOfRequest
<1>2. req'.todo \subseteq req'.msg.items /\ x \in req.msg.items
  BY <1>1 DEF RequestInv
<1>3. PostsLogon' <=> PostsLogon
  BY <1>1 DEF PostsLogon
<1>4. ASSUME NEW i \in DOMAIN saved.sessions
      PROVE  /\ i \in DOMAIN sessions'
             /\ OriginKept(saved.sessions[i], sessions'[i], PostsLogon)
             /\ req.kind = "events" => Forward(saved.sessions[i], sessions'[i])
  <2> DEFINE r == saved.sessions[i]
             s == sessions[i]
             t == sessions'[i]
  <2>1. /\ i \in DOMAIN sessions
        /\ OriginKept(r, s, PostsLogon)
        /\ req.kind = "events" => Forward(r, s)
    BY <1>1 DEF RequestInv, SoFar
  <2>2. r \in Row /\ s \in Row
    BY <2>1 DEF TypeOK, IsTable
  <2>3. CASE IngestEvent(x)
    <3>1. i \in DOMAIN sessions' /\ Reduces(x, s, t)
      BY <2>1, <2>3, EventReduces DEF ConsistentInv
    <3>2. t \in Row
      BY <3>1 DEF TypeOK, IsTable
    <3>3. x.type = "LOGON" => PostsLogon
      BY <1>1, <1>2, <2>3 DEF PostsLogon
    <3> HIDE DEF r, s, t
    <3>4. OriginKept(r, t, PostsLogon)
      BY <2>1, <3>1, <3>3, OriginKeptFurther DEF Reduces
    <3>5. req.kind = "events" => Forward(r, t)
      BY <2>1, <2>2, <3>1, <3>2, ForwardFurther DEF Reduces
    <3> QED BY <3>1, <3>4, <3>5 DEF r, t
  <2>4. CASE Observe(x)
    <3>1. i \in DOMAIN sessions' /\ Leaves(s, t, {})
      BY <2>1, <2>4, ObserveLeaves
    <3>2. OriginKept(r, t, PostsLogon)
      BY <2>1, <3>1 DEF Leaves, OriginKept
    <3> QED BY <1>1, <2>4, <3>1, <3>2
  <2> QED BY <2>3, <2>4
<1> QED BY <1>1, <1>2, <1>3, <1>4 DEF RequestInv, SoFar

LEMMA RequestStep ==
    ASSUME TypeOK, TypeOK', ConsistentInv, RequestInv, [Next]_vars
    PROVE  /\ RequestInv'
           /\ saved' # saved =>
                 /\ FinishEvents \/ FinishSnapshot
                 /\ \A i \in DOMAIN saved.sessions :
                       SoFar(saved.sessions[i], saved'.sessions[i])
<1>1. CASE Begin
  BY <1>1, BeginRequest DEF Begin, StartWith
<1>2. CASE \E x \in req.todo : IngestEvent(x) \/ Observe(x)
  BY <1>2, ItemRequest, ItemStep
<1>3. CASE FinishEvents \/ FinishSnapshot
  <2>1. req # NoRequest
    BY <1>3 DEF FinishEvents, FinishSnapshot, NoRequest
  <2>2. ASSUME NEW i \in DOMAIN saved.sessions
        PROVE  SoFar(saved.sessions[i], saved'.sessions[i])
    <3>1. i \in DOMAIN sessions /\ SoFar(saved.sessions[i], sessions[i])
      BY <2>1 DEF RequestInv
    <3>2. /\ Leaves(sessions[i], sessions'[i], {"RECONCILIATION"})
          /\ FinishEvents => sessions' = sessions
          /\ saved'.sessions = sessions'
      BY <1>3, <3>1, FinishLeaves
    <3>3. FinishSnapshot => req.kind = "snapshot"
      BY DEF FinishSnapshot
    <3>4. CASE FinishEvents
      BY <3>1, <3>2, <3>4
    <3>5. CASE FinishSnapshot
      BY <3>1, <3>2, <3>3, <3>5 DEF Leaves, SoFar, OriginKept
    <3> QED BY <1>3, <3>4, <3>5
  <2> QED BY <1>3, <2>2, FinishStep DEF RequestInv
<1>4. CASE Fail
  BY <1>4 DEF Fail, RequestInv
<1>5. CASE UNCHANGED vars
  BY <1>5 DEF vars, RequestInv, SoFar, PostsLogon
<1> QED BY <1>1, <1>2, <1>3, <1>4, <1>5 DEF Next, Handle

(* A committed row that ended by LOGOFF ended when a LOGOFF of its session *)
(* was accepted for, and not before its logon, in whatever order, number   *)
(* and grouping the events came.                                           *)
THEOREM LogoffAlwaysBacked == Spec => []LogoffIsBacked
<1>1. Init => BackedInv
  BY ConsistentInitial DEF Init, Store, BackedInv, Backed
<1>2. TypeOK /\ BackedInv /\ [Next]_vars => BackedInv'
  BY BackedStep, ConsistentInductive DEF BackedInv
<1>3. BackedInv => LogoffIsBacked
  BY DEF BackedInv, Backed, BackedBy, Behind, LogoffIsBacked, Accepted
<1> QED BY <1>1, <1>2, <1>3, TypeCorrect, PTL DEF Spec

LEMMA RequestInitial == Init => RequestInv
BY DEF Init, Store, RequestInv

(* No commit changes an initial source address that is known, and none but *)
(* that of a batch with a LOGON fills one that is missing.                 *)
THEOREM OriginStaysFrozen == Spec => OriginFrozen
<1>1. TypeOK /\ TypeOK' /\ ConsistentInv /\ RequestInv /\ [Next]_vars => RequestInv'
  BY RequestStep
<1>2. TypeOK /\ ConsistentInv /\ [Next]_vars => ConsistentInv'
  BY ConsistentInductive
<1>3. TypeOK /\ TypeOK' /\ ConsistentInv /\ RequestInv /\ [Next]_vars =>
         [\A i \in DOMAIN saved.sessions :
             saved'.sessions[i].initial_source_ip # saved.sessions[i].initial_source_ip =>
                 /\ saved.sessions[i].initial_source_ip = NULL
                 /\ \E e \in req.msg.items : /\ req.kind = "events"
                                             /\ e.type = "LOGON"]_vars
  BY RequestStep DEF SoFar, OriginKept, PostsLogon
<1> QED BY <1>1, <1>2, <1>3, ConsistentInitial, RequestInitial, TypeCorrect, PTL
        DEF Spec, OriginFrozen

(* No batch moves the time a session was last connected or disconnected    *)
(* back, nor unsets it, however late its events are.                       *)
THEOREM TimesOnlyAdvance == Spec => TimesAdvance
<1>1. TypeOK /\ TypeOK' /\ ConsistentInv /\ RequestInv /\ [Next]_vars => RequestInv'
  BY RequestStep
<1>2. TypeOK /\ ConsistentInv /\ [Next]_vars => ConsistentInv'
  BY ConsistentInductive
<1>3. TypeOK /\ TypeOK' /\ ConsistentInv /\ RequestInv /\ [Next]_vars =>
         [FinishEvents =>
             \A i \in DOMAIN saved.sessions :
                 LET s == saved.sessions[i]
                     t == saved'.sessions[i]
                 IN  /\ Advances(s.last_connected_at, t.last_connected_at)
                     /\ Advances(s.last_disconnected_at, t.last_disconnected_at)]_vars
  <2> SUFFICES ASSUME TypeOK, TypeOK', ConsistentInv, RequestInv, [Next]_vars,
                      FinishEvents, NEW i \in DOMAIN saved.sessions
               PROVE  Forward(saved.sessions[i], saved'.sessions[i])
    BY DEF Forward
  <2>1. req.kind = "events"
    BY DEF FinishEvents
  <2>2. CASE saved' # saved
    BY <2>1, <2>2, RequestStep DEF SoFar
  <2>3. CASE saved' = saved
    BY <2>3, AdvancesSame DEF TypeOK, IsTable, Row, Forward
  <2> QED BY <2>2, <2>3
<1> QED BY <1>1, <1>2, <1>3, ConsistentInitial, RequestInitial, TypeCorrect, PTL
        DEF Spec, TimesAdvance

-----------------------------------------------------------------------------
(* The state of an open session and its two times.                         *)

\* A row that is closed claims nothing.
LEMMA ClosedUpToDate ==
    ASSUME NEW s \in Row, NEW at, NEW reason PROVE UpToDate(Closed(s, at, reason))
<1>1. Closed(s, at, reason).state = "CLOSED"
  BY DEF Closed, Row
<1> QED BY <1>1 DEF UpToDate

\* An event leaves a row, or makes it a LOGON's, or brings it up to date.
Wins(m, e, s, t) ==
    \/ t = s
    \/ UpToDate(t)
    \/ e.type = "LOGON" /\ Concerns(m, e, t)

LEMMA EventWins ==
    ASSUME TypeOK, ConsistentInv, NEW e, IngestEvent(e), NEW i \in DOMAIN sessions
    PROVE  /\ i \in DOMAIN sessions'
           /\ Wins(req.msg, e, sessions[i], sessions'[i])
<1>1. \A k \in OpenSessions(req.msg, e) : sessions[k] \in Row
  BY DEF OpenSessions, Stored, TypeOK, IsTable
<1>2. e \in Event /\ req \in Request(Event, "events")
  BY EventRequest DEF IngestEvent, SkipDuplicate, LogonDelayed, Unattached, LogonNew,
                      LogonOpen, Disconnect, Reconnect, Logoff, Accept, NextEvent, Request
<1>3. /\ i \in DOMAIN sessions'
      /\ sessions'[i] # sessions[i] => Concerns(req.msg, e, sessions'[i])
  BY EventReduces DEF ConsistentInv
<1>4. CASE e.type = "LOGON"
  BY <1>3, <1>4 DEF Wins
<1>5. ASSUME NEW k, NEW row, Update(k, row), UpToDate(row)
      PROVE  Wins(req.msg, e, sessions[i], sessions'[i])
  BY <1>5 DEF Update, Wins
<1>6. CASE UNCHANGED sessions
  BY <1>6 DEF Wins
<1>7. CASE SkipDuplicate(e) \/ LogonDelayed(e) \/ Unattached(e)
  BY <1>6, <1>7 DEF SkipDuplicate, LogonDelayed, Unattached, NoEffect
<1>8. ASSUME NEW k, Disconnect(e, k) PROVE Wins(req.msg, e, sessions[i], sessions'[i])
  <2> DEFINE s == sessions[k]
             row == [s EXCEPT !.state = "DISCONNECTED",
                              !.last_disconnected_at = e.occurred_at,
                              !.disconnect_count = @ + 1]
             stale == \/ LaterThan(s.last_connected_at, e.occurred_at)
                      \/ LaterThan(s.last_disconnected_at, e.occurred_at)
  <2>1. k \in OpenSessions(req.msg, e) /\ (NoEffect \/ (~stale /\ Update(k, row)))
    BY <1>8 DEF Disconnect
  <2>2. /\ row.state = "DISCONNECTED"
        /\ row.last_disconnected_at = e.occurred_at
        /\ row.last_connected_at = s.last_connected_at
    BY <1>1, <2>1 DEF Row
  <2>3. e.occurred_at \in Times /\ s.last_connected_at \in Maybe(Times)
    BY <1>1, <1>2, <2>1 DEF Event, Row
  <2> HIDE DEF row
  <2>4. ~stale => UpToDate(row)
    BY <2>2, <2>3, NullAssumption DEF UpToDate, LaterThan, Maybe, Times
  <2> QED BY <1>5, <1>6, <2>1, <2>4 DEF NoEffect
<1>9. ASSUME NEW k, Reconnect(e, k) PROVE Wins(req.msg, e, sessions[i], sessions'[i])
  <2> DEFINE s == sessions[k]
             row == [s EXCEPT !.state = "ACTIVE",
                              !.last_connected_at = e.occurred_at,
                              !.last_source_ip = Default(e.source_ip, @)]
             stale == \/ LaterThan(s.last_disconnected_at, e.occurred_at)
                      \/ LaterThan(s.last_connected_at, e.occurred_at)
  <2>1. k \in OpenSessions(req.msg, e) /\ (NoEffect \/ (~stale /\ Update(k, row)))
    BY <1>9 DEF Reconnect
  <2>2. /\ row.state = "ACTIVE"
        /\ row.last_connected_at = e.occurred_at
        /\ row.last_disconnected_at = s.last_disconnected_at
    BY <1>1, <2>1 DEF Row
  <2>3. e.occurred_at \in Times /\ s.last_disconnected_at \in Maybe(Times)
    BY <1>1, <1>2, <2>1 DEF Event, Row
  <2> HIDE DEF row
  <2>4. ~stale => UpToDate(row)
    BY <2>2, <2>3, NullAssumption DEF UpToDate, LaterThan, Maybe, Times
  <2> QED BY <1>5, <1>6, <2>1, <2>4 DEF NoEffect
<1>10. ASSUME NEW k, Logoff(e, k) PROVE Wins(req.msg, e, sessions[i], sessions'[i])
  <2>1. /\ k \in OpenSessions(req.msg, e)
        /\ \/ UNCHANGED sessions
           \/ Update(k, Closed(sessions[k], e.occurred_at, "LOGOFF"))
    BY <1>10 DEF Logoff, NoEffect
  <2> QED BY <1>1, <1>5, <1>6, <2>1, ClosedUpToDate
<1>11. ASSUME NEW k, LogonNew(e, k) \/ LogonOpen(e, k) PROVE e.type = "LOGON"
  BY <1>11 DEF LogonNew, LogonOpen
<1> QED BY <1>3, <1>4, <1>7, <1>8, <1>9, <1>10, <1>11 DEF IngestEvent

\* The beginning of a request leaves the connection of a row or ends the row.
LEMMA BeginWins ==
    ASSUME TypeOK, Begin, NEW i \in DOMAIN sessions
    PROVE  /\ DOMAIN sessions' = DOMAIN sessions
           /\ \/ Connection(sessions'[i]) = Connection(sessions[i])
              \/ UpToDate(sessions'[i])
<1> PICK m \in Messages : StartWith(Normalize(m))
  BY DEF Begin
<1> DEFINE n == Normalize(m)
<1> HIDE DEF n
<1>1. sessions[i] \in Row
  BY DEF TypeOK, IsTable
<1>2. CASE KeepBoot(n)
  <2> DEFINE t == [sessions[i] EXCEPT !.boot_id = n.boot_id]
  <2>1. Connection(t) = Connection(sessions[i])
    BY <1>1 DEF Row, Connection
  <2>2. /\ DOMAIN sessions' = DOMAIN sessions
        /\ sessions'[i] \in {t, sessions[i]}
    BY <1>2 DEF KeepBoot
  <2> HIDE DEF t
  <2> QED BY <2>1, <2>2
<1>3. CASE ChangeBoot(n)
  <2>1. PICK at : /\ DOMAIN sessions' = DOMAIN sessions
                  /\ sessions'[i] \in {sessions[i], Closed(sessions[i], at, "REBOOT")}
    BY <1>3 DEF ChangeBoot
  <2> QED BY <1>1, <2>1, ClosedUpToDate
<1> QED BY <1>2, <1>3 DEF StartWith, n

\* Row s of the committed table is row t of the open transaction.
Settled(s, t) ==
    \/ Connection(t) = Connection(s)
    \/ UpToDate(t)
    \/ \E e \in req.msg.items : e.type = "LOGON" /\ Concerns(req.msg, e, t)

SettledInv ==
    req.kind = "events" =>
        \A i \in DOMAIN saved.sessions :
            i \in DOMAIN sessions /\ Settled(saved.sessions[i], sessions[i])

LEMMA ItemSettled ==
    ASSUME TypeOK, ConsistentInv, RequestInv, SettledInv, NEW x, IngestEvent(x)
    PROVE  SettledInv'
<1>1. /\ req # NoRequest /\ req.kind = "events" /\ req'.msg = req.msg
      /\ x \in req.todo /\ saved' = saved
  BY ItemOfRequest
<1>2. x \in req.msg.items
  BY <1>1 DEF RequestInv
<1> SUFFICES ASSUME NEW i \in DOMAIN saved.sessions
             PROVE  i \in DOMAIN sessions' /\ Settled(saved.sessions[i], sessions[i])'
  BY <1>1 DEF SettledInv
<1> DEFINE r == saved.sessions[i]
           s == sessions[i]
           t == sessions'[i]
<1>3. i \in DOMAIN sessions /\ Settled(r, s)
  BY <1>1 DEF SettledInv
<1>4. i \in DOMAIN sessions' /\ Wins(req.msg, x, s, t)
  BY <1>3, EventWins
<1>5. s # t => Concerns(req.msg, x, s) /\ Concerns(req.msg, x, t)
  BY <1>3, EventReduces DEF ConsistentInv
<1>6. ASSUME NEW f, Concerns(req.msg, f, s) PROVE Concerns(req.msg, f, t)
  BY <1>5, <1>6 DEF Concerns, SameUser
<1>7. Settled(r, t)
  BY <1>2, <1>3, <1>4, <1>6 DEF Settled, Wins
<1> QED BY <1>1, <1>4, <1>7 DEF Settled

LEMMA SettledStep ==
    ASSUME TypeOK, ConsistentInv, RequestInv, SettledInv, [Next]_vars
    PROVE  SettledInv'
<1>1. CASE Begin
  <2>1. sessions = saved.sessions /\ saved' = saved
    BY <1>1 DEF Begin, RequestInv, StartWith
  <2> QED BY <1>1, <2>1, BeginWins DEF SettledInv, Settled
<1>2. ASSUME NEW x \in req.todo, IngestEvent(x) PROVE SettledInv'
  BY <1>2, ItemSettled
<1>3. ASSUME NEW x \in req.todo, Observe(x) PROVE SettledInv'
  <2>1. req'.kind = "snapshot"
    BY <1>3, ItemOfRequest
  <2> QED BY <2>1 DEF SettledInv
<1>4. CASE FinishEvents \/ FinishSnapshot \/ Fail
  <2>1. req' = NoRequest
    BY <1>4 DEF FinishEvents, FinishSnapshot, Commit, Fail
  <2> QED BY <2>1 DEF SettledInv, NoRequest
<1>5. CASE UNCHANGED vars
  BY <1>5 DEF vars, SettledInv, Settled
<1> QED BY <1>1, <1>2, <1>3, <1>4, <1>5 DEF Next, Handle

(* Of a DISCONNECT and a RECONNECT the later decides: a batch without a    *)
(* LOGON of a session leaves its state and times as they were, or leaves   *)
(* it in the state of the later time, for every set of messages.           *)
THEOREM LaterTransitionsWin == Spec => LaterTransitionWins
<1>1. TypeOK /\ TypeOK' /\ ConsistentInv /\ RequestInv /\ [Next]_vars => RequestInv'
  BY RequestStep
<1>2. TypeOK /\ ConsistentInv /\ [Next]_vars => ConsistentInv'
  BY ConsistentInductive
<1>3. TypeOK /\ ConsistentInv /\ RequestInv /\ SettledInv /\ [Next]_vars => SettledInv'
  BY SettledStep
<1>4. SettledInv /\ [Next]_vars =>
         [FinishEvents =>
             \A i \in DOMAIN saved.sessions :
                 LET s == saved.sessions[i]
                     t == saved'.sessions[i]
                 IN  \/ Connection(t) = Connection(s)
                     \/ UpToDate(t)
                     \/ \E e \in req.msg.items : /\ e.type = "LOGON"
                                                 /\ Concerns(req.msg, e, t)]_vars
  <2> SUFFICES ASSUME SettledInv, FinishEvents, NEW i \in DOMAIN saved.sessions
               PROVE  Settled(saved.sessions[i], saved'.sessions[i])
    BY DEF Settled
  <2> QED BY DEF SettledInv, FinishEvents, Commit
<1>5. Init => SettledInv
  BY DEF Init, NoRequest, SettledInv
<1> QED BY <1>1, <1>2, <1>3, <1>4, <1>5, ConsistentInitial, RequestInitial, TypeCorrect,
           PTL DEF Spec, LaterTransitionWins

-----------------------------------------------------------------------------
(* Rows of the other protocol.                                             *)

\* An item changes rows of the protocol its message names.
LEMMA ItemInProtocol ==
    ASSUME TypeOK, ConsistentInv, NEW x, IngestEvent(x) \/ Observe(x),
           NEW i \in DOMAIN sessions, sessions[i].protocol # req.msg.protocol
    PROVE  i \in DOMAIN sessions' /\ sessions'[i] = sessions[i]
<1>1. CASE IngestEvent(x)
  BY <1>1, EventReduces DEF Concerns, ConsistentInv
<1>2. CASE Observe(x)
  <2>1. ASSUME NEW k \in SessionIds, ObserveNew(x, k)
        PROVE  i \in DOMAIN sessions' /\ sessions'[i] = sessions[i]
    BY <2>1, ObserveNewStep DEF InsertStep
  <2>2. ASSUME NEW k \in SessionIds, ObserveKnown(x, k)
        PROVE  i \in DOMAIN sessions' /\ sessions'[i] = sessions[i]
    <3>1. i # k
      BY <2>2 DEF ObserveKnown, OpenSessions, Concerns
    <3> QED BY <2>2, <3>1 DEF ObserveKnown, Update
  <2> QED BY <1>2, <2>1, <2>2 DEF Observe
<1> QED BY <1>1, <1>2

\* The request in progress found the server in the boot it names.
StaysInBoot == saved.server.last_boot_id = req.msg.boot_id

ApartInv ==
    /\ ConsistentInv
    /\ req = NoRequest => sessions = saved.sessions /\ server = saved.server
    /\ req # NoRequest /\ StaysInBoot =>
          \A i \in DOMAIN saved.sessions :
              /\ i \in DOMAIN sessions
              /\ saved.sessions[i].protocol # req.msg.protocol =>
                     sessions[i] = saved.sessions[i]

LEMMA ApartStep ==
    ASSUME TypeOK, ApartInv, [Next]_vars
    PROVE  /\ ApartInv'
           /\ (FinishEvents \/ FinishSnapshot) /\ StaysInBoot =>
                 \A i \in DOMAIN saved.sessions :
                     saved.sessions[i].protocol # req.msg.protocol =>
                         saved'.sessions[i] = saved.sessions[i]
<1>1. ConsistentInv'
  BY ConsistentInductive DEF ApartInv
<1>2. CASE Begin
  <2> PICK m \in Messages : StartWith(Normalize(m))
    BY <1>2 DEF Begin
  <2> DEFINE n == Normalize(m)
  <2>1. n.kind # "idle"
    BY NormalizeType DEF NormalForm
  <2> HIDE DEF n
  <2>2. /\ req' = [kind |-> n.kind, msg |-> n, todo |-> n.items, seen |-> {}]
        /\ saved' = saved
    BY DEF StartWith, n
  <2>3. req' # NoRequest /\ req'.msg = n
    BY <2>1, <2>2 DEF NoRequest
  <2>4. req = NoRequest /\ sessions = saved.sessions /\ server = saved.server
    BY <1>2 DEF Begin, ApartInv
  <2>5. server.last_boot_id = n.boot_id => sessions' = sessions
    <3> SUFFICES ASSUME server.last_boot_id = n.boot_id PROVE sessions' = sessions
      OBVIOUS
    <3>1. KeepBoot(n) /\ Adopted(n) = {}
      BY DEF StartWith, ChangeBoot, Adopted, n
    <3>2. sessions' = [i \in DOMAIN sessions |-> sessions[i]]
      BY <3>1 DEF KeepBoot
    <3> QED BY <3>2 DEF TypeOK, IsTable
  <2>6. ~FinishEvents /\ ~FinishSnapshot
    BY <2>4 DEF FinishEvents, FinishSnapshot, NoRequest
  <2> QED BY <1>1, <2>2, <2>3, <2>4, <2>5, <2>6 DEF ApartInv, StaysInBoot
<1>3. CASE \E x \in req.todo : IngestEvent(x) \/ Observe(x)
  <2> PICK x \in req.todo : IngestEvent(x) \/ Observe(x)
    BY <1>3
  <2>1. /\ req # NoRequest /\ req' # NoRequest /\ req'.msg = req.msg /\ saved' = saved
    BY ItemOfRequest
  <2>2. DOMAIN sessions \subseteq DOMAIN sessions'
    BY ItemStep DEF RowStep, InsertStep
  <2>3. ~FinishEvents /\ ~FinishSnapshot
    BY <2>1 DEF FinishEvents, FinishSnapshot, Commit
  <2> QED BY <1>1, <2>1, <2>2, <2>3, ItemInProtocol DEF ApartInv, StaysInBoot
<1>4. CASE FinishEvents \/ FinishSnapshot
  <2>1. /\ req # NoRequest
        /\ req' = NoRequest
        /\ saved'.sessions = sessions' /\ saved'.server = server /\ server' = server
    BY <1>4, FinishStep DEF FinishEvents, FinishSnapshot, NoRequest
  <2>2. \A i \in DOMAIN sessions :
           sessions[i].protocol # req.msg.protocol => sessions'[i] = sessions[i]
    BY <1>4 DEF FinishEvents, FinishSnapshot, Missing
  <2> QED BY <1>1, <2>1, <2>2 DEF ApartInv
<1>5. CASE Fail
  BY <1>1, <1>5 DEF Fail, ApartInv, FinishEvents, FinishSnapshot, Commit
<1>6. CASE UNCHANGED vars
  BY <1>1, <1>6 DEF vars, ApartInv, StaysInBoot, FinishEvents, FinishSnapshot, Commit
<1> QED BY <1>2, <1>3, <1>4, <1>5, <1>6 DEF Next, Handle

(* A request of one protocol leaves every row of the other as it was, as   *)
(* long as it names the boot the server is in.                             *)
THEOREM ProtocolsStayApart == Spec => ProtocolsApart
<1>1. Init => ApartInv
  BY ConsistentInitial DEF Init, Store, ApartInv
<1>2. TypeOK /\ ApartInv /\ [Next]_vars => ApartInv'
  BY ApartStep
<1>3. TypeOK /\ ApartInv /\ [Next]_vars =>
         [(FinishEvents \/ FinishSnapshot)
             /\ saved.server.last_boot_id = req.msg.boot_id =>
             \A i \in DOMAIN saved.sessions :
                 saved.sessions[i].protocol # req.msg.protocol =>
                     saved'.sessions[i] = saved.sessions[i]]_vars
  BY ApartStep DEF StaysInBoot
<1> QED BY <1>1, <1>2, <1>3, TypeCorrect, PTL DEF Spec, ProtocolsApart

-----------------------------------------------------------------------------
(***************************************************************************)
(* A server whose Agents all speak one contract.  Its open rows belong to  *)
(* the boot the servers row names, no two of them stand for one session,   *)
(* no count exceeds the events behind it, a server that booted once has no *)
(* session ended by REBOOT, a snapshot leaves open what it showed, and     *)
(* every request is a step of SessionLifecycle.  With both contracts on    *)
(* one server the first of these fails: the second contract leaves the     *)
(* boot time of the first in place, and a later message of the first       *)
(* contract takes the boot for the same one and renames rows, whose events *)
(* keep the old name.  The replay of a batch is safe under both.           *)
(***************************************************************************)
OneContract == \A m, n \in Messages : m.contract = n.contract

-----------------------------------------------------------------------------
(* The boot the servers row names.                                         *)

\* The quotient and the remainder of a time.
LEMMA Division ==
    \A t \in Nat : /\ t \div TicksPerSecond \in Int
                   /\ t % TicksPerSecond \in 0..(TicksPerSecond - 1)
                   /\ t = TicksPerSecond * (t \div TicksPerSecond) + (t % TicksPerSecond)
BY TicksAssumption

\* k, q and p stand for the divisor and two quotients.
LEMMA OneQuotient ==
    ASSUME NEW k \in Nat, NEW q \in Int, NEW p \in Int, NEW r \in 0..(k - 1),
           k * q = k * p + r
    PROVE  r = 0
<1>1. r = k * (q - p)
  OBVIOUS
<1>2. CASE q - p >= 1
  <2>1. k * (q - p) >= k
    BY <1>2
  <2> QED BY <1>1, <2>1
<1>3. CASE q - p <= 0 - 1
  <2>1. k * (q - p) <= 0 - k
    BY <1>3
  <2> QED BY <1>1, <2>1
<1>4. CASE q = p
  BY <1>1, <1>4
<1> QED BY <1>2, <1>3, <1>4

\* Rounding a rounded boot time changes nothing.
LEMMA RoundedBootTime ==
    \A t \in Nat : NormalizeBootTime(NormalizeBootTime(t)) = NormalizeBootTime(t)
<1> SUFFICES ASSUME NEW t \in Nat
             PROVE  NormalizeBootTime(NormalizeBootTime(t)) = NormalizeBootTime(t)
  OBVIOUS
<1> DEFINE k == TicksPerSecond
           u == NormalizeBootTime(t)
           q == t \div k
           p == u \div k
           r == u % k
<1>1. k \in Nat
  BY TicksAssumption
<1>2. u \in Nat
  BY BootTimeType
<1>3. q \in Int /\ p \in Int /\ r \in 0..(k - 1)
  BY <1>2, Division
<1>4. t = k * q + (t % k) /\ t % k \in Int /\ k * q \in Int
  BY <1>1, <1>3, Division
<1>5. u = t - (t % k)
  BY DEF NormalizeBootTime
<1>6. u = k * p + r
  BY <1>2, Division
<1>7. u - r = NormalizeBootTime(u)
  BY DEF NormalizeBootTime
<1> DEFINE a == k * q
           b == t % k
<1> HIDE DEF p, q, r, u, a, b
<1>8. u = a
  BY <1>4, <1>5 DEF a, b
<1>9. r = 0
  BY <1>1, <1>3, <1>6, <1>8, OneQuotient DEF a
<1> QED BY <1>2, <1>7, <1>9 DEF u

\* A boot time is recorded by contract 1 only, with the boot id it spells.
BootNamed(s) ==
    /\ s.last_boot_at # NULL =>
          /\ s.last_boot_id = <<"v1", s.last_boot_at>>
          /\ NormalizeBootTime(s.last_boot_at) = s.last_boot_at
    /\ (\A m \in Messages : m.contract = 2) => s.last_boot_at = NULL

LEMMA BootNamedStep ==
    ASSUME OneContract, BootNamed(server), NEW m \in Messages, StartWith(Normalize(m))
    PROVE  BootNamed(server')
<1> DEFINE n == Normalize(m)
<1>1. server' = ServerAfter(n)
  BY DEF StartWith
<1>2. CASE m.contract = 1
  <2>1. m.boot_time \in Times
    BY <1>2, MessagesAssumption DEF V1Message, V2Message
  <2>2. n.boot_time = NormalizeBootTime(m.boot_time) /\ n.boot_id = <<"v1", n.boot_time>>
    BY <1>2 DEF Normalize, NormalizeV1, V1BootId
  <2>3. n.boot_time # NULL /\ NormalizeBootTime(n.boot_time) = n.boot_time
    BY <2>1, <2>2, BootTimeType, RoundedBootTime, NullAssumption DEF Times
  <2> HIDE DEF n
  <2> QED BY <1>1, <1>2, <2>2, <2>3 DEF ServerAfter, BootNamed
<1>3. CASE m.contract = 2
  <2>1. n.boot_time = NULL
    BY <1>3 DEF Normalize, NormalizeV2
  <2>2. \A l \in Messages : l.contract = 2
    BY <1>3 DEF OneContract
  <2>3. server.last_boot_at = NULL
    BY <2>2 DEF BootNamed
  <2> HIDE DEF n
  <2> QED BY <1>1, <2>1, <2>3 DEF ServerAfter, BootNamed
<1>4. m.contract \in {1, 2}
  BY MessagesAssumption DEF V1Message, V2Message
<1> QED BY <1>2, <1>3, <1>4

\* Then a message of the same boot time carries the same boot id.
LEMMA SameTimeSameId ==
    ASSUME BootNamed(server), NEW m \in Messages, SameLegacyBoot(Normalize(m))
    PROVE  server.last_boot_id = Normalize(m).boot_id
<1> DEFINE n == Normalize(m)
<1>1. m.contract = 1
  BY MessagesAssumption
     DEF SameLegacyBoot, Normalize, NormalizeV2, V1Message, V2Message
<1>2. n.boot_id = <<"v1", n.boot_time>>
  BY <1>1 DEF Normalize, NormalizeV1, V1BootId
<1> QED BY <1>2 DEF SameLegacyBoot, BootNamed

-----------------------------------------------------------------------------
(* The invariant: one open row per identity, all of the boot in effect, in *)
(* the open transaction and in the committed database.                     *)

OneSession(T, s) == OneOpen(T) /\ Current(T, s.last_boot_id) /\ BootNamed(s)

IdentityInv ==
    /\ OneSession(sessions, server)
    /\ OneSession(saved.sessions, saved.server)
    /\ unflushed = {}
    /\ req # NoRequest => req.msg.boot_id = server.last_boot_id

\* An open row after a step on rows was open before it, in the same identity.
LEMMA OneOpenRowStep ==
    ASSUME RowStep, OneOpen(sessions), NEW boot, Current(sessions, boot)
    PROVE  OneOpen(sessions') /\ Current(sessions', boot)
<1>1. ASSUME NEW i \in DOMAIN sessions', IsOpen(sessions'[i])
      PROVE  /\ i \in DOMAIN sessions
             /\ IsOpen(sessions[i])
             /\ SameIdentity(sessions[i], sessions'[i])
             /\ sessions'[i].boot_id = sessions[i].boot_id
  BY <1>1 DEF RowStep, Evolves, SameIdentity, SameUser
<1>2. OneOpen(sessions')
  <2> SUFFICES ASSUME NEW i \in DOMAIN sessions', NEW j \in DOMAIN sessions',
                      IsOpen(sessions'[i]), IsOpen(sessions'[j]),
                      SameIdentity(sessions'[i], sessions'[j])
               PROVE  i = j
    BY DEF OneOpen
  <2>1. SameIdentity(sessions[i], sessions[j])
    BY <1>1 DEF SameIdentity, SameUser
  <2> QED BY <1>1, <2>1 DEF OneOpen
<1> QED BY <1>1, <1>2 DEF Current

\* So does an insertion, when every row is stored and of the request's boot.
LEMMA OneOpenInsertStep ==
    ASSUME NEW i, InsertStep(i), OneOpen(sessions), unflushed = {},
           Current(sessions, req.msg.boot_id)
    PROVE  OneOpen(sessions') /\ Current(sessions', req.msg.boot_id)
<1>1. Stored = DOMAIN sessions
  BY DEF Stored
<1>2. Current(sessions', req.msg.boot_id)
  BY DEF InsertStep, Current
<1>3. OneOpen(sessions')
  <2> SUFFICES ASSUME NEW j \in DOMAIN sessions', NEW l \in DOMAIN sessions',
                      IsOpen(sessions'[j]), IsOpen(sessions'[l]),
                      SameIdentity(sessions'[j], sessions'[l])
               PROVE  j = l
    BY DEF OneOpen
  <2>1. CASE j # i /\ l # i
    BY <2>1 DEF InsertStep, OneOpen
  <2>2. CASE j = i /\ l # i
    BY <1>1, <2>2 DEF InsertStep
  <2>3. CASE j # i /\ l = i
    <3>1. SameIdentity(sessions'[i], sessions'[j])
      BY <2>3 DEF SameIdentity, SameUser
    <3> QED BY <1>1, <2>3, <3>1 DEF InsertStep
  <2> QED BY <2>1, <2>2, <2>3
<1> QED BY <1>2, <1>3

\* A message begins in the boot it names: no row is renamed, and a change of
\* boot closes every row that was open.
LEMMA BeginIdentity ==
    ASSUME OneContract, TypeOK, IdentityInv, Begin
    PROVE  IdentityInv'
<1> PICK m \in Messages : StartWith(Normalize(m))
  BY DEF Begin
<1> DEFINE n == Normalize(m)
<1>1. server' = ServerAfter(n) /\ req' = [kind |-> n.kind, msg |-> n,
                                          todo |-> n.items, seen |-> {}]
  BY DEF StartWith
<1>2. BootNamed(server')
  BY BootNamedStep DEF IdentityInv, OneSession
<1>3. server'.last_boot_id = n.boot_id /\ req'.msg.boot_id = n.boot_id
  BY <1>1 DEF ServerAfter
<1>4. SameLegacyBoot(n) => server.last_boot_id = n.boot_id
  BY SameTimeSameId DEF IdentityInv, OneSession
<1> HIDE DEF n
<1>5. OneOpen(sessions') /\ Current(sessions', n.boot_id) /\ unflushed' = {}
  <2>1. CASE KeepBoot(n)
    <3>1. Adopted(n) = {}
      BY <1>4 DEF Adopted
    <3>2. unflushed' = {} /\ sessions' = [i \in DOMAIN sessions |-> sessions[i]]
      BY <2>1, <3>1 DEF KeepBoot
    <3>3. Current(sessions, n.boot_id)
      <4>1. CASE server.last_boot_id = n.boot_id
        BY <4>1 DEF IdentityInv, OneSession
      <4>2. CASE server.last_boot_id = NULL
        <5>1. \A i \in DOMAIN sessions : sessions[i].boot_id # NULL
          BY NullAssumption DEF TypeOK, IsTable, Row
        <5> QED BY <4>2, <5>1 DEF IdentityInv, OneSession, Current
      <4> QED BY <1>4, <2>1, <4>1, <4>2 DEF KeepBoot
    <3> QED BY <3>2, <3>3 DEF IdentityInv, OneSession, OneOpen, Current
  <2>2. CASE ChangeBoot(n)
    <3>1. \A i \in DOMAIN sessions : IsOpen(sessions[i]) => sessions[i].boot_id # n.boot_id
      BY <2>2 DEF ChangeBoot, IdentityInv, OneSession, Current
    <3>2. \A i \in DOMAIN sessions : \A at : ~IsOpen(Closed(sessions[i], at, "REBOOT"))
      <4>1. \A s \in Row : \A at : Closed(s, at, "REBOOT").state = "CLOSED"
        BY DEF Closed, Row
      <4> QED BY <4>1 DEF TypeOK, IsTable, IsOpen, OpenStates
    <3>3. DOMAIN sessions' = DOMAIN sessions
          /\ \A i \in DOMAIN sessions : ~IsOpen(sessions'[i])
      BY <2>2, <3>1, <3>2 DEF ChangeBoot
    <3> QED BY <2>2, <3>3 DEF ChangeBoot, OneOpen, Current
  <2> QED BY <2>1, <2>2 DEF StartWith, n
<1> QED BY <1>2, <1>3, <1>5 DEF StartWith, IdentityInv, OneSession

LEMMA ItemIdentity ==
    ASSUME TypeOK, IdentityInv, NEW x, IngestEvent(x) \/ Observe(x)
    PROVE  IdentityInv'
<1> DEFINE boot == server.last_boot_id
<1>1. req.msg.boot_id = boot /\ req' # NoRequest
  BY ItemStep DEF IdentityInv, NoRequest
<1>2. OneOpen(sessions') /\ Current(sessions', boot)
  <2>1. CASE RowStep
    BY <2>1, OneOpenRowStep DEF IdentityInv, OneSession
  <2>2. CASE \E i : InsertStep(i)
    BY <1>1, <2>2, OneOpenInsertStep DEF IdentityInv, OneSession
  <2> QED BY <2>1, <2>2, ItemStep
<1> QED BY <1>1, <1>2, ItemStep DEF IdentityInv, OneSession

LEMMA IdentityInductive ==
    ASSUME OneContract, TypeOK, IdentityInv, [Next]_vars
    PROVE  IdentityInv'
<1>1. CASE Begin
  BY <1>1, BeginIdentity
<1>2. CASE \E x \in req.todo : IngestEvent(x) \/ Observe(x)
  BY <1>2, ItemIdentity
<1>3. CASE FinishEvents \/ FinishSnapshot
  <2>1. OneOpen(sessions') /\ Current(sessions', server.last_boot_id)
    BY <1>3, FinishStep, OneOpenRowStep DEF IdentityInv, OneSession
  <2> QED BY <1>3, <2>1, FinishStep DEF IdentityInv, OneSession
<1>4. CASE Fail
  BY <1>4 DEF Fail, IdentityInv
<1>5. CASE UNCHANGED vars
  BY <1>5 DEF vars, IdentityInv, OneSession
<1> QED BY <1>1, <1>2, <1>3, <1>4, <1>5 DEF Next, Handle

LEMMA IdentityInitial == Init => IdentityInv
BY DEF Init, Store, IdentityInv, OneSession, OneOpen, Current, BootNamed

(* At most one open row per protocol, boot, session id and user, in every  *)
(* reachable database of a server whose messages share one contract.       *)
THEOREM OneOpenAlways ==
    ASSUME OneContract PROVE Spec => []OneOpenPerIdentity
<1>1. TypeOK /\ IdentityInv /\ [Next]_vars => IdentityInv'
  BY IdentityInductive
<1>2. IdentityInv => OneOpenPerIdentity
  BY DEF IdentityInv, OneSession, OneOpenPerIdentity
<1> QED BY <1>1, <1>2, IdentityInitial, TypeCorrect, PTL DEF Spec

(* The open rows of such a server all belong to the boot it last reported. *)
THEOREM OpenRowsOfThisBoot ==
    ASSUME OneContract PROVE Spec => []OpenInCurrentBoot
<1>1. TypeOK /\ IdentityInv /\ [Next]_vars => IdentityInv'
  BY IdentityInductive
<1>2. IdentityInv => OpenInCurrentBoot
  BY DEF IdentityInv, OneSession, OpenInCurrentBoot
<1> QED BY <1>1, <1>2, IdentityInitial, TypeCorrect, PTL DEF Spec

-----------------------------------------------------------------------------
(* The DISCONNECTs behind a count.  A row keeps its identity, so what is   *)
(* behind it only grows, by one new event whenever the row counts one.     *)

Counted(T, E) ==
    /\ IsFiniteSet(E)
    /\ \A i \in DOMAIN T :
          T[i].disconnect_count <= Cardinality(Behind(E, "DISCONNECT", T[i]))

CountedInv ==
    /\ ConsistentInv
    /\ IdentityInv
    /\ Counted(sessions, events)
    /\ Counted(saved.sessions, saved.events)

LEMMA BehindFinite ==
    ASSUME NEW E, IsFiniteSet(E), NEW type, NEW s
    PROVE  IsFiniteSet(Behind(E, type, s)) /\ Cardinality(Behind(E, type, s)) \in Nat
<1>1. Behind(E, type, s) \subseteq E
  BY DEF Behind
<1> QED BY <1>1, FS_Subset, FS_CardinalityType

\* The same session, after more events: no fewer of them are behind it.
LEMMA BehindGrows ==
    ASSUME NEW E, NEW F, E \subseteq F, IsFiniteSet(F), NEW type,
           NEW s, NEW t, SameIdentity(s, t)
    PROVE  /\ Behind(E, type, s) \subseteq Behind(F, type, t)
           /\ Cardinality(Behind(E, type, s)) <= Cardinality(Behind(F, type, t))
<1>1. Behind(E, type, s) \subseteq Behind(F, type, t)
  BY DEF Behind, Concerns, SameIdentity, SameUser
<1>2. IsFiniteSet(Behind(F, type, t))
  BY BehindFinite
<1> QED BY <1>1, <1>2, FS_Subset

LEMMA SelfIdentity == \A s : SameIdentity(s, s)
BY DEF SameIdentity, SameUser

\* An accepted event that the session did not have yet is one more.
LEMMA BehindOneMore ==
    ASSUME IsFiniteSet(events), NEW e, Accept(e), NEW s, NEW t, SameIdentity(s, t),
           Concerns(req.msg, e, s)
    PROVE  Cardinality(Behind(events', e.type, t))
               >= Cardinality(Behind(events, e.type, s)) + 1
<1> DEFINE row == EventRow(req.msg, e)
           A == Behind(events, e.type, s)
           B == Behind(events', e.type, t)
<1>1. events' = events \union {row} /\ row \notin events
  BY DEF Accept, IsDuplicate, EventRow
<1>2. IsFiniteSet(events')
  BY <1>1, FS_AddElement
<1>3. row \in Behind(events', e.type, s)
  BY AcceptedConcerns DEF Behind
<1>4. Behind(events', e.type, s) \subseteq B
  BY <1>2, BehindGrows
<1>5. A \union {row} \subseteq B /\ row \notin A
  <2>1. A \subseteq B
    BY <1>1, <1>2, BehindGrows
  <2> QED BY <1>1, <1>3, <1>4, <2>1 DEF Behind
<1>6. IsFiniteSet(A) /\ IsFiniteSet(B)
  BY <1>2, BehindFinite
<1> HIDE DEF A, B, row
<1>7. Cardinality(A \union {row}) = Cardinality(A) + 1 /\ IsFiniteSet(A \union {row})
  BY <1>5, <1>6, FS_AddElement
<1>8. Cardinality(A \union {row}) <= Cardinality(B)
  BY <1>5, <1>6, FS_Subset
<1>9. Cardinality(A) \in Nat /\ Cardinality(B) \in Nat
  BY <1>6, FS_CardinalityType
<1> QED BY <1>7, <1>8, <1>9 DEF A, B

\* Events are added one at a time, so the table of them stays finite.
LEMMA EventsFinite ==
    ASSUME IsFiniteSet(events), NEW x, IngestEvent(x) \/ Observe(x)
    PROVE  IsFiniteSet(events')
<1>1. events' = events \/ events' = events \union {EventRow(req.msg, x)}
  BY DEF IngestEvent, SkipDuplicate, LogonDelayed, Unattached, LogonNew, LogonOpen,
         Disconnect, Reconnect, Logoff, Accept, Observe, ObserveNew, ObserveKnown,
         NextObserved
<1> QED BY <1>1, FS_AddElement

LEMMA ItemCounted ==
    ASSUME TypeOK, CountedInv, NEW x, IngestEvent(x) \/ Observe(x)
    PROVE  Counted(sessions', events')
<1>1. IsFiniteSet(events') /\ events \subseteq events'
  BY EventsFinite, ItemOfRequest DEF CountedInv, Counted
<1>2. ASSUME NEW i \in DOMAIN sessions'
      PROVE  sessions'[i].disconnect_count
                 <= Cardinality(Behind(events', "DISCONNECT", sessions'[i]))
  <2> DEFINE s == sessions[i]
             t == sessions'[i]
             A == Behind(events, "DISCONNECT", s)
             B == Behind(events', "DISCONNECT", t)
  <2>1. Cardinality(A) \in Nat /\ Cardinality(B) \in Nat
    BY <1>1, BehindFinite DEF CountedInv, Counted
  <2>2. CASE i \in DOMAIN sessions
    <3>1. s.disconnect_count \in Nat /\ s.disconnect_count <= Cardinality(A)
      BY <2>2 DEF TypeOK, IsTable, Row, CountedInv, Counted
    <3>2. SameIdentity(s, t)
      BY <2>2, ItemStep, SelfIdentity DEF RowStep, InsertStep, Evolves
    <3>3. Cardinality(A) <= Cardinality(B)
      BY <1>1, <3>2, BehindGrows
    <3>4. CASE t.disconnect_count = s.disconnect_count
      BY <2>1, <3>1, <3>3, <3>4
    <3>5. CASE t.disconnect_count # s.disconnect_count
      <4>1. IngestEvent(x)
        BY <2>2, <3>5, ObserveLeaves DEF Leaves
      <4>2. /\ Accept(x)
            /\ Concerns(req.msg, x, s)
            /\ x.type = "DISCONNECT"
            /\ t.disconnect_count = s.disconnect_count + 1
        BY <2>2, <3>5, <4>1, EventReduces DEF Reduces, CountedInv, ConsistentInv
      <4>3. Cardinality(B) >= Cardinality(A) + 1
        BY <3>2, <4>2, BehindOneMore DEF CountedInv, Counted
      <4> QED BY <2>1, <3>1, <4>2, <4>3
    <3> QED BY <3>4, <3>5
  <2>3. CASE i \notin DOMAIN sessions
    <3>1. \E k : InsertStep(k) /\ i = k
      BY <2>3, ItemStep DEF InsertStep, RowStep
    <3>2. t.disconnect_count = 0
      BY <3>1 DEF InsertStep
    <3> QED BY <2>1, <3>2
  <2> QED BY <2>2, <2>3
<1> QED BY <1>1, <1>2 DEF Counted

\* Under one contract a message that begins renames no row.
LEMMA BeginKeepsNames == ASSUME OneContract, TypeOK, IdentityInv, Begin PROVE RowStep
<1> PICK m \in Messages : StartWith(Normalize(m))
  BY DEF Begin
<1> DEFINE n == Normalize(m)
<1>1. SameLegacyBoot(n) => server.last_boot_id = n.boot_id
  BY SameTimeSameId DEF IdentityInv, OneSession
<1>2. n.boot_time \in Maybe(Times) /\ n.agent_time \in Times
  BY NormalizeType DEF NormalForm
<1> HIDE DEF n
<1>3. CASE KeepBoot(n)
  BY <1>1, <1>3 DEF KeepBoot, Adopted, RowStep
<1>4. CASE ChangeBoot(n)
  <2>1. PICK at \in Times :
           sessions' = [i \in DOMAIN sessions |->
                           IF IsOpen(sessions[i]) /\ sessions[i].boot_id # n.boot_id
                           THEN Closed(sessions[i], at, "REBOOT") ELSE sessions[i]]
    BY <1>2, <1>4 DEF ChangeBoot, Maybe
  <2>2. \A i \in DOMAIN sessions : Evolves(sessions[i], Closed(sessions[i], at, "REBOOT"))
    BY ClosedEvolves DEF TypeOK, IsTable
  <2> QED BY <2>1, <2>2 DEF RowStep
<1> QED BY <1>3, <1>4 DEF StartWith, n

LEMMA CountedStep ==
    ASSUME OneContract, TypeOK, CountedInv, [Next]_vars
    PROVE  CountedInv'
<1>1. ConsistentInv' /\ IdentityInv'
  BY ConsistentInductive, IdentityInductive DEF CountedInv
\* A row that keeps identity and count, while the events stay.
<1>2. ASSUME RowStep, UNCHANGED events,
             \A i \in DOMAIN sessions :
                 sessions'[i].disconnect_count = sessions[i].disconnect_count
      PROVE  Counted(sessions', events)
  <2>1. IsFiniteSet(events)
    BY DEF CountedInv, Counted
  <2>2. ASSUME NEW i \in DOMAIN sessions
        PROVE  sessions'[i].disconnect_count
                   <= Cardinality(Behind(events, "DISCONNECT", sessions'[i]))
    <3>1. SameIdentity(sessions[i], sessions'[i])
      BY <1>2, SelfIdentity DEF RowStep, Evolves
    <3>2. Cardinality(Behind(events, "DISCONNECT", sessions[i]))
              <= Cardinality(Behind(events, "DISCONNECT", sessions'[i]))
      BY <2>1, <3>1, BehindGrows
    <3>3. /\ sessions[i].disconnect_count \in Nat
          /\ Cardinality(Behind(events, "DISCONNECT", sessions[i])) \in Nat
          /\ Cardinality(Behind(events, "DISCONNECT", sessions'[i])) \in Nat
      BY <2>1, BehindFinite DEF TypeOK, IsTable, Row
    <3>4. sessions[i].disconnect_count
              <= Cardinality(Behind(events, "DISCONNECT", sessions[i]))
      BY DEF CountedInv, Counted
    <3> QED BY <1>2, <3>2, <3>3, <3>4
  <2> QED BY <1>2, <2>1, <2>2 DEF Counted, RowStep
<1>3. CASE Begin
  <2>1. events' = events /\ saved' = saved
    BY <1>3 DEF Begin, StartWith
  <2>2. \A i \in DOMAIN sessions :
           sessions'[i].disconnect_count = sessions[i].disconnect_count
    BY <1>3, BeginLeaves DEF Leaves
  <2>3. RowStep
    BY <1>3, BeginKeepsNames DEF CountedInv
  <2> QED BY <1>1, <1>2, <2>1, <2>2, <2>3 DEF CountedInv
<1>4. CASE \E x \in req.todo : IngestEvent(x) \/ Observe(x)
  BY <1>1, <1>4, ItemCounted, ItemStep DEF CountedInv
<1>5. CASE FinishEvents \/ FinishSnapshot
  <2>1. events' = events /\ saved'.events = events
    BY <1>5 DEF FinishEvents, FinishSnapshot, Commit
  <2>2. \A i \in DOMAIN sessions :
           sessions'[i].disconnect_count = sessions[i].disconnect_count
    BY <1>5, FinishLeaves DEF Leaves
  <2> QED BY <1>1, <1>2, <1>5, <2>1, <2>2, FinishStep DEF CountedInv
<1>6. CASE Fail
  BY <1>1, <1>6 DEF Fail, CountedInv
<1>7. CASE UNCHANGED vars
  BY <1>1, <1>7 DEF vars, CountedInv
<1> QED BY <1>3, <1>4, <1>5, <1>6, <1>7 DEF Next, Handle

(* However often events are resent and however they are grouped, a row of  *)
(* a server of one contract counts no more DISCONNECTs than were accepted  *)
(* of its session.                                                         *)
THEOREM DisconnectsAlwaysCounted ==
    ASSUME OneContract PROVE Spec => []DisconnectsCounted
<1>1. Init => CountedInv
  BY ConsistentInitial, IdentityInitial, FS_EmptySet
     DEF Init, Store, CountedInv, Counted
<1>2. TypeOK /\ CountedInv /\ [Next]_vars => CountedInv'
  BY CountedStep
<1>3. CountedInv => DisconnectsCounted
  BY DEF CountedInv, Counted, Behind, DisconnectsCounted, Accepted
<1> QED BY <1>1, <1>2, <1>3, TypeCorrect, PTL DEF Spec

-----------------------------------------------------------------------------
(* A server of contract 1 that booted once.  All its messages spell the    *)
(* same boot id, so none of them finds another boot in the servers row.    *)

FirstContract == \A m \in Messages : m.contract = 1

\* Boot times of one second round to the same time.
LEMMA SameSecondSameBoot ==
    ASSUME FirstContract, OneBoot, NEW m \in Messages, NEW n \in Messages
    PROVE  Normalize(m).boot_id = Normalize(n).boot_id
<1>1. m.boot_time \in Nat /\ n.boot_time \in Nat /\ m.contract = 1 /\ n.contract = 1
  BY MessagesAssumption DEF FirstContract, V1Message, V2Message, Times
<1>2. ASSUME NEW t \in Nat
      PROVE  NormalizeBootTime(t) = TicksPerSecond * (t \div TicksPerSecond)
  <2>1. /\ t \div TicksPerSecond \in Int
        /\ t % TicksPerSecond \in Int
        /\ TicksPerSecond \in Int
        /\ t = TicksPerSecond * (t \div TicksPerSecond) + (t % TicksPerSecond)
    BY Division, TicksAssumption
  <2> DEFINE a == TicksPerSecond * (t \div TicksPerSecond)
             b == t % TicksPerSecond
  <2>2. a \in Int /\ b \in Int /\ t = a + b
    BY <2>1
  <2> HIDE DEF a, b
  <2>3. t - b = a
    BY <2>2
  <2> QED BY <2>3 DEF a, b, NormalizeBootTime
<1>3. m.boot_time \div TicksPerSecond = n.boot_time \div TicksPerSecond
  BY <1>1 DEF OneBoot
<1>4. NormalizeBootTime(m.boot_time) = NormalizeBootTime(n.boot_time)
  BY <1>1, <1>2, <1>3
<1> QED BY <1>1, <1>4 DEF Normalize, NormalizeV1, V1BootId

NoReboot(T) == \A i \in DOMAIN T : T[i].end_reason # "REBOOT"

\* No boot yet, or the one that every message names.
OnlyBoot(s) == \A m \in Messages : s.last_boot_id \in {NULL, Normalize(m).boot_id}

RebootInv ==
    /\ ConsistentInv
    /\ OnlyBoot(server) /\ OnlyBoot(saved.server)
    /\ NoReboot(sessions) /\ NoReboot(saved.sessions)

LEMMA BeginInOnlyBoot ==
    ASSUME FirstContract, OneBoot, TypeOK, RebootInv, Begin
    PROVE  OnlyBoot(server') /\ NoReboot(sessions')
<1> PICK m \in Messages : StartWith(Normalize(m))
  BY DEF Begin
<1> DEFINE n == Normalize(m)
<1>1. server'.last_boot_id = n.boot_id
  BY DEF StartWith, ServerAfter
<1>2. OnlyBoot(server')
  BY <1>1, SameSecondSameBoot DEF OnlyBoot
<1>3. ~ChangeBoot(n)
  BY DEF ChangeBoot, RebootInv, OnlyBoot
<1> HIDE DEF n
<1>4. KeepBoot(n)
  BY <1>3 DEF StartWith, n
<1>5. ASSUME NEW i \in DOMAIN sessions
      PROVE  sessions'[i].end_reason = sessions[i].end_reason
  <2>1. sessions[i] \in Row
    BY DEF TypeOK, IsTable
  <2>2. [sessions[i] EXCEPT !.boot_id = n.boot_id].end_reason = sessions[i].end_reason
    BY <2>1 DEF Row
  <2> QED BY <1>4, <2>2 DEF KeepBoot
<1>6. DOMAIN sessions' = DOMAIN sessions
  BY <1>4 DEF KeepBoot
<1> QED BY <1>2, <1>5, <1>6 DEF RebootInv, NoReboot

LEMMA ItemInOnlyBoot ==
    ASSUME TypeOK, RebootInv, NEW x, IngestEvent(x) \/ Observe(x)
    PROVE  NoReboot(sessions')
<1> SUFFICES ASSUME NEW i \in DOMAIN sessions'
             PROVE  sessions'[i].end_reason # "REBOOT"
  BY DEF NoReboot
<1>1. CASE i \in DOMAIN sessions
  <2>1. sessions'[i].end_reason \in {sessions[i].end_reason, "LOGOFF"}
    BY <1>1, EventReduces, ObserveLeaves DEF Reduces, Leaves, RebootInv, ConsistentInv
  <2> QED BY <1>1, <2>1 DEF RebootInv, NoReboot
<1>2. CASE i \notin DOMAIN sessions
  <2>1. \E k : InsertStep(k) /\ i = k
    BY <1>2, ItemStep DEF InsertStep, RowStep
  <2> QED BY <2>1, NullAssumption DEF InsertStep
<1> QED BY <1>1, <1>2

LEMMA RebootStep ==
    ASSUME FirstContract, OneBoot, TypeOK, RebootInv, [Next]_vars
    PROVE  RebootInv'
<1>1. ConsistentInv'
  BY ConsistentInductive DEF RebootInv
<1>2. CASE Begin
  BY <1>1, <1>2, BeginInOnlyBoot DEF RebootInv, Begin, StartWith
<1>3. CASE \E x \in req.todo : IngestEvent(x) \/ Observe(x)
  BY <1>1, <1>3, ItemInOnlyBoot, ItemStep DEF RebootInv
<1>4. CASE FinishEvents \/ FinishSnapshot
  <2>1. \A i \in DOMAIN sessions : sessions'[i].end_reason # "REBOOT"
    BY <1>4, FinishLeaves DEF Leaves, RebootInv, NoReboot
  <2>2. NoReboot(sessions')
    BY <1>4, <2>1, FinishStep DEF RowStep, NoReboot
  <2> QED BY <1>1, <1>4, <2>2, FinishStep DEF RebootInv
<1>5. CASE Fail
  BY <1>1, <1>5 DEF Fail, RebootInv
<1>6. CASE UNCHANGED vars
  BY <1>1, <1>6 DEF vars, RebootInv
<1> QED BY <1>2, <1>3, <1>4, <1>5, <1>6 DEF Next, Handle

(* A server of contract 1 whose boot times all fall in one second has no   *)
(* session ended by REBOOT, whatever fractions its messages carry and in   *)
(* whatever order they come.                                               *)
THEOREM NeverFalseReboot ==
    ASSUME FirstContract PROVE Spec => []NoFalseReboot
<1>1. OneBoot /\ Init => RebootInv
  BY ConsistentInitial DEF Init, Store, RebootInv, OnlyBoot, NoReboot
<1>2. OneBoot /\ TypeOK /\ RebootInv /\ [Next]_vars => RebootInv'
  BY RebootStep
<1>3. (OneBoot => RebootInv) => NoFalseReboot
  BY DEF RebootInv, NoReboot, NoFalseReboot
<1> DEFINE I == OneBoot => RebootInv
<1>4. Init => I
  BY <1>1
<1>5. TypeOK /\ I /\ [Next]_vars => I'
  BY <1>2 DEF OneBoot
<1> HIDE DEF I
<1>6. I => NoFalseReboot
  BY <1>3 DEF I
<1> QED BY <1>4, <1>5, <1>6, TypeCorrect, PTL DEF Spec

-----------------------------------------------------------------------------
(* The sessions of one id and user, one after the other.                   *)

\* Rows of one session are so transitively, and a message speaks of all or none.
LEMMA SameSame ==
    /\ \A s : SameIdentity(s, s)
    /\ \A s, t : SameIdentity(s, t) => SameIdentity(t, s)
    /\ \A s, t, u : SameIdentity(s, t) /\ SameIdentity(t, u) => SameIdentity(s, u)
    /\ \A m, x, s, t : SameIdentity(s, t) /\ Concerns(m, x, s) => Concerns(m, x, t)
BY DEF SameIdentity, SameUser, Concerns

\* Only events are posted, of one boot, and no two rows are stamped alike.
EventsOnly == \A m \in Messages : m.kind = "events"
OneBootId == \A m, n \in Messages : Normalize(m).boot_id = Normalize(n).boot_id
StampedApart == 0 \notin ClockAdvance

\* No boot seen yet, or the one boot there is.
SteadyBoot(s) ==
    \A m \in Messages :
        \/ s.last_boot_id = Normalize(m).boot_id
        \/ s.last_boot_id = NULL /\ s.last_boot_at = NULL

\* Each row has a logon, no later than its logoff.
LogonFirst(T) ==
    \A i \in DOMAIN T :
        /\ T[i].logon_at # NULL
        /\ T[i].logoff_at # NULL => T[i].logon_at <= T[i].logoff_at

\* Of two rows of one session the one inserted first was over before the other.
InTurn(T) ==
    \A i, j \in DOMAIN T :
        i # j /\ SameIdentity(T[i], T[j]) =>
            /\ T[i].created_at # T[j].created_at
            /\ T[j].created_at < T[i].created_at => Precedes(T[j], T[i])

\* Row l is the newest of those of row i's session.
NewestOf(T, i, l) ==
    /\ SameIdentity(T[i], T[l])
    /\ \A j \in DOMAIN T :
          SameIdentity(T[i], T[j]) => T[j].created_at <= T[l].created_at

HasNewest(T) == \A i \in DOMAIN T : \E l \in DOMAIN T : NewestOf(T, i, l)

Sequential(T) == LogonFirst(T) /\ InTurn(T) /\ HasNewest(T)

SequentialInv ==
    /\ req.kind # "snapshot" /\ unflushed = {}
    /\ SteadyBoot(server) /\ SteadyBoot(saved.server)
    /\ Sequential(sessions) /\ Sequential(saved.sessions)

\* Row s becomes t without a change of what orders the sessions in time.
Endures(s, t) ==
    /\ SameIdentity(s, t)
    /\ t.created_at = s.created_at
    /\ t.logon_at = s.logon_at
    /\ \/ t.logoff_at = s.logoff_at
       \/ s.logoff_at = NULL /\ t.logoff_at # NULL /\ t.logon_at <= t.logoff_at

LEMMA EnduringRows ==
    ASSUME NEW T, NEW U, Sequential(T), DOMAIN U = DOMAIN T,
           \A i \in DOMAIN T : Endures(T[i], U[i])
    PROVE  Sequential(U)
<1>1. ASSUME NEW i \in DOMAIN T, NEW j \in DOMAIN T
      PROVE  /\ SameIdentity(U[i], U[j]) <=> SameIdentity(T[i], T[j])
             /\ U[i].created_at = T[i].created_at
             /\ U[i].logon_at = T[i].logon_at
  BY SameSame DEF Endures
<1>2. LogonFirst(U)
  BY DEF Endures, Sequential, LogonFirst
<1>3. InTurn(U)
  <2> SUFFICES ASSUME NEW i \in DOMAIN T, NEW j \in DOMAIN T, i # j,
                      SameIdentity(U[i], U[j])
               PROVE  /\ U[i].created_at # U[j].created_at
                      /\ U[j].created_at < U[i].created_at => Precedes(U[j], U[i])
    BY DEF InTurn
  <2>1. /\ T[i].created_at # T[j].created_at
        /\ T[j].created_at < T[i].created_at => Precedes(T[j], T[i])
    BY <1>1 DEF Sequential, InTurn
  <2>2. Precedes(T[j], T[i]) => Precedes(U[j], U[i])
    BY DEF Endures, Precedes
  <2> QED BY <1>1, <2>1, <2>2
<1>4. HasNewest(U)
  <2> SUFFICES ASSUME NEW i \in DOMAIN T
               PROVE  \E l \in DOMAIN T : NewestOf(U, i, l)
    BY DEF HasNewest
  <2>1. PICK l \in DOMAIN T : NewestOf(T, i, l)
    BY DEF Sequential, HasNewest
  <2>2. NewestOf(U, i, l)
    BY <1>1, <2>1 DEF NewestOf
  <2> QED BY <2>2
<1> QED BY <1>2, <1>3, <1>4 DEF Sequential

\* A LOGON that is not delayed comes after every row of its session.
LEMMA LogonComesLast ==
    ASSUME TypeOK, Consistent(sessions), Sequential(sessions), unflushed = {},
           NEW m, NEW e \in Event,
           OpenSessions(m, e) = {}, ~DelayedLogon(m, e),
           NEW j \in DOMAIN sessions, Concerns(m, e, sessions[j])
    PROVE  sessions[j].logoff_at # NULL /\ sessions[j].logoff_at < e.occurred_at
<1>1. \A i \in DOMAIN sessions : sessions[i] \in Row
  BY DEF TypeOK, IsTable
<1>2. \A i \in DOMAIN sessions :
         Concerns(m, e, sessions[i]) =>
            sessions[i].state = "CLOSED" /\ sessions[i].logoff_at # NULL
  <2> SUFFICES ASSUME NEW i \in DOMAIN sessions, Concerns(m, e, sessions[i])
               PROVE  sessions[i].state = "CLOSED" /\ sessions[i].logoff_at # NULL
    OBVIOUS
  <2>1. ~IsOpen(sessions[i])
    BY DEF OpenSessions, Stored
  <2>2. sessions[i].state = "CLOSED"
    BY <1>1, <2>1 DEF Row, IsOpen
  <2> QED BY <2>2 DEF Consistent
<1>3. PICK l \in DOMAIN sessions : NewestOf(sessions, j, l)
  BY DEF Sequential, HasNewest
<1>4. Concerns(m, e, sessions[l])
  BY <1>3, SameSame DEF NewestOf
<1>5. l \in LatestSession(m, e)
  <2> SUFFICES ASSUME NEW k \in DOMAIN sessions, Concerns(m, e, sessions[k])
               PROVE  Newer(l, k)
    BY <1>4 DEF LatestSession, Stored
  <2>1. SameIdentity(sessions[j], sessions[k])
    BY DEF Concerns, SameIdentity, SameUser
  <2>2. sessions[k].created_at <= sessions[l].created_at
    BY <1>3, <2>1 DEF NewestOf
  <2>3. SameIdentity(sessions[k], sessions[l])
    BY <1>3, <2>1, SameSame DEF NewestOf
  <2>4. k = l \/ sessions[k].created_at # sessions[l].created_at
    BY <2>3 DEF Sequential, InTurn
  <2>5. sessions[k].created_at \in Nat /\ sessions[l].created_at \in Nat /\ l \in Nat
    BY <1>1, IdsAssumption DEF Row, TypeOK, IsTable
  <2> QED BY <2>2, <2>4, <2>5 DEF Newer
<1>6. sessions[l].logoff_at # NULL /\ ~(e.occurred_at <= sessions[l].logoff_at)
  BY <1>2, <1>4, <1>5 DEF DelayedLogon
<1>7. e.occurred_at \in Nat /\ sessions[l].logoff_at \in Nat
  BY <1>1, <1>6 DEF Event, Row, Maybe, Times
<1>8. CASE j = l
  BY <1>6, <1>7, <1>8
<1>9. CASE j # l
  <2>1. SameIdentity(sessions[j], sessions[l]) /\ SameIdentity(sessions[l], sessions[j])
        /\ sessions[j].created_at <= sessions[l].created_at
    BY <1>3, SameSame DEF NewestOf
  <2>2. sessions[j].created_at \in Nat /\ sessions[l].created_at \in Nat
    BY <1>1 DEF Row
  <2>3. sessions[j].created_at < sessions[l].created_at
    BY <1>9, <2>1, <2>2 DEF Sequential, InTurn
  <2>4. Precedes(sessions[j], sessions[l])
    BY <1>9, <2>1, <2>3 DEF Sequential, InTurn
  <2>5. sessions[l].logon_at # NULL /\ sessions[l].logon_at <= sessions[l].logoff_at
    BY <1>6 DEF Sequential, LogonFirst
  <2>6. sessions[j].logoff_at \in Nat /\ sessions[l].logon_at \in Nat
    BY <1>1, <2>4, <2>5 DEF Precedes, Row, Maybe, Times
  <2> QED BY <1>6, <1>7, <2>4, <2>5, <2>6 DEF Precedes
<1> QED BY <1>8, <1>9

\* It makes a row that comes after them.
LEMMA LogonSequential ==
    ASSUME TypeOK, Consistent(sessions), Sequential(sessions), unflushed = {},
           StampedApart, NEW e, NEW i, LogonNew(e, i)
    PROVE  Sequential(sessions')
<1> DEFINE T == sessions
           U == sessions'
<1>1. e \in Event
  BY EventRequest DEF LogonNew, Accept, NextEvent, Request
<1>2. PICK t \in Stamps, d \in ClockAdvance :
        /\ \A u \in Stamps : u <= t
        /\ U = [j \in DOMAIN T \union {i} |->
                   IF j = i THEN [LoggedOn(req.msg, e) EXCEPT !.created_at = t + d]
                            ELSE T[j]]
  BY DEF LogonNew, Insert
<1>3. \A j \in DOMAIN T : T[j] \in Row
  BY DEF TypeOK, IsTable
<1>4. t \in Nat /\ d \in Nat /\ d > 0
  <2>1. \A j \in DOMAIN T : T[j].created_at \in Nat
    BY <1>3 DEF Row
  <2>2. t \in Nat
    BY <2>1 DEF Stamps
  <2>3. d \in Nat /\ d # 0
    BY IdsAssumption DEF StampedApart
  <2> QED BY <2>2, <2>3
<1>5. /\ i \notin DOMAIN T /\ DOMAIN U = DOMAIN T \union {i}
      /\ \A j \in DOMAIN T : U[j] = T[j]
  BY <1>2 DEF LogonNew, Insert
<1>6. /\ Concerns(req.msg, e, U[i])
      /\ U[i].logon_at = e.occurred_at
      /\ U[i].logoff_at = NULL
      /\ U[i].created_at = t + d
  BY <1>2 DEF LoggedOn, Concerns, SameUser
<1>7. \A j \in DOMAIN T :
         T[j].created_at \in Nat /\ U[i].created_at \in Nat
         /\ T[j].created_at < U[i].created_at
  <2> SUFFICES ASSUME NEW j \in DOMAIN T
               PROVE  /\ T[j].created_at \in Nat /\ t + d \in Nat
                      /\ T[j].created_at < t + d
    BY <1>6
  <2>1. T[j].created_at \in Nat
    BY <1>3 DEF Row
  <2>2. T[j].created_at <= t
    BY <1>2 DEF Stamps
  <2> QED BY <1>4, <2>1, <2>2
<1>8. ASSUME NEW j \in DOMAIN T, SameIdentity(U[i], U[j])
      PROVE  Precedes(U[j], U[i])
  <2>1. Concerns(req.msg, e, T[j])
    BY <1>5, <1>6, <1>8, SameSame
  <2>2. T[j].logoff_at # NULL /\ T[j].logoff_at < e.occurred_at
    BY <1>1, <2>1, LogonComesLast DEF LogonNew
  <2> QED BY <1>5, <1>6, <2>2 DEF Precedes
<1> HIDE DEF T, U
<1>9. Sequential(T)
  BY DEF T
<1>10. LogonFirst(U)
  <2>1. U[i].logon_at # NULL
    BY <1>1, <1>6, NullAssumption DEF Event, Times
  <2> QED BY <1>5, <1>6, <1>9, <2>1 DEF Sequential, LogonFirst
<1>11. InTurn(U)
  <2> SUFFICES ASSUME NEW j \in DOMAIN U, NEW k \in DOMAIN U, j # k,
                      SameIdentity(U[j], U[k])
               PROVE  /\ U[j].created_at # U[k].created_at
                      /\ U[k].created_at < U[j].created_at => Precedes(U[k], U[j])
    BY DEF InTurn
  <2>1. CASE j \in DOMAIN T /\ k \in DOMAIN T
    BY <1>5, <1>9, <2>1 DEF Sequential, InTurn
  <2>2. CASE j = i
    <3>1. k \in DOMAIN T
      BY <1>5, <2>2
    <3> QED BY <1>5, <1>7, <1>8, <2>2, <3>1
  <2>3. CASE k = i
    <3>1. j \in DOMAIN T
      BY <1>5, <2>3
    <3> QED BY <1>5, <1>7, <2>3, <3>1
  <2> QED BY <1>5, <2>1, <2>2, <2>3
<1>12. HasNewest(U)
  <2> SUFFICES ASSUME NEW j \in DOMAIN U
               PROVE  \E l \in DOMAIN U : NewestOf(U, j, l)
    BY DEF HasNewest
  <2>1. CASE SameIdentity(U[j], U[i])
    <3>1. \A k \in DOMAIN U : U[k].created_at <= U[i].created_at
      BY <1>4, <1>5, <1>6, <1>7
    <3> QED BY <1>5, <2>1, <3>1 DEF NewestOf
  <2>2. CASE ~SameIdentity(U[j], U[i])
    <3>1. j \in DOMAIN T
      BY <1>5, <2>2, SameSame
    <3>2. PICK l \in DOMAIN T : NewestOf(T, j, l)
      BY <1>9, <3>1 DEF Sequential, HasNewest
    <3>3. NewestOf(U, j, l)
      BY <1>5, <2>2, <3>1, <3>2 DEF NewestOf
    <3> QED BY <1>5, <3>3
  <2> QED BY <2>1, <2>2
<1>13. Sequential(U)
  BY <1>10, <1>11, <1>12 DEF Sequential
<1> QED BY <1>13 DEF U

\* Every other event leaves the order of the sessions as it was.
LEMMA EventSequential ==
    ASSUME TypeOK, Consistent(sessions), Sequential(sessions), unflushed = {},
           StampedApart, NEW e, IngestEvent(e)
    PROVE  Sequential(sessions')
<1>1. \A i \in DOMAIN sessions : sessions[i] \in Row /\ Endures(sessions[i], sessions[i])
  BY SameSame DEF TypeOK, IsTable, Endures
<1>2. CASE sessions' = sessions
  BY <1>2
<1>3. ASSUME NEW i \in OpenSessions(req.msg, e), NEW row, Update(i, row),
             Endures(sessions[i], row)
      PROVE  Sequential(sessions')
  <2>1. /\ DOMAIN sessions' = DOMAIN sessions
        /\ \A j \in DOMAIN sessions : Endures(sessions[j], sessions'[j])
    BY <1>1, <1>3 DEF Update
  <2> QED BY <2>1, EnduringRows
<1>4. \A i \in OpenSessions(req.msg, e) :
         /\ i \in DOMAIN sessions
         /\ sessions[i].logoff_at = NULL
         /\ sessions[i].logon_at # NULL
  BY DEF OpenSessions, Stored, IsOpen, OpenStates, Consistent, Sequential, LogonFirst
<1>5. CASE SkipDuplicate(e) \/ LogonDelayed(e) \/ Unattached(e)
  BY <1>2, <1>5 DEF SkipDuplicate, LogonDelayed, Unattached, NoEffect
<1>6. CASE \E i \in SessionIds : LogonNew(e, i)
  BY <1>6, LogonSequential
<1>7. ASSUME NEW i, LogonOpen(e, i) PROVE Sequential(sessions')
  <2> DEFINE s == sessions[i]
             fresh == ~LaterThan(s.last_connected_at, e.occurred_at)
             row == [s EXCEPT
                 !.state = "ACTIVE",
                 !.logon_at = Default(@, e.occurred_at),
                 !.initial_source_ip = Default(@, e.source_ip),
                 !.last_connected_at = IF fresh THEN e.occurred_at ELSE @,
                 !.last_source_ip = IF fresh THEN Default(e.source_ip, @) ELSE @]
  <2>1. i \in OpenSessions(req.msg, e) /\ Update(i, row)
    BY <1>7 DEF LogonOpen
  <2> HIDE DEF fresh
  <2>2. Endures(s, row)
    BY <1>1, <1>4, <2>1 DEF Row, Endures, SameIdentity, SameUser, Default
  <2> HIDE DEF row
  <2> QED BY <1>3, <2>1, <2>2
<1>8. ASSUME NEW i, Disconnect(e, i) PROVE Sequential(sessions')
  <2> DEFINE row == [sessions[i] EXCEPT !.state = "DISCONNECTED",
                                        !.last_disconnected_at = e.occurred_at,
                                        !.disconnect_count = @ + 1]
  <2>1. i \in OpenSessions(req.msg, e) /\ (sessions' = sessions \/ Update(i, row))
    BY <1>8 DEF Disconnect, NoEffect
  <2>2. Endures(sessions[i], row)
    BY <1>1, <1>4, <2>1 DEF Row, Endures, SameIdentity, SameUser
  <2> HIDE DEF row
  <2> QED BY <1>2, <1>3, <2>1, <2>2
<1>9. ASSUME NEW i, Reconnect(e, i) PROVE Sequential(sessions')
  <2> DEFINE row == [sessions[i] EXCEPT !.state = "ACTIVE",
                                        !.last_connected_at = e.occurred_at,
                                        !.last_source_ip = Default(e.source_ip, @)]
  <2>1. i \in OpenSessions(req.msg, e) /\ (sessions' = sessions \/ Update(i, row))
    BY <1>9 DEF Reconnect, NoEffect
  <2>2. Endures(sessions[i], row)
    BY <1>1, <1>4, <2>1 DEF Row, Endures, SameIdentity, SameUser
  <2> HIDE DEF row
  <2> QED BY <1>2, <1>3, <2>1, <2>2
<1>10. ASSUME NEW i, Logoff(e, i) PROVE Sequential(sessions')
  <2>1. CASE LaterThan(sessions[i].logon_at, e.occurred_at)
    BY <1>2, <1>10, <2>1 DEF Logoff, NoEffect
  <2>2. CASE ~LaterThan(sessions[i].logon_at, e.occurred_at)
    <3> DEFINE row == Closed(sessions[i], e.occurred_at, "LOGOFF")
    <3>1. i \in OpenSessions(req.msg, e) /\ Update(i, row)
      BY <1>10, <2>2 DEF Logoff
    <3>2. /\ SameIdentity(sessions[i], row)
          /\ row.created_at = sessions[i].created_at
          /\ row.logon_at = sessions[i].logon_at
          /\ row.logoff_at = e.occurred_at
      BY <1>1, <1>4, <3>1 DEF Row, Closed, SameIdentity, SameUser
    <3>3. e.occurred_at \in Times /\ sessions[i].logon_at \in Times
      BY <1>1, <1>4, <1>10, <3>1, EventRequest
         DEF Logoff, Accept, NextEvent, Request, Event, Row, Maybe
    <3> HIDE DEF row
    <3>4. e.occurred_at # NULL /\ sessions[i].logon_at <= e.occurred_at
      BY <2>2, <3>3, NullAssumption DEF LaterThan, Times
    <3>5. Endures(sessions[i], row)
      BY <1>4, <3>1, <3>2, <3>4 DEF Endures
    <3> QED BY <1>3, <3>1, <3>5
  <2> QED BY <2>1, <2>2
<1> QED BY <1>5, <1>6, <1>7, <1>8, <1>9, <1>10 DEF IngestEvent

LEMMA BeginSequential ==
    ASSUME EventsOnly, OneBootId, TypeOK, SequentialInv, Begin
    PROVE  SequentialInv'
<1> PICK m \in Messages : StartWith(Normalize(m))
  BY DEF Begin
<1> DEFINE n == Normalize(m)
<1>1. n.kind = "events"
  BY DEF EventsOnly, Normalize, NormalizeV1, NormalizeV2
<1>2. SteadyBoot(server')
  BY DEF StartWith, ServerAfter, OneBootId, SteadyBoot
<1>3. \/ server.last_boot_id = n.boot_id
      \/ server.last_boot_id = NULL /\ server.last_boot_at = NULL
  BY DEF SequentialInv, SteadyBoot
<1>4. KeepBoot(n) /\ Adopted(n) = {}
  BY <1>3 DEF StartWith, ChangeBoot, SameLegacyBoot, Adopted
<1>5. sessions' = sessions /\ unflushed' = {}
  BY <1>4 DEF KeepBoot, TypeOK, IsTable
<1>6. req'.kind = "events" /\ saved' = saved
  BY <1>1 DEF StartWith
<1> QED BY <1>2, <1>5, <1>6 DEF SequentialInv

LEMMA SequentialStep ==
    ASSUME EventsOnly, OneBootId, StampedApart, TypeOK, ConsistentInv, SequentialInv,
           [Next]_vars
    PROVE  SequentialInv'
<1>1. CASE Begin
  BY <1>1, BeginSequential
<1>2. CASE \E x \in req.todo : IngestEvent(x) \/ Observe(x)
  <2>1. PICK x \in req.todo : IngestEvent(x) \/ Observe(x)
    BY <1>2
  <2>2. IngestEvent(x)
    BY <2>1, ItemOfRequest DEF SequentialInv
  <2>3. /\ server' = server /\ saved' = saved /\ req'.kind = req.kind
        /\ unflushed' \in {unflushed, {}}
    BY <2>1, ItemStep
  <2>4. Sequential(sessions')
    BY <2>2, EventSequential DEF SequentialInv, ConsistentInv
  <2> QED BY <2>3, <2>4 DEF SequentialInv
<1>3. CASE FinishEvents \/ FinishSnapshot
  <2>1. FinishEvents
    BY <1>3 DEF FinishSnapshot, SequentialInv
  <2>2. sessions' = sessions
    BY <2>1 DEF FinishEvents
  <2> QED BY <1>3, <2>2, FinishStep DEF SequentialInv, NoRequest
<1>4. CASE Fail
  BY <1>4 DEF Fail, NoRequest, SequentialInv
<1>5. CASE UNCHANGED vars
  BY <1>5 DEF vars, SequentialInv
<1> QED BY <1>1, <1>2, <1>3, <1>4, <1>5 DEF Next, Handle

LEMMA SequentialDisjoint ==
    ASSUME TypeOK, SequentialInv PROVE LogonsAreDisjoint
<1> DEFINE T == saved.sessions
<1> SUFFICES ASSUME NEW i \in DOMAIN T, NEW j \in DOMAIN T, i # j, SameIdentity(T[i], T[j])
             PROVE  Precedes(T[i], T[j]) \/ Precedes(T[j], T[i])
  BY DEF LogonsAreDisjoint
<1>1. SameIdentity(T[j], T[i])
  BY SameSame
<1>2. T[i].created_at \in Nat /\ T[j].created_at \in Nat
  BY DEF TypeOK, IsTable, Row
<1>3. T[i].created_at < T[j].created_at \/ T[j].created_at < T[i].created_at
  BY <1>2 DEF SequentialInv, Sequential, InTurn
<1> QED BY <1>1, <1>3 DEF SequentialInv, Sequential, InTurn

(* However the events of one boot are delayed, resent and regrouped, the   *)
(* sessions of one id and user do not overlap: a LOGON makes a row only    *)
(* after the logoff of the newest, and a LOGOFF closes none before its     *)
(* logon.                                                                  *)
THEOREM LogonsStayDisjoint ==
    ASSUME EventsOnly, OneBootId, StampedApart PROVE Spec => []LogonsAreDisjoint
<1>1. Init => SequentialInv
  BY DEF Init, Store, NoRequest, SequentialInv, SteadyBoot, Sequential, LogonFirst,
         InTurn, HasNewest
<1>2. TypeOK /\ ConsistentInv /\ SequentialInv /\ [Next]_vars => SequentialInv'
  BY SequentialStep
<1>3. TypeOK /\ SequentialInv => LogonsAreDisjoint
  BY SequentialDisjoint
<1>4. Init => ConsistentInv
  BY ConsistentInitial
<1>5. TypeOK /\ ConsistentInv /\ [Next]_vars => ConsistentInv'
  BY ConsistentInductive
<1> QED BY <1>1, <1>2, <1>3, <1>4, <1>5, TypeCorrect, PTL DEF Spec

-----------------------------------------------------------------------------
(* A batch that was committed before, in the boot it was taken in.         *)

\* As in the committed table, or under the new spelling of the same boot.
Respelled(T, U, boot) ==
    /\ DOMAIN U = DOMAIN T
    /\ \A i \in DOMAIN T : U[i] \in {T[i], [T[i] EXCEPT !.boot_id = boot]}

ReplayInv ==
    /\ req = NoRequest =>
          sessions = saved.sessions /\ server = saved.server /\ events = saved.events
    /\ req.kind = "events" /\ Replayed /\ SameBoot(req.msg) =>
          /\ req.todo \subseteq req.msg.items
          /\ events = saved.events
          /\ Respelled(saved.sessions, sessions, req.msg.boot_id)

\* A message of the boot in effect begins without a reboot.
LEMMA SameBootKept ==
    ASSUME NEW m \in Messages, server = saved.server, SameBoot(Normalize(m)),
           StartWith(Normalize(m))
    PROVE  KeepBoot(Normalize(m))
<1> DEFINE n == Normalize(m)
<1>1. CASE server.last_boot_id = n.boot_id
  BY <1>1 DEF StartWith, ChangeBoot
<1>2. CASE server.last_boot_at # NULL /\ server.last_boot_at = n.boot_time
  <2>1. m.contract = 1
    BY <1>2, MessagesAssumption DEF Normalize, NormalizeV2, V1Message, V2Message
  <2>2. m.boot_time \in Nat /\ n.boot_time = NormalizeBootTime(m.boot_time)
    BY <2>1, MessagesAssumption
       DEF Normalize, NormalizeV1, V1Message, V2Message, Times
  <2>3. NormalizeBootTime(n.boot_time) = n.boot_time
    BY <2>2, RoundedBootTime
  <2>4. SameLegacyBoot(n)
    BY <1>2, <2>3 DEF SameLegacyBoot
  <2> QED BY <2>4 DEF StartWith, ChangeBoot
<1> QED BY <1>1, <1>2 DEF SameBoot

LEMMA BeginReplay ==
    ASSUME TypeOK, ReplayInv, Begin
    PROVE  ReplayInv'
<1> PICK m \in Messages : StartWith(Normalize(m))
  BY DEF Begin
<1> DEFINE n == Normalize(m)
<1>1. n.kind # "idle"
  BY NormalizeType DEF NormalForm
<1> HIDE DEF n
<1>2. /\ req' = [kind |-> n.kind, msg |-> n, todo |-> n.items, seen |-> {}]
      /\ saved' = saved /\ events' = events
  BY DEF StartWith, n
<1>3. req' # NoRequest /\ req'.msg = n /\ req'.todo = n.items
  BY <1>1, <1>2 DEF NoRequest
<1>4. sessions = saved.sessions /\ server = saved.server /\ events = saved.events
  BY DEF Begin, ReplayInv
<1>5. SameBoot(n) => Respelled(sessions, sessions', n.boot_id)
  <2> SUFFICES ASSUME SameBoot(n) PROVE Respelled(sessions, sessions', n.boot_id)
    OBVIOUS
  <2>1. KeepBoot(n)
    BY <1>4, SameBootKept DEF n
  <2> QED BY <2>1 DEF KeepBoot, Respelled
<1> QED BY <1>2, <1>3, <1>4, <1>5 DEF ReplayInv, SameBoot

\* Then each event is a duplicate, which changes neither events nor rows.
LEMMA ItemReplay ==
    ASSUME TypeOK, ReplayInv, NEW x, IngestEvent(x) \/ Observe(x)
    PROVE  ReplayInv'
<1>1. /\ req # NoRequest /\ req' # NoRequest
      /\ req'.kind = req.kind /\ req'.msg = req.msg
      /\ x \in req.todo /\ req'.todo \subseteq req.todo
      /\ saved' = saved
      /\ Observe(x) => req.kind = "snapshot"
  BY ItemOfRequest
<1>2. Replayed' = Replayed /\ SameBoot(req.msg)' = SameBoot(req.msg)
  BY <1>1 DEF Replayed, SameBoot
<1>3. ASSUME req.kind = "events", Replayed, SameBoot(req.msg)
      PROVE  events' = events /\ sessions' = sessions
  <2>1. IsDuplicate(x)
    BY <1>1, <1>3 DEF ReplayInv, Replayed, IsDuplicate
  <2>2. IngestEvent(x)
    BY <1>1, <1>3
  <2>3. SkipDuplicate(x)
    BY <2>1, <2>2 DEF IngestEvent, LogonDelayed, Unattached, LogonNew, LogonOpen,
                      Disconnect, Reconnect, Logoff, Accept
  <2> QED BY <2>3 DEF SkipDuplicate
<1> QED BY <1>1, <1>2, <1>3 DEF ReplayInv

LEMMA ReplayStep ==
    ASSUME TypeOK, ReplayInv, [Next]_vars
    PROVE  ReplayInv'
<1>1. CASE Begin
  BY <1>1, BeginReplay
<1>2. CASE \E x \in req.todo : IngestEvent(x) \/ Observe(x)
  BY <1>2, ItemReplay
<1>3. CASE FinishEvents \/ FinishSnapshot
  BY <1>3 DEF FinishEvents, FinishSnapshot, Commit, NoRequest, ReplayInv
<1>4. CASE Fail
  BY <1>4 DEF Fail, NoRequest, ReplayInv
<1>5. CASE UNCHANGED vars
  BY <1>5 DEF vars, ReplayInv, Replayed, SameBoot
<1> QED BY <1>1, <1>2, <1>3, <1>4, <1>5 DEF Next, Handle

(* A batch all of whose events were committed before, resent in the boot   *)
(* it was taken in, adds no event and no row, and changes none but for the *)
(* spelling of the boot in open rows.                                      *)
THEOREM ReplayInBootStaysSafe == Spec => ReplayInBootIsSafe
<1>1. Init => ReplayInv
  BY DEF Init, Store, NoRequest, ReplayInv
<1>2. TypeOK /\ ReplayInv /\ [Next]_vars => ReplayInv'
  BY ReplayStep
<1>3. ReplayInv =>
         [FinishEvents /\ Replayed /\ SameBoot(req.msg) =>
             /\ saved'.events = saved.events
             /\ DOMAIN saved'.sessions = DOMAIN saved.sessions
             /\ \A i \in DOMAIN saved.sessions :
                   saved'.sessions[i] \in
                       {saved.sessions[i],
                        [saved.sessions[i] EXCEPT !.boot_id = req.msg.boot_id]}]_vars
  <2> SUFFICES ASSUME ReplayInv, FinishEvents, Replayed, SameBoot(req.msg)
               PROVE  /\ saved'.events = saved.events
                      /\ Respelled(saved.sessions, saved'.sessions, req.msg.boot_id)
    BY DEF Respelled
  <2>1. saved'.events = events /\ saved'.sessions = sessions /\ req.kind = "events"
    BY DEF FinishEvents, Commit
  <2> QED BY <2>1 DEF ReplayInv
<1> QED BY <1>1, <1>2, <1>3, TypeCorrect, PTL DEF Spec, ReplayInBootIsSafe

-----------------------------------------------------------------------------
(* What a snapshot settles.  It is a world where a protocol runs on one    *)
(* platform of the server, and where a snapshot shows a session once, as   *)
(* the list of sessions an Agent takes it from does: the handler searches  *)
(* rows by protocol and ends them by protocol and platform, and two        *)
(* observations of one session would settle on one row.                    *)

PlatformOfProtocol ==
    \A m, n \in Messages :
        Normalize(m).protocol = Normalize(n).protocol =>
            Normalize(m).platform = Normalize(n).platform

SameSession(o, p) ==
    o.provider_session_id = p.provider_session_id /\ SameUser(o.account, p.account)

ShownOnce(items) == \A o, p \in items : SameSession(o, p) => o = p

SessionsShownOnce ==
    \A m \in Messages : m.kind = "snapshot" => ShownOnce(m.items)

\* Rows stand on the platform of their protocol.
OnPlatform(T) ==
    \A i \in DOMAIN T, m \in Messages :
        T[i].protocol = Normalize(m).protocol => T[i].platform = Normalize(m).platform

\* The open request came from a message.
FromMessage ==
    req # NoRequest => \E m \in Messages : req.msg = Normalize(m) /\ req.kind = m.kind

PlatformInv == FromMessage /\ OnPlatform(sessions) /\ OnPlatform(saved.sessions)

LEMMA NormalizeKeeps ==
    ASSUME NEW m \in Messages
    PROVE  /\ Normalize(m).kind = m.kind
           /\ Normalize(m).items = m.items
           /\ m.kind \in {"events", "snapshot"}
BY MessagesAssumption DEF Normalize, NormalizeV1, NormalizeV2, V1Message, V2Message

LEMMA RowsOnPlatform ==
    ASSUME PlatformOfProtocol, OnPlatform(sessions), FromMessage,
           RowStep \/ RenameStep \/ (req # NoRequest /\ \E k : InsertStep(k))
    PROVE  OnPlatform(sessions')
<1>1. CASE RowStep
  BY <1>1 DEF RowStep, Evolves, SameIdentity, OnPlatform
<1>2. CASE RenameStep
  BY <1>2 DEF RenameStep, OnPlatform
<1>3. CASE req # NoRequest /\ \E k : InsertStep(k)
  <2> PICK k : InsertStep(k)
    BY <1>3
  <2> PICK m \in Messages : req.msg = Normalize(m)
    BY <1>3 DEF FromMessage
  <2>1. ASSUME NEW i \in DOMAIN sessions', NEW n \in Messages,
               sessions'[i].protocol = Normalize(n).protocol
        PROVE  sessions'[i].platform = Normalize(n).platform
    <3>1. CASE i = k
      BY <2>1, <3>1 DEF InsertStep, PlatformOfProtocol
    <3>2. CASE i # k
      BY <2>1, <3>2 DEF InsertStep, OnPlatform
    <3> QED BY <3>1, <3>2
  <2> QED BY <2>1 DEF OnPlatform
<1> QED BY <1>1, <1>2, <1>3

LEMMA PlatformStep ==
    ASSUME PlatformOfProtocol, TypeOK, PlatformInv, [Next]_vars
    PROVE  PlatformInv'
<1>1. CASE Begin
  <2> PICK m \in Messages : StartWith(Normalize(m))
    BY <1>1 DEF Begin
  <2>1. req'.msg = Normalize(m) /\ req'.kind = m.kind /\ saved' = saved
    BY NormalizeKeeps DEF StartWith
  <2>2. OnPlatform(sessions')
    BY <1>1, BeginStep, RowsOnPlatform DEF PlatformInv
  <2> QED BY <2>1, <2>2 DEF PlatformInv, FromMessage
<1>2. CASE \E x \in req.todo : IngestEvent(x) \/ Observe(x)
  <2> PICK x \in req.todo : IngestEvent(x) \/ Observe(x)
    BY <1>2
  <2>1. /\ req # NoRequest
        /\ req'.kind = req.kind /\ req'.msg = req.msg
        /\ saved' = saved
    BY ItemOfRequest
  <2>2. OnPlatform(sessions')
    BY <2>1, ItemStep, RowsOnPlatform DEF PlatformInv
  <2> QED BY <2>1, <2>2 DEF PlatformInv, FromMessage
<1>3. CASE FinishEvents \/ FinishSnapshot
  <2>1. OnPlatform(sessions')
    BY <1>3, FinishStep, RowsOnPlatform DEF PlatformInv
  <2> QED BY <1>3, <2>1, FinishStep DEF PlatformInv, FromMessage
<1>4. CASE Fail
  BY <1>4 DEF Fail, PlatformInv, FromMessage
<1>5. CASE UNCHANGED vars
  BY <1>5 DEF vars, PlatformInv, FromMessage
<1> QED BY <1>1, <1>2, <1>3, <1>4, <1>5 DEF Next, Handle

\* What one observed session does: row k stands for it, no other row changes.
Shows(o, k) ==
    /\ NextObserved(o, k)
    /\ DOMAIN sessions' = DOMAIN sessions \union {k}
    /\ \A j \in DOMAIN sessions \ {k} : sessions'[j] = sessions[j]
    /\ k \in DOMAIN sessions => Concerns(req.msg, o, sessions[k])
    /\ Concerns(req.msg, o, sessions'[k])
    /\ sessions'[k].state = o.state

LEMMA ObserveShows ==
    ASSUME TypeOK, NEW o, Observe(o)
    PROVE  o \in Observation /\ \E k : Shows(o, k)
<1> PICK k \in SessionIds : ObserveNew(o, k) \/ ObserveKnown(o, k)
  BY DEF Observe
<1>1. req \in Request(Observation, "snapshot") /\ o \in Observation
  BY SnapshotRequest DEF ObserveNew, ObserveKnown, NextObserved, Request
<1>2. CASE ObserveNew(o, k)
  <2> DEFINE row == Observed(req.msg, o)
  <2>1. row \in Row
    BY <1>1 DEF Request, Observed, NormalForm, Observation, Row, Maybe, Default,
                OpenStates, Times
  <2>2. /\ row.protocol = req.msg.protocol
        /\ row.boot_id = req.msg.boot_id
        /\ row.provider_session_id = o.provider_session_id
        /\ row.account = o.account
        /\ row.state = o.state
    BY DEF Observed
  <2> HIDE DEF row
  <2>3. PICK at : /\ k \notin DOMAIN sessions
                  /\ sessions' = [j \in DOMAIN sessions \union {k} |->
                                     IF j = k THEN [row EXCEPT !.created_at = at]
                                              ELSE sessions[j]]
    BY <1>2 DEF ObserveNew, Insert, row
  <2> DEFINE new == [row EXCEPT !.created_at = at]
  <2>4. /\ new.protocol = req.msg.protocol
        /\ new.boot_id = req.msg.boot_id
        /\ new.provider_session_id = o.provider_session_id
        /\ new.account = o.account
        /\ new.state = o.state
    BY <2>1, <2>2 DEF Row
  <2> HIDE DEF new
  <2>5. sessions'[k] = new /\ DOMAIN sessions' = DOMAIN sessions \union {k}
        /\ \A j \in DOMAIN sessions \ {k} : sessions'[j] = sessions[j]
    BY <2>3 DEF new
  <2>6. NextObserved(o, k)
    BY <1>2 DEF ObserveNew
  <2> QED BY <1>1, <2>3, <2>4, <2>5, <2>6 DEF Shows, Concerns, SameUser
<1>3. CASE ObserveKnown(o, k)
  <2>1. k \in DOMAIN sessions /\ Concerns(req.msg, o, sessions[k]) /\ IsOpen(sessions[k])
    BY <1>3 DEF ObserveKnown, OpenSessions, Stored
  <2>2. sessions[k] \in Row
    BY <2>1 DEF TypeOK, IsTable
  <2>3. PICK row : Update(k, row) /\ row.state = o.state
    <3> DEFINE s == sessions[k]
               moved == s.state # o.state
               at == req.msg.agent_time
               row == [s EXCEPT
                   !.state = o.state,
                   !.last_connected_at = IF moved /\ o.state = "ACTIVE" THEN at ELSE @,
                   !.last_disconnected_at =
                       IF moved /\ o.state = "DISCONNECTED" THEN at ELSE @,
                   !.logon_at = Default(@, o.logon_at),
                   !.last_source_ip = Default(o.source_ip, @)]
    <3>1. Update(k, row)
      BY <1>3 DEF ObserveKnown
    <3>2. row.state = o.state
      BY <2>2 DEF Row
    <3> HIDE DEF row
    <3> QED BY <3>1, <3>2
  <2>4. sessions' = [sessions EXCEPT ![k] = row]
    BY <2>3 DEF Update
  <2>5. SameIdentity(sessions[k], sessions'[k])
    BY <1>3, <2>1, ObserveKnownStep, SelfIdentity DEF RowStep, Evolves
  <2>6. Concerns(req.msg, o, sessions'[k])
    BY <2>1, <2>5 DEF Concerns, SameIdentity, SameUser
  <2>7. NextObserved(o, k)
    BY <1>3 DEF ObserveKnown
  <2>8. sessions'[k].state = o.state /\ DOMAIN sessions' = DOMAIN sessions \union {k}
    BY <2>1, <2>3, <2>4
  <2> QED BY <1>1, <2>1, <2>4, <2>6, <2>7, <2>8 DEF Shows
<1> QED BY <1>2, <1>3

\* The sessions shown so far, and the rows that stand for them, one for one.
Done == req.msg.items \ req.todo

SettlingInv ==
    req.kind = "snapshot" =>
        /\ ShownOnce(req.msg.items)
        /\ req.todo \subseteq req.msg.items
        /\ IsFiniteSet(Done) /\ IsFiniteSet(req.seen)
        /\ Cardinality(req.seen) = Cardinality(Done)
        /\ \A o \in Done : \E i \in req.seen :
              Concerns(req.msg, o, sessions[i]) /\ sessions[i].state = o.state
        /\ \A i \in req.seen :
              /\ i \in DOMAIN sessions
              /\ IsOpen(sessions[i])
              /\ \E o \in Done : Concerns(req.msg, o, sessions[i])

LEMMA ObserveSettles ==
    ASSUME TypeOK, SettlingInv, NEW o, Observe(o)
    PROVE  SettlingInv'
<1> PICK k : Shows(o, k)
  BY ObserveShows
<1>1. /\ req.kind = "snapshot"
      /\ o \in req.todo
      /\ req'.kind = "snapshot" /\ req'.msg = req.msg
      /\ req'.todo = req.todo \ {o} /\ req'.seen = req.seen \union {k}
  BY SnapshotRequest DEF Shows, NextObserved, Request
<1>2. /\ ShownOnce(req.msg.items)
      /\ req.todo \subseteq req.msg.items
      /\ IsFiniteSet(Done) /\ IsFiniteSet(req.seen)
      /\ Cardinality(req.seen) = Cardinality(Done)
      /\ \A p \in Done : \E i \in req.seen :
            Concerns(req.msg, p, sessions[i]) /\ sessions[i].state = p.state
      /\ \A i \in req.seen :
            /\ i \in DOMAIN sessions
            /\ IsOpen(sessions[i])
            /\ \E p \in Done : Concerns(req.msg, p, sessions[i])
  BY <1>1 DEF SettlingInv
<1>3. Done' = Done \union {o} /\ o \notin Done
  BY <1>1, <1>2 DEF Done
<1>4. k \notin req.seen
  <2> SUFFICES ASSUME k \in req.seen PROVE FALSE
    OBVIOUS
  <2>1. PICK p \in Done : Concerns(req.msg, p, sessions[k])
    BY <1>2
  <2>2. Concerns(req.msg, o, sessions[k])
    BY <1>2 DEF Shows
  <2>3. SameSession(o, p)
    BY <2>1, <2>2 DEF Concerns, SameSession, SameUser
  <2> QED BY <1>1, <1>2, <1>3, <2>1, <2>3 DEF ShownOnce, Done
<1>5. /\ IsFiniteSet(Done') /\ IsFiniteSet(req'.seen)
      /\ Cardinality(req'.seen) = Cardinality(Done')
  <2>1. IsFiniteSet(Done \union {o}) /\ Cardinality(Done \union {o}) = Cardinality(Done) + 1
    BY <1>2, <1>3, FS_AddElement
  <2>2. /\ IsFiniteSet(req.seen \union {k})
        /\ Cardinality(req.seen \union {k}) = Cardinality(req.seen) + 1
    BY <1>2, <1>4, FS_AddElement
  <2> QED BY <1>1, <1>2, <1>3, <2>1, <2>2
<1>6. \A j \in req.seen : sessions'[j] = sessions[j] /\ j \in DOMAIN sessions'
  BY <1>2, <1>4 DEF Shows
<1>7. \A p \in Done' : \E i \in req'.seen :
         Concerns(req.msg, p, sessions'[i]) /\ sessions'[i].state = p.state
  BY <1>1, <1>2, <1>3, <1>6 DEF Shows
<1>8. \A i \in req'.seen :
         /\ i \in DOMAIN sessions'
         /\ IsOpen(sessions'[i])
         /\ \E p \in Done' : Concerns(req.msg, p, sessions'[i])
  <2>1. o.state \in OpenStates
    BY ObserveShows DEF Observation
  <2> QED BY <1>1, <1>2, <1>3, <1>6, <2>1 DEF Shows, IsOpen
<1> QED BY <1>1, <1>2, <1>5, <1>7, <1>8 DEF SettlingInv

LEMMA SettlingStep ==
    ASSUME SessionsShownOnce, TypeOK, SettlingInv, [Next]_vars
    PROVE  SettlingInv'
<1>1. CASE Begin
  <2> PICK m \in Messages : StartWith(Normalize(m))
    BY <1>1 DEF Begin
  <2>1. req' = [kind |-> m.kind, msg |-> Normalize(m), todo |-> m.items, seen |-> {}]
        /\ Normalize(m).items = m.items
    BY NormalizeKeeps DEF StartWith
  <2>2. Done' = {} /\ req'.seen = {} /\ req'.todo = req'.msg.items
    BY <2>1 DEF Done
  <2>3. req'.kind = "snapshot" => ShownOnce(req'.msg.items)
    BY <2>1 DEF SessionsShownOnce
  <2> QED BY <2>2, <2>3, FS_EmptySet DEF SettlingInv
<1>2. CASE \E x \in req.todo : IngestEvent(x) \/ Observe(x)
  <2> PICK x \in req.todo : IngestEvent(x) \/ Observe(x)
    BY <1>2
  <2>1. CASE IngestEvent(x)
    <3>1. req'.kind = "events"
      BY <2>1, ItemOfRequest
    <3> QED BY <3>1 DEF SettlingInv
  <2>2. CASE Observe(x)
    BY <2>2, ObserveSettles
  <2> QED BY <2>1, <2>2
<1>3. CASE FinishEvents \/ FinishSnapshot \/ Fail
  BY <1>3 DEF FinishEvents, FinishSnapshot, Commit, Fail, NoRequest, SettlingInv
<1>4. CASE UNCHANGED vars
  BY <1>4 DEF vars, SettlingInv, Done
<1> QED BY <1>1, <1>2, <1>3, <1>4 DEF Next, Handle

\* The commit leaves open, of the rows it governs, those that were seen.
LEMMA GovernedAreSeen ==
    ASSUME TypeOK, IdentityInv, PlatformInv, SettlingInv, FinishSnapshot
    PROVE  /\ Governed(saved'.sessions, req.msg) = req.seen
           /\ \A i \in req.seen : saved'.sessions[i] = sessions[i]
<1> DEFINE m == req.msg
           T == saved'.sessions
<1>1. T = [i \in DOMAIN sessions |->
              IF i \in Missing(m) THEN Closed(sessions[i], m.agent_time, "RECONCILIATION")
                                  ELSE sessions[i]]
  BY DEF FinishSnapshot, Commit
<1>2. Stored = DOMAIN sessions
  BY DEF IdentityInv, Stored
<1>3. ASSUME NEW i \in req.seen
      PROVE  T[i] = sessions[i] /\ i \in Governed(T, m)
  <2>1. /\ i \in DOMAIN sessions
        /\ IsOpen(sessions[i])
        /\ \E o \in Done : Concerns(m, o, sessions[i])
    BY DEF SettlingInv, FinishSnapshot
  <2>2. T[i] = sessions[i] /\ i \in DOMAIN T
    BY <1>1, <2>1 DEF Missing
  <2>3. sessions[i].protocol = m.protocol /\ sessions[i].boot_id = m.boot_id
    BY <2>1 DEF Concerns
  <2>4. sessions[i].platform = m.platform
    <3>1. PICK l \in Messages : m = Normalize(l)
      BY DEF PlatformInv, FromMessage, FinishSnapshot, NoRequest
    <3> QED BY <2>1, <2>3, <3>1 DEF PlatformInv, OnPlatform
  <2> HIDE DEF T, m
  <2> QED BY <2>1, <2>2, <2>3, <2>4 DEF Governed
<1>4. ASSUME NEW i \in Governed(T, m)
      PROVE  i \in req.seen
  <2>1. i \in DOMAIN sessions /\ i \in DOMAIN T
    BY <1>1 DEF Governed
  <2>2. i \notin Missing(m)
    <3> SUFFICES ASSUME i \in Missing(m) PROVE FALSE
      OBVIOUS
    <3>1. T[i] = Closed(sessions[i], m.agent_time, "RECONCILIATION")
      BY <1>1, <2>1
    <3>2. sessions[i] \in Row
      BY <2>1 DEF TypeOK, IsTable
    <3>3. T[i].state = "CLOSED"
      BY <3>1, <3>2 DEF Closed, Row
    <3> QED BY <3>3 DEF Governed, IsOpen, OpenStates
  <2>3. T[i] = sessions[i]
    BY <1>1, <2>1, <2>2
  <2> HIDE DEF T, m
  <2> QED BY <1>2, <2>1, <2>2, <2>3 DEF Governed, Missing
<1> QED BY <1>3, <1>4

(* A snapshot that is committed leaves open, of the rows of its protocol,  *)
(* platform and boot, exactly one for each session it showed, in the state *)
(* it showed, whatever rows events or earlier snapshots had left.          *)
THEOREM SnapshotsSettle ==
    ASSUME OneContract, PlatformOfProtocol, SessionsShownOnce
    PROVE  Spec => SnapshotSettles
<1>1. Init => IdentityInv /\ PlatformInv /\ SettlingInv
  BY IdentityInitial
     DEF Init, Store, NoRequest, PlatformInv, FromMessage, OnPlatform, SettlingInv
<1>2. TypeOK /\ (IdentityInv /\ PlatformInv /\ SettlingInv) /\ [Next]_vars =>
          (IdentityInv /\ PlatformInv /\ SettlingInv)'
  BY IdentityInductive, PlatformStep, SettlingStep
<1>3. TypeOK /\ (IdentityInv /\ PlatformInv /\ SettlingInv) =>
         [FinishSnapshot =>
             LET m == req.msg
                 T == saved'.sessions
             IN  /\ \A o \in m.items :
                       \E i \in Governed(T, m) : /\ Concerns(m, o, T[i])
                                                 /\ T[i].state = o.state
                 /\ \A i \in Governed(T, m) : \E o \in m.items : Concerns(m, o, T[i])
                 /\ Cardinality(Governed(T, m)) = Cardinality(m.items)]_vars
  <2> SUFFICES ASSUME TypeOK, IdentityInv, PlatformInv, SettlingInv, FinishSnapshot
               PROVE  LET m == req.msg
                          T == saved'.sessions
                      IN  /\ \A o \in m.items :
                                \E i \in Governed(T, m) : /\ Concerns(m, o, T[i])
                                                          /\ T[i].state = o.state
                          /\ \A i \in Governed(T, m) :
                                \E o \in m.items : Concerns(m, o, T[i])
                          /\ Cardinality(Governed(T, m)) = Cardinality(m.items)
    OBVIOUS
  <2>1. Done = req.msg.items
    BY DEF FinishSnapshot, Done
  <2>2. /\ Cardinality(req.seen) = Cardinality(Done)
        /\ \A o \in Done : \E i \in req.seen :
              Concerns(req.msg, o, sessions[i]) /\ sessions[i].state = o.state
        /\ \A i \in req.seen : \E o \in Done : Concerns(req.msg, o, sessions[i])
    BY DEF SettlingInv, FinishSnapshot
  <2> QED BY <2>1, <2>2, GovernedAreSeen
<1> QED BY <1>1, <1>2, <1>3, TypeCorrect, PTL DEF Spec, SnapshotSettles

-----------------------------------------------------------------------------
(* Session tracking implements SessionLifecycle.                           *)
(*                                                                         *)
(* A step of SessionLifecycle is a whole request, so the invariant says    *)
(* how far the request in progress has come: from the committed rows, or   *)
(* from these with all open ones ended by REBOOT, each session is as it    *)
(* was, or still open, or, in a batch, ended by LOGOFF; and a snapshot has *)
(* seen every row it inserted, so its end closes none of them.             *)

(* How shown rows may change while a request walks its items.              *)

EndedBy(s, reasons) == s.state = "CLOSED" /\ s.end_reason \in reasons

\* Open row r becomes s: the same session, open or ended for such a reason.
Goes(r, s, reasons) ==
    /\ IsOpen(r)
    /\ s.who = r.who
    /\ IsOpen(s) \/ EndedBy(s, reasons)

\* From table T to table U: rows go on, and new ones are open or have ended so.
GoesOn(T, U, reasons) ==
    /\ DOMAIN T \subseteq DOMAIN U
    /\ \A i \in DOMAIN T : U[i] = T[i] \/ Goes(T[i], U[i], reasons)
    /\ \A i \in DOMAIN U \ DOMAIN T :
          IsOpen(U[i]) \/ EndedBy(U[i], reasons)

LEMMA GoesOnFurther ==
    ASSUME NEW T, NEW U, NEW V, NEW reasons, GoesOn(T, U, reasons), GoesOn(U, V, reasons)
    PROVE  GoesOn(T, V, reasons)
<1>1. DOMAIN T \subseteq DOMAIN V
  BY DEF GoesOn
<1>2. ASSUME NEW i \in DOMAIN T PROVE V[i] = T[i] \/ Goes(T[i], V[i], reasons)
  BY DEF GoesOn, Goes
<1>3. ASSUME NEW i \in DOMAIN V \ DOMAIN T
      PROVE  IsOpen(V[i]) \/ EndedBy(V[i], reasons)
  BY DEF GoesOn, Goes
<1> QED BY <1>1, <1>2, <1>3 DEF GoesOn

\* What Shown keeps of a row.
LEMMA ShownRow ==
    ASSUME NEW s
    PROVE  /\ Shown(s).who = <<s.protocol, s.provider_session_id, PrincipalOf[s.account]>>
           /\ Shown(s).state = s.state
           /\ Shown(s).end_reason = s.end_reason
           /\ IsOpen(Shown(s)) <=> IsOpen(s)
BY DEF Shown, IsOpen

LEMMA ShownSame ==
    ASSUME NEW s, NEW t, SameIdentity(s, t)
    PROVE  Shown(t).who = Shown(s).who
<1>1. PrincipalOf[s.account] = PrincipalOf[t.account]
  BY DEF SameIdentity, SameUser
<1>2. s.protocol = t.protocol /\ s.provider_session_id = t.provider_session_id
  BY DEF SameIdentity
<1> QED BY <1>1, <1>2, ShownRow

LEMMA ShownDomain ==
    ASSUME NEW T
    PROVE  DOMAIN ShownRows(T) = DOMAIN T /\ \A i \in DOMAIN T : ShownRows(T)[i] = Shown(T[i])
BY DEF ShownRows

\* A step on rows shows as one that goes on, if what it ends, it ends so.
LEMMA RowStepShown ==
    ASSUME RowStep, NEW reasons,
           \A i \in DOMAIN sessions :
               IsOpen(sessions[i]) => \/ IsOpen(sessions'[i])
                                      \/ sessions'[i].end_reason \in reasons
    PROVE  GoesOn(ShownRows(sessions), ShownRows(sessions'), reasons)
<1>1. ASSUME NEW i \in DOMAIN sessions
      PROVE  \/ Shown(sessions'[i]) = Shown(sessions[i])
             \/ Goes(Shown(sessions[i]), Shown(sessions'[i]), reasons)
  <2>1. CASE sessions'[i] = sessions[i]
    BY <2>1
  <2>2. CASE IsOpen(sessions[i]) /\ Evolves(sessions[i], sessions'[i])
    <3>1. Shown(sessions'[i]).who = Shown(sessions[i]).who
      BY <2>2, ShownSame DEF Evolves
    <3>2. IsOpen(sessions'[i]) \/ EndedBy(sessions'[i], reasons)
      BY <2>2 DEF Evolves, EndedBy
    <3> QED BY <2>2, <3>1, <3>2, ShownRow DEF Goes, EndedBy
  <2> QED BY <2>1, <2>2 DEF RowStep
<1> DEFINE T == ShownRows(sessions)
           U == ShownRows(sessions')
<1>2. DOMAIN T = DOMAIN sessions /\ DOMAIN U = DOMAIN sessions
  BY ShownDomain DEF RowStep
<1>3. \A i \in DOMAIN sessions : T[i] = Shown(sessions[i]) /\ U[i] = Shown(sessions'[i])
  BY ShownDomain DEF RowStep
<1> HIDE DEF T, U
<1>4. GoesOn(T, U, reasons)
  BY <1>1, <1>2, <1>3 DEF GoesOn
<1> QED BY <1>4 DEF T, U

LEMMA InsertStepShown ==
    ASSUME NEW k, InsertStep(k), NEW reasons
    PROVE  GoesOn(ShownRows(sessions), ShownRows(sessions'), reasons)
<1> DEFINE T == ShownRows(sessions)
           U == ShownRows(sessions')
<1>1. DOMAIN T = DOMAIN sessions /\ DOMAIN U = DOMAIN sessions \union {k}
  BY ShownDomain DEF InsertStep
<1>2. \A i \in DOMAIN sessions : U[i] = T[i]
  BY ShownDomain DEF InsertStep
<1>3. IsOpen(U[k])
  BY ShownDomain, ShownRow DEF InsertStep
<1> HIDE DEF T, U
<1>4. GoesOn(T, U, reasons)
  BY <1>1, <1>2, <1>3 DEF GoesOn
<1> QED BY <1>4 DEF T, U

-----------------------------------------------------------------------------
(* One item: events end sessions by LOGOFF, observed sessions end none.    *)

LEMMA EventEnds ==
    ASSUME TypeOK, NEW e, IngestEvent(e), NEW i \in DOMAIN sessions, IsOpen(sessions[i])
    PROVE  IsOpen(sessions'[i]) \/ sessions'[i].end_reason = "LOGOFF"
<1>1. sessions[i] \in Row
  BY DEF TypeOK, IsTable
<1>2. CASE SkipDuplicate(e) \/ LogonDelayed(e) \/ Unattached(e)
  BY <1>2 DEF SkipDuplicate, LogonDelayed, Unattached, NoEffect
<1>3. ASSUME NEW k \in SessionIds, LogonNew(e, k) PROVE IsOpen(sessions'[i])
  BY <1>3, LogonNewStep DEF InsertStep
<1>4. ASSUME NEW k \in SessionIds, LogonOpen(e, k) PROVE IsOpen(sessions'[i])
  BY <1>1, <1>4 DEF LogonOpen, Update, IsOpen, OpenStates, Row
<1>5. ASSUME NEW k \in SessionIds, Disconnect(e, k) PROVE IsOpen(sessions'[i])
  BY <1>1, <1>5 DEF Disconnect, Update, NoEffect, IsOpen, OpenStates, Row
<1>6. ASSUME NEW k \in SessionIds, Reconnect(e, k) PROVE IsOpen(sessions'[i])
  BY <1>1, <1>6 DEF Reconnect, Update, NoEffect, IsOpen, OpenStates, Row
<1>7. ASSUME NEW k \in SessionIds, Logoff(e, k)
      PROVE  IsOpen(sessions'[i]) \/ sessions'[i].end_reason = "LOGOFF"
  BY <1>1, <1>7 DEF Logoff, Update, NoEffect, Closed, Row
<1> QED BY <1>2, <1>3, <1>4, <1>5, <1>6, <1>7 DEF IngestEvent

LEMMA ObservedStaysOpen ==
    ASSUME TypeOK, NEW o, Observe(o), NEW i \in DOMAIN sessions, IsOpen(sessions[i])
    PROVE  IsOpen(sessions'[i])
<1>1. sessions[i] \in Row
  BY DEF TypeOK, IsTable
<1>2. ASSUME NEW k \in SessionIds, ObserveNew(o, k) PROVE IsOpen(sessions'[i])
  BY <1>2, ObserveNewStep DEF InsertStep
<1>3. ASSUME NEW k \in SessionIds, ObserveKnown(o, k) PROVE IsOpen(sessions'[i])
  <2>1. o.state \in OpenStates
    BY <1>3, SnapshotRequest DEF ObserveKnown, NextObserved, Request, Observation
  <2> QED BY <1>1, <1>3, <2>1 DEF ObserveKnown, Update, IsOpen, Row
<1> QED BY <1>2, <1>3 DEF Observe

\* A row a request finds or inserts is of the table, one it inserts is seen.
LEMMA InsertedIsSeen ==
    ASSUME TypeOK, NEW o, Observe(o)
    PROVE  DOMAIN sessions' \ DOMAIN sessions \subseteq req'.seen /\ req.seen \subseteq req'.seen
<1>1. req \in Request(Observation, "snapshot")
  BY SnapshotRequest DEF Observe, ObserveNew, ObserveKnown, NextObserved
<1>2. ASSUME NEW k, NextObserved(o, k) PROVE req'.seen = req.seen \union {k}
  BY <1>1, <1>2 DEF NextObserved, Request
<1>3. ASSUME NEW k \in SessionIds, ObserveNew(o, k)
      PROVE  DOMAIN sessions' = DOMAIN sessions \union {k} /\ NextObserved(o, k)
  BY <1>3, ObserveNewStep DEF ObserveNew, InsertStep
<1>4. ASSUME NEW k \in SessionIds, ObserveKnown(o, k)
      PROVE  DOMAIN sessions' = DOMAIN sessions /\ NextObserved(o, k)
  BY <1>4, ObserveKnownStep DEF ObserveKnown, RowStep
<1> QED BY <1>2, <1>3, <1>4 DEF Observe

-----------------------------------------------------------------------------
(* The invariant.                                                          *)

Rebooting == saved.server.last_boot_id \notin {NULL, server.last_boot_id}

\* What the request found: the committed rows, or these after a reboot.
Found(T) ==
    \/ T = ShownRows(saved.sessions)
    \/ Rebooting /\ T = Lifecycle!Rebooted

Reasons == IF req.kind = "events" THEN {"LOGOFF"} ELSE {}

ProgressInv ==
    /\ req = NoRequest => sessions = saved.sessions /\ server = saved.server
    /\ req # NoRequest =>
          \E T : /\ Found(T)
                 /\ GoesOn(T, ShownRows(sessions), Reasons)
                 /\ req.kind = "snapshot" =>
                       DOMAIN sessions \ DOMAIN T \subseteq req.seen

LEMMA RebootedDomain == DOMAIN Lifecycle!Rebooted = DOMAIN saved.sessions
BY ShownDomain DEF Lifecycle!Rebooted

\* A message begins from one of the two tables.
LEMMA BeginProgress ==
    ASSUME OneContract, TypeOK, IdentityInv, ProgressInv, Begin
    PROVE  ProgressInv'
<1> PICK m \in Messages : StartWith(Normalize(m))
  BY DEF Begin
<1> DEFINE n == Normalize(m)
<1>1. req = NoRequest /\ sessions = saved.sessions /\ server = saved.server
  BY DEF Begin, ProgressInv
<1>2. /\ server' = ServerAfter(n)
      /\ req' = [kind |-> n.kind, msg |-> n, todo |-> n.items, seen |-> {}]
      /\ saved' = saved
  BY DEF StartWith
<1>3. n.kind # "idle"
  BY NormalizeType DEF NormalForm
<1>4. server'.last_boot_id = n.boot_id /\ req' # NoRequest
  BY <1>2, <1>3 DEF ServerAfter, NoRequest
<1>5. SameLegacyBoot(n) => server.last_boot_id = n.boot_id
  BY SameTimeSameId DEF IdentityInv, OneSession
<1> HIDE DEF n
<1> PICK T : T = ShownRows(sessions')
  OBVIOUS
<1>6. Found(T)'
  <2>1. CASE KeepBoot(n)
    <3>1. sessions' = [i \in DOMAIN sessions |-> sessions[i]]
      BY <1>5, <2>1 DEF KeepBoot, Adopted
    <3>2. sessions' = saved.sessions
      BY <1>1, <3>1 DEF TypeOK, IsTable
    <3> QED BY <1>2, <3>2 DEF Found
  <2>2. CASE ChangeBoot(n)
    <3>1. Rebooting'
      BY <1>1, <1>2, <1>4, <2>2 DEF ChangeBoot, Rebooting
    <3>2. PICK at :
             sessions' = [i \in DOMAIN sessions |->
                             IF IsOpen(sessions[i]) /\ sessions[i].boot_id # n.boot_id
                             THEN Closed(sessions[i], at, "REBOOT") ELSE sessions[i]]
      BY <2>2 DEF ChangeBoot
    <3>3. \A i \in DOMAIN sessions : IsOpen(sessions[i]) => sessions[i].boot_id # n.boot_id
      BY <2>2 DEF ChangeBoot, IdentityInv, OneSession, Current
    <3>4. ASSUME NEW s \in Row, IsOpen(s)
          PROVE  Shown(Closed(s, at, "REBOOT")) = Lifecycle!AfterReboot(Shown(s))
      <4>1. /\ Closed(s, at, "REBOOT").protocol = s.protocol
            /\ Closed(s, at, "REBOOT").provider_session_id = s.provider_session_id
            /\ Closed(s, at, "REBOOT").account = s.account
            /\ Closed(s, at, "REBOOT").state = "CLOSED"
            /\ Closed(s, at, "REBOOT").end_reason = "REBOOT"
        BY DEF Closed, Row
      <4>2. Lifecycle!IsOpen(Shown(s))
        BY <3>4, ShownRow DEF Lifecycle!IsOpen, IsOpen, OpenStates
      <4> QED BY <4>1, <4>2, ShownRow DEF Shown, Lifecycle!AfterReboot
    <3>5. ASSUME NEW i \in DOMAIN sessions
          PROVE  T[i] = Lifecycle!AfterReboot(Shown(sessions[i]))
      <4>1. T[i] = Shown(sessions'[i])
        BY <3>2, ShownDomain
      <4>2. sessions[i] \in Row
        BY DEF TypeOK, IsTable
      <4>3. CASE IsOpen(sessions[i])
        BY <3>2, <3>3, <3>4, <4>1, <4>2, <4>3
      <4>4. CASE ~IsOpen(sessions[i])
        <5>1. sessions'[i] = sessions[i]
          BY <3>2, <4>4
        <5>2. ~Lifecycle!IsOpen(Shown(sessions[i]))
          BY <4>4, ShownRow DEF Lifecycle!IsOpen, IsOpen, OpenStates
        <5> QED BY <4>1, <5>1, <5>2 DEF Lifecycle!AfterReboot
      <4> QED BY <4>3, <4>4
    <3>6. T = [i \in DOMAIN sessions |-> T[i]]
      BY <3>2 DEF ShownRows
    <3>7. T = Lifecycle!Rebooted
      <4>1. Lifecycle!Rebooted = [i \in DOMAIN sessions |-> Lifecycle!AfterReboot(Shown(sessions[i]))]
        BY <1>1, ShownDomain DEF Lifecycle!Rebooted
      <4> QED BY <3>5, <3>6, <4>1
    <3>8. Lifecycle!Rebooted' = Lifecycle!Rebooted
      BY <1>2 DEF Lifecycle!Rebooted, ShownRows
    <3> QED BY <3>1, <3>7, <3>8 DEF Found
  <2> QED BY <2>1, <2>2 DEF StartWith, n
<1>7. GoesOn(T, ShownRows(sessions)', Reasons')
  BY DEF GoesOn
<1>8. DOMAIN T = DOMAIN sessions'
  BY ShownDomain
<1> QED BY <1>4, <1>6, <1>7, <1>8 DEF ProgressInv

\* An item goes on from there.
LEMMA ItemProgress ==
    ASSUME TypeOK, ProgressInv, NEW x, IngestEvent(x) \/ Observe(x)
    PROVE  ProgressInv'
<1>1. /\ UNCHANGED <<server, saved>>
      /\ req.kind \in {"events", "snapshot"}
      /\ req'.kind = req.kind
  BY ItemStep
<1>2. req # NoRequest /\ req' # NoRequest /\ Reasons' = Reasons
  BY <1>1 DEF NoRequest, Reasons
<1>3. PICK T : /\ Found(T)
               /\ GoesOn(T, ShownRows(sessions), Reasons)
               /\ req.kind = "snapshot" => DOMAIN sessions \ DOMAIN T \subseteq req.seen
  BY <1>2 DEF ProgressInv
<1>4. Found(T)'
  BY <1>1, <1>3 DEF Found, Rebooting, ShownRows, Lifecycle!Rebooted
<1>5. GoesOn(ShownRows(sessions), ShownRows(sessions'), Reasons)
  <2>1. CASE IngestEvent(x)
    <3>1. NextEvent(x)
      BY <2>1 DEF IngestEvent, SkipDuplicate, LogonDelayed, Unattached, LogonNew,
                  LogonOpen, Disconnect, Reconnect, Logoff, Accept
    <3>2. Reasons = {"LOGOFF"}
      BY <3>1 DEF NextEvent, Reasons
    <3>3. \A i \in DOMAIN sessions :
             IsOpen(sessions[i]) => IsOpen(sessions'[i]) \/ sessions'[i].end_reason \in Reasons
      BY <2>1, <3>2, EventEnds
    <3> QED BY <3>3, ItemStep, RowStepShown, InsertStepShown
  <2>2. CASE Observe(x)
    <3>1. \A i \in DOMAIN sessions :
             IsOpen(sessions[i]) => IsOpen(sessions'[i]) \/ sessions'[i].end_reason \in Reasons
      BY <2>2, ObservedStaysOpen
    <3> QED BY <3>1, ItemStep, RowStepShown, InsertStepShown
  <2> QED BY <2>1, <2>2
<1>6. GoesOn(T, ShownRows(sessions'), Reasons)
  BY <1>3, <1>5, GoesOnFurther
<1>7. req.kind = "snapshot" => DOMAIN sessions' \ DOMAIN T \subseteq req'.seen
  <2> SUFFICES ASSUME req.kind = "snapshot"
               PROVE  DOMAIN sessions' \ DOMAIN T \subseteq req'.seen
    OBVIOUS
  <2>1. Observe(x)
    BY EventRequest DEF IngestEvent, SkipDuplicate, LogonDelayed, Unattached, LogonNew,
                        LogonOpen, Disconnect, Reconnect, Logoff, Accept, NextEvent
  <2> QED BY <1>3, <2>1, InsertedIsSeen
<1>8. GoesOn(T, ShownRows(sessions)', Reasons')
  BY <1>2, <1>6
<1> QED BY <1>1, <1>2, <1>4, <1>7, <1>8 DEF ProgressInv

-----------------------------------------------------------------------------
(* The commit is a step of SessionLifecycle.                               *)

LEMMA ShownOneOpen ==
    ASSUME NEW T, NEW boot, OneOpen(T), Current(T, boot)
    PROVE  Lifecycle!OneOpen(ShownRows(T))
<1> SUFFICES ASSUME NEW i \in DOMAIN T, NEW j \in DOMAIN T,
                    IsOpen(T[i]), IsOpen(T[j]), Shown(T[i]).who = Shown(T[j]).who
             PROVE  i = j
  BY ShownDomain, ShownRow DEF Lifecycle!OneOpen, Lifecycle!IsOpen, IsOpen, OpenStates
<1>1. T[i].boot_id = T[j].boot_id
  BY DEF Current
<1>2. SameIdentity(T[i], T[j])
  BY <1>1, ShownRow DEF SameIdentity, SameUser
<1> QED BY <1>2 DEF OneOpen

LEMMA FinishLifecycle ==
    ASSUME TypeOK, IdentityInv, IdentityInv', ProgressInv, FinishEvents \/ FinishSnapshot
    PROVE  Lifecycle!Next
<1>1. req # NoRequest /\ req.kind \in {"events", "snapshot"}
  BY DEF FinishEvents, FinishSnapshot, NoRequest
<1>2. saved'.server.last_boot_id \in BootIds
  <2>1. req.msg.boot_id \in BootIds
    BY <1>1, EventRequest, SnapshotRequest DEF Request, NormalForm
  <2> QED BY <1>1, <2>1, FinishStep DEF IdentityInv
<1>3. Lifecycle!OneOpen(ShownRows(saved'.sessions))
  BY ShownOneOpen DEF IdentityInv, OneSession
<1>4. PICK T : /\ Found(T)
               /\ GoesOn(T, ShownRows(sessions), Reasons)
               /\ req.kind = "snapshot" => DOMAIN sessions \ DOMAIN T \subseteq req.seen
  BY <1>1 DEF ProgressInv
<1>5. Lifecycle!Batch(T) \/ Lifecycle!Snapshot(T)
  <2> USE DEF Lifecycle!IsOpen, IsOpen, OpenStates
  <2>1. CASE FinishEvents
    <3>1. saved'.sessions = sessions /\ Reasons = {"LOGOFF"}
      BY <2>1 DEF FinishEvents, Commit, Reasons
    <3>2. Lifecycle!Batch(T)
      BY <1>4, <3>1 DEF GoesOn, Goes, EndedBy, Lifecycle!Batch, Lifecycle!Continued,
                        Lifecycle!Continues, Lifecycle!Ended, Lifecycle!New
    <3> QED BY <3>2
  <2>2. CASE FinishSnapshot
    <3>1. saved'.sessions = sessions' /\ RowStep
      BY <2>2, FinishStep
    <3>2. req.kind = "snapshot" /\ Reasons = {}
      BY <2>2 DEF FinishSnapshot, Reasons
    <3>3. ASSUME NEW i \in DOMAIN sessions
          PROVE  \/ sessions'[i] = sessions[i]
                 \/ /\ i \notin req.seen
                    /\ IsOpen(sessions[i])
                    /\ Shown(sessions'[i]).who = Shown(sessions[i]).who
                    /\ sessions'[i].state = "CLOSED"
                    /\ sessions'[i].end_reason = "RECONCILIATION"
      <4>1. sessions[i] \in Row
        BY DEF TypeOK, IsTable
      <4>2. CASE i \in Missing(req.msg)
        <5>1. sessions'[i] = Closed(sessions[i], req.msg.agent_time, "RECONCILIATION")
          BY <2>2, <4>2 DEF FinishSnapshot
        <5>2. /\ sessions'[i].protocol = sessions[i].protocol
              /\ sessions'[i].provider_session_id = sessions[i].provider_session_id
              /\ sessions'[i].account = sessions[i].account
              /\ sessions'[i].state = "CLOSED"
              /\ sessions'[i].end_reason = "RECONCILIATION"
          BY <4>1, <5>1 DEF Closed, Row
        <5>3. Shown(sessions'[i]).who = Shown(sessions[i]).who
          BY <5>2 DEF Shown
        <5> QED BY <4>2, <5>2, <5>3 DEF Missing
      <4>3. CASE i \notin Missing(req.msg)
        BY <2>2, <4>3 DEF FinishSnapshot
      <4> QED BY <4>2, <4>3
    <3> DEFINE U == ShownRows(sessions)
               V == ShownRows(saved'.sessions)
    <3>4. DOMAIN U = DOMAIN sessions /\ DOMAIN V = DOMAIN sessions
      BY <3>1, ShownDomain DEF RowStep
    <3>5. ASSUME NEW i \in DOMAIN sessions
          PROVE  \/ V[i] = U[i]
                 \/ /\ i \notin req.seen
                    /\ IsOpen(U[i])
                    /\ V[i].who = U[i].who
                    /\ V[i].state = "CLOSED"
                    /\ V[i].end_reason = "RECONCILIATION"
      <4>1. U[i] = Shown(sessions[i]) /\ V[i] = Shown(sessions'[i])
        BY <3>1, ShownDomain DEF RowStep
      <4> QED BY <3>3, <4>1, ShownRow
    <3>6. Lifecycle!Snapshot(T)
      <4> HIDE DEF U
      <4>1. GoesOn(T, U, {}) /\ DOMAIN sessions \ DOMAIN T \subseteq req.seen
        BY <1>4, <3>2 DEF U
      <4>2. ASSUME NEW i \in DOMAIN T
            PROVE  V[i] = T[i] \/ Lifecycle!Continues(T[i], V[i], "RECONCILIATION")
        BY <3>4, <3>5, <4>1 DEF GoesOn, Goes, EndedBy, Lifecycle!Continues, Lifecycle!Ended
      <4>3. ASSUME NEW i \in DOMAIN V \ DOMAIN T
            PROVE  IsOpen(V[i])
        BY <3>4, <3>5, <4>1 DEF GoesOn, EndedBy
      <4>4. DOMAIN T \subseteq DOMAIN V
        BY <3>4, <4>1 DEF GoesOn
      <4> QED BY <4>2, <4>3, <4>4
              DEF Lifecycle!Snapshot, Lifecycle!Continued, Lifecycle!New
    <3> QED BY <3>6
  <2> QED BY <2>1, <2>2
<1>6. Rebooting => saved.server.last_boot_id \notin {NULL, saved'.server.last_boot_id}
  BY FinishStep DEF Rebooting
<1>7. CASE T = ShownRows(saved.sessions)
  BY <1>2, <1>3, <1>5, <1>7 DEF Lifecycle!Next
<1>8. CASE Rebooting /\ T = Lifecycle!Rebooted
  BY <1>2, <1>3, <1>5, <1>6, <1>8 DEF Lifecycle!Next
<1> QED BY <1>4, <1>7, <1>8 DEF Found

LEMMA StepLifecycle ==
    ASSUME OneContract, TypeOK, IdentityInv, ProgressInv, [Next]_vars
    PROVE  /\ ProgressInv'
           /\ \/ Lifecycle!Next
              \/ UNCHANGED <<saved.server.last_boot_id, ShownRows(saved.sessions)>>
<1>1. CASE Begin
  BY <1>1, BeginProgress, BeginStep DEF ShownRows
<1>2. CASE \E x \in req.todo : IngestEvent(x) \/ Observe(x)
  BY <1>2, ItemProgress, ItemStep DEF ShownRows
<1>3. CASE FinishEvents \/ FinishSnapshot
  <2>1. IdentityInv'
    BY IdentityInductive
  <2>2. ProgressInv'
    BY <1>3, FinishStep DEF ProgressInv
  <2> QED BY <1>3, <2>1, <2>2, FinishLifecycle
<1>4. CASE Fail
  BY <1>4 DEF Fail, ProgressInv, ShownRows
<1>5. CASE UNCHANGED vars
  <2>1. UNCHANGED <<server, sessions, req, saved>>
    BY <1>5 DEF vars
  <2>2. \A T : Found(T) => Found(T)'
    BY <2>1 DEF Found, Rebooting, ShownRows, Lifecycle!Rebooted
  <2>3. ShownRows(sessions)' = ShownRows(sessions) /\ Reasons' = Reasons
    BY <2>1 DEF ShownRows, Reasons
  <2>4. ProgressInv'
    BY <2>1, <2>2, <2>3 DEF ProgressInv
  <2> QED BY <2>1, <2>4 DEF ShownRows
<1> QED BY <1>1, <1>2, <1>3, <1>4, <1>5 DEF Next, Handle

(* Every behaviour of session tracking, seen through the committed rows,   *)
(* is one of SessionLifecycle: each request a step, whatever fails, is     *)
(* resent or comes late.                                                   *)
THEOREM TrackingFollowsLifecycle ==
    ASSUME OneContract PROVE Spec => FollowsLifecycle
<1>1. Init => ProgressInv /\ Lifecycle!Init
  BY DEF Init, Store, NoRequest, ProgressInv, Lifecycle!Init, ShownRows
<1>2. TypeOK /\ IdentityInv /\ [Next]_vars => IdentityInv'
  BY IdentityInductive
<1>3. TypeOK /\ IdentityInv /\ ProgressInv /\ [Next]_vars =>
         /\ ProgressInv'
         /\ [Lifecycle!Next]_<<saved.server.last_boot_id, ShownRows(saved.sessions)>>
  BY StepLifecycle
<1> QED BY <1>1, <1>2, <1>3, IdentityInitial, TypeCorrect, PTL
        DEF Spec, FollowsLifecycle, Lifecycle!Spec
=============================================================================
