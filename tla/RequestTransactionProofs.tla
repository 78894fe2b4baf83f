----------------------- MODULE RequestTransactionProofs -----------------------
(***************************************************************************)
(* What one request among others keeps, of its own view and of the tables  *)
(* all requests commit to, and what it relies on the others for.  The      *)
(* tables only grow: no row goes away, none loses its end, none changes    *)
(* whose session it is, no event is lost.  A request's commit does no      *)
(* more, and what its view says stays true while others do no more.        *)
(***************************************************************************)
EXTENDS RequestTransaction, SessionTrackingProofs

-----------------------------------------------------------------------------
(* Types.                                                                  *)

Columns ==
    {"protocol", "platform", "boot_id", "provider_session_id", "account", "boot_time",
     "state", "logon_at", "logoff_at", "last_connected_at", "last_disconnected_at",
     "initial_source_ip", "last_source_ip", "disconnect_count", "created_at", "end_reason"}

Working == Request(Event, "events") \union Request(Observation, "snapshot")

\* The columns W are of rows of T.
WritesIn(W, T) == \A i, c : <<i, c>> \in W => i \in DOMAIN T /\ c \in Columns

SavedType ==
    /\ saved.server \in ServerRow
    /\ IsTable(saved.sessions)
    /\ \A row \in saved.events : row.event \in Event

ViewType ==
    /\ server \in ServerRow
    /\ IsTable(sessions)
    /\ \A row \in events : row.event \in Event
    /\ req \in {NoRequest, Phase("authenticated"), Phase("open")} \union Working
    /\ unflushed \in SUBSET DOMAIN sessions
    /\ loaded = [server |-> loaded.server, events |-> loaded.events]
    /\ loaded.server \in ServerRow
    /\ WritesIn(wrote, sessions)
    /\ req \notin Working => wrote = {} /\ unflushed = {}

LEMMA RowColumns == \A s \in Row : DOMAIN s = Columns
BY DEF Row, Columns

LEMMA InChanged ==
    ASSUME NEW S, IsTable(S), NEW T, NEW i, NEW c
    PROVE  <<i, c>> \in Changed(S, T) <=>
               i \in DOMAIN S /\ c \in Columns /\ S[i][c] # T[i][c]
<1>1. <<i, c>> \in Changed(S, T) <=>
          i \in DOMAIN S /\ c \in DOMAIN S[i] /\ S[i][c] # T[i][c]
  BY DEF Changed
<1>2. i \in DOMAIN S => DOMAIN S[i] = Columns
  BY RowColumns DEF IsTable
<1> QED BY <1>1, <1>2

\* A row made of the columns of two is a row.
LEMMA MixedRow ==
    ASSUME NEW s \in Row, NEW t \in Row, NEW W, NEW i
    PROVE  [c \in DOMAIN s |-> IF <<i, c>> \in W THEN t[c] ELSE s[c]] \in Row
<1> DEFINE r == [c \in DOMAIN s |-> IF <<i, c>> \in W THEN t[c] ELSE s[c]]
<1>1. r = [c \in Columns |-> IF <<i, c>> \in W THEN t[c] ELSE s[c]]
  BY RowColumns
<1> QED BY <1>1 DEF Row, Columns

\* U is what the columns W of T make of S.
Written(S, T, W, U) ==
    /\ DOMAIN U = DOMAIN S \union DOMAIN T
    /\ \A i \in DOMAIN T \ DOMAIN S : U[i] = T[i]
    /\ \A i \in DOMAIN S, c \in Columns :
          U[i][c] = IF <<i, c>> \in W THEN T[i][c] ELSE S[i][c]

LEMMA WrittenRows ==
    ASSUME NEW S, IsTable(S), NEW T, IsTable(T), NEW W, WritesIn(W, T),
           NEW U, U = WriteRows(S, T, W)
    PROVE  IsTable(U) /\ Written(S, T, W, U)
<1>1. DOMAIN U = DOMAIN S \union DOMAIN T
  BY DEF WriteRows
<1>2. \A i \in DOMAIN T \ DOMAIN S : U[i] = T[i]
  BY DEF WriteRows
<1>3. \A i \in DOMAIN S : DOMAIN S[i] = Columns
  BY RowColumns DEF IsTable
<1>4. \A i \in DOMAIN S :
         U[i] = [c \in DOMAIN S[i] |-> IF <<i, c>> \in W THEN T[i][c] ELSE S[i][c]]
  BY DEF WriteRows
<1>5. ASSUME NEW i \in DOMAIN S PROVE U[i] \in Row
  <2>1. CASE i \in DOMAIN T
    <3>1. S[i] \in Row /\ T[i] \in Row
      BY <2>1 DEF IsTable
    <3>2. [c \in DOMAIN S[i] |-> IF <<i, c>> \in W THEN T[i][c] ELSE S[i][c]] \in Row
      BY <3>1, MixedRow
    <3> QED BY <1>4, <3>2
  <2>2. CASE i \notin DOMAIN T
    <3>1. \A c : <<i, c>> \notin W
      BY <2>2 DEF WritesIn
    <3>2. U[i] = [c \in DOMAIN S[i] |-> S[i][c]]
      BY <1>4, <3>1
    <3>3. S[i] \in Row
      BY DEF IsTable
    <3> QED BY <3>2, <3>3 DEF Row
  <2> QED BY <2>1, <2>2
<1>6. U = [i \in DOMAIN U |-> U[i]]
  BY DEF WriteRows
<1>7. \A i \in DOMAIN S, c \in Columns :
         U[i][c] = IF <<i, c>> \in W THEN T[i][c] ELSE S[i][c]
  BY <1>3, <1>4
<1>8. IsTable(U)
  <2>1. \A i \in DOMAIN U : U[i] \in Row
    BY <1>1, <1>2, <1>5 DEF IsTable
  <2> QED BY <1>1, <1>6, <2>1 DEF IsTable
<1> QED BY <1>1, <1>2, <1>7, <1>8 DEF Written

-----------------------------------------------------------------------------
(* The ends of rows.                                                       *)

Ends == {"logoff_at", "end_reason"}

EndsPaired(T) == \A i \in DOMAIN T : T[i].logoff_at = NULL <=> T[i].end_reason = NULL

\* Whatever end a request wrote is one.
WroteEnds(T, W) ==
    \A i \in DOMAIN T, c \in Ends : <<i, c>> \in W => T[i][c] # NULL

\* An end it read without writing it is in the tables.
ReadEnds(T, W) ==
    \A i \in DOMAIN T \intersect DOMAIN saved.sessions, c \in Ends :
        T[i][c] # NULL /\ <<i, c>> \notin W => saved.sessions[i][c] # NULL

\* T has the rows of S, and no row of it has lost its end.
EndsStay(S, T) ==
    \A i \in DOMAIN S : /\ i \in DOMAIN T
                        /\ \A c \in Ends : S[i][c] # NULL => T[i][c] # NULL

LEMMA EndsFurther ==
    ASSUME NEW S, IsTable(S), NEW T, EndsStay(S, T),
           (DOMAIN T \ DOMAIN S) \intersect DOMAIN saved.sessions = {},
           NEW W, WritesIn(W, S), WroteEnds(S, W), ReadEnds(S, W)
    PROVE  /\ WritesIn(W \union Changed(S, T), T)
           /\ WroteEnds(T, W \union Changed(S, T))
           /\ ReadEnds(T, W \union Changed(S, T))
<1>1. Ends \subseteq Columns
  BY DEF Ends, Columns
<1>2. ASSUME NEW i \in DOMAIN T, NEW c \in Ends, <<i, c>> \in W \union Changed(S, T)
      PROVE  T[i][c] # NULL
  <2>1. i \in DOMAIN S
    BY <1>2, InChanged DEF WritesIn
  <2>2. CASE <<i, c>> \in W
    BY <2>1, <2>2 DEF WroteEnds, EndsStay
  <2>3. CASE <<i, c>> \in Changed(S, T)
    <3>1. S[i][c] # T[i][c]
      BY <2>3, InChanged
    <3> QED BY <2>1, <3>1 DEF EndsStay
  <2> QED BY <1>2, <2>2, <2>3
<1>3. ASSUME NEW i \in DOMAIN T \intersect DOMAIN saved.sessions, NEW c \in Ends,
             T[i][c] # NULL, <<i, c>> \notin W \union Changed(S, T)
      PROVE  saved.sessions[i][c] # NULL
  <2>1. i \in DOMAIN S
    OBVIOUS
  <2>2. S[i][c] = T[i][c]
    BY <1>1, <1>3, <2>1, InChanged
  <2> QED BY <1>3, <2>1, <2>2 DEF ReadEnds
<1>4. WritesIn(W \union Changed(S, T), T)
  BY InChanged DEF WritesIn, EndsStay
<1> QED BY <1>2, <1>3, <1>4 DEF WroteEnds, ReadEnds

\* No step of a handler takes an end away, or writes half of one.
LEMMA StepEnds ==
    ASSUME EndsPaired(sessions), RowStep \/ RenameStep \/ \E k : InsertStep(k)
    PROVE  EndsStay(sessions, sessions') /\ EndsPaired(sessions')
<1> USE DEF EndsPaired, EndsStay, Ends
<1>1. CASE RowStep
  BY <1>1 DEF RowStep, Evolves
<1>2. CASE RenameStep
  BY <1>2 DEF RenameStep
<1>3. CASE \E k : InsertStep(k)
  BY <1>3 DEF InsertStep
<1> QED BY <1>1, <1>2, <1>3

ViewEnds == EndsPaired(sessions) /\ WroteEnds(sessions, wrote) /\ ReadEnds(sessions, wrote)

SavedInv == SavedType /\ EndsPaired(saved.sessions)
ViewInv == ViewType /\ ViewEnds

\* What every request may rely on the others for.
Grows == EndsStay(saved.sessions, saved'.sessions) /\ saved.events \subseteq saved'.events

\* Others insert rows of keys that are not in the view.
KeysApart == DOMAIN sessions \intersect DOMAIN saved'.sessions \subseteq DOMAIN saved.sessions

LEMMA OthersKeepView ==
    ASSUME ViewInv, Grows, KeysApart, UNCHANGED view
    PROVE  ViewInv'
<1>1. ViewType'
  BY DEF view, ViewInv, ViewType, WritesIn
<1>2. EndsPaired(sessions') /\ WroteEnds(sessions', wrote')
  BY DEF view, ViewInv, ViewEnds
<1>3. ReadEnds(sessions, wrote)'
  BY DEF view, ViewInv, ViewEnds, ReadEnds, Grows, EndsStay, KeysApart
<1> QED BY <1>1, <1>2, <1>3 DEF ViewInv, ViewEnds

LEMMA NothingCommitted ==
    ASSUME UNCHANGED saved
    PROVE  Grows /\ KeysApart /\ (SavedInv => SavedInv')
BY DEF Grows, EndsStay, KeysApart, SavedInv, SavedType

-----------------------------------------------------------------------------
(* The steps of a request.                                                 *)

LEMMA WrittenServer ==
    ASSUME SavedType, ViewType
    PROVE  /\ WriteServer(saved.server) \in ServerRow
           /\ \A c \in {"last_boot_id", "last_boot_at"} :
                 WriteServer(saved.server)[c] =
                     IF server[c] # loaded.server[c] THEN server[c] ELSE saved.server[c]
<1>1. saved.server \in ServerRow /\ server \in ServerRow
  BY DEF SavedType, ViewType
<1>2. DOMAIN saved.server = {"last_boot_id", "last_boot_at"}
  BY <1>1 DEF ServerRow
<1>3. WriteServer(saved.server) =
          [c \in {"last_boot_id", "last_boot_at"} |->
              IF server[c] # loaded.server[c] THEN server[c] ELSE saved.server[c]]
  BY <1>2 DEF WriteServer
<1> QED BY <1>1, <1>3 DEF ServerRow

\* A request in progress is one of session tracking.
LEMMA Tracking == ASSUME SavedType, ViewType, req \in Working PROVE TypeOK
BY DEF SavedType, ViewType, Working, TypeOK

LEMMA WorkStep ==
    ASSUME SavedType, ViewType, Work
    PROVE  /\ RowStep \/ RenameStep \/ \E k : InsertStep(k)
           /\ ViewType'
           /\ UNCHANGED saved
<1>1. CASE Open
  <2>1. PICK m \in Messages : StartWith(Normalize(m))
    BY <1>1 DEF Open
  <2>2. server \in ServerRow /\ IsTable(sessions)
    BY DEF ViewType
  <2>3. RowStep \/ RenameStep
    BY <2>1, <2>2, StartStep
  <2>4. /\ server' \in ServerRow
        /\ IsTable(sessions')
        /\ unflushed' \in SUBSET DOMAIN sessions'
        /\ req' \in Working
    BY <2>1, <2>2, StartType DEF Working
  <2>5. events' = events /\ saved' = saved
    BY <2>1 DEF StartWith
  <2>6. DOMAIN sessions' = DOMAIN sessions
    BY <2>3 DEF RowStep, RenameStep
  <2>7. WritesIn(wrote', sessions')
    BY <2>2, <2>6, InChanged DEF Work, ViewType, WritesIn
  <2> QED BY <2>3, <2>4, <2>5, <2>7 DEF Work, ViewType
<1>2. CASE /\ req.kind \in {"events", "snapshot"}
           /\ \E x \in req.todo : IngestEvent(x) \/ Observe(x)
  <2>1. PICK x \in req.todo : IngestEvent(x) \/ Observe(x)
    BY <1>2
  <2>2. req \in Working
    BY <1>2 DEF ViewType, NoRequest, Phase
  <2>3. TypeOK
    BY <2>2, Tracking
  <2>4. TypeOK'
    BY <2>1, <2>3, EventType, ObserveType
  <2>5. RowStep \/ \E k : InsertStep(k)
    BY <2>1, <2>3, ItemStep
  <2>6. saved' = saved /\ req' # NoRequest
    BY <2>1, <2>3, ItemOfRequest
  <2>7. req' \in Working
    BY <2>4, <2>6 DEF TypeOK, Working
  <2>8. DOMAIN sessions \subseteq DOMAIN sessions'
    BY <2>5 DEF RowStep, InsertStep
  <2>9. WritesIn(wrote', sessions')
    BY <2>8, InChanged DEF Work, ViewType, WritesIn
  <2> QED BY <2>4, <2>5, <2>6, <2>7, <2>9 DEF Work, ViewType, TypeOK
<1> QED BY <1>1, <1>2 DEF Work

LEMMA WorkKeeps ==
    ASSUME SavedInv, ViewInv, Work
    PROVE  ViewInv' /\ UNCHANGED saved
<1>1. /\ RowStep \/ RenameStep \/ \E k : InsertStep(k)
      /\ ViewType'
      /\ UNCHANGED saved
  BY WorkStep DEF SavedInv, ViewInv
<1>2. EndsStay(sessions, sessions') /\ EndsPaired(sessions')
  BY <1>1, StepEnds DEF ViewInv, ViewEnds
<1>3. /\ IsTable(sessions)
      /\ WritesIn(wrote, sessions) /\ WroteEnds(sessions, wrote) /\ ReadEnds(sessions, wrote)
      /\ (DOMAIN sessions' \ DOMAIN sessions) \intersect DOMAIN saved.sessions = {}
      /\ wrote' = wrote \union Changed(sessions, sessions')
  BY DEF ViewInv, ViewType, ViewEnds, Work
<1>4. WroteEnds(sessions', wrote') /\ ReadEnds(sessions', wrote')
  BY <1>2, <1>3, EndsFurther
<1>5. ReadEnds(sessions, wrote)'
  BY <1>1, <1>4 DEF ReadEnds
<1> QED BY <1>1, <1>2, <1>4, <1>5 DEF ViewInv, ViewEnds

\* The rows a snapshot commits.
Reconciled ==
    [i \in DOMAIN sessions |->
        IF i \in Missing(req.msg)
        THEN Closed(sessions[i], req.msg.agent_time, "RECONCILIATION")
        ELSE sessions[i]]

LEMMA ReconciledRows ==
    ASSUME ViewType, req.kind = "snapshot"
    PROVE  /\ IsTable(Reconciled)
           /\ DOMAIN Reconciled = DOMAIN sessions
           /\ \A i \in DOMAIN sessions :
                 /\ Reconciled[i] = sessions[i] \/ Evolves(sessions[i], Reconciled[i])
                 /\ Reconciled[i].logon_at = sessions[i].logon_at
<1>1. req \in Request(Observation, "snapshot")
  BY DEF ViewType, Working, NoRequest, Phase, Request
<1>2. req.msg.agent_time \in Times
  BY <1>1 DEF Request, NormalForm
<1>3. \A i \in DOMAIN sessions :
         LET t == Closed(sessions[i], req.msg.agent_time, "RECONCILIATION")
         IN  t \in Row /\ Evolves(sessions[i], t)
  BY <1>2, ClosedType, ClosedEvolves DEF ViewType, IsTable
<1>4. \A i \in DOMAIN sessions : sessions[i] \in Row
  BY DEF ViewType, IsTable
<1>5. DOMAIN sessions \subseteq SessionIds
  BY DEF ViewType, IsTable
<1>6. \A i \in DOMAIN sessions :
         Reconciled[i] \in {sessions[i], Closed(sessions[i], req.msg.agent_time,
                                                "RECONCILIATION")}
  BY DEF Reconciled
<1>7. Reconciled \in [DOMAIN sessions -> Row]
  BY <1>3, <1>4 DEF Reconciled
<1>8. \A i \in DOMAIN sessions : Reconciled[i].logon_at = sessions[i].logon_at
  BY <1>4, <1>6 DEF Closed, Row
<1> QED BY <1>3, <1>5, <1>6, <1>7, <1>8 DEF IsTable

\* What either commit writes: the rows T, and the columns that differ.
LEMMA Committed ==
    ASSUME ViewType, CommitEvents \/ CommitSnapshot
    PROVE  \E T : /\ Write(T)
                  /\ IsTable(T)
                  /\ DOMAIN T = DOMAIN sessions
                  /\ \A i \in DOMAIN sessions :
                        /\ T[i] = sessions[i] \/ Evolves(sessions[i], T[i])
                        /\ T[i].logon_at = sessions[i].logon_at
<1>1. CASE CommitEvents
  <2>1. IsTable(sessions)
    BY DEF ViewType
  <2> QED BY <1>1, <2>1 DEF CommitEvents
<1>2. CASE CommitSnapshot
  <2>1. Write(Reconciled) /\ req.kind = "snapshot"
    BY <1>2 DEF CommitSnapshot, Reconciled
  <2> QED BY <2>1, ReconciledRows
<1> QED BY <1>1, <1>2

LEMMA NothingInView == ASSUME Closing PROVE ViewInv'
<1>1. DOMAIN sessions' = {} /\ wrote' = {} /\ events' = {}
  BY DEF Closing, NoRows
<1>2. NoServer \in ServerRow
  BY DEF NoServer, ServerRow, Maybe
<1>3. IsTable(sessions')
  BY <1>1 DEF Closing, NoRows, IsTable
<1>4. ViewType'
  BY <1>1, <1>2, <1>3 DEF Closing, ViewType, NothingLoaded, WritesIn
<1>5. ViewEnds'
  BY <1>1 DEF ViewEnds, EndsPaired, WroteEnds, ReadEnds
<1> QED BY <1>4, <1>5 DEF ViewInv

LEMMA CommitKeeps ==
    ASSUME SavedInv, ViewInv, CommitEvents \/ CommitSnapshot
    PROVE  /\ SavedInv' /\ ViewInv' /\ Grows
           /\ DOMAIN saved'.sessions = DOMAIN saved.sessions \union DOMAIN sessions
<1> PICK T : /\ Write(T)
             /\ IsTable(T)
             /\ DOMAIN T = DOMAIN sessions
             /\ \A i \in DOMAIN sessions : T[i] = sessions[i] \/ Evolves(sessions[i], T[i])
  BY Committed DEF ViewInv
<1> DEFINE W == wrote \union Changed(sessions, T)
           S == saved.sessions
           U == saved'.sessions
<1>1. EndsStay(sessions, T) /\ EndsPaired(T)
  BY DEF ViewInv, ViewEnds, EndsStay, EndsPaired, Ends, Evolves
<1>2. WritesIn(W, T) /\ WroteEnds(T, W) /\ ReadEnds(T, W)
  BY <1>1, EndsFurther DEF ViewInv, ViewType, ViewEnds
<1>3. IsTable(U) /\ Written(S, T, W, U)
  <2>1. U = WriteRows(S, T, W)
    BY DEF Write
  <2>2. IsTable(S)
    BY DEF SavedInv, SavedType
  <2>3. IsTable(T) /\ WritesIn(W, T)
    BY <1>2
  <2> HIDE DEF W, S, U
  <2> QED BY <2>1, <2>2, <2>3, WrittenRows
<1>4. saved'.events = saved.events \union events /\ saved'.server = WriteServer(saved.server)
  BY DEF Write
<1>5. SavedType'
  <2>1. WriteServer(saved.server) \in ServerRow
    BY WrittenServer DEF SavedInv, ViewInv
  <2>2. \A row \in saved'.events : row.event \in Event
    BY <1>4 DEF SavedInv, SavedType, ViewInv, ViewType
  <2> QED BY <1>3, <1>4, <2>1, <2>2 DEF SavedType
<1>6. Ends \subseteq Columns /\ "logoff_at" \in Ends /\ "end_reason" \in Ends
  BY DEF Ends, Columns
<1> HIDE DEF W
<1>7. ASSUME NEW i \in DOMAIN S, NEW c \in Ends
      PROVE  /\ S[i][c] # NULL => U[i][c] # NULL
             /\ i \in DOMAIN T /\ T[i][c] # NULL => U[i][c] # NULL
             /\ U[i][c] # NULL => S[i][c] # NULL \/ (i \in DOMAIN T /\ T[i][c] # NULL)
  BY <1>2, <1>3, <1>6 DEF Written, WritesIn, WroteEnds, ReadEnds
<1>8. EndsPaired(U)
  <2>1. ASSUME NEW i \in DOMAIN S
        PROVE  U[i]["logoff_at"] = NULL <=> U[i]["end_reason"] = NULL
    <3>1. S[i]["logoff_at"] = NULL <=> S[i]["end_reason"] = NULL
      BY DEF SavedInv, EndsPaired
    <3>2. i \in DOMAIN T => (T[i]["logoff_at"] = NULL <=> T[i]["end_reason"] = NULL)
      BY <1>1 DEF EndsPaired
    <3> QED BY <1>6, <1>7, <3>1, <3>2
  <2>2. ASSUME NEW i \in DOMAIN T \ DOMAIN S
        PROVE  U[i].logoff_at = NULL <=> U[i].end_reason = NULL
    BY <1>1, <1>3 DEF EndsPaired, Written
  <2> QED BY <1>3, <2>1, <2>2 DEF EndsPaired, Written
<1>9. EndsStay(S, U)
  BY <1>3, <1>7 DEF EndsStay, Written
<1>10. Closing
  BY DEF CommitEvents, CommitSnapshot
<1> QED BY <1>3, <1>4, <1>5, <1>8, <1>9, <1>10, NothingInView DEF SavedInv, Grows, Written

LEMMA NothingBegun == ASSUME ViewInit PROVE ViewInv
<1>1. DOMAIN sessions = {} /\ wrote = {} /\ events = {} /\ DOMAIN NoRows = {}
  BY DEF ViewInit, NoRows
<1>2. NoServer \in ServerRow
  BY DEF NoServer, ServerRow, Maybe
<1>3. IsTable(sessions)
  BY <1>1 DEF ViewInit, NoRows, IsTable
<1>4. ViewType
  BY <1>1, <1>2, <1>3 DEF ViewInit, ViewType, NothingLoaded, WritesIn
<1>5. ViewEnds
  BY <1>1 DEF ViewEnds, EndsPaired, WroteEnds, ReadEnds
<1> QED BY <1>4, <1>5 DEF ViewInv

\* A server as register_server leaves it.
LEMMA NothingStored ==
    ASSUME saved = [server |-> NoServer, sessions |-> NoRows, events |-> {}]
    PROVE  SavedInv
BY DEF SavedInv, SavedType, EndsPaired, NoServer, NoRows, ServerRow, Maybe, IsTable

\* One step of a request, whatever the others did before.
LEMMA RequestKeeps ==
    ASSUME SavedInv, ViewInv, Step
    PROVE  /\ SavedInv' /\ ViewInv' /\ Grows
           /\ DOMAIN saved'.sessions \subseteq DOMAIN saved.sessions \union DOMAIN sessions
<1>1. ASSUME UNCHANGED saved
      PROVE  SavedInv' /\ Grows /\ DOMAIN saved'.sessions = DOMAIN saved.sessions
  BY <1>1, NothingCommitted
<1>2. CASE Authenticate
  <2>1. ViewType'
    <3>1. req \notin Working
      BY <1>2 DEF Authenticate, NoRequest, Working, Request
    <3> QED BY <1>2, <3>1 DEF Authenticate, SavedInv, SavedType, ViewInv, ViewType, WritesIn
  <2>2. ViewEnds'
    BY <1>2 DEF Authenticate, ViewInv, ViewEnds, ReadEnds
  <2> QED BY <1>1, <1>2, <2>1, <2>2 DEF Authenticate, ViewInv
<1>3. CASE ReadTables
  <2>1. req \notin Working /\ req' \notin Working
    BY <1>3 DEF ReadTables, Phase, Working, Request
  <2>2. wrote = {} /\ unflushed = {}
    BY <2>1 DEF ViewInv, ViewType
  <2>3. IsTable(saved.sessions) /\ \A row \in saved.events : row.event \in Event
    BY DEF SavedInv, SavedType
  <2>4. ViewType'
    BY <1>3, <2>2, <2>3 DEF ReadTables, ViewInv, ViewType, WritesIn
  <2>5. ViewEnds'
    BY <1>3, <2>2 DEF ReadTables, SavedInv, ViewEnds, EndsPaired, WroteEnds, ReadEnds
  <2> QED BY <1>1, <1>3, <2>4, <2>5 DEF ReadTables, ViewInv
<1>4. CASE Work
  BY <1>1, <1>4, WorkKeeps
<1>5. CASE CommitEvents \/ CommitSnapshot
  BY <1>5, CommitKeeps
<1>6. CASE Rollback
  BY <1>1, <1>6, NothingInView DEF Rollback
<1> QED BY <1>2, <1>3, <1>4, <1>5, <1>6 DEF Step

-----------------------------------------------------------------------------
(* Logons and their rows, on a server of one contract: there no row is     *)
(* given another boot.                                                     *)

\* As BootNamed; and contract 1 names no boot without its time.
Named(s) ==
    /\ BootNamed(s)
    /\ s.last_boot_at = NULL /\ (\E m \in Messages : m.contract = 1) => s.last_boot_id = NULL

Covers(T, E) ==
    \A r \in E : r.event.type = "LOGON" =>
        \E i \in DOMAIN T : Concerns(r, r.event, T[i])

\* The rows of S are those of T of the same key.
IdentityStays(S, T) ==
    \A i \in DOMAIN S : i \in DOMAIN T /\ SameIdentity(S[i], T[i])

SavedLogons == Covers(saved.sessions, saved.events) /\ Named(saved.server)

ViewLogons ==
    /\ Covers(sessions, events)
    /\ Named(server) /\ Named(loaded.server)
    /\ \A i \in DOMAIN sessions \intersect DOMAIN saved.sessions :
          SameIdentity(saved.sessions[i], sessions[i])

\* What a request relies on the others for.
RowsStay == IdentityStays(saved.sessions, saved'.sessions)

LEMMA CoversFurther ==
    ASSUME NEW S, NEW T, NEW E, Covers(S, E), IdentityStays(S, T)
    PROVE  Covers(T, E)
BY SameSame DEF Covers, IdentityStays

LEMMA OthersKeepLogons ==
    ASSUME ViewLogons, RowsStay, KeysApart, UNCHANGED view
    PROVE  ViewLogons'
<1>1. Covers(sessions', events') /\ Named(server') /\ Named(loaded'.server)
  BY DEF view, ViewLogons
<1>2. ASSUME NEW i \in DOMAIN sessions \intersect DOMAIN saved'.sessions
      PROVE  SameIdentity(saved'.sessions[i], sessions[i])
  <2>1. i \in DOMAIN saved.sessions
    BY DEF KeysApart
  <2>2. /\ SameIdentity(saved.sessions[i], sessions[i])
        /\ SameIdentity(saved.sessions[i], saved'.sessions[i])
    BY <2>1 DEF ViewLogons, RowsStay, IdentityStays
  <2> QED BY <2>2, SameSame
<1> QED BY <1>1, <1>2 DEF view, ViewLogons

LEMMA StartNames ==
    ASSUME OneContract, IsTable(sessions), Named(server), NEW m \in Messages,
           StartWith(Normalize(m))
    PROVE  Named(server') /\ IdentityStays(sessions, sessions')
<1>1. BootNamed(server')
  BY BootNamedStep DEF Named
<1>2. m.contract \in {1, 2}
  BY MessagesAssumption DEF V1Message, V2Message
<1>3. ASSUME m.contract = 1 PROVE server'.last_boot_at # NULL
  <2>1. m.boot_time \in Nat
    BY <1>3, MessagesAssumption DEF V1Message, V2Message, Times
  <2>2. Normalize(m).boot_time # NULL
    BY <1>3, <2>1, BootTimeType, NullAssumption DEF Normalize, NormalizeV1
  <2> QED BY <2>2 DEF StartWith, ServerAfter
<1>4. ASSUME m.contract = 2 PROVE ~\E l \in Messages : l.contract = 1
  BY <1>4 DEF OneContract
<1>5. Named(server')
  BY <1>1, <1>2, <1>3, <1>4 DEF Named
<1>6. IdentityStays(sessions, sessions')
  <2>1. CASE KeepBoot(Normalize(m))
    <3>1. Adopted(Normalize(m)) = {}
      BY SameTimeSameId DEF Adopted, Named
    <3>2. sessions' = [i \in DOMAIN sessions |-> sessions[i]]
      BY <2>1, <3>1 DEF KeepBoot
    <3> QED BY <3>2, SameSame DEF IdentityStays
  <2>2. CASE ChangeBoot(Normalize(m)) /\ RowStep
    BY <2>2, SameSame DEF RowStep, Evolves, IdentityStays
  <2> QED BY <2>1, <2>2, StartStep
<1> QED BY <1>5, <1>6

\* No event and no observed session changes whose session a row is.
LEMMA ItemNames ==
    ASSUME TypeOK, NEW x, IngestEvent(x) \/ Observe(x)
    PROVE  IdentityStays(sessions, sessions')
<1>1. CASE RowStep
  BY <1>1, SameSame DEF RowStep, Evolves, IdentityStays
<1>2. ASSUME NEW k, InsertStep(k) PROVE IdentityStays(sessions, sessions')
  BY <1>2, SameSame DEF InsertStep, IdentityStays
<1>3. RowStep \/ \E k : InsertStep(k)
  BY ItemStep
<1> QED BY <1>1, <1>2, <1>3

\* An accepted LOGON concerns a row: a new one, an open one or a closed one.
LEMMA LogonCovered ==
    ASSUME TypeOK, NEW e, IngestEvent(e), Covers(sessions, events)
    PROVE  Covers(sessions', events')
<1>1. IdentityStays(sessions, sessions')
  <2>1. IngestEvent(e) \/ Observe(e)
    OBVIOUS
  <2> QED BY <2>1, ItemNames
<1>2. Covers(sessions', events)
  BY <1>1, CoversFurther
<1>3. CASE SkipDuplicate(e)
  BY <1>2, <1>3 DEF SkipDuplicate
<1>4. CASE Accept(e) /\ (e.type = "LOGON" =>
                            \E i \in DOMAIN sessions' : Concerns(req.msg, e, sessions'[i]))
  <2>1. /\ events' = events \union {EventRow(req.msg, e)}
        /\ EventRow(req.msg, e).event = e
        /\ \A s : Concerns(EventRow(req.msg, e), e, s) <=> Concerns(req.msg, e, s)
    BY <1>4, AcceptedConcerns DEF Accept
  <2> QED BY <1>2, <1>4, <2>1 DEF Covers
<1>5. CASE LogonDelayed(e)
  <2>1. PICK i \in DOMAIN sessions : Concerns(req.msg, e, sessions[i])
    BY <1>5 DEF LogonDelayed, DelayedLogon, LatestSession, Stored
  <2> QED BY <1>4, <1>5, <2>1 DEF LogonDelayed, NoEffect
<1>6. CASE Unattached(e)
  BY <1>4, <1>6 DEF Unattached
<1>7. ASSUME NEW i, LogonNew(e, i) PROVE Covers(sessions', events')
  <2>1. PICK t \in Stamps, d \in ClockAdvance :
           sessions' = [j \in DOMAIN sessions \union {i} |->
                           IF j = i THEN [LoggedOn(req.msg, e) EXCEPT !.created_at = t + d]
                                    ELSE sessions[j]]
    BY <1>7 DEF LogonNew, Insert
  <2>2. i \in DOMAIN sessions' /\ Concerns(req.msg, e, sessions'[i])
    BY <2>1 DEF LoggedOn, Concerns, SameUser
  <2> QED BY <1>4, <1>7, <2>2 DEF LogonNew
<1>8. ASSUME NEW i, LogonOpen(e, i) PROVE Covers(sessions', events')
  <2>1. i \in DOMAIN sessions /\ Concerns(req.msg, e, sessions[i])
    BY <1>8 DEF LogonOpen, OpenSessions, Stored
  <2>2. i \in DOMAIN sessions' /\ Concerns(req.msg, e, sessions'[i])
    BY <1>1, <2>1, SameSame DEF IdentityStays
  <2> QED BY <1>4, <1>8, <2>2 DEF LogonOpen
<1>9. ASSUME NEW i, Disconnect(e, i) \/ Reconnect(e, i) \/ Logoff(e, i)
      PROVE  Covers(sessions', events')
  BY <1>4, <1>9 DEF Disconnect, Reconnect, Logoff
<1> QED BY <1>3, <1>5, <1>6, <1>7, <1>8, <1>9 DEF IngestEvent

\* What a handler's step has to keep of it.
LEMMA LogonsOfView ==
    ASSUME ViewLogons, Work, UNCHANGED saved, Named(server'),
           IdentityStays(sessions, sessions'), Covers(sessions', events')
    PROVE  ViewLogons'
<1>1. loaded' = loaded
  BY DEF Work
<1>2. ASSUME NEW i \in DOMAIN sessions' \intersect DOMAIN saved.sessions
      PROVE  SameIdentity(saved.sessions[i], sessions'[i])
  <2>1. i \in DOMAIN sessions
    BY DEF Work
  <2>2. /\ SameIdentity(saved.sessions[i], sessions[i])
        /\ SameIdentity(sessions[i], sessions'[i])
    BY <2>1 DEF ViewLogons, IdentityStays
  <2> QED BY <2>2, SameSame
<1> QED BY <1>1, <1>2 DEF ViewLogons
LEMMA WorkKeepsLogons ==
    ASSUME OneContract, SavedInv, ViewInv, ViewLogons, Work
    PROVE  ViewLogons'
<1>1. IsTable(sessions) /\ saved' = saved
  BY WorkStep DEF ViewInv, ViewType, SavedInv
<1>2. CASE Open
  <2>1. PICK m \in Messages : StartWith(Normalize(m))
    BY <1>2 DEF Open
  <2>2. Named(server') /\ IdentityStays(sessions, sessions')
    BY <1>1, <2>1, StartNames DEF ViewLogons
  <2>3. events' = events
    BY <2>1 DEF StartWith
  <2>4. Covers(sessions', events')
    BY <2>2, <2>3, CoversFurther DEF ViewLogons
  <2> QED BY <1>1, <2>2, <2>4, LogonsOfView
<1>3. CASE /\ req.kind \in {"events", "snapshot"}
           /\ \E x \in req.todo : IngestEvent(x) \/ Observe(x)
  <2>1. PICK x \in req.todo : IngestEvent(x) \/ Observe(x)
    BY <1>3
  <2>2. req \in Working
    BY <1>3 DEF ViewInv, ViewType, NoRequest, Phase
  <2>3. TypeOK
    BY <2>2, Tracking DEF SavedInv, ViewInv
  <2>4. server' = server
    BY <2>1, <2>3, ItemStep
  <2>5. IdentityStays(sessions, sessions')
    BY <2>1, <2>3, ItemNames
  <2>6. Covers(sessions', events')
    <3>1. CASE IngestEvent(x)
      BY <2>3, <3>1, LogonCovered DEF ViewLogons
    <3>2. CASE Observe(x)
      <4>1. events' = events
        BY <3>2 DEF Observe, ObserveKnown, ObserveNew, NextObserved
      <4> QED BY <2>5, <4>1, CoversFurther DEF ViewLogons
    <3> QED BY <2>1, <3>1, <3>2
  <2> QED BY <1>1, <2>4, <2>5, <2>6, LogonsOfView DEF ViewLogons
<1> QED BY <1>2, <1>3 DEF Work

LEMMA NothingRenamed ==
    ASSUME UNCHANGED saved
    PROVE  RowsStay /\ (SavedLogons => SavedLogons')
BY SameSame DEF RowsStay, IdentityStays, SavedLogons

LEMMA NoServerNamed == Named(NoServer)
BY DEF Named, BootNamed, NoServer

LEMMA NoLogonsInView == ASSUME Closing PROVE ViewLogons'
BY NoServerNamed DEF Closing, NothingLoaded, NoRows, ViewLogons, Covers

LEMMA NoLogonsBegun == ASSUME ViewInit PROVE ViewLogons
BY NoServerNamed DEF ViewInit, NothingLoaded, NoRows, ViewLogons, Covers

LEMMA NoLogonsStored ==
    ASSUME saved = [server |-> NoServer, sessions |-> NoRows, events |-> {}]
    PROVE  SavedLogons
BY NoServerNamed DEF SavedLogons, Covers

\* The boot a commit leaves in the server row.
LEMMA WrittenNames ==
    ASSUME OneContract, SavedType, ViewType, Named(saved.server), Named(server),
           Named(loaded.server)
    PROVE  Named(WriteServer(saved.server))
<1> DEFINE w == WriteServer(saved.server)
           a == server
           l == loaded.server
           s == saved.server
<1>1. /\ w.last_boot_id = IF a.last_boot_id # l.last_boot_id THEN a.last_boot_id ELSE s.last_boot_id
      /\ w.last_boot_at = IF a.last_boot_at # l.last_boot_at THEN a.last_boot_at ELSE s.last_boot_at
  BY WrittenServer
<1>2. Named(a) /\ Named(l) /\ Named(s)
  OBVIOUS
<1> HIDE DEF w, a, l, s
<1>3. CASE \A m \in Messages : m.contract = 2
  <2>1. a.last_boot_at = NULL /\ l.last_boot_at = NULL /\ s.last_boot_at = NULL
    BY <1>2, <1>3 DEF Named, BootNamed
  <2>2. w.last_boot_at = NULL
    BY <1>1, <2>1
  <2>3. ~\E m \in Messages : m.contract = 1
    BY <1>3
  <2> QED BY <2>2, <2>3 DEF Named, BootNamed, w
<1>4. CASE \E m \in Messages : m.contract = 1
  <2>1. \A r \in {a, l, s} :
           /\ r.last_boot_at # NULL => /\ r.last_boot_id = <<"v1", r.last_boot_at>>
                                       /\ NormalizeBootTime(r.last_boot_at) = r.last_boot_at
           /\ r.last_boot_at = NULL => r.last_boot_id = NULL
    BY <1>2, <1>4 DEF Named, BootNamed
  <2>2. a.last_boot_id = l.last_boot_id <=> a.last_boot_at = l.last_boot_at
    <3>1. \A t \in Times : <<"v1", t>> # NULL
      <4>1. \A t \in Times : <<"v1", t>> \in BootIds
        BY DEF BootIds
      <4> QED BY <4>1, NullAssumption
    <3>2. a.last_boot_at \in Maybe(Times) /\ l.last_boot_at \in Maybe(Times)
      BY DEF a, l, SavedType, ViewType, ServerRow
    <3>3. \A t, u : <<"v1", t>> = <<"v1", u>> => t = u
      OBVIOUS
    <3> QED BY <2>1, <3>1, <3>2, <3>3 DEF Maybe
  <2>3. \/ w.last_boot_at = a.last_boot_at /\ w.last_boot_id = a.last_boot_id
        \/ w.last_boot_at = s.last_boot_at /\ w.last_boot_id = s.last_boot_id
    BY <1>1, <2>2
  <2>4. ~\A m \in Messages : m.contract = 2
    BY <1>4
  <2>5. Named(w)
    BY <2>1, <2>3, <2>4 DEF Named, BootNamed
  <2> QED BY <2>5 DEF w
<1> QED BY <1>3, <1>4, MessagesAssumption DEF OneContract, V1Message, V2Message

LEMMA CommitKeepsLogons ==
    ASSUME OneContract, SavedInv, ViewInv, SavedLogons, ViewLogons,
           CommitEvents \/ CommitSnapshot
    PROVE  SavedLogons' /\ ViewLogons' /\ RowsStay
<1> PICK T : /\ Write(T)
             /\ IsTable(T)
             /\ DOMAIN T = DOMAIN sessions
             /\ \A i \in DOMAIN sessions : T[i] = sessions[i] \/ Evolves(sessions[i], T[i])
  BY Committed DEF ViewInv
<1> DEFINE W == wrote \union Changed(sessions, T)
           S == saved.sessions
           U == saved'.sessions
<1>1. IsTable(S) /\ WritesIn(W, T)
  <2>1. WritesIn(Changed(sessions, T), T)
    BY InChanged DEF ViewInv, ViewType, WritesIn
  <2> QED BY <2>1 DEF SavedInv, SavedType, ViewInv, ViewType, WritesIn
<1>2. IsTable(U) /\ Written(S, T, W, U)
  <2>1. U = WriteRows(S, T, W)
    BY DEF Write
  <2> HIDE DEF W, S, U
  <2> QED BY <1>1, <2>1, WrittenRows
<1>3. \A i \in DOMAIN T : SameIdentity(sessions[i], T[i])
  BY SameSame DEF Evolves
<1>4. \A i \in DOMAIN S \intersect DOMAIN T : SameIdentity(S[i], T[i])
  BY <1>3, SameSame DEF ViewLogons
<1> HIDE DEF W, S, U
<1>5. ASSUME NEW i \in DOMAIN S PROVE SameIdentity(S[i], U[i])
  <2>1. \A c \in {"protocol", "boot_id", "provider_session_id", "account"} :
           U[i][c] = IF <<i, c>> \in W THEN T[i][c] ELSE S[i][c]
    <3>1. {"protocol", "boot_id", "provider_session_id", "account"} \subseteq Columns
      BY DEF Columns
    <3> QED BY <1>2, <3>1 DEF Written
  <2>2. \A c : <<i, c>> \in W => i \in DOMAIN T
    BY <1>1 DEF WritesIn
  <2>3. i \in DOMAIN T => SameIdentity(S[i], T[i])
    BY <1>4
  <2> QED BY <2>1, <2>2, <2>3 DEF SameIdentity, SameUser
<1>6. DOMAIN U = DOMAIN S \union DOMAIN T
  BY <1>2 DEF Written
<1>7. IdentityStays(S, U)
  BY <1>5, <1>6 DEF IdentityStays
<1>8. IdentityStays(T, U)
  <2>1. \A i \in DOMAIN T \ DOMAIN S : U[i] = T[i]
    BY <1>2 DEF Written
  <2> QED BY <1>4, <1>5, <1>6, <2>1, SameSame DEF IdentityStays
<1>9. Covers(U, saved.events) /\ Covers(U, events)
  <2>1. IdentityStays(sessions, T)
    BY <1>3 DEF IdentityStays
  <2>2. Covers(S, saved.events) /\ Covers(T, events)
    BY <2>1, CoversFurther DEF SavedLogons, ViewLogons, S
  <2> QED BY <1>7, <1>8, <2>2, CoversFurther
<1>10. saved'.events = saved.events \union events /\ saved'.server = WriteServer(saved.server)
  BY DEF Write
<1>11. Named(saved'.server)
  BY <1>10, WrittenNames DEF SavedInv, ViewInv, SavedLogons, ViewLogons
<1>12. Closing
  BY DEF CommitEvents, CommitSnapshot
<1>13. Covers(U, saved'.events)
  BY <1>9, <1>10 DEF Covers
<1> QED BY <1>7, <1>11, <1>12, <1>13, NoLogonsInView DEF SavedLogons, RowsStay, S, U

LEMMA RequestKeepsLogons ==
    ASSUME OneContract, SavedInv, ViewInv, SavedLogons, ViewLogons, Step
    PROVE  SavedLogons' /\ ViewLogons' /\ RowsStay
<1>1. ASSUME UNCHANGED saved PROVE SavedLogons' /\ RowsStay
  BY <1>1, NothingRenamed
<1>2. CASE Authenticate
  BY <1>1, <1>2 DEF Authenticate, SavedLogons, ViewLogons
<1>3. CASE ReadTables
  BY <1>1, <1>3, SameSame DEF ReadTables, SavedLogons, ViewLogons
<1>4. CASE Work
  BY <1>1, <1>4, WorkKeeps, WorkKeepsLogons
<1>5. CASE CommitEvents \/ CommitSnapshot
  BY <1>5, CommitKeepsLogons
<1>6. CASE Rollback
  BY <1>1, <1>6, NoLogonsInView DEF Rollback
<1> QED BY <1>2, <1>3, <1>4, <1>5, <1>6 DEF Step

-----------------------------------------------------------------------------
(* Batches recorded whole.                                                 *)

\* Event e of message m has a row among E.
Recorded(E, m, e) == \E row \in E : row.event_fingerprint = Fingerprint(m, e)

\* Batches share no event, except repetitions of one another.
BatchesApart ==
    \A m, n \in Messages :
        /\ m.kind = "events"
        /\ n.kind = "events"
        /\ \E e \in m.items, f \in n.items :
              Fingerprint(Normalize(m), e) = Fingerprint(Normalize(n), f)
        => \A e \in m.items : \E f \in n.items :
              Fingerprint(Normalize(m), e) = Fingerprint(Normalize(n), f)

SavedBatches ==
    \A n \in Messages :
        n.kind = "events" /\ (\E e \in n.items : Recorded(saved.events, Normalize(n), e)) =>
            \A e \in n.items : Recorded(saved.events, Normalize(n), e)

\* What a view has beyond the tables is of its own batch, which it has recorded so far.
ViewBatches ==
    /\ req \in Working =>
          /\ \E n \in Messages : req.msg = Normalize(n) /\ n.kind = req.kind
          /\ req.todo \subseteq req.msg.items
    /\ \A row \in events \ saved.events :
          /\ req \in Working
          /\ req.kind = "events"
          /\ \E e \in req.msg.items : row.event_fingerprint = Fingerprint(req.msg, e)
    /\ req \in Working /\ req.kind = "events" =>
          \A e \in req.msg.items \ req.todo : Recorded(events, req.msg, e)

LEMMA OthersKeepBatches ==
    ASSUME ViewBatches, saved.events \subseteq saved'.events, UNCHANGED view
    PROVE  ViewBatches'
BY DEF view, ViewBatches, Working, Recorded

LEMMA Idle == NoRequest \notin Working /\ \A p : Phase(p) \notin Working
BY DEF NoRequest, Phase, Working, Request

LEMMA NoBatchesInView == ASSUME Closing PROVE ViewBatches'
BY Idle DEF Closing, ViewBatches

LEMMA NoBatchesBegun == ASSUME ViewInit PROVE ViewBatches
BY Idle DEF ViewInit, ViewBatches

LEMMA NoBatchesStored ==
    ASSUME saved = [server |-> NoServer, sessions |-> NoRows, events |-> {}]
    PROVE  SavedBatches
BY DEF SavedBatches, Recorded

\* An event that is not a duplicate is recorded, and nothing else is.
LEMMA EventRecorded ==
    ASSUME TypeOK, NEW e, IngestEvent(e)
    PROVE  /\ req.kind = "events" /\ req' = [req EXCEPT !.todo = @ \ {e}]
           /\ events' \in {events, events \union {EventRow(req.msg, e)}}
           /\ Recorded(events', req.msg, e)
<1>1. CASE SkipDuplicate(e)
  BY <1>1 DEF SkipDuplicate, NextEvent, IsDuplicate, Recorded
<1>2. CASE Accept(e)
  <2>1. EventRow(req.msg, e).event_fingerprint = Fingerprint(req.msg, e)
    BY DEF EventRow
  <2> QED BY <1>2, <2>1 DEF Accept, NextEvent, Recorded
<1>3. SkipDuplicate(e) \/ Accept(e)
  BY DEF IngestEvent, LogonDelayed, Unattached, LogonNew, LogonOpen, Disconnect, Reconnect,
         Logoff
<1> QED BY <1>1, <1>2, <1>3

LEMMA WorkKeepsBatches ==
    ASSUME SavedInv, ViewInv, ViewBatches, Work
    PROVE  ViewBatches'
<1>1. saved' = saved
  BY WorkKeeps
<1>2. CASE Open
  <2>1. PICK m \in Messages : StartWith(Normalize(m))
    BY <1>2 DEF Open
  <2>2. req \notin Working
    BY <1>2, Idle DEF Open
  <2>3. events' = events /\ events \subseteq saved.events
    BY <2>1, <2>2 DEF StartWith, ViewBatches
  <2>4. /\ req'.msg = Normalize(m) /\ req'.kind = m.kind
        /\ req'.msg.items = req'.todo
    BY <2>1, NormalizeKeeps DEF StartWith
  <2> QED BY <1>1, <2>3, <2>4 DEF ViewBatches
<1>3. CASE /\ req.kind \in {"events", "snapshot"}
           /\ \E x \in req.todo : IngestEvent(x) \/ Observe(x)
  <2>1. PICK x \in req.todo : IngestEvent(x) \/ Observe(x)
    BY <1>3
  <2>2. req \in Working
    BY <1>3 DEF ViewInv, ViewType, NoRequest, Phase
  <2>3. TypeOK
    BY <2>2, Tracking DEF SavedInv, ViewInv
  <2>4. req'.kind = req.kind /\ req'.msg = req.msg
    BY <2>1, <2>3, ItemOfRequest
  <2>5. /\ \E n \in Messages : req'.msg = Normalize(n) /\ n.kind = req'.kind
        /\ req'.todo \subseteq req'.msg.items
    BY <2>1, <2>2, <2>3, <2>4, ItemOfRequest DEF ViewBatches
  <2>6. req' \in Working
    BY WorkStep, <2>4, <1>3 DEF SavedInv, ViewInv, ViewType, NoRequest, Phase
  <2>7. CASE IngestEvent(x)
    <3>1. /\ req.kind = "events" /\ req' = [req EXCEPT !.todo = @ \ {x}]
          /\ events' \in {events, events \union {EventRow(req.msg, x)}}
          /\ Recorded(events', req.msg, x)
      BY <2>3, <2>7, EventRecorded
    <3>2. req'.todo = req.todo \ {x}
      BY <2>2, <3>1 DEF Working, Request
    <3>3. x \in req.msg.items
      BY <2>1, <2>2 DEF ViewBatches
    <3>4. ASSUME NEW row \in events' \ saved.events
          PROVE  \E e \in req.msg.items : row.event_fingerprint = Fingerprint(req.msg, e)
      <4>1. CASE row \in events
        BY <3>4, <4>1 DEF ViewBatches
      <4>2. CASE row = EventRow(req.msg, x)
        BY <3>3, <4>2 DEF EventRow
      <4> QED BY <3>1, <4>1, <4>2
    <3>5. ASSUME NEW e \in req.msg.items \ req'.todo PROVE Recorded(events', req.msg, e)
      <4>1. CASE e = x
        BY <3>1, <4>1
      <4>2. CASE e \notin req.todo
        BY <2>2, <3>1, <4>2 DEF ViewBatches, Recorded
      <4> QED BY <3>2, <4>1, <4>2
    <3> QED BY <1>1, <2>4, <2>5, <2>6, <3>1, <3>4, <3>5 DEF ViewBatches
  <2>8. CASE Observe(x)
    <3>1. req.kind = "snapshot" /\ events' = events
      BY <2>3, <2>8, ItemOfRequest
    <3> QED BY <1>1, <2>4, <2>5, <2>6, <3>1 DEF ViewBatches
  <2> QED BY <2>1, <2>7, <2>8
<1> QED BY <1>2, <1>3 DEF Work

LEMMA CommitKeepsBatches ==
    ASSUME BatchesApart, ViewInv, SavedBatches, ViewBatches, CommitEvents \/ CommitSnapshot
    PROVE  SavedBatches' /\ ViewBatches'
<1>1. saved'.events = saved.events \union events
  BY DEF CommitEvents, CommitSnapshot, Write
<1>2. ASSUME NEW n \in Messages, n.kind = "events", NEW e \in n.items,
             Recorded(saved'.events, Normalize(n), e), NEW d \in n.items
      PROVE  Recorded(saved'.events, Normalize(n), d)
  <2>1. PICK row \in saved'.events : row.event_fingerprint = Fingerprint(Normalize(n), e)
    BY <1>2 DEF Recorded
  <2>2. CASE row \in saved.events
    BY <1>1, <1>2, <2>1, <2>2 DEF SavedBatches, Recorded
  <2>3. CASE row \in events \ saved.events
    <3>1. /\ req \in Working /\ req.kind = "events"
          /\ \E f \in req.msg.items : row.event_fingerprint = Fingerprint(req.msg, f)
      BY <2>3 DEF ViewBatches
    <3>2. PICK l \in Messages : req.msg = Normalize(l) /\ l.kind = req.kind
      BY <3>1 DEF ViewBatches
    <3>3. req.msg.items = l.items
      BY <3>2, NormalizeKeeps
    <3>4. PICK f \in l.items : Fingerprint(Normalize(n), e) = Fingerprint(Normalize(l), f)
      BY <2>1, <3>1, <3>2, <3>3
    <3>5. l.kind = "events"
      BY <3>1, <3>2
    <3>6. PICK g \in l.items : Fingerprint(Normalize(n), d) = Fingerprint(Normalize(l), g)
      BY <1>2, <3>4, <3>5 DEF BatchesApart
    <3>7. req.todo = {}
      BY DEF CommitEvents, CommitSnapshot
    <3>8. Recorded(events, req.msg, g)
      BY <3>1, <3>3, <3>7 DEF ViewBatches
    <3> QED BY <1>1, <3>2, <3>6, <3>8 DEF Recorded
  <2> QED BY <1>1, <2>2, <2>3
<1>3. Closing
  BY DEF CommitEvents, CommitSnapshot
<1> QED BY <1>2, <1>3, NoBatchesInView DEF SavedBatches

LEMMA RequestKeepsBatches ==
    ASSUME BatchesApart, SavedInv, ViewInv, SavedBatches, ViewBatches, Step
    PROVE  SavedBatches' /\ ViewBatches'
<1>1. ASSUME UNCHANGED saved PROVE SavedBatches'
  BY <1>1 DEF SavedBatches
<1>2. CASE Authenticate \/ ReadTables
  BY <1>1, <1>2, Idle DEF Authenticate, ReadTables, ViewBatches
<1>3. CASE Work
  BY <1>1, <1>3, WorkKeeps, WorkKeepsBatches
<1>4. CASE CommitEvents \/ CommitSnapshot
  BY <1>4, CommitKeepsBatches
<1>5. CASE Rollback
  BY <1>1, <1>5, NoBatchesInView DEF Rollback
<1> QED BY <1>2, <1>3, <1>4, <1>5 DEF Step

-----------------------------------------------------------------------------
(* One row for one logon, where snapshots do not say when a session began: *)
(* then only a recorded LOGON dates a row.                                 *)

\* Windows records one logon once: two LOGONs alike in session and time are one.
LogonsOnce ==
    \A m, n \in Messages :
        m.kind = "events" /\ n.kind = "events" =>
            \A e \in m.items, f \in n.items :
                /\ e.type = "LOGON" /\ f.type = "LOGON"
                /\ e.occurred_at = f.occurred_at
                /\ e.provider_session_id = f.provider_session_id
                /\ SameUser(e.account, f.account)
                /\ Normalize(m).protocol = Normalize(n).protocol
                /\ Normalize(m).boot_id = Normalize(n).boot_id
                => Fingerprint(Normalize(m), e) = Fingerprint(Normalize(n), f)

SnapshotsUntimed ==
    \A m \in Messages : m.kind = "snapshot" => \A o \in m.items : o.logon_at = NULL

\* Every event of E was posted.
Posted(E) ==
    \A r \in E : \E n \in Messages :
        n.kind = "events" /\ \E f \in n.items : r = EventRow(Normalize(n), f)

\* A LOGON of E says when session s began.
BegunBy(E, s) ==
    \E r \in E : /\ r.event.type = "LOGON"
                 /\ Concerns(r, r.event, s)
                 /\ r.event.occurred_at = s.logon_at

Dated(T, E) == \A i \in DOMAIN T : T[i].logon_at # NULL => BegunBy(E, T[i])

OneRow(T) ==
    \A i, j \in DOMAIN T :
        T[i].logon_at # NULL /\ T[i].logon_at = T[j].logon_at /\ SameIdentity(T[i], T[j])
            => i = j

SavedDates ==
    Posted(saved.events) /\ Dated(saved.sessions, saved.events) /\ OneRow(saved.sessions)

\* What it would write over, or beside, the logon times of the tables.
Dates(i) ==
    /\ sessions[i].logon_at # NULL
    /\ i \notin DOMAIN saved.sessions \/ <<i, "logon_at">> \in wrote

\* A logon time the request did not read comes of an event it did not read.
ViewDates ==
    /\ Posted(events) /\ Dated(sessions, events) /\ OneRow(sessions)
    /\ loaded.events \subseteq events
    /\ req.kind # "events" => events \subseteq loaded.events
    /\ \A i \in DOMAIN sessions : Dates(i) => BegunBy(events \ loaded.events, sessions[i])

LEMMA OthersKeepDates ==
    ASSUME ViewDates, RowsStay, UNCHANGED view
    PROVE  ViewDates'
BY DEF view, ViewDates, RowsStay, IdentityStays, Dates

LEMMA NothingDated == ASSUME UNCHANGED saved, SavedDates PROVE SavedDates'
BY DEF SavedDates

LEMMA NoDatesInView == ASSUME Closing PROVE ViewDates'
BY DEF Closing, NothingLoaded, NoRows, ViewDates, Posted, Dated, OneRow

LEMMA NoDatesBegun == ASSUME ViewInit PROVE ViewDates
BY DEF ViewInit, NothingLoaded, NoRows, ViewDates, Posted, Dated, OneRow

LEMMA NoDatesStored ==
    ASSUME saved = [server |-> NoServer, sessions |-> NoRows, events |-> {}]
    PROVE  SavedDates
BY DEF SavedDates, NoRows, Posted, Dated, OneRow

\* What dates a session dates it under any row of it.
LEMMA BegunSame ==
    ASSUME NEW D, NEW E, D \subseteq E, NEW s, NEW t, SameIdentity(s, t),
           t.logon_at = s.logon_at, BegunBy(D, s)
    PROVE  BegunBy(E, t)
BY SameSame DEF BegunBy

\* The one LOGON that can have dated s has the fingerprint of e.
LEMMA OneBegins ==
    ASSUME LogonsOnce, NEW E, Posted(E), NEW n \in Messages, n.kind = "events",
           NEW e \in n.items, e.type = "LOGON",
           NEW s, BegunBy(E, s), s.logon_at = e.occurred_at, Concerns(Normalize(n), e, s)
    PROVE  \E r \in E : /\ r.event_fingerprint = Fingerprint(Normalize(n), e)
                        /\ r.event.type = "LOGON"
<1>1. PICK r \in E : /\ r.event.type = "LOGON"
                     /\ Concerns(r, r.event, s)
                     /\ r.event.occurred_at = s.logon_at
  BY DEF BegunBy
<1>2. PICK l \in Messages : l.kind = "events" /\ \E f \in l.items : r = EventRow(Normalize(l), f)
  BY DEF Posted
<1>3. PICK f \in l.items : r = EventRow(Normalize(l), f)
  BY <1>2
<1>4. /\ r.event = f /\ r.protocol = Normalize(l).protocol
      /\ r.boot_id = Normalize(l).boot_id
      /\ r.event_fingerprint = Fingerprint(Normalize(l), f)
  BY <1>3 DEF EventRow
<1>5. /\ f.type = "LOGON" /\ f.occurred_at = e.occurred_at
      /\ f.provider_session_id = e.provider_session_id
      /\ SameUser(f.account, e.account)
      /\ Normalize(l).protocol = Normalize(n).protocol
      /\ Normalize(l).boot_id = Normalize(n).boot_id
  BY <1>1, <1>4 DEF Concerns, SameUser
<1>6. Fingerprint(Normalize(l), f) = Fingerprint(Normalize(n), e)
  BY <1>2, <1>5 DEF LogonsOnce
<1> QED BY <1>1, <1>4, <1>6

\* A step of a handler that dates no row,
Undated ==
    /\ IdentityStays(sessions, sessions')
    /\ \A i \in DOMAIN sessions' :
          sessions'[i].logon_at = IF i \in DOMAIN sessions THEN sessions[i].logon_at ELSE NULL

\* and one that dates row k, by the LOGON e it accepts.
DatedBy(e, k) ==
    /\ Accept(e) /\ e.type = "LOGON"
    /\ IdentityStays(sessions, sessions')
    /\ k \in DOMAIN sessions' /\ sessions'[k].logon_at = e.occurred_at
    /\ Concerns(req.msg, e, sessions'[k])
    /\ \A i \in DOMAIN sessions' \ {k} :
          i \in DOMAIN sessions /\ sessions'[i].logon_at = sessions[i].logon_at

LEMMA StartDates ==
    ASSUME OneContract, IsTable(sessions), Named(server), NEW m \in Messages,
           StartWith(Normalize(m))
    PROVE  Undated
<1>1. IdentityStays(sessions, sessions')
  BY StartNames
<1>2. DOMAIN sessions' = DOMAIN sessions
  BY StartStep DEF RowStep, RenameStep
<1>3. \A i \in DOMAIN sessions : sessions[i] \in Row
  BY DEF IsTable
<1>4. CASE KeepBoot(Normalize(m))
  BY <1>1, <1>2, <1>3, <1>4 DEF KeepBoot, Undated, Row
<1>5. CASE ChangeBoot(Normalize(m))
  BY <1>1, <1>2, <1>3, <1>5 DEF ChangeBoot, Closed, Undated, Row
<1> QED BY <1>4, <1>5 DEF StartWith

LEMMA EventDates ==
    ASSUME TypeOK, NEW e, IngestEvent(e)
    PROVE  Undated \/ \E k : DatedBy(e, k)
<1>1. IdentityStays(sessions, sessions')
  <2>1. IngestEvent(e) \/ Observe(e)
    OBVIOUS
  <2> QED BY <2>1, ItemNames
<1>2. \A i \in DOMAIN sessions : sessions[i] \in Row
  BY DEF TypeOK, IsTable
<1>3. sessions' = sessions => Undated
  BY <1>1 DEF Undated
<1>4. ASSUME NEW i \in DOMAIN sessions, NEW row, Update(i, row),
             row.logon_at = sessions[i].logon_at
      PROVE  Undated
  BY <1>1, <1>4 DEF Update, Undated
<1>5. CASE SkipDuplicate(e) \/ LogonDelayed(e) \/ Unattached(e)
  BY <1>3, <1>5 DEF SkipDuplicate, LogonDelayed, Unattached, NoEffect
<1>6. ASSUME NEW i, LogonNew(e, i) PROVE DatedBy(e, i)
  <2>1. PICK t \in Stamps, d \in ClockAdvance :
           sessions' = [j \in DOMAIN sessions \union {i} |->
                           IF j = i THEN [LoggedOn(req.msg, e) EXCEPT !.created_at = t + d]
                                    ELSE sessions[j]]
    BY <1>6 DEF LogonNew, Insert
  <2>2. /\ i \in DOMAIN sessions' /\ Concerns(req.msg, e, sessions'[i])
        /\ sessions'[i].logon_at = e.occurred_at
    BY <2>1 DEF LoggedOn, Concerns, SameUser
  <2> QED BY <1>1, <1>6, <2>1, <2>2 DEF LogonNew, DatedBy
<1>7. ASSUME NEW i, LogonOpen(e, i) PROVE Undated \/ DatedBy(e, i)
  <2>1. i \in DOMAIN sessions /\ Concerns(req.msg, e, sessions[i])
    BY <1>7 DEF LogonOpen, OpenSessions, Stored
  <2>2. /\ DOMAIN sessions' = DOMAIN sessions
        /\ sessions'[i].logon_at = Default(sessions[i].logon_at, e.occurred_at)
        /\ \A j \in DOMAIN sessions \ {i} : sessions'[j] = sessions[j]
    BY <1>2, <1>7, <2>1 DEF LogonOpen, Update, Row
  <2>3. Concerns(req.msg, e, sessions'[i])
    BY <1>1, <2>1, SameSame DEF IdentityStays
  <2>4. CASE sessions[i].logon_at = NULL
    <3>1. Accept(e) /\ e.type = "LOGON"
      BY <1>7 DEF LogonOpen
    <3> QED BY <1>1, <2>1, <2>2, <2>3, <2>4, <3>1 DEF DatedBy, Default
  <2>5. CASE sessions[i].logon_at # NULL
    BY <1>1, <2>1, <2>2, <2>5 DEF Undated, Default
  <2> QED BY <2>4, <2>5
<1>8. ASSUME NEW i, Disconnect(e, i) \/ Reconnect(e, i) \/ Logoff(e, i) PROVE Undated
  <2>1. i \in DOMAIN sessions
    BY <1>8 DEF Disconnect, Reconnect, Logoff, OpenSessions, Stored
  <2>2. CASE sessions' = sessions
    BY <1>3, <2>2
  <2>3. CASE sessions' # sessions
    <3>1. CASE Disconnect(e, i)
      BY <1>2, <1>4, <2>1, <2>3, <3>1 DEF Disconnect, NoEffect, Row
    <3>2. CASE Reconnect(e, i)
      BY <1>2, <1>4, <2>1, <2>3, <3>2 DEF Reconnect, NoEffect, Row
    <3>3. CASE Logoff(e, i)
      BY <1>2, <1>4, <2>1, <2>3, <3>3 DEF Logoff, NoEffect, Closed, Row
    <3> QED BY <1>8, <3>1, <3>2, <3>3
  <2> QED BY <2>2, <2>3
<1> QED BY <1>5, <1>6, <1>7, <1>8 DEF IngestEvent

LEMMA ObservedDates ==
    ASSUME TypeOK, NEW o, Observe(o), o.logon_at = NULL
    PROVE  Undated
<1>1. IdentityStays(sessions, sessions')
  <2>1. IngestEvent(o) \/ Observe(o)
    OBVIOUS
  <2> QED BY <2>1, ItemNames
<1>2. \A i \in DOMAIN sessions : sessions[i] \in Row
  BY DEF TypeOK, IsTable
<1>3. ASSUME NEW i, ObserveNew(o, i) PROVE Undated
  <2>1. PICK t \in Stamps, d \in ClockAdvance :
           sessions' = [j \in DOMAIN sessions \union {i} |->
                           IF j = i THEN [Observed(req.msg, o) EXCEPT !.created_at = t + d]
                                    ELSE sessions[j]]
    BY <1>3 DEF ObserveNew, Insert
  <2>2. i \notin DOMAIN sessions
    BY <1>3 DEF ObserveNew, Insert
  <2>3. sessions'[i].logon_at = NULL
    BY <2>1 DEF Observed
  <2> QED BY <1>1, <2>1, <2>2, <2>3 DEF Undated
<1>4. ASSUME NEW i, ObserveKnown(o, i) PROVE Undated
  <2>1. i \in DOMAIN sessions
    BY <1>4 DEF ObserveKnown, OpenSessions, Stored
  <2>2. PICK connected, disconnected, last :
           Update(i, [sessions[i] EXCEPT !.state = o.state,
                                         !.last_connected_at = connected,
                                         !.last_disconnected_at = disconnected,
                                         !.logon_at = Default(@, o.logon_at),
                                         !.last_source_ip = last])
    BY <1>4 DEF ObserveKnown
  <2>3. Default(sessions[i].logon_at, o.logon_at) = sessions[i].logon_at
    BY DEF Default
  <2>4. /\ DOMAIN sessions' = DOMAIN sessions
        /\ sessions'[i].logon_at = sessions[i].logon_at
        /\ \A j \in DOMAIN sessions \ {i} : sessions'[j] = sessions[j]
    BY <1>2, <2>1, <2>2, <2>3 DEF Update, Row
  <2> QED BY <1>1, <2>1, <2>4 DEF Undated
<1> QED BY <1>3, <1>4 DEF Observe

LEMMA ChangedDates ==
    ASSUME ViewType, Work, NEW i \in DOMAIN sessions
    PROVE  <<i, "logon_at">> \in wrote' <=>
               \/ <<i, "logon_at">> \in wrote
               \/ sessions'[i].logon_at # sessions[i].logon_at
<1>1. "logon_at" \in Columns /\ IsTable(sessions)
  BY DEF Columns, ViewType
<1>2. <<i, "logon_at">> \in Changed(sessions, sessions') <=>
          sessions[i]["logon_at"] # sessions'[i]["logon_at"]
  BY <1>1, InChanged
<1> QED BY <1>2 DEF Work

LEMMA UndatedKeeps ==
    ASSUME ViewType, ViewDates, Work, UNCHANGED saved, Undated,
           Posted(events'), events \subseteq events',
           req'.kind # "events" => events' \subseteq loaded.events
    PROVE  ViewDates'
<1>1. loaded' = loaded
  BY DEF Work
<1>2. ASSUME NEW i \in DOMAIN sessions', sessions'[i].logon_at # NULL
      PROVE  /\ i \in DOMAIN sessions /\ sessions'[i].logon_at = sessions[i].logon_at
             /\ SameIdentity(sessions[i], sessions'[i])
  BY <1>2 DEF Undated, IdentityStays
<1>3. Dated(sessions', events')
  <2> SUFFICES ASSUME NEW i \in DOMAIN sessions', sessions'[i].logon_at # NULL
               PROVE  BegunBy(events', sessions'[i])
    BY DEF Dated
  <2>1. BegunBy(events, sessions[i])
    BY <1>2 DEF ViewDates, Dated
  <2> QED BY <1>2, <2>1, BegunSame
<1>4. OneRow(sessions')
  <2> SUFFICES ASSUME NEW i \in DOMAIN sessions', NEW j \in DOMAIN sessions',
                      sessions'[i].logon_at # NULL,
                      sessions'[i].logon_at = sessions'[j].logon_at,
                      SameIdentity(sessions'[i], sessions'[j])
               PROVE  i = j
    BY DEF OneRow
  <2>1. SameIdentity(sessions[i], sessions[j])
    BY <1>2, SameSame
  <2> QED BY <1>2, <2>1 DEF ViewDates, OneRow
<1>5. ASSUME NEW i \in DOMAIN sessions', Dates(i)'
      PROVE  BegunBy(events' \ loaded'.events, sessions'[i])
  <2>1. /\ i \in DOMAIN sessions /\ sessions'[i].logon_at = sessions[i].logon_at
        /\ SameIdentity(sessions[i], sessions'[i])
    BY <1>2, <1>5 DEF Dates
  <2>2. Dates(i)
    BY <1>5, <2>1, ChangedDates DEF Dates
  <2>3. BegunBy(events \ loaded.events, sessions[i])
    BY <2>1, <2>2 DEF ViewDates
  <2>4. events \ loaded.events \subseteq events' \ loaded'.events
    BY <1>1
  <2> QED BY <2>1, <2>3, <2>4, BegunSame
<1> QED BY <1>1, <1>3, <1>4, <1>5 DEF ViewDates

LEMMA DatedKeeps ==
    ASSUME LogonsOnce, ViewType, ViewDates, Work, UNCHANGED saved,
           NEW n \in Messages, n.kind = "events", req.msg = Normalize(n),
           NEW e \in n.items, NEW k, DatedBy(e, k),
           req'.kind = "events"
    PROVE  ViewDates'
<1>1. loaded' = loaded
  BY DEF Work
<1> DEFINE new == EventRow(req.msg, e)
<1>2. /\ events' = events \union {new} /\ ~IsDuplicate(e)
      /\ new.event = e /\ new.event_fingerprint = Fingerprint(Normalize(n), e)
      /\ \A s : Concerns(new, e, s) <=> Concerns(req.msg, e, s)
  BY AcceptedConcerns DEF DatedBy, Accept, EventRow
<1>3. Posted(events')
  BY <1>2 DEF ViewDates, Posted
<1>4. new \notin loaded.events
  BY <1>2 DEF ViewDates, IsDuplicate
<1> HIDE DEF new
<1>5. BegunBy(events' \ loaded'.events, sessions'[k])
  <2>1. new \in events' \ loaded'.events
    BY <1>1, <1>2, <1>4
  <2> QED BY <1>2, <2>1 DEF BegunBy, DatedBy
<1>6. ASSUME NEW i \in DOMAIN sessions', i # k
      PROVE  /\ i \in DOMAIN sessions /\ sessions'[i].logon_at = sessions[i].logon_at
             /\ SameIdentity(sessions[i], sessions'[i])
  BY <1>6 DEF DatedBy, IdentityStays
<1>7. Dated(sessions', events')
  <2> SUFFICES ASSUME NEW i \in DOMAIN sessions', sessions'[i].logon_at # NULL, i # k
               PROVE  BegunBy(events', sessions'[i])
    BY <1>5, BegunSame, SameSame DEF Dated
  <2>1. BegunBy(events, sessions[i])
    BY <1>6 DEF ViewDates, Dated
  <2> QED BY <1>2, <1>6, <2>1, BegunSame
\* Another row of this logon would make e a duplicate.
<1>8. ASSUME NEW i \in DOMAIN sessions', i # k,
             sessions'[i].logon_at = sessions'[k].logon_at,
             sessions'[k].logon_at # NULL, SameIdentity(sessions'[k], sessions'[i])
      PROVE  FALSE
  <2>1. /\ sessions[i].logon_at = e.occurred_at /\ sessions[i].logon_at # NULL
        /\ SameIdentity(sessions'[k], sessions[i])
    BY <1>6, <1>8, SameSame DEF DatedBy
  <2>2. Concerns(Normalize(n), e, sessions[i])
    BY <2>1, SameSame DEF DatedBy
  <2>3. BegunBy(events, sessions[i])
    BY <1>6, <1>8, <2>1 DEF ViewDates, Dated
  <2>4. \E r \in events : r.event_fingerprint = Fingerprint(Normalize(n), e)
    BY <2>1, <2>2, <2>3, OneBegins DEF ViewDates, DatedBy
  <2> QED BY <1>2, <2>4 DEF IsDuplicate
<1>9. OneRow(sessions')
  <2> SUFFICES ASSUME NEW i \in DOMAIN sessions', NEW j \in DOMAIN sessions',
                      sessions'[i].logon_at # NULL,
                      sessions'[i].logon_at = sessions'[j].logon_at,
                      SameIdentity(sessions'[i], sessions'[j])
               PROVE  i = j
    BY DEF OneRow
  <2>1. CASE i # k /\ j # k
    <3>1. SameIdentity(sessions[i], sessions[j])
      BY <1>6, <2>1, SameSame
    <3> QED BY <1>6, <2>1, <3>1 DEF ViewDates, OneRow
  <2> QED BY <1>8, <2>1, SameSame
<1>10. ASSUME NEW i \in DOMAIN sessions', Dates(i)', i # k
       PROVE  BegunBy(events' \ loaded'.events, sessions'[i])
  <2>1. /\ i \in DOMAIN sessions /\ sessions'[i].logon_at = sessions[i].logon_at
        /\ SameIdentity(sessions[i], sessions'[i])
    BY <1>6, <1>10
  <2>2. Dates(i)
    BY <1>10, <2>1, ChangedDates DEF Dates
  <2>3. BegunBy(events \ loaded.events, sessions[i])
    BY <2>1, <2>2 DEF ViewDates
  <2>4. events \ loaded.events \subseteq events' \ loaded'.events
    BY <1>1, <1>2
  <2> QED BY <2>1, <2>3, <2>4, BegunSame
<1>11. loaded'.events \subseteq events'
  BY <1>1, <1>2 DEF ViewDates
<1> QED BY <1>3, <1>5, <1>7, <1>9, <1>10, <1>11 DEF ViewDates

LEMMA WorkKeepsDates ==
    ASSUME OneContract, LogonsOnce, SnapshotsUntimed, SavedInv, ViewInv, ViewLogons,
           ViewBatches, ViewDates, Work
    PROVE  ViewDates'
<1>1. saved' = saved /\ ViewType /\ IsTable(sessions) /\ Named(server)
  BY WorkKeeps DEF ViewInv, ViewType, ViewLogons
<1>2. CASE Open
  <2>1. PICK m \in Messages : StartWith(Normalize(m))
    BY <1>2 DEF Open
  <2>2. Undated
    BY <1>1, <2>1, StartDates
  <2>3. events' = events /\ req.kind = "open"
    BY <1>2, <2>1 DEF Open, StartWith, Phase
  <2>4. Posted(events') /\ events' \subseteq loaded.events
    BY <2>3 DEF ViewDates
  <2> QED BY <1>1, <2>2, <2>3, <2>4, UndatedKeeps
<1>3. CASE /\ req.kind \in {"events", "snapshot"}
           /\ \E x \in req.todo : IngestEvent(x) \/ Observe(x)
  <2>1. PICK x \in req.todo : IngestEvent(x) \/ Observe(x)
    BY <1>3
  <2>2. req \in Working
    BY <1>3 DEF ViewInv, ViewType, NoRequest, Phase
  <2>3. TypeOK
    BY <2>2, Tracking DEF SavedInv, ViewInv
  <2>4. PICK n \in Messages : req.msg = Normalize(n) /\ n.kind = req.kind
    BY <2>2 DEF ViewBatches
  <2>5. x \in n.items /\ req'.kind = req.kind
    BY <2>1, <2>2, <2>3, <2>4, NormalizeKeeps, ItemOfRequest DEF ViewBatches
  <2>6. CASE IngestEvent(x)
    <3>1. n.kind = "events" /\ req'.kind = "events"
          /\ events' \in {events, events \union {EventRow(req.msg, x)}}
      BY <2>3, <2>4, <2>5, <2>6, EventRecorded
    <3>2. Posted(events') /\ events \subseteq events'
      BY <2>4, <2>5, <3>1 DEF ViewDates, Posted
    <3>3. CASE Undated
      BY <1>1, <3>1, <3>2, <3>3, UndatedKeeps
    <3>4. ASSUME NEW k, DatedBy(x, k) PROVE ViewDates'
      BY <1>1, <2>4, <2>5, <3>1, <3>4, DatedKeeps
    <3> QED BY <2>3, <2>6, <3>3, <3>4, EventDates
  <2>7. CASE Observe(x)
    <3>1. req.kind = "snapshot" /\ events' = events
      BY <2>3, <2>7, ItemOfRequest
    <3>2. x.logon_at = NULL
      BY <2>4, <2>5, <3>1 DEF SnapshotsUntimed
    <3>3. Undated
      BY <2>3, <2>7, <3>2, ObservedDates
    <3>4. Posted(events') /\ events' \subseteq loaded.events
      BY <3>1 DEF ViewDates
    <3> QED BY <1>1, <3>1, <3>3, <3>4, UndatedKeeps
  <2> QED BY <2>1, <2>6, <2>7
<1> QED BY <1>2, <1>3 DEF Work

\* The index on fingerprints: no committed LOGON begins a session as a new one does.
LEMMA NoneBegunTwice ==
    ASSUME LogonsOnce, SavedDates, ViewDates, CommitEvents \/ CommitSnapshot,
           NEW s, NEW t, SameIdentity(s, t), s.logon_at = t.logon_at,
           BegunBy(events \ loaded.events, s), BegunBy(saved.events, t)
    PROVE  FALSE
<1>1. PICK r \in events \ loaded.events : /\ r.event.type = "LOGON"
                                          /\ Concerns(r, r.event, s)
                                          /\ r.event.occurred_at = s.logon_at
  BY DEF BegunBy
<1>2. req.kind = "events" /\ ~Conflict
  BY <1>1 DEF ViewDates, CommitEvents, CommitSnapshot
<1>3. PICK n \in Messages :
         n.kind = "events" /\ \E f \in n.items : r = EventRow(Normalize(n), f)
  BY <1>1 DEF ViewDates, Posted
<1>4. PICK e \in n.items : r = EventRow(Normalize(n), e)
  BY <1>3
<1>5. /\ e.type = "LOGON" /\ e.occurred_at = t.logon_at
      /\ Concerns(Normalize(n), e, s)
      /\ r.event_fingerprint = Fingerprint(Normalize(n), e)
  BY <1>1, <1>4 DEF EventRow, Concerns
<1>6. Concerns(Normalize(n), e, t)
  BY <1>5, SameSame
<1>7. \E row \in saved.events : row.event_fingerprint = Fingerprint(Normalize(n), e)
  BY <1>3, <1>5, <1>6, OneBegins DEF SavedDates
<1> QED BY <1>1, <1>2, <1>5, <1>7 DEF Conflict

LEMMA CommitKeepsDates ==
    ASSUME OneContract, LogonsOnce, SavedInv, ViewInv, SavedLogons, ViewLogons,
           SavedDates, ViewDates, CommitEvents \/ CommitSnapshot
    PROVE  SavedDates' /\ ViewDates'
<1> PICK T : /\ Write(T)
             /\ IsTable(T)
             /\ DOMAIN T = DOMAIN sessions
             /\ \A i \in DOMAIN sessions :
                   /\ T[i] = sessions[i] \/ Evolves(sessions[i], T[i])
                   /\ T[i].logon_at = sessions[i].logon_at
  BY Committed DEF ViewInv
<1> DEFINE W == wrote \union Changed(sessions, T)
           S == saved.sessions
           U == saved'.sessions
<1>1. IsTable(S) /\ IsTable(sessions) /\ WritesIn(W, T)
  <2>1. WritesIn(Changed(sessions, T), T)
    BY InChanged DEF ViewInv, ViewType, WritesIn
  <2> QED BY <2>1 DEF SavedInv, SavedType, ViewInv, ViewType, WritesIn
<1>2. Written(S, T, W, U)
  <2>1. U = WriteRows(S, T, W)
    BY DEF Write
  <2> HIDE DEF W, S, U
  <2> QED BY <1>1, <2>1, WrittenRows
<1>3. "logon_at" \in Columns
  BY DEF Columns
<1>4. \A i : <<i, "logon_at">> \in W => <<i, "logon_at">> \in wrote /\ i \in DOMAIN T
  <2> SUFFICES ASSUME NEW i, <<i, "logon_at">> \in Changed(sessions, T) PROVE FALSE
    BY <1>1 DEF WritesIn
  <2>1. i \in DOMAIN sessions /\ sessions[i]["logon_at"] # T[i]["logon_at"]
    BY <1>1, InChanged
  <2> QED BY <2>1
<1>5. \A i \in DOMAIN S : i \in DOMAIN U /\ SameIdentity(S[i], U[i])
  BY CommitKeepsLogons DEF RowsStay, IdentityStays
<1>6. saved'.events = saved.events \union events /\ Closing
  BY DEF CommitEvents, CommitSnapshot, Write
<1> HIDE DEF W
\* A row of the result has its logon time from the tables or from the view.
<1> DEFINE OfTables(i) == /\ i \in DOMAIN S
                          /\ U[i].logon_at = S[i].logon_at /\ SameIdentity(S[i], U[i])
           OfView(i) == /\ i \in DOMAIN sessions /\ (U[i].logon_at # NULL => Dates(i))
                        /\ U[i].logon_at = sessions[i].logon_at
                        /\ SameIdentity(sessions[i], U[i])
<1>7. ASSUME NEW i \in DOMAIN U PROVE OfTables(i) \/ OfView(i)
  <2>1. CASE i \in DOMAIN S /\ <<i, "logon_at">> \notin W
    <3>1. U[i]["logon_at"] = S[i]["logon_at"]
      BY <1>2, <1>3, <2>1 DEF Written
    <3> QED BY <1>5, <2>1, <3>1
  <2>2. CASE i \in DOMAIN S /\ <<i, "logon_at">> \in W
    <3>1. U[i]["logon_at"] = T[i]["logon_at"]
      BY <1>2, <1>3, <2>2 DEF Written
    <3>2. i \in DOMAIN sessions /\ <<i, "logon_at">> \in wrote
      BY <1>4, <2>2
    <3>3. SameIdentity(sessions[i], U[i])
      BY <1>5, <2>2, <3>2, SameSame DEF ViewLogons
    <3> QED BY <3>1, <3>2, <3>3 DEF Dates
  <2>3. CASE i \notin DOMAIN S
    <3>1. i \in DOMAIN sessions /\ U[i] = T[i]
      BY <1>2, <2>3 DEF Written
    <3>2. SameIdentity(sessions[i], T[i])
      BY <3>1, SameSame DEF Evolves
    <3> QED BY <2>3, <3>1, <3>2 DEF Dates
  <2> QED BY <2>1, <2>2, <2>3
<1>8. ASSUME NEW i \in DOMAIN U, U[i].logon_at # NULL, OfTables(i)
      PROVE  BegunBy(saved.events, U[i])
  BY <1>8, BegunSame DEF SavedDates, Dated
<1>9. ASSUME NEW i \in DOMAIN U, U[i].logon_at # NULL, OfView(i)
      PROVE  BegunBy(events \ loaded.events, U[i])
  BY <1>9, BegunSame DEF ViewDates
<1>10. Dated(U, saved'.events)
  <2> SUFFICES ASSUME NEW i \in DOMAIN U, U[i].logon_at # NULL
               PROVE  BegunBy(saved'.events, U[i])
    BY DEF Dated
  <2>1. BegunBy(saved.events, U[i]) \/ BegunBy(events \ loaded.events, U[i])
    BY <1>7, <1>8, <1>9
  <2> QED BY <1>6, <2>1, BegunSame, SameSame
<1>11. OneRow(U)
  <2> SUFFICES ASSUME NEW i \in DOMAIN U, NEW j \in DOMAIN U, U[i].logon_at # NULL,
                      U[i].logon_at = U[j].logon_at, SameIdentity(U[i], U[j])
               PROVE  i = j
    BY DEF OneRow
  <2>1. SameIdentity(U[j], U[i])
    BY SameSame
  <2>2. CASE OfTables(i) /\ OfTables(j)
    <3>1. SameIdentity(S[i], S[j])
      BY <2>2, SameSame
    <3> QED BY <2>2, <3>1 DEF SavedDates, OneRow
  <2>3. CASE OfView(i) /\ OfView(j)
    <3>1. SameIdentity(sessions[i], sessions[j])
      BY <2>3, SameSame
    <3> QED BY <2>3, <3>1 DEF ViewDates, OneRow
  <2>4. CASE OfView(i) /\ OfTables(j)
    BY <1>8, <1>9, <2>4, NoneBegunTwice
  <2>5. CASE OfTables(i) /\ OfView(j)
    BY <1>8, <1>9, <2>1, <2>5, NoneBegunTwice
  <2> QED BY <1>7, <2>2, <2>3, <2>4, <2>5
<1>12. Posted(saved'.events)
  BY <1>6 DEF SavedDates, ViewDates, Posted
<1> QED BY <1>6, <1>10, <1>11, <1>12, NoDatesInView DEF SavedDates

\* The request in progress is of a posted message, whatever batches share.
LEMMA RequestKeepsMessage ==
    ASSUME SavedInv, ViewInv, ViewBatches, Step
    PROVE  ViewBatches'
<1>1. CASE Authenticate \/ ReadTables
  BY <1>1, Idle DEF Authenticate, ReadTables, ViewBatches
<1>2. CASE CommitEvents \/ CommitSnapshot \/ Rollback
  BY <1>2, NoBatchesInView DEF CommitEvents, CommitSnapshot, Rollback
<1> QED BY <1>1, <1>2, WorkKeepsBatches DEF Step

LEMMA RequestKeepsDates ==
    ASSUME OneContract, LogonsOnce, SnapshotsUntimed, SavedInv, ViewInv, SavedLogons,
           ViewLogons, ViewBatches, SavedDates, ViewDates, Step
    PROVE  SavedDates' /\ ViewDates'
<1>1. ASSUME UNCHANGED saved PROVE SavedDates'
  BY <1>1, NothingDated
<1>2. CASE Authenticate
  <2>1. req.kind # "events" /\ req'.kind # "events"
    BY <1>2 DEF Authenticate, NoRequest, Phase
  <2> QED BY <1>1, <1>2, <2>1 DEF Authenticate, ViewDates, Dates
<1>3. CASE ReadTables
  <2>1. req.kind = "authenticated" /\ req'.kind # "events" /\ req \notin Working
    BY <1>3, Idle DEF ReadTables, Phase
  <2>2. /\ saved' = saved /\ wrote' = {} /\ sessions' = saved.sessions
        /\ events' = saved.events /\ loaded'.events = saved.events
    BY <1>3, <2>1 DEF ReadTables, ViewInv, ViewType
  <2> QED BY <1>1, <2>1, <2>2 DEF SavedDates, ViewDates, Dates
<1>4. CASE Work
  BY <1>1, <1>4, WorkKeeps, WorkKeepsDates
<1>5. CASE CommitEvents \/ CommitSnapshot
  BY <1>5, CommitKeepsDates
<1>6. CASE Rollback
  BY <1>1, <1>6, NoDatesInView DEF Rollback
<1> QED BY <1>2, <1>3, <1>4, <1>5, <1>6 DEF Step
=============================================================================
