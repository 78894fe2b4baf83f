------------------------- MODULE SessionQueriesProofs -------------------------
(***************************************************************************)
(* What the query APIs promise, for every set of messages, accounts and    *)
(* keys: the invariants of the tables, proved in SessionTrackingProofs,    *)
(* carried over to the answers that are read from them.                    *)
(***************************************************************************)
EXTENDS SessionQueries, SessionTrackingProofs

\* Every step beside the queries is a step of the requests.
LEMMA QueriesTrack == QueriesSpec => Spec
<1>1. QueriesInit => Init
  BY DEF QueriesInit
<1>2. [QueriesNext]_<<vars, platform>> => [Next]_vars
  BY DEF QueriesNext, Next, Handle
<1> QED BY <1>1, <1>2, PTL DEF QueriesSpec, Spec

-----------------------------------------------------------------------------
(* Timelines.                                                              *)

\* An event of a session, at a time within it, is on its timeline.
LEMMA OnTimeline ==
    ASSUME NEW i \in DOMAIN saved.sessions, NEW type, NEW row,
           row \in Accepted(type, saved.sessions[i]),
           saved.sessions[i].logon_at = NULL
               \/ row.event.occurred_at >= saved.sessions[i].logon_at,
           saved.sessions[i].logoff_at = NULL
               \/ row.event.occurred_at <= saved.sessions[i].logoff_at
    PROVE  row \in Timeline(i)
BY DEF Accepted, Concerns, Timeline

LEMMA EndsShown ==
    ASSUME TypeOK, RowsConsistent, LogoffIsBacked
    PROVE  TimelineHoldsItsEnds
<1> SUFFICES ASSUME NEW i \in DOMAIN saved.sessions
             PROVE  LET s == saved.sessions[i]
                        at(type, t) ==
                            {row \in Accepted(type, s) : row.event.occurred_at = t}
                        shown(type, t) == at(type, t) \intersect Timeline(i) # {}
                    IN  /\ s.end_reason = "LOGOFF" => shown("LOGOFF", s.logoff_at)
                        /\ s.end_reason \in {NULL, "LOGOFF"}
                              /\ at("LOGON", s.logon_at) # {}
                               => shown("LOGON", s.logon_at)
  BY DEF TimelineHoldsItsEnds
<1> DEFINE s == saved.sessions[i]
           at(type, t) == {row \in Accepted(type, s) : row.event.occurred_at = t}
<1>1. /\ s.logon_at \in Maybe(Times) /\ s.logoff_at \in Maybe(Times)
      /\ s.end_reason = NULL => s.logoff_at = NULL
  BY NullAssumption DEF TypeOK, IsTable, Row, RowsConsistent, Consistent
<1>2. ASSUME NEW type, NEW row \in Accepted(type, s)
      PROVE  row.event.occurred_at \in Times
  BY DEF Accepted, TypeOK, Event
<1>3. ASSUME s.end_reason = "LOGOFF"
      PROVE  at("LOGOFF", s.logoff_at) \intersect Timeline(i) # {}
  <2>1. PICK row \in Accepted("LOGOFF", s) : row.event.occurred_at = s.logoff_at
    BY <1>3 DEF LogoffIsBacked
  <2>2. s.logon_at = NULL \/ s.logon_at <= s.logoff_at
    BY <1>3 DEF LogoffIsBacked
  <2>3. row.event.occurred_at \in Times
    BY <1>2
  <2>4. row \in Timeline(i)
    BY <1>1, <2>1, <2>2, <2>3, OnTimeline DEF Times, Maybe
  <2> QED BY <2>1, <2>4
<1>4. ASSUME s.end_reason \in {NULL, "LOGOFF"}, at("LOGON", s.logon_at) # {}
      PROVE  at("LOGON", s.logon_at) \intersect Timeline(i) # {}
  <2>1. PICK row \in Accepted("LOGON", s) : row.event.occurred_at = s.logon_at
    BY <1>4
  <2>2. row.event.occurred_at \in Times
    BY <1>2
  <2>3. s.logon_at = NULL \/ s.logoff_at = NULL \/ s.logon_at <= s.logoff_at
    BY <1>1, <1>4 DEF LogoffIsBacked
  <2>4. row \in Timeline(i)
    BY <1>1, <2>1, <2>2, <2>3, NullAssumption, OnTimeline DEF Times, Maybe
  <2> QED BY <2>1, <2>4
<1> QED BY <1>3, <1>4

(* The LOGON that began a session and the LOGOFF that ended it are on its  *)
(* timeline, in whatever order and however often they were delivered.      *)
THEOREM TimelinesHoldTheirEnds == QueriesSpec => []TimelineHoldsItsEnds
<1>1. TypeOK /\ RowsConsistent /\ LogoffIsBacked => TimelineHoldsItsEnds
  BY EndsShown
<1> QED BY <1>1, QueriesTrack, TypeCorrect, RowsAlwaysConsistent, LogoffAlwaysBacked, PTL

-----------------------------------------------------------------------------
(* Contract 1 beside a request for SSH.                                    *)

\* What the open transaction inserted is of its protocol; no row changes its own.
NewOfProtocol ==
    /\ req = NoRequest => sessions = saved.sessions
    /\ req # NoRequest =>
          /\ DOMAIN saved.sessions \subseteq DOMAIN sessions
          /\ \A i \in DOMAIN sessions :
                sessions[i].protocol =
                    IF i \in DOMAIN saved.sessions THEN saved.sessions[i].protocol
                                                   ELSE req.msg.protocol

LEMMA NewOfProtocolStep ==
    ASSUME TypeOK, NewOfProtocol, [Next]_vars
    PROVE  /\ NewOfProtocol'
           /\ FinishEvents \/ FinishSnapshot =>
                 /\ DOMAIN saved.sessions \subseteq DOMAIN saved'.sessions
                 /\ \A i \in DOMAIN saved'.sessions :
                       saved'.sessions[i].protocol =
                           IF i \in DOMAIN saved.sessions THEN saved.sessions[i].protocol
                                                          ELSE req.msg.protocol
<1>1. RowStep \/ RenameStep =>
         /\ DOMAIN sessions' = DOMAIN sessions
         /\ \A i \in DOMAIN sessions : sessions'[i].protocol = sessions[i].protocol
  BY DEF RowStep, RenameStep, Evolves, SameIdentity
<1>2. CASE Begin
  <2>1. saved' = saved /\ (RowStep \/ RenameStep) /\ req = NoRequest
    BY <1>2, BeginStep DEF Begin
  <2>2. req' # NoRequest
    BY <1>2, StartType DEF Begin, TypeOK, Request, NoRequest
  <2> QED BY <1>1, <2>1, <2>2 DEF NewOfProtocol, FinishEvents, FinishSnapshot, NoRequest
<1>3. CASE \E x \in req.todo : IngestEvent(x) \/ Observe(x)
  <2> PICK x \in req.todo : IngestEvent(x) \/ Observe(x)
    BY <1>3
  <2>1. /\ req # NoRequest /\ req' # NoRequest /\ req'.msg = req.msg /\ saved' = saved
        /\ RowStep \/ \E i : InsertStep(i)
    BY ItemOfRequest, ItemStep
  <2>2. ~FinishEvents /\ ~FinishSnapshot
    BY <2>1 DEF FinishEvents, FinishSnapshot, Commit
  <2>3. CASE RowStep
    BY <1>1, <2>1, <2>2, <2>3 DEF NewOfProtocol
  <2>4. CASE \E i : InsertStep(i)
    BY <2>1, <2>2, <2>4 DEF NewOfProtocol, InsertStep
  <2> QED BY <2>1, <2>3, <2>4
<1>4. CASE FinishEvents \/ FinishSnapshot
  <2>1. RowStep /\ saved'.sessions = sessions' /\ req' = NoRequest
    BY <1>4, FinishStep
  <2>2. req # NoRequest
    BY <1>4 DEF FinishEvents, FinishSnapshot, NoRequest
  <2> QED BY <1>1, <2>1, <2>2 DEF NewOfProtocol
<1>5. CASE Fail
  BY <1>5 DEF Fail, NewOfProtocol, FinishEvents, FinishSnapshot, Commit
<1>6. CASE UNCHANGED vars
  BY <1>6 DEF vars, NewOfProtocol, FinishEvents, FinishSnapshot, Commit
<1> QED BY <1>2, <1>3, <1>4, <1>5, <1>6 DEF Next, Handle

\* What contract 1 shows of sessions depends on the platform and the RDP rows only.
LEMMA ViewOfRdpRows ==
    ASSUME platform' = platform,
           DOMAIN saved.sessions \subseteq DOMAIN saved'.sessions,
           \A i \in DOMAIN saved'.sessions :
               IF i \in DOMAIN saved.sessions
               THEN \/ saved'.sessions[i] = saved.sessions[i]
                    \/ /\ saved.sessions[i].protocol = "SSH"
                       /\ saved'.sessions[i].protocol = "SSH"
               ELSE saved'.sessions[i].protocol = "SSH"
    PROVE  V1Sessions' = V1Sessions
<1>1. \A states : Rows("RDP", states)' = Rows("RDP", states)
  BY DEF Rows
<1>2. \A states : \A i \in Rows("RDP", states) : saved'.sessions[i] = saved.sessions[i]
  BY DEF Rows
<1>3. \A states : \A i \in Rows("RDP", states) : SessionItem(i)' = SessionItem(i)
  BY <1>2 DEF SessionItem
<1>4. \A states : {SessionItem(i) : i \in Rows("RDP", states)}'
                      = {SessionItem(i) : i \in Rows("RDP", states)}
  BY <1>1, <1>3
<1>5. \A states : {saved.sessions[i].account : i \in Rows("RDP", states)}'
                      = {saved.sessions[i].account : i \in Rows("RDP", states)}
  BY <1>1, <1>2
<1>6. ServerSummary' = ServerSummary
  BY <1>1, <1>5 DEF ServerSummary, OpenStates
<1> QED BY <1>4, <1>6 DEF V1Sessions, IsV1Server, NotFound

LEMMA SshStep ==
    ASSUME TypeOK, ApartInv, NewOfProtocol, [QueriesNext]_<<vars, platform>>,
           FinishEvents \/ FinishSnapshot, req.msg.protocol = "SSH",
           platform = req.msg.platform, saved.server.last_boot_id = req.msg.boot_id
    PROVE  V1Sessions' = V1Sessions
<1>1. [Next]_vars
  BY DEF QueriesNext, Next, Handle
<1>2. \A i \in DOMAIN saved.sessions :
         saved.sessions[i].protocol # "SSH" => saved'.sessions[i] = saved.sessions[i]
  BY <1>1, ApartStep DEF StaysInBoot
<1>3. /\ DOMAIN saved.sessions \subseteq DOMAIN saved'.sessions
      /\ \A i \in DOMAIN saved'.sessions :
            saved'.sessions[i].protocol =
                IF i \in DOMAIN saved.sessions THEN saved.sessions[i].protocol ELSE "SSH"
  BY <1>1, NewOfProtocolStep
<1>4. platform' = platform
  BY DEF QueriesNext
<1> QED BY <1>2, <1>3, <1>4, ViewOfRdpRows

(* While a server keeps its boot and its platform, no request for SSH      *)
(* changes a count or a row of sessions that contract 1 answers, whatever  *)
(* ids SSH and RDP rows share.                                             *)
THEOREM SshStaysUnseen == QueriesSpec => SshUnseenInBoot
<1>1. Init => ApartInv /\ NewOfProtocol
  BY ConsistentInitial DEF Init, Store, ApartInv, NewOfProtocol
<1>2. TypeOK /\ ApartInv /\ NewOfProtocol /\ [Next]_vars => ApartInv' /\ NewOfProtocol'
  BY ApartStep, NewOfProtocolStep
<1>3. Spec => [](TypeOK /\ ApartInv /\ NewOfProtocol)
  BY <1>1, <1>2, TypeCorrect, PTL DEF Spec
<1>4. TypeOK /\ ApartInv /\ NewOfProtocol /\ [QueriesNext]_<<vars, platform>> =>
         [(FinishEvents \/ FinishSnapshot)
             /\ req.msg.protocol = "SSH"
             /\ platform = req.msg.platform
             /\ saved.server.last_boot_id = req.msg.boot_id =>
             V1Sessions' = V1Sessions]_<<vars, platform>>
  BY SshStep
<1> QED BY <1>3, <1>4, QueriesTrack, PTL DEF QueriesSpec, SshUnseenInBoot
=============================================================================
