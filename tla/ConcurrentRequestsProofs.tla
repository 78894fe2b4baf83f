----------------------- MODULE ConcurrentRequestsProofs -----------------------
(***************************************************************************)
(* Two requests at once: what RequestTransactionProofs shows of one        *)
(* request, put together.  Each keeps the invariant of its own view, and   *)
(* does to the committed tables no more than the other relies on.          *)
(*                                                                         *)
(* P1 and P2 are the two requests with what is proved about them.  Their   *)
(* definitions are those of R1 and R2, under other names.                  *)
(***************************************************************************)
EXTENDS ConcurrentRequests, TLAPS

P1 == INSTANCE RequestTransactionProofs
          WITH server <- server1, sessions <- sessions1, events <- events1,
               req <- req1, unflushed <- unflushed1, loaded <- loaded1, wrote <- wrote1
P2 == INSTANCE RequestTransactionProofs
          WITH server <- server2, sessions <- sessions2, events <- events2,
               req <- req2, unflushed <- unflushed2, loaded <- loaded2, wrote <- wrote2

-----------------------------------------------------------------------------
(* The same definitions.                                                   *)

LEMMA Assumptions ==
    /\ P1!MessagesAssumption /\ P1!EnvelopesAssumption /\ P1!IdsAssumption
    /\ P1!RankAssumption /\ P1!TicksAssumption /\ P1!NullAssumption
    /\ P2!MessagesAssumption /\ P2!EnvelopesAssumption /\ P2!IdsAssumption
    /\ P2!RankAssumption /\ P2!TicksAssumption /\ P2!NullAssumption
BY WorldAssumption
   DEF R1!BootIds, R1!EnvelopesAssumption, R1!Event, R1!EventTypes,
       R1!IdsAssumption, R1!Maybe, R1!MessagesAssumption, R1!NullAssumption,
       R1!Observation, R1!OpenStates, R1!Platforms, R1!Protocols,
       R1!RankAssumption, R1!TicksAssumption, R1!Times, R1!V1Message, R1!V2Message,
       P1!BootIds, P1!EnvelopesAssumption, P1!Event, P1!EventTypes,
       P1!IdsAssumption, P1!Maybe, P1!MessagesAssumption, P1!NullAssumption,
       P1!Observation, P1!OpenStates, P1!Platforms, P1!Protocols,
       P1!RankAssumption, P1!TicksAssumption, P1!Times, P1!V1Message, P1!V2Message,
       P2!BootIds, P2!EnvelopesAssumption, P2!Event, P2!EventTypes,
       P2!IdsAssumption, P2!Maybe, P2!MessagesAssumption, P2!NullAssumption,
       P2!Observation, P2!OpenStates, P2!Platforms, P2!Protocols,
       P2!RankAssumption, P2!TicksAssumption, P2!Times, P2!V1Message, P2!V2Message

LEMMA FirstSteps == R1!Step <=> P1!Step
BY DEF R1!Accept, R1!Adopted, R1!Authenticate, R1!Before, R1!ChangeBoot,
       R1!Changed, R1!Closed, R1!Closing, R1!CommitEvents, R1!CommitSnapshot,
       R1!Concerns, R1!Conflict, R1!Default, R1!DelayedLogon, R1!Disconnect,
       R1!EventRow, R1!Fingerprint, R1!IngestEvent, R1!Insert, R1!IsDuplicate,
       R1!IsOpen, R1!KeepBoot, R1!LaterThan, R1!LatestSession, R1!LoggedOn,
       R1!Logoff, R1!LogonDelayed, R1!LogonNew, R1!LogonOpen, R1!Missing, R1!Newer,
       R1!NextEvent, R1!NextObserved, R1!NoEffect, R1!NoRequest, R1!NoRows,
       R1!NoServer, R1!Normalize, R1!NormalizeBootTime, R1!NormalizeV1,
       R1!NormalizeV2, R1!NothingLoaded, R1!Observe, R1!ObserveKnown,
       R1!ObserveNew, R1!Observed, R1!Open, R1!OpenSessions, R1!OpenStates,
       R1!Phase, R1!ReadTables, R1!Reconnect, R1!Rollback, R1!SameLegacyBoot,
       R1!SameUser, R1!ServerAfter, R1!SkipDuplicate, R1!Stamps, R1!StartWith,
       R1!Step, R1!Stored, R1!Unattached, R1!Update, R1!V1BootId, R1!Work,
       R1!Write, R1!WriteRows, R1!WriteServer, P1!Accept, P1!Adopted,
       P1!Authenticate, P1!Before, P1!ChangeBoot, P1!Changed, P1!Closed,
       P1!Closing, P1!CommitEvents, P1!CommitSnapshot, P1!Concerns, P1!Conflict,
       P1!Default, P1!DelayedLogon, P1!Disconnect, P1!EventRow, P1!Fingerprint,
       P1!IngestEvent, P1!Insert, P1!IsDuplicate, P1!IsOpen, P1!KeepBoot,
       P1!LaterThan, P1!LatestSession, P1!LoggedOn, P1!Logoff, P1!LogonDelayed,
       P1!LogonNew, P1!LogonOpen, P1!Missing, P1!Newer, P1!NextEvent,
       P1!NextObserved, P1!NoEffect, P1!NoRequest, P1!NoRows, P1!NoServer,
       P1!Normalize, P1!NormalizeBootTime, P1!NormalizeV1, P1!NormalizeV2,
       P1!NothingLoaded, P1!Observe, P1!ObserveKnown, P1!ObserveNew, P1!Observed,
       P1!Open, P1!OpenSessions, P1!OpenStates, P1!Phase, P1!ReadTables,
       P1!Reconnect, P1!Rollback, P1!SameLegacyBoot, P1!SameUser, P1!ServerAfter,
       P1!SkipDuplicate, P1!Stamps, P1!StartWith, P1!Step, P1!Stored,
       P1!Unattached, P1!Update, P1!V1BootId, P1!Work, P1!Write, P1!WriteRows,
       P1!WriteServer

LEMMA SecondSteps == R2!Step <=> P2!Step
BY DEF R2!Accept, R2!Adopted, R2!Authenticate, R2!Before, R2!ChangeBoot,
       R2!Changed, R2!Closed, R2!Closing, R2!CommitEvents, R2!CommitSnapshot,
       R2!Concerns, R2!Conflict, R2!Default, R2!DelayedLogon, R2!Disconnect,
       R2!EventRow, R2!Fingerprint, R2!IngestEvent, R2!Insert, R2!IsDuplicate,
       R2!IsOpen, R2!KeepBoot, R2!LaterThan, R2!LatestSession, R2!LoggedOn,
       R2!Logoff, R2!LogonDelayed, R2!LogonNew, R2!LogonOpen, R2!Missing, R2!Newer,
       R2!NextEvent, R2!NextObserved, R2!NoEffect, R2!NoRequest, R2!NoRows,
       R2!NoServer, R2!Normalize, R2!NormalizeBootTime, R2!NormalizeV1,
       R2!NormalizeV2, R2!NothingLoaded, R2!Observe, R2!ObserveKnown,
       R2!ObserveNew, R2!Observed, R2!Open, R2!OpenSessions, R2!OpenStates,
       R2!Phase, R2!ReadTables, R2!Reconnect, R2!Rollback, R2!SameLegacyBoot,
       R2!SameUser, R2!ServerAfter, R2!SkipDuplicate, R2!Stamps, R2!StartWith,
       R2!Step, R2!Stored, R2!Unattached, R2!Update, R2!V1BootId, R2!Work,
       R2!Write, R2!WriteRows, R2!WriteServer, P2!Accept, P2!Adopted,
       P2!Authenticate, P2!Before, P2!ChangeBoot, P2!Changed, P2!Closed,
       P2!Closing, P2!CommitEvents, P2!CommitSnapshot, P2!Concerns, P2!Conflict,
       P2!Default, P2!DelayedLogon, P2!Disconnect, P2!EventRow, P2!Fingerprint,
       P2!IngestEvent, P2!Insert, P2!IsDuplicate, P2!IsOpen, P2!KeepBoot,
       P2!LaterThan, P2!LatestSession, P2!LoggedOn, P2!Logoff, P2!LogonDelayed,
       P2!LogonNew, P2!LogonOpen, P2!Missing, P2!Newer, P2!NextEvent,
       P2!NextObserved, P2!NoEffect, P2!NoRequest, P2!NoRows, P2!NoServer,
       P2!Normalize, P2!NormalizeBootTime, P2!NormalizeV1, P2!NormalizeV2,
       P2!NothingLoaded, P2!Observe, P2!ObserveKnown, P2!ObserveNew, P2!Observed,
       P2!Open, P2!OpenSessions, P2!OpenStates, P2!Phase, P2!ReadTables,
       P2!Reconnect, P2!Rollback, P2!SameLegacyBoot, P2!SameUser, P2!ServerAfter,
       P2!SkipDuplicate, P2!Stamps, P2!StartWith, P2!Step, P2!Stored,
       P2!Unattached, P2!Update, P2!V1BootId, P2!Work, P2!Write, P2!WriteRows,
       P2!WriteServer

LEMMA OneSavedInv ==
    /\ P1!SavedInv <=> P2!SavedInv
    /\ P1!SavedInv' <=> P2!SavedInv'
BY DEF P1!BootIds, P1!EndsPaired, P1!Event, P1!EventTypes, P1!IsTable, P1!Maybe,
       P1!OpenStates, P1!Platforms, P1!Protocols, P1!Row, P1!SavedInv,
       P1!SavedType, P1!ServerRow, P1!Times, P2!BootIds, P2!EndsPaired, P2!Event,
       P2!EventTypes, P2!IsTable, P2!Maybe, P2!OpenStates, P2!Platforms,
       P2!Protocols, P2!Row, P2!SavedInv, P2!SavedType, P2!ServerRow, P2!Times

LEMMA OneGrows == P1!Grows <=> P2!Grows
BY DEF P1!Ends, P1!EndsStay, P1!Grows, P2!Ends, P2!EndsStay, P2!Grows

\* As SessionTrackingProofs calls it: one contract per server.
OneContract == \A m, n \in Messages : m.contract = n.contract

LEMMA ContractOfBoth == OneContract => P1!OneContract /\ P2!OneContract
BY DEF OneContract, P1!OneContract, P2!OneContract

LEMMA OneSavedLogons ==
    /\ P1!SavedLogons <=> P2!SavedLogons
    /\ P1!SavedLogons' <=> P2!SavedLogons'
BY DEF P1!SavedLogons, P1!Covers, P1!Concerns, P1!SameUser, P1!Named, P1!BootNamed,
       P1!NormalizeBootTime, P2!SavedLogons, P2!Covers, P2!Concerns, P2!SameUser,
       P2!Named, P2!BootNamed, P2!NormalizeBootTime

LEMMA OneRowsStay == P1!RowsStay <=> P2!RowsStay
BY DEF P1!RowsStay, P1!IdentityStays, P1!SameIdentity, P1!SameUser, P2!RowsStay,
       P2!IdentityStays, P2!SameIdentity, P2!SameUser

-----------------------------------------------------------------------------
(* The invariant: both views, and the tables.                              *)

\* No key is drawn twice: one both views hold is of a committed row.
SharedKeys == DOMAIN sessions1 \intersect DOMAIN sessions2 \subseteq DOMAIN saved.sessions

IInv == P1!SavedInv /\ P1!ViewInv /\ P2!ViewInv /\ SharedKeys

LEMMA FirstKeeps == ASSUME IInv, First PROVE IInv' /\ P1!Grows
<1>1. /\ P1!SavedInv' /\ P1!ViewInv' /\ P1!Grows
      /\ DOMAIN saved'.sessions \subseteq DOMAIN saved.sessions \union DOMAIN sessions1
  BY FirstSteps, Assumptions, P1!RequestKeeps DEF IInv, First
<1>2. P2!KeysApart
  BY <1>1 DEF IInv, SharedKeys, P2!KeysApart
<1>3. UNCHANGED P2!view
  BY DEF First, view2, P2!view
<1>4. P2!Grows
  BY <1>1, OneGrows
<1>5. P2!ViewInv'
  BY <1>2, <1>3, <1>4, Assumptions, P2!OthersKeepView DEF IInv
<1> QED BY <1>1, <1>5 DEF First, ShareCommitted, IInv, SharedKeys

LEMMA SecondKeeps == ASSUME IInv, Second PROVE IInv' /\ P1!Grows
<1>1. /\ P2!SavedInv' /\ P2!ViewInv' /\ P2!Grows
      /\ DOMAIN saved'.sessions \subseteq DOMAIN saved.sessions \union DOMAIN sessions2
  BY SecondSteps, OneSavedInv, Assumptions, P2!RequestKeeps DEF IInv, Second
<1>2. P1!KeysApart
  BY <1>1 DEF IInv, SharedKeys, P1!KeysApart
<1>3. UNCHANGED P1!view
  BY DEF Second, view1, P1!view
<1>4. P1!Grows
  BY <1>1, OneGrows
<1>5. P1!ViewInv'
  BY <1>2, <1>3, <1>4, Assumptions, P1!OthersKeepView DEF IInv
<1> QED BY <1>1, <1>4, <1>5, OneSavedInv DEF Second, ShareCommitted, IInv, SharedKeys

LEMMA StepKeeps == ASSUME IInv, [Next]_vars PROVE IInv' /\ P1!Grows
<1>1. CASE UNCHANGED vars
  <2>1. UNCHANGED <<saved, P1!view, P2!view>>
    BY <1>1 DEF vars, view1, view2, P1!view, P2!view
  <2>2. /\ P1!Grows /\ P1!KeysApart /\ (P1!SavedInv => P1!SavedInv')
        /\ P2!Grows /\ P2!KeysApart
    BY <2>1, Assumptions, P1!NothingCommitted, P2!NothingCommitted
  <2>3. P1!ViewInv' /\ P2!ViewInv'
    BY <2>1, <2>2, Assumptions, P1!OthersKeepView, P2!OthersKeepView DEF IInv
  <2>4. SharedKeys'
    BY <1>1 DEF vars, view1, view2, IInv, SharedKeys
  <2> QED BY <2>2, <2>3, <2>4 DEF IInv
<1> QED BY <1>1, FirstKeeps, SecondKeeps DEF Next

LEMMA BothBegin ==
    ASSUME Init
    PROVE  /\ P1!ViewInit /\ P2!ViewInit
           /\ saved = [server |-> P1!NoServer, sessions |-> P1!NoRows, events |-> {}]
<1>1. P1!ViewInit /\ P2!ViewInit
  BY DEF Init, R1!ViewInit, P1!ViewInit, R2!ViewInit, P2!ViewInit, R1!NoServer, R1!NoRows,
         R1!NothingLoaded, R1!NoRequest, R2!NoServer, R2!NoRows, R2!NothingLoaded,
         R2!NoRequest, P1!NoServer, P1!NoRows, P1!NothingLoaded, P1!NoRequest,
         P2!NoServer, P2!NoRows, P2!NothingLoaded, P2!NoRequest
<1>2. saved = [server |-> P1!NoServer, sessions |-> P1!NoRows, events |-> {}]
  BY DEF Init, R1!NoServer, R1!NoRows, P1!NoServer, P1!NoRows
<1> QED BY <1>1, <1>2

LEMMA InvInitial == Init => IInv
<1> SUFFICES ASSUME Init PROVE IInv
  OBVIOUS
<1>1. P1!ViewInit /\ P2!ViewInit
  BY BothBegin
<1>2. saved = [server |-> P1!NoServer, sessions |-> P1!NoRows, events |-> {}]
  BY BothBegin
<1>3. P1!SavedInv
  BY <1>2, Assumptions, P1!NothingStored
<1>4. P1!ViewInv /\ P2!ViewInv
  BY <1>1, Assumptions, P1!NothingBegun, P2!NothingBegun
<1>5. SharedKeys
  BY <1>1 DEF SharedKeys, P1!ViewInit, P1!NoRows
<1> QED BY <1>3, <1>4, <1>5 DEF IInv

LEMMA Invariant == Spec => []IInv
BY InvInitial, StepKeeps, PTL DEF Spec

(* However two requests overlap, fail and are repeated, a row that ended   *)
(* once keeps an end, with a time and a reason: the one that still saw the *)
(* row open writes the columns it changed, and an end is no column that    *)
(* anything clears.                                                        *)
THEOREM EndsStayRemembered == Spec => EndsRemembered
<1>1. ASSUME IInv, [Next]_vars
      PROVE  \A i \in DOMAIN saved.sessions :
                saved.sessions[i].end_reason # NULL =>
                    /\ i \in DOMAIN saved'.sessions
                    /\ saved'.sessions[i].end_reason # NULL
                    /\ saved'.sessions[i].logoff_at # NULL
  <2>1. P1!SavedInv' /\ P1!Grows
    BY <1>1, StepKeeps DEF IInv
  <2> QED BY <2>1 DEF P1!SavedInv, P1!EndsPaired, P1!Grows, P1!EndsStay, P1!Ends
<1>2. IInv /\ [Next]_vars =>
          [\A i \in DOMAIN saved.sessions :
              saved.sessions[i].end_reason # NULL =>
                  /\ i \in DOMAIN saved'.sessions
                  /\ saved'.sessions[i].end_reason # NULL
                  /\ saved'.sessions[i].logoff_at # NULL]_saved
  BY <1>1
<1> QED BY <1>2, Invariant, PTL DEF Spec, EndsRemembered

-----------------------------------------------------------------------------
(* Logons and their rows.                                                  *)

LogonsInv == P1!SavedLogons /\ P1!ViewLogons /\ P2!ViewLogons

LEMMA FirstKeepsLogons == ASSUME OneContract, IInv, LogonsInv, First PROVE LogonsInv'
<1>1. /\ P1!SavedLogons' /\ P1!ViewLogons' /\ P1!RowsStay
      /\ DOMAIN saved'.sessions \subseteq DOMAIN saved.sessions \union DOMAIN sessions1
  BY FirstSteps, Assumptions, ContractOfBoth, P1!RequestKeeps, P1!RequestKeepsLogons
     DEF IInv, LogonsInv, First
<1>2. P2!KeysApart
  BY <1>1 DEF IInv, SharedKeys, P2!KeysApart
<1>3. UNCHANGED P2!view
  BY DEF First, view2, P2!view
<1>4. P2!ViewLogons'
  BY <1>1, <1>2, <1>3, OneRowsStay, Assumptions, P2!OthersKeepLogons DEF LogonsInv
<1> QED BY <1>1, <1>4 DEF LogonsInv

LEMMA SecondKeepsLogons == ASSUME OneContract, IInv, LogonsInv, Second PROVE LogonsInv'
<1>1. /\ P2!SavedLogons' /\ P2!ViewLogons' /\ P2!RowsStay
      /\ DOMAIN saved'.sessions \subseteq DOMAIN saved.sessions \union DOMAIN sessions2
  BY SecondSteps, OneSavedInv, OneSavedLogons, Assumptions, ContractOfBoth,
     P2!RequestKeeps, P2!RequestKeepsLogons
     DEF IInv, LogonsInv, Second
<1>2. P1!KeysApart
  BY <1>1 DEF IInv, SharedKeys, P1!KeysApart
<1>3. UNCHANGED P1!view
  BY DEF Second, view1, P1!view
<1>4. P1!ViewLogons'
  BY <1>1, <1>2, <1>3, OneRowsStay, Assumptions, P1!OthersKeepLogons DEF LogonsInv
<1> QED BY <1>1, <1>4, OneSavedLogons DEF LogonsInv

LEMMA StepKeepsLogons == ASSUME OneContract, IInv, LogonsInv, [Next]_vars PROVE LogonsInv'
<1>1. CASE UNCHANGED vars
  <2>1. UNCHANGED <<saved, P1!view, P2!view>>
    BY <1>1 DEF vars, view1, view2, P1!view, P2!view
  <2>2. /\ P1!RowsStay /\ P1!KeysApart /\ (P1!SavedLogons => P1!SavedLogons')
        /\ P2!RowsStay /\ P2!KeysApart
    BY <2>1, Assumptions, P1!NothingCommitted, P2!NothingCommitted, P1!NothingRenamed,
       P2!NothingRenamed
  <2> QED BY <2>1, <2>2, Assumptions, P1!OthersKeepLogons, P2!OthersKeepLogons
          DEF LogonsInv
<1> QED BY <1>1, FirstKeepsLogons, SecondKeepsLogons DEF Next

LEMMA LogonsInitial == Init => LogonsInv
<1> SUFFICES ASSUME Init PROVE LogonsInv
  OBVIOUS
<1>1. /\ P1!ViewInit /\ P2!ViewInit
      /\ saved = [server |-> P1!NoServer, sessions |-> P1!NoRows, events |-> {}]
  BY BothBegin
<1> QED BY <1>1, Assumptions, P1!NoLogonsStored, P1!NoLogonsBegun, P2!NoLogonsBegun
        DEF LogonsInv

(* However two requests of a server of one contract overlap, a LOGON that  *)
(* was recorded has a row of its session: what a request commits is its    *)
(* rows as well as its events, and no commit of another changes whose      *)
(* session a row is.                                                       *)
THEOREM RecordedLogonsHaveRows == ASSUME OneContract PROVE Spec => []LogonsHaveRows
<1>1. IInv /\ LogonsInv /\ [Next]_vars => LogonsInv'
  BY StepKeepsLogons
<1>2. LogonsInv => LogonsHaveRows
  BY DEF LogonsInv, LogonsHaveRows, P1!SavedLogons, P1!Covers, P1!Concerns, P1!SameUser,
         R1!Concerns, R1!SameUser
<1> QED BY <1>1, <1>2, LogonsInitial, Invariant, PTL DEF Spec

-----------------------------------------------------------------------------
(* Batches recorded whole.                                                 *)

\* An Agent's batches share no event, except repetitions of one another.
BatchesApart ==
    \A m, n \in Messages :
        /\ m.kind = "events"
        /\ n.kind = "events"
        /\ \E e \in m.items, f \in n.items :
              R1!Fingerprint(R1!Normalize(m), e) = R1!Fingerprint(R1!Normalize(n), f)
        => \A e \in m.items : \E f \in n.items :
              R1!Fingerprint(R1!Normalize(m), e) = R1!Fingerprint(R1!Normalize(n), f)

LEMMA ApartForBoth == BatchesApart => P1!BatchesApart /\ P2!BatchesApart
BY DEF R1!Normalize, R1!NormalizeV1, R1!NormalizeV2, R1!V1BootId,
       R1!NormalizeBootTime, R1!Fingerprint,
       BatchesApart, P1!BatchesApart, P1!Normalize, P1!NormalizeV1, P1!NormalizeV2,
       P1!V1BootId, P1!NormalizeBootTime, P1!Fingerprint, P2!BatchesApart,
       P2!Normalize, P2!NormalizeV1, P2!NormalizeV2, P2!V1BootId,
       P2!NormalizeBootTime, P2!Fingerprint

LEMMA OneSavedBatches ==
    /\ P1!SavedBatches <=> P2!SavedBatches
    /\ P1!SavedBatches' <=> P2!SavedBatches'
BY DEF P1!SavedBatches, P1!Recorded, P1!Normalize, P1!NormalizeV1,
       P1!NormalizeV2, P1!V1BootId, P1!NormalizeBootTime, P1!Fingerprint,
       P2!SavedBatches, P2!Recorded, P2!Normalize, P2!NormalizeV1,
       P2!NormalizeV2, P2!V1BootId, P2!NormalizeBootTime, P2!Fingerprint

BatchesInv == P1!SavedBatches /\ P1!ViewBatches /\ P2!ViewBatches

LEMMA FirstKeepsBatches ==
    ASSUME BatchesApart, IInv, BatchesInv, First PROVE BatchesInv'
<1>1. P1!SavedBatches' /\ P1!ViewBatches' /\ saved.events \subseteq saved'.events
  BY FirstSteps, Assumptions, ApartForBoth, P1!RequestKeeps, P1!RequestKeepsBatches
     DEF IInv, BatchesInv, First, P1!Grows
<1>2. UNCHANGED P2!view
  BY DEF First, view2, P2!view
<1>3. P2!ViewBatches'
  BY <1>1, <1>2, Assumptions, P2!OthersKeepBatches DEF BatchesInv
<1> QED BY <1>1, <1>3 DEF BatchesInv

LEMMA SecondKeepsBatches ==
    ASSUME BatchesApart, IInv, BatchesInv, Second PROVE BatchesInv'
<1>1. P2!SavedBatches' /\ P2!ViewBatches' /\ saved.events \subseteq saved'.events
  BY SecondSteps, OneSavedInv, OneSavedBatches, Assumptions, ApartForBoth,
     P2!RequestKeeps, P2!RequestKeepsBatches
     DEF IInv, BatchesInv, Second, P2!Grows
<1>2. UNCHANGED P1!view
  BY DEF Second, view1, P1!view
<1>3. P1!ViewBatches'
  BY <1>1, <1>2, Assumptions, P1!OthersKeepBatches DEF BatchesInv
<1> QED BY <1>1, <1>3, OneSavedBatches DEF BatchesInv

LEMMA StepKeepsBatches ==
    ASSUME BatchesApart, IInv, BatchesInv, [Next]_vars PROVE BatchesInv'
<1>1. CASE UNCHANGED vars
  <2>1. UNCHANGED <<saved, P1!view, P2!view>>
    BY <1>1 DEF vars, view1, view2, P1!view, P2!view
  <2>2. P1!SavedBatches'
    BY <2>1 DEF BatchesInv, P1!SavedBatches
  <2> QED BY <2>1, <2>2, Assumptions, P1!OthersKeepBatches, P2!OthersKeepBatches
          DEF BatchesInv
<1> QED BY <1>1, FirstKeepsBatches, SecondKeepsBatches DEF Next

LEMMA BatchesInitial == Init => BatchesInv
<1> SUFFICES ASSUME Init PROVE BatchesInv
  OBVIOUS
<1>1. /\ P1!ViewInit /\ P2!ViewInit
      /\ saved = [server |-> P1!NoServer, sessions |-> P1!NoRows, events |-> {}]
  BY BothBegin
<1> QED BY <1>1, Assumptions, P1!NoBatchesStored, P1!NoBatchesBegun, P2!NoBatchesBegun
        DEF BatchesInv

(* Where batches share no event but with their own repetitions, each is    *)
(* recorded whole or not at all, whichever of two requests wins and        *)
(* whatever fails: a request adds to what it read only events of its own   *)
(* batch, and commits once it has been through all of them.                *)
THEOREM BatchesRecordedWhole == ASSUME BatchesApart PROVE Spec => []BatchesWhole
<1>1. IInv /\ BatchesInv /\ [Next]_vars => BatchesInv'
  BY StepKeepsBatches
<1>2. ASSUME BatchesInv, NEW n \in Messages, R1!Normalize(n).kind = "events"
      PROVE  {e \in R1!Normalize(n).items :
                 \E row \in saved.events :
                     row.event_fingerprint = R1!Fingerprint(R1!Normalize(n), e)}
                 \in {{}, R1!Normalize(n).items}
  <2>1. n.kind = "events" /\ R1!Normalize(n).items = n.items
    BY <1>2 DEF R1!Normalize, R1!NormalizeV1, R1!NormalizeV2
  <2>2. \A m, e : P1!Fingerprint(m, e) = R1!Fingerprint(m, e)
    BY DEF P1!Fingerprint, R1!Fingerprint
  <2>3. P1!Normalize(n) = R1!Normalize(n)
    BY DEF R1!Normalize, R1!NormalizeV1, R1!NormalizeV2, R1!V1BootId,
         R1!NormalizeBootTime, P1!Normalize, P1!NormalizeV1, P1!NormalizeV2,
         P1!V1BootId, P1!NormalizeBootTime
  <2> QED BY <1>2, <2>1, <2>2, <2>3 DEF BatchesInv, P1!SavedBatches, P1!Recorded
<1>3. BatchesInv => BatchesWhole
  BY <1>2 DEF BatchesWhole
<1> QED BY <1>1, <1>3, BatchesInitial, Invariant, PTL DEF Spec

-----------------------------------------------------------------------------
(* One row for one logon.                                                  *)

\* Windows records one logon once: two LOGONs alike in session and time are one.
LogonsOnce ==
    \A m, n \in Messages :
        m.kind = "events" /\ n.kind = "events" =>
            \A e \in m.items, f \in n.items :
                /\ e.type = "LOGON" /\ f.type = "LOGON"
                /\ e.occurred_at = f.occurred_at
                /\ e.provider_session_id = f.provider_session_id
                /\ R1!SameUser(e.account, f.account)
                /\ R1!Normalize(m).protocol = R1!Normalize(n).protocol
                /\ R1!Normalize(m).boot_id = R1!Normalize(n).boot_id
                => R1!Fingerprint(R1!Normalize(m), e) = R1!Fingerprint(R1!Normalize(n), f)

\* A snapshot shows who is on, not since when.
SnapshotsUntimed ==
    \A m \in Messages : m.kind = "snapshot" => \A o \in m.items : o.logon_at = NULL

LEMMA LogonsOfBoth ==
    /\ LogonsOnce => P1!LogonsOnce /\ P2!LogonsOnce
    /\ SnapshotsUntimed => P1!SnapshotsUntimed /\ P2!SnapshotsUntimed
<1>1. SnapshotsUntimed => P1!SnapshotsUntimed /\ P2!SnapshotsUntimed
  BY DEF SnapshotsUntimed, P1!SnapshotsUntimed, P2!SnapshotsUntimed
<1>2. LogonsOnce => P1!LogonsOnce
  BY DEF LogonsOnce, R1!Normalize, R1!NormalizeV1, R1!NormalizeV2, R1!V1BootId,
         R1!NormalizeBootTime, R1!Fingerprint, R1!SameUser, P1!LogonsOnce, P1!Normalize,
         P1!NormalizeV1, P1!NormalizeV2, P1!V1BootId, P1!NormalizeBootTime,
         P1!Fingerprint, P1!SameUser
<1>3. LogonsOnce => P2!LogonsOnce
  BY DEF LogonsOnce, R1!Normalize, R1!NormalizeV1, R1!NormalizeV2, R1!V1BootId,
         R1!NormalizeBootTime, R1!Fingerprint, R1!SameUser, P2!LogonsOnce, P2!Normalize,
         P2!NormalizeV1, P2!NormalizeV2, P2!V1BootId, P2!NormalizeBootTime,
         P2!Fingerprint, P2!SameUser
<1> QED BY <1>1, <1>2, <1>3

LEMMA OneSavedDates ==
    /\ P1!SavedDates <=> P2!SavedDates
    /\ P1!SavedDates' <=> P2!SavedDates'
BY DEF P1!SavedDates, P1!Posted, P1!EventRow, P1!Normalize, P1!NormalizeV1,
       P1!NormalizeV2, P1!V1BootId, P1!NormalizeBootTime, P1!Fingerprint, P1!Dated,
       P1!BegunBy, P1!Concerns, P1!OneRow, P1!SameIdentity, P1!SameUser,
       P2!SavedDates, P2!Posted, P2!EventRow, P2!Normalize, P2!NormalizeV1,
       P2!NormalizeV2, P2!V1BootId, P2!NormalizeBootTime, P2!Fingerprint, P2!Dated,
       P2!BegunBy, P2!Concerns, P2!OneRow, P2!SameIdentity, P2!SameUser

\* Both requests are of posted messages; the logon times of the tables and of both views.
DatesInv ==
    /\ P1!ViewBatches /\ P2!ViewBatches
    /\ P1!SavedDates /\ P1!ViewDates /\ P2!ViewDates

LEMMA FirstKeepsDates ==
    ASSUME OneContract, LogonsOnce, SnapshotsUntimed, IInv, LogonsInv, DatesInv, First
    PROVE  DatesInv'
<1>1. /\ P1!SavedDates' /\ P1!ViewDates' /\ P1!ViewBatches'
      /\ P1!RowsStay /\ saved.events \subseteq saved'.events
  BY FirstSteps, Assumptions, ContractOfBoth, LogonsOfBoth, P1!RequestKeeps,
     P1!RequestKeepsLogons, P1!RequestKeepsMessage, P1!RequestKeepsDates
     DEF IInv, LogonsInv, DatesInv, First, P1!Grows
<1>2. UNCHANGED P2!view
  BY DEF First, view2, P2!view
<1>3. P2!ViewDates' /\ P2!ViewBatches'
  BY <1>1, <1>2, OneRowsStay, Assumptions, P2!OthersKeepDates, P2!OthersKeepBatches
     DEF DatesInv
<1> QED BY <1>1, <1>3 DEF DatesInv

LEMMA SecondKeepsDates ==
    ASSUME OneContract, LogonsOnce, SnapshotsUntimed, IInv, LogonsInv, DatesInv, Second
    PROVE  DatesInv'
<1>1. /\ P2!SavedDates' /\ P2!ViewDates' /\ P2!ViewBatches'
      /\ P2!RowsStay /\ saved.events \subseteq saved'.events
  BY SecondSteps, OneSavedInv, OneSavedLogons, OneSavedDates, Assumptions, ContractOfBoth,
     LogonsOfBoth, P2!RequestKeeps, P2!RequestKeepsLogons, P2!RequestKeepsMessage,
     P2!RequestKeepsDates
     DEF IInv, LogonsInv, DatesInv, Second, P2!Grows
<1>2. UNCHANGED P1!view
  BY DEF Second, view1, P1!view
<1>3. P1!ViewDates' /\ P1!ViewBatches'
  BY <1>1, <1>2, OneRowsStay, Assumptions, P1!OthersKeepDates, P1!OthersKeepBatches
     DEF DatesInv
<1> QED BY <1>1, <1>3, OneSavedDates DEF DatesInv

LEMMA StepKeepsDates ==
    ASSUME OneContract, LogonsOnce, SnapshotsUntimed, IInv, LogonsInv, DatesInv,
           [Next]_vars
    PROVE  DatesInv'
<1>1. CASE UNCHANGED vars
  <2>1. UNCHANGED <<saved, P1!view, P2!view>>
    BY <1>1 DEF vars, view1, view2, P1!view, P2!view
  <2>2. P1!RowsStay /\ P2!RowsStay /\ P1!SavedDates'
    BY <2>1, Assumptions, P1!NothingRenamed, P2!NothingRenamed, P1!NothingDated
       DEF DatesInv
  <2> QED BY <2>1, <2>2, Assumptions, P1!OthersKeepDates, P2!OthersKeepDates,
             P1!OthersKeepBatches, P2!OthersKeepBatches
          DEF DatesInv
<1> QED BY <1>1, FirstKeepsDates, SecondKeepsDates DEF Next

LEMMA DatesInitial == Init => DatesInv
<1> SUFFICES ASSUME Init PROVE DatesInv
  OBVIOUS
<1>1. /\ P1!ViewInit /\ P2!ViewInit
      /\ saved = [server |-> P1!NoServer, sessions |-> P1!NoRows, events |-> {}]
  BY BothBegin
<1> QED BY <1>1, Assumptions, P1!NoDatesStored, P1!NoDatesBegun, P2!NoDatesBegun,
           P1!NoBatchesBegun, P2!NoBatchesBegun
        DEF DatesInv

(* However two requests of a server of one contract overlap, no logon has  *)
(* two rows, if Windows records a logon once and no snapshot says when a   *)
(* session began: a row learns its logon time from a LOGON the request     *)
(* itself inserts, and the unique index on fingerprints lets the LOGON be  *)
(* inserted once.  (A snapshot that does say it is checked by no index.)   *)
THEOREM OneRowForOneLogon ==
    ASSUME OneContract, LogonsOnce, SnapshotsUntimed
    PROVE  Spec => []OneRowPerLogon
<1>1. IInv /\ LogonsInv /\ [Next]_vars => LogonsInv'
  BY StepKeepsLogons
<1>2. IInv /\ LogonsInv /\ DatesInv /\ [Next]_vars => DatesInv'
  BY StepKeepsDates
<1>3. DatesInv => OneRowPerLogon
  BY DEF DatesInv, OneRowPerLogon, P1!SavedDates, P1!OneRow, P1!SameIdentity,
         P1!SameUser, R1!SameIdentity, R1!SameUser
<1> QED BY <1>1, <1>2, <1>3, LogonsInitial, DatesInitial, Invariant, PTL DEF Spec
=============================================================================
