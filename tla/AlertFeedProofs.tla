--------------------------- MODULE AlertFeedProofs ---------------------------
(***************************************************************************)
(* No logon is missed by a reader whose window covers the longest request, *)
(* the interval of its polls and what the database cuts off a time, and    *)
(* none alerts twice: for any number of logons, any window and any delay.  *)
(*                                                                         *)
(* The invariant dates what nobody has seen yet: an event that was         *)
(* committed after the latest poll was flushed at most LongestRequest      *)
(* before that poll, and the next poll is at most Interval away.           *)
(***************************************************************************)
EXTENDS AlertFeed, TLAPS

\* Flushed in the past, and stamped with what is kept of that time.
Stamped(e) ==
    /\ e.flushed_at <= now
    /\ e.flushed_at - Resolution + 1 <= e.received_at

\* A request in progress has not yet taken longer than it may.
PendingInTime ==
    \A e \in pending : Stamped(e) /\ now <= e.flushed_at + LongestRequest

\* What no poll has shown was flushed shortly before the latest one, or since.
UnseenIsRecent ==
    \A e \in events :
        Stamped(e) /\ (e \notin alerted => polled_at <= e.flushed_at + LongestRequest)

PollInTime == polled_at <= now /\ now <= polled_at + Interval

OneEventPerLogon == \A e, f \in events : e.logon = f.logon => e = f

Inv == TypeOK /\ PendingInTime /\ UnseenIsRecent /\ PollInTime /\ OneEventPerLogon

LEMMA InvInit == Init => Inv
  BY ParametersAssumption
  DEF Init, Inv, TypeOK, PendingInTime, UnseenIsRecent, PollInTime, OneEventPerLogon

LEMMA InvNext == Inv /\ [Next]_vars => Inv'
  <1> SUFFICES ASSUME Inv, [Next]_vars PROVE Inv'
    OBVIOUS
  <1> USE ParametersAssumption
  <1> USE DEF Inv, TypeOK, Event
  <1>1. ASSUME NEW l \in Logons, Occur(l) PROVE Inv'
    BY <1>1 DEF Occur, PendingInTime, UnseenIsRecent, PollInTime, OneEventPerLogon, Stamped
  <1>2. ASSUME NEW l \in Logons, Receive(l) PROVE Inv'
    <2>1. PICK id \in 1..MaxPosts, kept \in Stored(now) :
             pending' = pending \union
                 {[alert_id |-> id, logon |-> l, occurred_at |-> occurred[l],
                   flushed_at |-> now, received_at |-> kept]}
      BY <1>2 DEF Receive
    <2>2. kept \in Nat /\ now - Resolution + 1 <= kept
      BY DEF Stored
    <2>3. TypeOK'
      BY <1>2, <2>1, <2>2 DEF Receive
    <2>4. PendingInTime'
      BY <1>2, <2>1, <2>2 DEF Receive, PendingInTime, Stamped
    <2>5. UnseenIsRecent' /\ PollInTime' /\ OneEventPerLogon'
      BY <1>2 DEF Receive, UnseenIsRecent, PollInTime, OneEventPerLogon, Stamped
    <2> QED
      BY <2>3, <2>4, <2>5
  <1>3. ASSUME NEW e \in pending, Commit(e) PROVE Inv'
    <2>1. TypeOK' /\ PendingInTime' /\ PollInTime'
      BY <1>3 DEF Commit, PendingInTime, PollInTime, Stamped
    <2>2. UnseenIsRecent'
      BY <1>3 DEF Commit, UnseenIsRecent, PendingInTime, PollInTime, Stamped
    <2>3. OneEventPerLogon'
      BY <1>3 DEF Commit, OneEventPerLogon, Known
    <2> QED
      BY <2>1, <2>2, <2>3
  <1>4. ASSUME NEW e \in pending, Rollback(e) PROVE Inv'
    BY <1>4 DEF Rollback, PendingInTime, UnseenIsRecent, PollInTime, OneEventPerLogon, Stamped
  <1>5. CASE Poll
    <2>1. TypeOK' /\ PendingInTime' /\ PollInTime' /\ OneEventPerLogon'
      BY <1>5 DEF Poll, Recent, PendingInTime, PollInTime, OneEventPerLogon, Stamped
    <2>2. \A e \in events : e \notin alerted => e \in Recent
      BY WindowAssumption DEF Recent, UnseenIsRecent, PollInTime, Stamped
    <2>3. UnseenIsRecent'
      BY <1>5, <2>2 DEF Poll, UnseenIsRecent, Stamped
    <2> QED
      BY <2>1, <2>3
  <1>6. CASE Tick
    BY <1>6 DEF Tick, PendingInTime, UnseenIsRecent, PollInTime, OneEventPerLogon, Stamped
  <1>7. CASE UNCHANGED vars
    BY <1>7 DEF vars, PendingInTime, UnseenIsRecent, PollInTime, OneEventPerLogon, Stamped
  <1> QED
    BY <1>1, <1>2, <1>3, <1>4, <1>5, <1>6, <1>7 DEF Next

LEMMA InvAlways == Spec => []Inv
  BY InvInit, InvNext, PTL DEF Spec

(* Every column and every bookkeeping of the feed keeps its type; a poll   *)
(* shows committed events only.                                            *)
THEOREM FeedTypeCorrect == Spec => []TypeOK
  <1>1. Inv => TypeOK
    BY DEF Inv
  <1> QED
    BY <1>1, InvAlways, PTL

(* Whatever the delays, an event that has left the window was shown.       *)
THEOREM NoLogonMissed == Spec => []NoneMissed
  <1>1. Inv => NoneMissed
    BY ParametersAssumption, WindowAssumption
    DEF Inv, TypeOK, Event, NoneMissed, UnseenIsRecent, PollInTime, Stamped
  <1> QED
    BY <1>1, InvAlways, PTL

(* One logon never alerts under two ids.                                   *)
THEOREM NoLogonAlertsTwice == Spec => []OneAlertPerLogon
  <1>1. Inv => OneAlertPerLogon
    BY DEF Inv, TypeOK, OneEventPerLogon, OneAlertPerLogon
  <1> QED
    BY <1>1, InvAlways, PTL
=============================================================================
