------------------------------ MODULE AlertFeed ------------------------------
(***************************************************************************)
(* Logon alerts by polling: GET /alerts/logons of contract 1 and /v2       *)
(* answer with the LOGON events received within a look-back window, and a  *)
(* dashboard asks at an interval.  An event is stamped when its request    *)
(* flushes it and can be seen once that request commits, so the window     *)
(* must cover the longest request beside the interval.                     *)
(*                                                                         *)
(* Time is the API's clock, in ticks.  The server stays enabled; the       *)
(* filter on the protocol selects whole events and is left out.            *)
(***************************************************************************)
EXTENDS Integers, FiniteSets

CONSTANTS
    Logons,          \* the logons of one server
    Lookback,        \* the window a reader asks for
    Interval,        \* the longest time between two polls
    LongestRequest,  \* the longest time from a flush to its commit
    Resolution,      \* ticks of the unit the database keeps in a DATETIME
    MaxPosts,        \* bound: posts of one logon
    Horizon,         \* bound: the clock
    NULL

ASSUME ParametersAssumption ==
    /\ {Lookback, Interval, LongestRequest, MaxPosts, Horizon} \subseteq Nat
    /\ Resolution \in Nat \ {0}
    /\ NULL \notin Nat

(* What a reader must choose the window by.                                *)
ASSUME WindowAssumption == Interval + LongestRequest + Resolution - 1 <= Lookback

VARIABLES
    now,
    occurred,   \* when each logon took place, or NULL
    pending,    \* events flushed by a request in progress
    events,     \* events committed
    alerted,    \* events some poll has shown
    polled_at   \* the latest poll

vars == <<now, occurred, pending, events, alerted, polled_at>>

\* flushed_at is the clock; received_at is what the row keeps of it.
Event == [alert_id: Nat, logon: Logons, occurred_at: Nat, flushed_at: Nat, received_at: Nat]

\* MariaDB cuts a time to the unit before it, MySQL takes the nearest one.
Stored(t) == {s \in 0..(t + Resolution) :
                 s % Resolution = 0 /\ t - Resolution < s /\ s < t + Resolution}

-----------------------------------------------------------------------------
(* The logons and the requests that bring them.                            *)

Occur(l) ==
    /\ occurred[l] = NULL
    /\ occurred' = [occurred EXCEPT ![l] = now]
    /\ UNCHANGED <<now, pending, events, alerted, polled_at>>

\* Mutant: a replayed event is stored again.
NeverKnown(l) == FALSE

Known(l) == \E e \in events : e.logon = l

\* The Agent posts a logon, late or again, and its request flushes it.
Receive(l) ==
    /\ occurred[l] # NULL
    /\ ~Known(l)
    /\ \E id \in 1..MaxPosts, kept \in Stored(now) :
          /\ \A e \in events \union pending : e.logon = l => e.alert_id # id
          /\ pending' = pending \union
                 {[alert_id |-> id, logon |-> l, occurred_at |-> occurred[l],
                   flushed_at |-> now, received_at |-> kept]}
    /\ UNCHANGED <<now, occurred, events, alerted, polled_at>>

\* The unique index on fingerprints refuses what another request committed.
Commit(e) ==
    /\ ~Known(e.logon)
    /\ pending' = pending \ {e}
    /\ events' = events \union {e}
    /\ UNCHANGED <<now, occurred, alerted, polled_at>>

\* The request is refused or fails; the Agent posts the logon again.
Rollback(e) ==
    /\ pending' = pending \ {e}
    /\ UNCHANGED <<now, occurred, events, alerted, polled_at>>

-----------------------------------------------------------------------------
(* The reader.                                                             *)

\* Mutants: the window is of logon times, or shows what is not committed.
RecentByLogon == {e \in events : e.occurred_at >= now - Lookback}
RecentUncommitted == {e \in events \union pending : e.received_at >= now - Lookback}

Recent == {e \in events : e.received_at >= now - Lookback}

Poll ==
    /\ alerted' = alerted \union Recent
    /\ polled_at' = now
    /\ UNCHANGED <<now, occurred, pending, events>>

\* Polls and commits are not later than Interval and LongestRequest say.
Tick ==
    /\ now < Horizon
    /\ now < polled_at + Interval
    /\ \A e \in pending : now < e.flushed_at + LongestRequest
    /\ now' = now + 1
    /\ UNCHANGED <<occurred, pending, events, alerted, polled_at>>

Next ==
    \/ \E l \in Logons : Occur(l) \/ Receive(l)
    \/ \E e \in pending : Commit(e) \/ Rollback(e)
    \/ Poll
    \/ Tick

Init ==
    /\ now = 0
    /\ occurred = [l \in Logons |-> NULL]
    /\ pending = {}
    /\ events = {}
    /\ alerted = {}
    /\ polled_at = 0

Spec == Init /\ [][Next]_vars

-----------------------------------------------------------------------------
(* Properties.                                                             *)

TypeOK ==
    /\ now \in Nat
    /\ occurred \in [Logons -> Nat \union {NULL}]
    /\ pending \in SUBSET Event
    /\ events \in SUBSET Event
    /\ alerted \in SUBSET events
    /\ polled_at \in Nat

(* docs/grafana-alerting.md: "a delayed spool delivery can still alert     *)
(* when the API finally receives the original LOGON".  An event that has   *)
(* left the window was shown by a poll, however late it came and however   *)
(* long its request took.                                                  *)
NoneMissed ==
    \A e \in events : e.received_at < now - Lookback => e \in alerted

(* docs/grafana-alerting.md: "alert_id is unique per accepted LOGON event" *)
(* and replaying a batch "does not create another event": one logon never  *)
(* alerts under two ids, whatever was rolled back, resent or shown twice.  *)
OneAlertPerLogon ==
    \A e, f \in alerted : e.logon = f.logon => e = f
=============================================================================
