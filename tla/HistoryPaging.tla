----------------------------- MODULE HistoryPaging -----------------------------
(***************************************************************************)
(* The session history, read page by page by limit and offset while the    *)
(* API goes on writing: GET /api/v2/sessions/history and its elder sister  *)
(* of contract 1, which is the filter state=CLOSED.                        *)
(*                                                                         *)
(* A page is one transaction, so its total and its rows agree; two pages   *)
(* are two transactions.  The reader, the Portal, asks for the next offset *)
(* until it has reached the total of the last answer.  (Contract 1 gives   *)
(* no total; there the last page is the first one that is not full.)  Rows *)
(* within a page are in order, too; what the reader has seen in the end    *)
(* depends only on which page a row is on.                                 *)
(***************************************************************************)
EXTENDS Integers, FiniteSets

CONSTANTS
    SessionIds,   \* bound: primary keys, ordered
    Times,        \* bound: logon times
    Filters,      \* the states and the bounds on logon_at a reader may ask for
    Limit,        \* the page size
    OneAtATime,   \* do the requests of a server come one after the other?
    NULL

SessionStates == {"ACTIVE", "DISCONNECTED", "CLOSED"}

ASSUME PagingAssumption ==
    /\ SessionIds \subseteq Nat /\ IsFiniteSet(SessionIds)
    /\ Times \subseteq Nat /\ NULL \notin Nat
    /\ Filters \subseteq [states: SUBSET SessionStates, from: Nat \union {NULL},
                          to: Nat \union {NULL}]
    /\ Limit \in 1..500 /\ OneAtATime \in BOOLEAN
    \* Anything else is answered with HTTP 422.
    /\ \A f \in Filters : f.from # NULL /\ f.to # NULL => f.from <= f.to

VARIABLES
    sessions,   \* the sessions table: state and logon_at by primary key
    walk        \* the reader's progress, with the filter it asks for

vars == <<sessions, walk>>

-----------------------------------------------------------------------------
(* One answer.                                                             *)

\* Mutant: bounds that let the rows without a logon time through.
MatchesUnknownLogon(f, s) ==
    /\ s.state \in f.states
    /\ f.from # NULL => s.logon_at = NULL \/ s.logon_at >= f.from
    /\ f.to # NULL => s.logon_at = NULL \/ s.logon_at <= f.to

\* A comparison with a logon_at that is NULL lets no row through.
Matches(f, s) ==
    /\ s.state \in f.states
    /\ f.from # NULL => s.logon_at # NULL /\ s.logon_at >= f.from
    /\ f.to # NULL => s.logon_at # NULL /\ s.logon_at <= f.to

Matching(f) == {i \in DOMAIN sessions : Matches(f, sessions[i])}

\* ORDER BY logon_at DESC, id: a row without a logon time comes last.
Precedes(i, j) ==
    LET s == sessions[i].logon_at
        t == sessions[j].logon_at
    IN  \/ s # NULL /\ t = NULL
        \/ s # NULL /\ t # NULL /\ s > t
        \/ s = t /\ i < j

Total(f) == Cardinality(Matching(f))

\* Where row i stands among the rows that match, from 1.
Place(f, i) == Cardinality({j \in Matching(f) : j = i \/ Precedes(j, i)})

\* OFFSET and LIMIT.
Page(f, offset) ==
    {i \in Matching(f) : Place(f, i) \in offset + 1..offset + Limit}

-----------------------------------------------------------------------------
(* The reader.  expected are the rows that matched when the walk began and *)
(* ever since.                                                             *)

NoWalk == [open |-> FALSE, filter |-> NULL, offset |-> 0, seen |-> {}, expected |-> {}]

StartWalk ==
    /\ ~walk.open
    /\ \E f \in Filters :
          walk' = [NoWalk EXCEPT !.open = TRUE, !.filter = f, !.expected = Matching(f)]
    /\ UNCHANGED sessions

FetchPage ==
    /\ walk.open
    /\ walk' = [walk EXCEPT !.seen = @ \union Page(walk.filter, walk.offset),
                            !.offset = @ + Limit,
                            !.open = walk.offset + Limit < Total(walk.filter)]
    /\ UNCHANGED sessions

-----------------------------------------------------------------------------
(* The API meanwhile: one committed change of one row.                     *)

Put(i, s) ==
    /\ sessions' = [j \in DOMAIN sessions \union {i} |-> IF j = i THEN s ELSE sessions[j]]
    /\ walk' = [walk EXCEPT !.expected =
                    IF walk.open /\ ~Matches(walk.filter, s) THEN @ \ {i} ELSE @]

\* A LOGON, however late it is delivered, or a snapshot that may not know when.
Opens(i) ==
    /\ i \notin DOMAIN sessions
    /\ \E at \in Times \union {NULL} : Put(i, [state |-> "ACTIVE", logon_at |-> at])

\* A request writes rows it read open.  One that read a row before another closed
\* it may so put the row back, or tell its logon time, after its end.
Writable(i) == OneAtATime => sessions[i].state # "CLOSED"

Moves(i) ==
    /\ Writable(i)
    /\ \E to \in SessionStates \ {sessions[i].state} :
           Put(i, [sessions[i] EXCEPT !.state = to])

\* A LOGON or a snapshot tells a row when its session began.  Two that do so at
\* the same time are taken to agree, so the second write changes nothing.
LearnsLogon(i) ==
    /\ Writable(i)
    /\ sessions[i].logon_at = NULL
    /\ \E at \in Times : Put(i, [sessions[i] EXCEPT !.logon_at = at])

Write ==
    \/ \E i \in SessionIds : Opens(i)
    \/ \E i \in DOMAIN sessions : Moves(i) \/ LearnsLogon(i)

Next == StartWalk \/ FetchPage \/ Write

Init == sessions = [i \in {} |-> NULL] /\ walk = NoWalk

Spec == Init /\ [][Next]_vars

-----------------------------------------------------------------------------
(* Properties.                                                             *)

(* docs/phase4-global-history.md: "The response includes total, limit and  *)
(* offset so the Portal can implement deterministic pagination."  A walk   *)
(* that reached the end has seen every session that matched all along,     *)
(* whatever opened, changed or ended meanwhile.                            *)
WalkComplete ==
    ~walk.open => walk.expected \subseteq walk.seen
=============================================================================
