-------------------------- MODULE HistoryPagingProofs --------------------------
(***************************************************************************)
(* A walk over the pages of the history is complete, for every table and   *)
(* page size, if its filter keeps out the rows whose place may still       *)
(* change.  Rows that come between two pages then push others back and     *)
(* pull none forward, so a row not seen yet stays ahead of the reader.     *)
(***************************************************************************)
EXTENDS HistoryPaging, FiniteSetTheorems, TLAPS

(* A filter of all states with a bound on the logon time, which a row      *)
(* without one fails; or, where requests do not overlap, so that no row is *)
(* put back from its end, the history of contract 1: closed sessions.      *)
SettledFilters ==
    \A f \in Filters :
        \/ f.states = SessionStates /\ (f.from # NULL \/ f.to # NULL)
        \/ OneAtATime /\ f.states = {"CLOSED"}

Row == [state: SessionStates, logon_at: Nat \union {NULL}]

TableOK == DOMAIN sessions \subseteq SessionIds /\ sessions \in [DOMAIN sessions -> Row]

WalkInv ==
    walk.open =>
        /\ walk.filter \in Filters
        /\ walk.offset \in Nat
        /\ walk.expected \subseteq Matching(walk.filter)
        /\ \A i \in walk.expected :
              i \in walk.seen \/ Place(walk.filter, i) > walk.offset

IInv ==
    /\ TableOK
    /\ walk = [open |-> walk.open, filter |-> walk.filter, offset |-> walk.offset,
               seen |-> walk.seen, expected |-> walk.expected]
    /\ walk.open \in BOOLEAN
    /\ WalkInv
    /\ WalkComplete

-----------------------------------------------------------------------------
(* Places.                                                                 *)

Before(f, i) == {j \in Matching(f) : j = i \/ Precedes(j, i)}

LEMMA MatchingFinite ==
    ASSUME TableOK, NEW f
    PROVE  /\ IsFiniteSet(Matching(f))
           /\ Total(f) \in Nat
<1>1. Matching(f) \in SUBSET SessionIds
  BY DEF Matching, TableOK
<1> QED BY <1>1, PagingAssumption, FS_Subset, FS_CardinalityType DEF Total

\* A place is one of 1..Total(f).
LEMMA PlaceBounds ==
    ASSUME TableOK, NEW f, NEW i \in Matching(f)
    PROVE  Place(f, i) \in Nat /\ 1 <= Place(f, i) /\ Place(f, i) <= Total(f)
<1>1. Before(f, i) \in SUBSET Matching(f) /\ i \in Before(f, i)
  BY DEF Before
<1>2. IsFiniteSet(Before(f, i)) /\ Cardinality(Before(f, i)) <= Total(f)
  BY <1>1, MatchingFinite, FS_Subset DEF Total
<1>3. Cardinality(Before(f, i)) \in Nat /\ Cardinality(Before(f, i)) # 0
  BY <1>1, <1>2, FS_CardinalityType, FS_EmptySet
<1>4. Place(f, i) = Cardinality(Before(f, i))
  BY DEF Place, Before
<1> QED BY <1>2, <1>3, <1>4

-----------------------------------------------------------------------------
(* The API's writes.                                                       *)

LEMMA WriteKeepsTable == ASSUME TableOK, Write PROVE TableOK'
<1>1. ASSUME NEW i \in SessionIds, NEW s \in Row, Put(i, s) PROVE TableOK'
  BY <1>1 DEF Put, TableOK
<1>2. ASSUME NEW i \in SessionIds, Opens(i) PROVE TableOK'
  <2>1. PICK at \in Times \union {NULL} : Put(i, [state |-> "ACTIVE", logon_at |-> at])
    BY <1>2 DEF Opens
  <2>2. [state |-> "ACTIVE", logon_at |-> at] \in Row
    BY PagingAssumption DEF Row, SessionStates
  <2> QED BY <1>1, <2>1, <2>2
<1>3. ASSUME NEW i \in DOMAIN sessions, Moves(i) PROVE TableOK'
  <2>1. PICK to \in SessionStates : Put(i, [sessions[i] EXCEPT !.state = to])
    BY <1>3 DEF Moves
  <2>2. [sessions[i] EXCEPT !.state = to] \in Row /\ i \in SessionIds
    BY DEF TableOK, Row
  <2> QED BY <1>1, <2>1, <2>2
<1>4. ASSUME NEW i \in DOMAIN sessions, LearnsLogon(i) PROVE TableOK'
  <2>1. PICK at \in Times : Put(i, [sessions[i] EXCEPT !.logon_at = at])
    BY <1>4 DEF LearnsLogon
  <2>2. [sessions[i] EXCEPT !.logon_at = at] \in Row /\ i \in SessionIds
    BY PagingAssumption DEF TableOK, Row
  <2> QED BY <1>1, <2>1, <2>2
<1> QED BY <1>2, <1>3, <1>4 DEF Write

\* A row that a settled filter lets through stays where the order puts it.
LEMMA MatchStays ==
    ASSUME SettledFilters, TableOK, Write, NEW f \in Filters, NEW i \in Matching(f)
    PROVE  i \in Matching(f)' /\ sessions'[i].logon_at = sessions[i].logon_at
<1>1. i \in DOMAIN sessions /\ Matches(f, sessions[i]) /\ sessions[i] \in Row
  BY DEF Matching, TableOK
<1>2. \/ OneAtATime /\ f.states = {"CLOSED"}
      \/ f.states = SessionStates /\ sessions[i].logon_at # NULL
  BY <1>1 DEF SettledFilters, Matches
<1>3. ASSUME NEW k, Opens(k) \/ (Moves(k) /\ k # i) \/ (LearnsLogon(k) /\ k # i)
      PROVE  i \in DOMAIN sessions' /\ sessions'[i] = sessions[i]
  BY <1>1, <1>3 DEF Opens, Moves, LearnsLogon, Put
<1>4. ASSUME Moves(i)
      PROVE  /\ i \in DOMAIN sessions' /\ Matches(f, sessions'[i])
             /\ sessions'[i].logon_at = sessions[i].logon_at
  <2>1. PICK to \in SessionStates : Put(i, [sessions[i] EXCEPT !.state = to])
    BY <1>4 DEF Moves
  <2>2. /\ i \in DOMAIN sessions'
        /\ sessions'[i].logon_at = sessions[i].logon_at
        /\ sessions'[i].state \in SessionStates
    BY <1>1, <2>1 DEF Put, Row
  <2>3. f.states = SessionStates
    BY <1>1, <1>2, <1>4 DEF Moves, Writable, Matches
  <2> QED BY <1>1, <2>2, <2>3 DEF Matches
<1>5. ~LearnsLogon(i)
  BY <1>1, <1>2 DEF LearnsLogon, Writable, Matches
<1>6. i \in DOMAIN sessions' /\ Matches(f, sessions'[i])
      /\ sessions'[i].logon_at = sessions[i].logon_at
  BY <1>1, <1>3, <1>4, <1>5 DEF Write
<1> QED BY <1>6 DEF Matching

LEMMA NextBeforeFinite ==
    ASSUME TableOK', NEW f, NEW i
    PROVE  IsFiniteSet((Before(f, i))')
<1>1. (Before(f, i))' \in SUBSET SessionIds
  BY DEF Before, Matching, TableOK
<1> QED BY <1>1, PagingAssumption, FS_Subset

LEMMA NextPlaceIsNat ==
    ASSUME TableOK', NEW f, NEW i
    PROVE  Place(f, i)' \in Nat
<1>1. Place(f, i)' = Cardinality((Before(f, i))')
  BY DEF Place, Before
<1> QED BY <1>1, NextBeforeFinite, FS_CardinalityType

LEMMA PlaceGrows ==
    ASSUME SettledFilters, TableOK, Write, NEW f \in Filters, NEW i \in Matching(f)
    PROVE  i \in Matching(f)' /\ Place(f, i) <= Place(f, i)'
<1>1. \A j \in Matching(f) :
         j \in Matching(f)' /\ sessions'[j].logon_at = sessions[j].logon_at
  BY MatchStays
<1>2. Before(f, i) \in SUBSET (Before(f, i))'
  BY <1>1 DEF Before, Precedes
<1>3. IsFiniteSet((Before(f, i))')
  BY WriteKeepsTable, NextBeforeFinite
<1>4. Cardinality(Before(f, i)) <= Cardinality((Before(f, i))')
  BY <1>2, <1>3, FS_Subset
<1> QED BY <1>1, <1>4 DEF Place, Before

-----------------------------------------------------------------------------
(* The invariant.                                                          *)

LEMMA WriteKeeps == ASSUME SettledFilters, IInv, Write PROVE IInv'
<1>1. PICK i, s : Put(i, s)
  BY DEF Write, Opens, Moves, LearnsLogon
<1>2. walk' = [walk EXCEPT !.expected =
                   IF walk.open /\ ~Matches(walk.filter, s) THEN @ \ {i} ELSE @]
  BY <1>1 DEF Put
<1>3. /\ walk'.open = walk.open /\ walk'.filter = walk.filter
      /\ walk'.offset = walk.offset /\ walk'.seen = walk.seen
      /\ walk'.expected \subseteq walk.expected
      /\ walk' = [open |-> walk'.open, filter |-> walk'.filter, offset |-> walk'.offset,
                  seen |-> walk'.seen, expected |-> walk'.expected]
  BY <1>2 DEF IInv
<1>4. TableOK'
  BY WriteKeepsTable DEF IInv
<1>5. WalkInv'
  <2> SUFFICES ASSUME walk.open PROVE WalkInv'
    BY <1>3 DEF WalkInv
  <2>1. PICK f \in Filters : walk.filter = f /\ walk'.filter = f
    BY <1>3 DEF IInv, WalkInv
  <2>2. ASSUME NEW e \in walk'.expected
        PROVE  /\ e \in Matching(f)'
               /\ e \in walk.seen \/ Place(f, e)' > walk.offset
    <3>1. /\ walk.offset \in Nat /\ e \in Matching(f)
          /\ e \in walk.seen \/ Place(f, e) > walk.offset
      BY <1>3, <2>1, <2>2 DEF IInv, WalkInv
    <3>2. e \in Matching(f)' /\ Place(f, e) <= Place(f, e)'
      BY <3>1, PlaceGrows DEF IInv
    <3>3. Place(f, e) \in Nat
      BY <3>1, PlaceBounds DEF IInv
    <3>4. Place(f, e)' \in Nat
      BY <1>4, <3>2, NextPlaceIsNat
    <3> QED BY <3>1, <3>2, <3>3, <3>4
  <2>3. Matching(walk.filter)' = Matching(f)'
    BY <2>1 DEF Matching
  <2>4. \A e : Place(walk.filter, e)' = Place(f, e)'
    BY <2>1, <2>3 DEF Place
  <2> QED BY <1>3, <2>1, <2>2, <2>3, <2>4 DEF WalkInv, IInv
<1> QED BY <1>3, <1>4, <1>5 DEF IInv, WalkComplete

LEMMA StartWalkKeeps == ASSUME IInv, StartWalk PROVE IInv'
<1>1. PICK f \in Filters :
         walk' = [NoWalk EXCEPT !.open = TRUE, !.filter = f, !.expected = Matching(f)]
  BY DEF StartWalk
<1>2. walk' = [open |-> TRUE, filter |-> f, offset |-> 0, seen |-> {},
               expected |-> Matching(f)]
  BY <1>1 DEF NoWalk
<1>3. sessions' = sessions
  BY DEF StartWalk
<1>4. TableOK'
  BY <1>3 DEF IInv, TableOK
<1>5. \A i \in Matching(f) : Place(f, i) > 0
  BY PlaceBounds DEF IInv
<1>6. WalkInv'
  BY <1>2, <1>3, <1>5 DEF WalkInv, Place, Matching, Precedes
<1> QED BY <1>2, <1>4, <1>6 DEF IInv, WalkComplete

\* Whoever is not on the page is on a later one; after the last page nobody is.
LEMMA FetchPageKeeps == ASSUME IInv, FetchPage PROVE IInv'
<1>0. PICK f : walk.filter = f
  OBVIOUS
<1>1. /\ walk.open /\ sessions' = sessions
      /\ walk' = [open |-> walk.offset + Limit < Total(f), filter |-> f,
                  offset |-> walk.offset + Limit,
                  seen |-> walk.seen \union Page(f, walk.offset),
                  expected |-> walk.expected]
  BY <1>0 DEF FetchPage, IInv
<1>2. /\ f \in Filters /\ walk.offset \in Nat
      /\ walk.expected \subseteq Matching(f)
      /\ \A i \in walk.expected : i \in walk.seen \/ Place(f, i) > walk.offset
  BY <1>0, <1>1 DEF IInv, WalkInv
<1>3. Total(f) \in Nat
  BY MatchingFinite DEF IInv
<1>4. \A i \in Matching(f) : Place(f, i) \in Nat /\ Place(f, i) <= Total(f)
  BY PlaceBounds DEF IInv
<1>5. Limit \in Nat /\ walk.offset + Limit \in Nat
  BY <1>2, PagingAssumption
<1>6. \A i \in walk.expected :
         i \in walk.seen \union Page(f, walk.offset) \/ Place(f, i) > walk.offset + Limit
  <2> SUFFICES ASSUME NEW i \in walk.expected, i \notin walk.seen,
                      ~(Place(f, i) > walk.offset + Limit)
               PROVE  i \in Page(f, walk.offset)
    OBVIOUS
  <2>1. i \in Matching(f) /\ Place(f, i) \in Nat /\ Place(f, i) > walk.offset
    BY <1>2, <1>4
  <2>2. Place(f, i) \in walk.offset + 1..walk.offset + Limit
    BY <1>2, <1>5, <2>1
  <2> QED BY <2>1, <2>2 DEF Page
<1>7. TableOK'
  BY <1>1 DEF IInv, TableOK
<1>8. WalkInv'
  <2>1. /\ walk'.filter = f /\ walk'.offset = walk.offset + Limit
        /\ walk'.expected = walk.expected
        /\ walk'.seen = walk.seen \union Page(f, walk.offset)
    BY <1>1
  <2>2. Matching(walk.filter)' = Matching(f)
    BY <1>1, <2>1 DEF Matching
  <2>3. \A i : Place(walk.filter, i)' = Place(f, i)
    BY <1>1, <2>1, <2>2 DEF Place, Precedes
  <2> QED BY <1>2, <1>5, <1>6, <2>1, <2>2, <2>3 DEF WalkInv
<1>9. WalkComplete'
  <2> SUFFICES ASSUME ~walk'.open PROVE walk'.expected \subseteq walk'.seen
    BY DEF WalkComplete
  <2>1. ~(walk.offset + Limit < Total(f))
    BY <1>1
  <2>2. \A i \in walk.expected : ~(Place(f, i) > walk.offset + Limit)
    BY <1>2, <1>3, <1>4, <1>5, <2>1
  <2> QED BY <1>1, <1>6, <2>2
<1> QED BY <1>1, <1>7, <1>8, <1>9 DEF IInv

(* A reader who asks with a settled filter misses nobody: a walk that has  *)
(* reached the total has seen every session that matched from its first    *)
(* page to its last, whatever the API wrote in between.                    *)
THEOREM WalksComplete == ASSUME SettledFilters PROVE Spec => []WalkComplete
<1>1. Init => IInv
  BY DEF Init, IInv, TableOK, NoWalk, WalkInv, WalkComplete
<1>2. IInv /\ [Next]_vars => IInv'
  <2>1. ASSUME IInv, UNCHANGED vars PROVE IInv'
    BY <2>1 DEF vars, IInv, TableOK, WalkInv, WalkComplete, Matching, Place, Precedes
  <2> QED BY <2>1, WriteKeeps, StartWalkKeeps, FetchPageKeeps DEF Next
<1>3. IInv => WalkComplete
  BY DEF IInv
<1> QED BY <1>1, <1>2, <1>3, PTL DEF Spec
=============================================================================
