-------------------------- MODULE ConcurrentRequests --------------------------
(***************************************************************************)
(* Two requests of one server at once.  The API runs its handlers in a     *)
(* pool of threads, so an Agent that gave up waiting and posts again, or   *)
(* posts its next message, overlaps the request it left behind.            *)
(***************************************************************************)
EXTENDS Integers, FiniteSets

CONSTANTS
    Messages, SessionIds, Accounts, PrincipalOf, ProviderIds, EventIds, IdRank,
    BootTokens, Addresses, TicksPerSecond, ClockAdvance, NULL

VARIABLES
    saved,   \* the committed tables
    server1, sessions1, events1, req1, unflushed1, loaded1, wrote1,
    server2, sessions2, events2, req2, unflushed2, loaded2, wrote2

R1 == INSTANCE RequestTransaction
          WITH server <- server1, sessions <- sessions1, events <- events1,
               req <- req1, unflushed <- unflushed1, loaded <- loaded1, wrote <- wrote1
R2 == INSTANCE RequestTransaction
          WITH server <- server2, sessions <- sessions2, events <- events2,
               req <- req2, unflushed <- unflushed2, loaded <- loaded2, wrote <- wrote2

\* The assumptions of session tracking, which the instances do not bring along.
ASSUME WorldAssumption ==
    /\ R1!MessagesAssumption
    /\ R1!EnvelopesAssumption
    /\ R1!IdsAssumption
    /\ R1!RankAssumption
    /\ R1!TicksAssumption
    /\ R1!NullAssumption

view1 == <<server1, sessions1, events1, req1, unflushed1, loaded1, wrote1>>
view2 == <<server2, sessions2, events2, req2, unflushed2, loaded2, wrote2>>
vars == <<saved, view1, view2>>

\* Primary keys are random uuids: no two requests draw the same.
ShareCommitted == DOMAIN sessions1' \intersect DOMAIN sessions2' \subseteq DOMAIN saved'.sessions

First ==
    /\ R1!Step
    /\ UNCHANGED view2
    /\ ShareCommitted

(* The two are alike: while none is in progress, the next one to begin is  *)
(* called the first.                                                       *)
Second ==
    /\ req1 # R1!NoRequest \/ req2 # R2!NoRequest
    /\ R2!Step
    /\ UNCHANGED view1
    /\ ShareCommitted

Next == First \/ Second

Init ==
    /\ saved = [server |-> R1!NoServer, sessions |-> R1!NoRows, events |-> {}]
    /\ R1!ViewInit
    /\ R2!ViewInit

Spec == Init /\ [][Next]_vars

-----------------------------------------------------------------------------
(* What overlapping requests must not break.                               *)

(* One logon makes one row, though two requests that see neither's row may *)
(* both insert one: the index on fingerprints is all that keeps a batch    *)
(* that overlaps its own repetition from making two.  A snapshot that says *)
(* when a session began is held by no index (timed_snapshot.cfg).          *)
OneRowPerLogon ==
    \A i, j \in DOMAIN saved.sessions :
        LET s == saved.sessions[i]
            t == saved.sessions[j]
        IN  s.logon_at # NULL /\ s.logon_at = t.logon_at /\ R1!SameIdentity(s, t) => i = j

(* A batch is recorded whole or not at all, whichever request wins and     *)
(* whatever fails: a batch recorded in part would be answered as           *)
(* duplicates when it is posted again, its sessions never updated.         *)
BatchesWhole ==
    \A m \in {R1!Normalize(n) : n \in Messages} :
        LET recorded == {e \in m.items :
                            \E row \in saved.events :
                                row.event_fingerprint = R1!Fingerprint(m, e)}
        IN  m.kind = "events" => recorded \in {{}, m.items}

(* The session of a recorded LOGON has its row: no commit of another       *)
(* request, begun before the row was there, takes it away.                 *)
LogonsHaveRows ==
    \A logon \in saved.events :
        logon.event.type = "LOGON" =>
            \E i \in DOMAIN saved.sessions :
                R1!Concerns(logon, logon.event, saved.sessions[i])

(* A row that ended once says so for ever, with a time and a reason, even  *)
(* when an overlapping request that still saw it open writes it later.     *)
EndsRemembered ==
    [][\A i \in DOMAIN saved.sessions :
          saved.sessions[i].end_reason # NULL =>
              /\ i \in DOMAIN saved'.sessions
              /\ saved'.sessions[i].end_reason # NULL
              /\ saved'.sessions[i].logoff_at # NULL]_saved

(* docs/system-architecture.md, "Session state machine": no arrow leaves   *)
(* CLOSED.  A closed row stays closed.                                     *)
ClosedStaysClosed ==
    [][\A i \in DOMAIN saved.sessions :
          saved.sessions[i].state = "CLOSED" =>
              i \in DOMAIN saved'.sessions /\ saved'.sessions[i].state = "CLOSED"]_saved

(* docs/system-architecture.md, "End reasons": "REBOOT - a different boot  *)
(* instance invalidated sessions from the previous boot."  What is open    *)
(* is of the boot the server row names.                                    *)
OpenInCurrentBoot == R1!OpenInCurrentBoot
=============================================================================
