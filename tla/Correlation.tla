----------------------------- MODULE Correlation -----------------------------
(***************************************************************************)
(* The correlation worker (app/services/correlation.py): it looks for      *)
(* events with a source address, queues one job for each, asks a network   *)
(* resolver which device had the address then, and freezes the answer as   *)
(* evidence.                                                               *)
(*                                                                         *)
(* A cycle is one database transaction of one worker process.  It reads    *)
(* the database as it was when the cycle began while the API goes on       *)
(* ingesting, writes columns no one else writes, and commits at the end or *)
(* not at all.  Job and evidence ids are hashes of the event id, so both   *)
(* tables are functions of it.                                             *)
(*                                                                         *)
(* ResolverClient says what an answer of the resolver amounts to.          *)
(*                                                                         *)
(* Left out: error codes, the payload of the evidence, ages.  The time     *)
(* of the next attempt is kept as the time left to it, and the creation    *)
(* time of evidence as its rank.                                           *)
(***************************************************************************)
EXTENDS ResolverClient, FiniteSets

CONSTANTS
    Events,         \* bound: primary keys of session_events rows
    EventOf,        \* what each event row says
    Sessions,       \* bound: primary keys of sessions rows, in order of creation
    SessionOf,      \* whom each session row is of, and when it began and ended
    Identities,     \* server, protocol, session id, boot and user, as one value
    BatchSize,      \* RDP_SESSION_CORRELATION_BATCH_SIZE
    MaxAttempts,    \* RDP_SESSION_CORRELATION_MAX_ATTEMPTS
    RetryBase,      \* RDP_SESSION_CORRELATION_RETRY_BASE_SECONDS
    RetryCap,       \* the hour _retry_delay_seconds never exceeds
    Answers,        \* bound: what the resolver may answer
    Mishaps         \* what may befall worker and tables: "crash", "requeue", "purge"

Maybe(S) == S \union {NULL}
Queued == {"PENDING", "RETRY"}
JobStatus == Terminal \union Queued \union {"FAILED"}
Correlatable == {"LOGON", "RECONNECT"}

EventRow ==
    [identity: Identities, occurred_at: Nat, has_source: BOOLEAN,
     type: {"LOGON", "DISCONNECT", "RECONNECT", "LOGOFF"}]
Lifecycle == [identity: Identities, logon_at: Nat, logoff_at: Maybe(Nat)]

ASSUME RowsAssumption ==
    /\ Events \subseteq Nat /\ IsFiniteSet(Events) /\ EventOf \in [Events -> EventRow]
    /\ Sessions \subseteq Nat /\ SessionOf \in [Sessions -> Lifecycle]
ASSUME SettingsAssumption ==
    {BatchSize, MaxAttempts, RetryBase, RetryCap} \subseteq Nat \ {0}
ASSUME WorldAssumption ==
    Answers \subseteq HttpAnswers /\ Mishaps \subseteq {"crash", "requeue", "purge"}
ASSUME NullAssumption == NULL \notin Nat \union JobStatus

VARIABLES
    events,    \* the correlation_status of each event row there is
    sessions,  \* logon_at, logoff_at and correlation_status of each session row
    jobs,      \* the correlation_jobs table, by event
    evidence,  \* the correlation_evidence table, by event
    deleted,   \* primary keys of deleted session rows
    cycle      \* the worker's transaction, or Idle, or Failed: its view of the
               \* tables, the jobs it has yet to process, and, for RetriesEnd,
               \* those it found the resolver unavailable for

vars == <<events, sessions, jobs, evidence, deleted, cycle>>

Idle == [phase |-> "idle"]
Failed == [phase |-> "failed"]
At(e) == EventOf[e].occurred_at

-----------------------------------------------------------------------------
(* The API commits what the Agents report (SessionTracking says how): an   *)
(* event, a session row that may not know its logon yet, its logon, its    *)
(* logoff, in no particular order.                                         *)

EventArrives(e) ==
    /\ e \notin DOMAIN events
    /\ events' = [f \in DOMAIN events \union {e} |-> IF f = e THEN NULL ELSE events[f]]
    /\ UNCHANGED <<sessions, jobs, evidence, deleted, cycle>>

SessionOpens(i) ==
    /\ i \notin DOMAIN sessions \union deleted
    /\ \E logon \in {NULL, SessionOf[i].logon_at} :
          sessions' = [j \in DOMAIN sessions \union {i} |->
              IF j = i THEN [logon_at |-> logon, logoff_at |-> NULL,
                             correlation_status |-> NULL]
                       ELSE sessions[j]]
    /\ UNCHANGED <<events, jobs, evidence, deleted, cycle>>

LogonIsKnown(i) ==
    /\ i \in DOMAIN sessions
    /\ sessions[i].logon_at = NULL
    /\ sessions' = [sessions EXCEPT ![i].logon_at = SessionOf[i].logon_at]
    /\ UNCHANGED <<events, jobs, evidence, deleted, cycle>>

SessionCloses(i) ==
    /\ i \in DOMAIN sessions
    /\ sessions[i].logoff_at # SessionOf[i].logoff_at
    /\ sessions' = [sessions EXCEPT ![i].logoff_at = SessionOf[i].logoff_at]
    /\ UNCHANGED <<events, jobs, evidence, deleted, cycle>>

Api ==
    \/ \E e \in Events : EventArrives(e)
    \/ \E i \in Sessions : SessionOpens(i) \/ LogonIsKnown(i) \/ SessionCloses(i)

-----------------------------------------------------------------------------
(* The two scans a cycle begins with (discover_correlation_jobs and the    *)
(* query of process_correlation_jobs).                                     *)

\* The first n rows of S by time; rows of one time come in any order.
Batches(S, n) ==
    {B \in SUBSET S :
        /\ Cardinality(B) = IF Cardinality(S) < n THEN Cardinality(S) ELSE n
        /\ \A e \in B, f \in S \ B : At(e) <= At(f)}

\* Mutant: events of every type.
UndiscoveredAnyType == {e \in DOMAIN events : EventOf[e].has_source /\ events[e] = NULL}

Undiscovered ==
    {e \in DOMAIN events : /\ EventOf[e].type \in Correlatable
                           /\ EventOf[e].has_source
                           /\ events[e] = NULL}

\* Event e lies within what is known of the life of its session i.
Within(e, i) ==
    /\ SessionOf[i].identity = EventOf[e].identity
    /\ sessions[i].logon_at # NULL => sessions[i].logon_at <= At(e)
    /\ sessions[i].logoff_at # NULL => At(e) <= sessions[i].logoff_at

\* Last logon first, a row with no logon last, then the newest row.
Ahead(i, j) ==
    LET logon(k) == IF sessions[k].logon_at = NULL THEN -1 ELSE sessions[k].logon_at
    IN  \/ logon(i) > logon(j)
        \/ logon(i) = logon(j) /\ i >= j

\* _session_for_event: one session, or none.
SessionFor(e) ==
    LET S == {i \in DOMAIN sessions : Within(e, i)}
    IN  {i \in S : \A j \in S : Ahead(i, j)}

NewJob(i) == [session |-> i, status |-> "PENDING", attempt_count |-> 0, wait |-> 0]

\* What the event of a job says of it; a queued or failed one is pending to it.
StatusOfExisting(job) == IF job.status \in Terminal THEN job.status ELSE "PENDING"

Discover ==
    /\ cycle = Idle
    /\ \E batch \in Batches(Undiscovered, BatchSize) :
          LET found == {e \in batch : SessionFor(e) # {}}
              new == found \ DOMAIN jobs
          IN  cycle' =
                [phase |-> "select",
                 events |-> [e \in DOMAIN events |->
                     CASE e \in new         -> "PENDING"
                       [] e \in found \ new -> StatusOfExisting(jobs[e])
                       [] OTHER             -> events[e]],
                 sessions |-> sessions,
                 jobs |-> [e \in DOMAIN jobs \union new |->
                     IF e \in new THEN NewJob(CHOOSE i \in SessionFor(e) : TRUE)
                                  ELSE jobs[e]],
                 evidence |-> evidence,
                 todo |-> {}, unavailable |-> {}]
    /\ UNCHANGED <<events, sessions, jobs, evidence, deleted>>

\* Mutant: the time of the next attempt is not looked at.
Queue == {e \in DOMAIN cycle.jobs : cycle.jobs[e].status \in Queued}

Due ==
    {e \in DOMAIN cycle.jobs : /\ cycle.jobs[e].status \in Queued
                               /\ cycle.jobs[e].wait = 0}

Select ==
    /\ cycle.phase = "select"
    /\ \E batch \in Batches(Due, BatchSize) :
          cycle' = [cycle EXCEPT !.phase = "process", !.todo = batch]
    /\ UNCHANGED <<events, sessions, jobs, evidence, deleted>>

-----------------------------------------------------------------------------
(* One job of the batch (process_correlation_jobs).                        *)

NextJob(e) ==
    /\ cycle.phase = "process"
    /\ e \in cycle.todo
    /\ \A f \in cycle.todo : At(e) <= At(f)
    /\ UNCHANGED <<events, sessions, jobs, evidence, deleted>>

SessionGone(e) == cycle.jobs[e].session \notin DOMAIN cycle.sessions

\* Mutant: the event is not told.
SettleJobOnly(e, status, shown, attempts, wait) ==
    [cycle EXCEPT !.todo = @ \ {e},
                  !.jobs[e].status = status,
                  !.jobs[e].attempt_count = attempts,
                  !.jobs[e].wait = wait]

\* The job gets a status and a wait, its event a status.
Settle(e, status, shown, attempts, wait) ==
    [cycle EXCEPT !.todo = @ \ {e},
                  !.jobs[e].status = status,
                  !.jobs[e].attempt_count = attempts,
                  !.jobs[e].wait = wait,
                  !.events[e] = shown]

\* Mutant: the failure is kept from the event.
SessionMissingUnshown(e) ==
    /\ NextJob(e)
    /\ SessionGone(e)
    /\ cycle' = Settle(e, "FAILED", "PENDING", cycle.jobs[e].attempt_count, 0)

SessionMissing(e) ==
    /\ NextJob(e)
    /\ SessionGone(e)
    /\ cycle' = Settle(e, "FAILED", "FAILED", cycle.jobs[e].attempt_count, 0)

\* Newest evidence first: by time of the event, of the evidence, by id.
Latest(ev, i) ==
    LET S == {e \in DOMAIN ev : ev[e].session = i}
        ahead(e, f) == \/ At(e) > At(f)
                       \/ /\ At(e) = At(f)
                          /\ \/ ev[e].created_at > ev[f].created_at
                             \/ ev[e].created_at = ev[f].created_at /\ e >= f
    IN  {e \in S : \A f \in S : ahead(e, f)}

\* Mutant: the last answer is taken for the latest.
StatusOfLast(ss, ev, i, e) ==
    [ss EXCEPT ![i].correlation_status = ev[e].status]

UpdateIfLatest(ss, ev, i, e) ==
    IF e \in Latest(ev, i)
    THEN [ss EXCEPT ![i].correlation_status = ev[e].status]
    ELSE ss

\* Evidence that is there already decides; the resolver is not asked.
Restore(e) ==
    /\ NextJob(e)
    /\ ~SessionGone(e)
    /\ e \in DOMAIN cycle.evidence
    /\ LET job == cycle.jobs[e]
           status == cycle.evidence[e].status
       IN  cycle' = [Settle(e, status, status, job.attempt_count, 0) EXCEPT
               !.sessions = UpdateIfLatest(@, cycle.evidence, job.session, e)]

\* Mutant: the evidence there is not looked for.
AskAgain(e) == NextJob(e) /\ ~SessionGone(e)

Ask(e) ==
    /\ NextJob(e)
    /\ ~SessionGone(e)
    /\ e \notin DOMAIN cycle.evidence

\* Evidence of one cycle has one creation time, after that of all earlier:
\* a time is known by how much evidence there was before it.
Stamp == Cardinality(DOMAIN evidence)

Answer(e, status) ==
    /\ Ask(e)
    /\ LET job == cycle.jobs[e]
           new == [session |-> job.session, status |-> status, created_at |-> Stamp]
           ev == [f \in DOMAIN cycle.evidence \union {e} |->
                     IF f = e THEN new ELSE cycle.evidence[f]]
       IN  cycle' = [Settle(e, status, status, job.attempt_count + 1, 0) EXCEPT
               !.evidence = ev,
               !.sessions = UpdateIfLatest(@, ev, job.session, e)]

\* The wait doubles with every attempt, from RetryBase up to the cap.
RetryDelay(attempts) ==
    LET delay == RetryBase * 2 ^ (attempts - 1)
    IN  IF delay \in 1..RetryCap THEN delay ELSE RetryCap

\* Mutant: the last attempt but one too many.
UnavailableOnceMore(e) ==
    /\ Ask(e)
    /\ LET attempts == cycle.jobs[e].attempt_count + 1
       IN  cycle' = IF attempts > MaxAttempts
                    THEN Settle(e, "FAILED", "FAILED", attempts, 0)
                    ELSE Settle(e, "RETRY", "PENDING", attempts, RetryDelay(attempts))

\* Mutant: attempts in vain are not counted.
UnavailableUncounted(e) ==
    /\ Ask(e)
    /\ cycle' = Settle(e, "RETRY", "PENDING", cycle.jobs[e].attempt_count, RetryBase)

\* No answer, or HTTP 408, 425, 429, 5xx: retry later, up to a number of times.
Unavailable(e) ==
    /\ Ask(e)
    /\ LET attempts == cycle.jobs[e].attempt_count + 1
           settled == IF attempts >= MaxAttempts
                      THEN Settle(e, "FAILED", "FAILED", attempts, 0)
                      ELSE Settle(e, "RETRY", "PENDING", attempts, RetryDelay(attempts))
       IN  cycle' = [settled EXCEPT !.unavailable = @ \union {e}]

\* An answer that breaks the resolver's contract.
ProtocolError(e) ==
    /\ Ask(e)
    /\ cycle' = Settle(e, "FAILED", "FAILED", cycle.jobs[e].attempt_count + 1, 0)

OutcomeOf == [a \in Answers |-> Outcome(a)]

\* What the handlers around resolve and _evidence_from_payload do.
Reply(e, a) ==
    \/ OutcomeOf[a] = NULL /\ Answer(e, a.payload.status)
    \/ OutcomeOf[a] = "ResolverUnavailable" /\ Unavailable(e)
    \/ OutcomeOf[a] = "ResolverProtocolError" /\ ProtocolError(e)

Process ==
    \E e \in Events :
        \/ SessionMissing(e)
        \/ Restore(e)
        \/ \E a \in Answers : Reply(e, a)

-----------------------------------------------------------------------------
(* The end of a cycle (run_correlation_cycle).                             *)

\* Columns the cycle changed are written over the rows as they are by now.
Commit ==
    /\ cycle.phase = "process"
    /\ cycle.todo = {}
    /\ jobs' = cycle.jobs
    /\ evidence' = cycle.evidence
    /\ events' = [e \in DOMAIN events |->
                     IF e \in DOMAIN cycle.events THEN cycle.events[e] ELSE events[e]]
    /\ sessions' = [i \in DOMAIN sessions |->
                       IF i \in DOMAIN cycle.sessions
                       THEN [sessions[i] EXCEPT
                                !.correlation_status = cycle.sessions[i].correlation_status]
                       ELSE sessions[i]]
    /\ cycle' = Idle
    /\ UNCHANGED deleted

Rollback == cycle' = Failed /\ UNCHANGED <<events, sessions, jobs, evidence, deleted>>

\* Any other exception over one job, of HTTP 401, 403 or 404 or of what nobody
\* catches, ends the whole cycle.
Abort(e, a) ==
    /\ Ask(e)
    /\ OutcomeOf[a] \notin {NULL, "ResolverUnavailable", "ResolverProtocolError"}
    /\ Rollback

CycleAborts == \E e \in Events, a \in Answers : Abort(e, a)

\* The worker is killed, or the database fails it.
Crash == "crash" \in Mishaps /\ cycle \notin {Idle, Failed} /\ Rollback

\* The loop of the worker goes on, or the service manager starts it again.
Resume ==
    /\ cycle = Failed
    /\ cycle' = Idle
    /\ UNCHANGED <<events, sessions, jobs, evidence, deleted>>

-----------------------------------------------------------------------------
(* Time and operators; both wait for the end of a cycle.                   *)

Tick ==
    /\ cycle = Idle
    /\ \E e \in DOMAIN jobs : jobs[e].wait > 0
    /\ jobs' = [e \in DOMAIN jobs |-> [jobs[e] EXCEPT !.wait = IF @ > 0 THEN @ - 1 ELSE 0]]
    /\ UNCHANGED <<events, sessions, evidence, deleted, cycle>>

\* A resolved job is queued again, as tests/test_phase6_correlation.py does.
Requeue(e) ==
    /\ "requeue" \in Mishaps
    /\ cycle = Idle
    /\ e \in DOMAIN jobs
    /\ jobs[e].status \in Terminal
    /\ jobs' = [jobs EXCEPT ![e].status = "PENDING"]
    /\ events' = [events EXCEPT ![e] = NULL]
    /\ UNCHANGED <<sessions, evidence, deleted, cycle>>

\* A session row is deleted, on a database that does not cascade.
Purge(i) ==
    /\ "purge" \in Mishaps
    /\ cycle = Idle
    /\ i \in DOMAIN sessions
    /\ sessions' = [j \in DOMAIN sessions \ {i} |-> sessions[j]]
    /\ deleted' = deleted \union {i}
    /\ UNCHANGED <<events, jobs, evidence, cycle>>

Operator == \/ \E e \in Events : Requeue(e)
            \/ \E i \in Sessions : Purge(i)

Worker == Discover \/ Select \/ Process \/ Commit \/ Resume

Next == Api \/ Worker \/ CycleAborts \/ Crash \/ Tick \/ Operator

Init ==
    /\ events = [e \in {} |-> NULL]
    /\ sessions = [i \in {} |-> NULL]
    /\ jobs = [e \in {} |-> NULL]
    /\ evidence = [e \in {} |-> NULL]
    /\ deleted = {}
    /\ cycle = Idle

Spec == Init /\ [][Next]_vars

(* The worker's loop never stops, and it sleeps between two cycles, so the *)
(* clock moves on while it is idle.  The API, the operators and the        *)
(* failures owe nothing.                                                   *)
FairSpec == Spec /\ WF_vars(Worker) /\ SF_vars(Tick)

-----------------------------------------------------------------------------
(* Properties of the committed tables.                                     *)

IsPartial(f, D, R) == DOMAIN f \subseteq D /\ f \in [DOMAIN f -> R]

SessionRow ==
    [logon_at: Maybe(Nat), logoff_at: Maybe(Nat), correlation_status: Maybe(Terminal)]
JobRow ==
    [session: Sessions, status: JobStatus, attempt_count: 0..MaxAttempts,
     wait: 0..RetryCap]
EvidenceRow == [session: Sessions, status: Terminal, created_at: Nat]

IsDatabase(d) ==
    /\ IsPartial(d.events, Events, Maybe(JobStatus))
    /\ IsPartial(d.sessions, Sessions, SessionRow)
    /\ IsPartial(d.jobs, Events, JobRow)
    /\ IsPartial(d.evidence, Events, EvidenceRow)

Tables == [events |-> events, sessions |-> sessions, jobs |-> jobs, evidence |-> evidence]
Running == cycle.phase \in {"select", "process"}

(* Every column holds a value of its domain, in the database and in the    *)
(* worker's view of it; no job counts more attempts than it is allowed.    *)
TypeOK ==
    /\ IsDatabase(Tables)
    /\ Running => IsDatabase(cycle) /\ cycle.todo \subseteq DOMAIN cycle.jobs
    /\ ~Running => cycle \in {Idle, Failed}

(* sessions.correlation_status is the status of the newest evidence of the *)
(* session, in whatever order its events are answered; with no evidence    *)
(* there is none.                                                          *)
SessionShowsLatest ==
    \A i \in DOMAIN sessions :
        LET S == {e \in DOMAIN evidence : evidence[e].session = i}
        IN  IF S = {} THEN sessions[i].correlation_status = NULL
            ELSE \A e \in Latest(evidence, i) :
                    sessions[i].correlation_status = evidence[e].status

(* docs/phase6-async-correlation.md, "Frozen evidence": evidence is never  *)
(* rewritten or deleted, not even when its job is queued again.            *)
EvidenceFrozen ==
    [][\A e \in DOMAIN evidence :
          e \in DOMAIN evidence' /\ evidence'[e] = evidence[e]]_vars

Requeued(e) == jobs[e].status \in Queued /\ e \in DOMAIN evidence

(* The three records of one event agree: no job, no status; a resolved job *)
(* has evidence of that result for that session, and a failed one has none *)
(* unless its session is gone; the event shows its job.                    *)
RecordsAgree ==
    \A e \in DOMAIN events :
        IF e \notin DOMAIN jobs
        THEN events[e] = NULL /\ e \notin DOMAIN evidence
        ELSE /\ jobs[e].status \in Terminal =>
                    e \in DOMAIN evidence /\ evidence[e].status = jobs[e].status
             /\ e \in DOMAIN evidence => evidence[e].session = jobs[e].session
             /\ jobs[e].status = "FAILED" /\ e \in DOMAIN evidence =>
                    jobs[e].session \in deleted
             /\ \/ events[e] = IF jobs[e].status \in Queued THEN "PENDING"
                                                            ELSE jobs[e].status
                \/ Requeued(e) /\ events[e] = NULL

\* correlation_metrics, the counts of GET /correlation/metrics.
Metrics ==
    LET jobs_in(S) == Cardinality({e \in DOMAIN jobs : jobs[e].status \in S})
    IN  [queue_depth |-> jobs_in(Queued),
         failed_jobs |-> jobs_in({"FAILED"}),
         matched |-> jobs_in({"MATCHED"}),
         terminal_jobs |-> jobs_in(Terminal),
         evidence_rows |-> Cardinality(DOMAIN evidence)]

(* What the metrics call terminal jobs, the base of the match rate, are    *)
(* the jobs the evidence is of: only jobs queued again make a difference,  *)
(* no failure leaves evidence and no result is without.                    *)
MetricsAgree ==
    Metrics.evidence_rows
        = Metrics.terminal_jobs + Cardinality({e \in DOMAIN jobs : Requeued(e)})

(* docs/phase6-async-correlation.md: an event goes only with a session     *)
(* that matches it, "event timestamp inside the session lifecycle".  No    *)
(* evidence is of a session that had ended before, or began after.         *)
EvidenceInLifecycle ==
    \A e \in DOMAIN evidence :
        evidence[e].session \in DOMAIN sessions => Within(e, evidence[e].session)

(* docs/phase6-async-correlation.md: "Other invalid resolver responses are *)
(* treated as permanent protocol failures for the affected job and become  *)
(* FAILED."  No answer takes the other jobs of the cycle with it but those *)
(* that reject the worker itself, and three no check of the worker is for: *)
(* too deep to parse, a confidence too large, or not JSON to the database. *)
MalformedAnswersStayLocal ==
    [][\A e \in Events, a \in Answers :
          Abort(e, a) =>
              \/ a.http \in {401, 403, 404}
              \/ a.json = "too deep"
              \/ /\ a.json = "object"
                 /\ a.payload.confidence = "huge" \/ ~a.payload.storable]_vars

(* The same sentence without exception: an answer with HTTP 200 settles    *)
(* its job.                                                                *)
AnswersSettleTheJob ==
    [][\A e \in Events, a \in Answers : Abort(e, a) => a.http # 200]_vars

(* docs/phase6-async-correlation.md: "source_device_id stores the          *)
(* Integration-Service Device.uuid when the resolver returns MATCHED".     *)
DeviceOnlyWhenMatched ==
    [][\A e \in Events, a \in Answers :
          OutcomeOf[a] = NULL /\ Reply(e, a)
              /\ Columns(a.payload).source_device_id # NULL =>
                  a.payload.status = "MATCHED"]_vars

-----------------------------------------------------------------------------
(* Progress.                                                               *)

InQueue(e) == e \in DOMAIN jobs /\ jobs[e].status \in Queued

EventuallyHealthy == <>[](cycle.phase # "failed")

(* Once cycles stop failing, every queued job gets a result, or runs out   *)
(* of attempts: waiting and later jobs never keep it from its turn.        *)
QueueDrains == EventuallyHealthy => \A e \in Events : InQueue(e) ~> ~InQueue(e)

HasSession(e) == e \in DOMAIN events /\ e \in Undiscovered /\ SessionFor(e) # {}

(* docs/phase6-async-correlation.md: "The worker discovers persisted       *)
(* session_events that have a usable source_ip and no correlation status." *)
EventsDiscovered == EventuallyHealthy => \A e \in Events : HasSession(e) ~> ~HasSession(e)

(* docs/phase6-async-correlation.md: "correlation_max_attempts prevents    *)
(* infinite retry."  No job finds the resolver unavailable for ever.       *)
RetriesEnd ==
    \A e \in Events : <>[](Running => e \notin cycle.unavailable)

-----------------------------------------------------------------------------
(* The committed jobs follow the life cycle, unless an operator interferes.*)

JobOf(e) ==
    IF e \in DOMAIN jobs
    THEN [status |-> jobs[e].status, attempts |-> jobs[e].attempt_count,
          wait |-> jobs[e].wait]
    ELSE [status |-> "NONE", attempts |-> 0, wait |-> 0]

Lifecycles == INSTANCE JobLifecycle
    WITH Ids <- Events, MaxWait <- RetryCap, job <- [e \in Events |-> JobOf(e)]

(* A job is never tried before it is due nor more than MaxAttempts times,  *)
(* one cycle tries it once, and its result is final.                       *)
FollowsLifecycle == Lifecycles!Spec
=============================================================================
