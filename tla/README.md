# RDP Session API: models, checks and proofs

TLA+ models of the parts of this repository where order, repetition and
failure matter: how the API turns what the Agents of monitored servers post
into session rows, and how the correlation worker turns session events into
frozen evidence. TLC checks the models on small worlds; TLAPS proves most of
the safety properties for all of them.

## 1. The system

```
  Agent --- POST /agent/events, /agent/snapshot ---> API ------> database
  (spools,  (contract 1, or /api/v2: contract 2)     |  one transaction    ^
   resends)                                          |  per request        |
  dashboard <--- servers, sessions, alerts, metrics -+                     |
                                                                           |
  network resolver <--- GET resolve-network --- correlation worker --------+
                                                one transaction per cycle
```

| component | source (`app/`) | state it keeps | operations | hard part |
|---|---|---|---|---|
| session tracking | `services/session_state.py`, `event_ingestion.py`, `reconciliation.py`, `api/agent.py` | `servers.last_boot_id`, `last_boot_at`; `sessions`; `session_events` | boot change, event ingestion, snapshot reconciliation | resent, regrouped, late and reordered messages; reboots; two sources for one row; failure in the middle of a request |
| normalisation | `services/normalization.py`, `timeutils.py`, `schemas.py` | none | both contracts to one form, boot identity, fingerprints | fractions of a second, the two spellings of a boot |
| correlation worker | `services/correlation.py`, `correlation_worker.py` | `correlation_jobs`, `correlation_evidence`, the `correlation_status` of events and sessions | discover, select, ask, settle, commit | retries, lost attempts, starvation, answers out of order, rows that change under a running cycle |
| resolver client | `NetworkResolverClient` in `services/correlation.py` | none | classify HTTP answers | which errors are retried, final, or end the cycle |
| database sessions | `database.py` | the open transaction | commit, rollback | `autoflush=False`: queries do not see the request's own pending changes |
| schema, migrations | `models.py`, `alembic/` | boot ids filled in by 0003 | upgrade | on SQLite the filled-in ids are spelled unlike those of contract 1 |
| agent access | `security.py`, `services/server_admin.py` | credentials | register, rotate, authenticate | the server row read before the request's own transaction |
| query APIs | `api/servers.py` (contract 1), `api/v2.py` (contract 2) | none | summary, active sessions, history in pages, timelines | rows that move between two pages; ids used again; SSH beside a contract that knows RDP only |
| alert feeds | `api/alerts.py`, `api/v2.py` | none | logons received within a window | polls beside requests that have flushed and not committed |
| metrics | `services/correlation.py`, `api/correlation.py` | none | counts of jobs and evidence | two counts of one thing |
| wiring, scripts, deployment | `main.py`, `config.py`, `scripts/`, `deploy/` | settings | | |

They interact through the database only. Posts of a server change its own
rows, and two of them may overlap: the handlers run in a pool of threads. The
worker reads events and sessions and writes the columns
`correlation_status`, which the API never writes, and two tables of its own.

What makes each correct:

- *session tracking*: one open row per session of a user in a boot; nothing of
  an earlier boot stays open; closed rows are final and say when and why they
  ended; an event counts once; what a row claims is backed by events; a snapshot
  leaves exactly what it showed; late and repeated messages do no harm.
- *normalisation*: one boot has one identity.
- *correlation worker*: evidence is never rewritten; job, event, evidence and
  session agree; a session shows its latest evidence; every job comes to an
  end, within its number of attempts and not before it is due.
- *resolver client*: a malformed answer fails its own job and no other.
- *overlapping requests*: a batch is recorded once and whole; no commit takes away
  what another one wrote.
- *reads*: a timeline holds the ends of its session; the sessions of contract 1 do not
  show SSH; a
  walk over the pages of the history misses nothing that was there all along; a
  polled alert feed misses no logon and repeats none under another id.

`PROJECT.json` lists the hazards line by line, with the properties for each.

## 2. Modules

| module | what it is |
|---|---|
| `SessionTracking` | requests of one server, event by event and observed session by observed session, with failure and resending |
| `SessionLifecycle` | what it promises of the committed rows, a request at a time: an abstract specification |
| `MCSessionTracking` | small worlds of messages for `SessionTracking` |
| `SessionTrackingProofs` | types, consistency and finality of rows; what one event may do to a row: ends backed by a LOGOFF, origins, times, states, protocols; one open row per identity, boots, counts, sessions one after the other, replays and snapshots; `SessionTracking` implements `SessionLifecycle` |
| `RequestTransaction` | a request of `SessionTracking` as one transaction among others |
| `RequestTransactionProofs` | what such a request keeps of its view and of the tables, and what it relies on others for |
| `ConcurrentRequests`, `MCConcurrentRequests` | two of them at once, and small worlds for them |
| `ConcurrentRequestsProofs` | what two of them keep together: ends, the rows of logons, one row for a logon, whole batches |
| `SessionQueries`, `MCSessionQueries` | what the query APIs answer about the rows of `SessionTracking` |
| `SessionQueriesProofs` | timelines hold their ends; the sessions of contract 1 do not show SSH |
| `HistoryPaging`, `MCHistoryPaging` | the history read page by page while rows change |
| `HistoryPagingProofs` | a walk over the pages is complete |
| `AlertFeed`, `MCAlertFeed`, `AlertFeedProofs` | logon alerts by polling a window; no logon is missed or repeated |
| `Correlation`, `MCCorrelation` | the worker's cycle beside the API's commits, and small worlds for it |
| `CorrelationProofs` | types, agreement of the tables, frozen evidence, malformed answers; `Correlation` implements `JobLifecycle`; the metrics agree |
| `JobLifecycle` | what the worker promises about a job, abstractly |
| `ResolverClient` | what one answer of the resolver amounts to: operators that `Correlation` extends |

`RequestTransaction` and `SessionQueries` extend `SessionTracking`, `Correlation`
extends `ResolverClient`;
`ConcurrentRequests` is two instances of `RequestTransaction` over one set of
committed tables. `SessionTracking` instantiates `SessionLifecycle` and
`Correlation` instantiates `JobLifecycle` under refinement mappings.

### SessionTracking

`server`, `sessions` and `events` are the three tables as the open transaction
sees them, `saved` is their committed copy, `req` the request in progress and
`unflushed` the rows whose new `boot_id` the database has not received. `Begin`
is `close_previous_boot_sessions_common`, with the cases of its condition as
`KeepBoot` (first boot, same boot, or same boot time in another spelling, when
open rows are `Adopted`) and `ChangeBoot`. `IngestEvent` is one round of the loop
of `ingest_normalized_events`: `SkipDuplicate`, or `Accept` with one of the
branches of `apply_normalized_event` (`LogonNew`, `LogonDelayed`, `LogonOpen`,
`Unattached`, `Disconnect`, `Reconnect`, `Logoff`). `Observe` is one round of
the loop of `reconcile_normalized_snapshot`. `FinishEvents` and `FinishSnapshot`
commit, the latter after closing what is `Missing`. `Fail` is an exception, a
lost connection or a stop of the API before the commit.

The Agent resends what was not acknowledged and its spool is emptied in any
order, so `Begin` may take any message at any time. Messages are what the Agent
could have observed: `MCSessionTracking` writes down true histories and cuts
them into batches and snapshots.

Abstractions:

- one server, and its requests one at a time (`ConcurrentRequests` has two);
- a hash is the value it is taken of; the fingerprint of contract 1 keeps the
  Windows record id as the event id and the Windows event number as the type;
- an account is an opaque name with `PrincipalOf`, its casefolded name and domain;
- the order of `uuid4` primary keys is arbitrary, so an insert may take any unused
  key; `created_at` is a clock that `ClockAdvance` lets stand still between two
  inserts, as it does for a database that keeps whole seconds;
- boot times carry a fraction (`TicksPerSecond`), which `NormalizeBootTime` cuts;
- host names, agent versions, legacy integer ids, `duration_minutes`,
  `last_seen_at` are left out; nothing of the modelled state reads them.

`SessionLifecycle` is the state machine of `docs/system-architecture.md`,
section 9, with whole requests as its steps: a batch opens sessions and ends some
by LOGOFF, a snapshot opens sessions and ends some by RECONCILIATION, either may
first end everything by REBOOT, and what has ended stays as it is. `Shown` maps a
row to whose it is, its state and why it ended; `FollowsLifecycle` states the
refinement.

### RequestTransaction and ConcurrentRequests

`authenticate_agent` commits before the handler's own transaction begins and, with
`expire_on_commit=False`, its server row is used as it was read then:
`Authenticate`. `ReadTables` is the first query of the handler, from which on it
sees the tables of that moment and its own writes: the REPEATABLE READ InnoDB has by
default (without `innodb_snapshot_isolation`, under which the database would refuse
some of these commits). `Work` is the handler, taken from `SessionTracking` as it
is. `CommitEvents` and `CommitSnapshot` write the columns the request changed over
the rows as they are by then, `Changed` and `WriteRows` being what the ORM's UPDATE
by primary key does; `Conflict` is the unique index on fingerprints, `Rollback`
everything else that ends a request. Writes happen at the commit: every request
updates its server's row in its first flush, and that lock puts the writes of two
requests one after the other.

### SessionQueries and HistoryPaging

`V1Sessions` is what `GET /api/v1/servers/{server_id}/...` answers of sessions and
`Timeline` what `session_timeline` of contract 2 selects, both as operators over the
committed rows. The summary also holds the server's own item (`_server_item`: name,
agent version, when it was last heard of and started), which every accepted post
changes, one for SSH too; it is left out, and no property speaks of it. `platform` is
the column `servers.platform`, which decides whether
contract 1 knows the server at all. Which page a row is on is the subject of
`HistoryPaging`: `Matches` is `_history_filters`, `Place` where the ORDER BY puts a
row, `Page` the places OFFSET and LIMIT let through, `StartWalk` and `FetchPage` a reader that asks for page after page until it
has reached the `total` of the last answer, and `Opens`, `Moves` and `LearnsLogon`
the changes requests make to a row, one commit at a time. A request writes rows it
read open; with `OneAtATime` false, a row that another request closed meanwhile may so
be put back, as `concurrent_close` shows. What the reader has seen
is a set: only the page a row is on decides whether it is seen. There a session is its
state and its logon time, the two columns of the filter and the order that change;
filters on the server, the user or the evidence are left out.

### AlertFeed

`Occur` is a logon, `Receive` its event stamped `received_at` and flushed, `Commit`
and `Rollback` the end of that request, `Poll` one GET of the feed: the events
committed by now whose `received_at` is within `Lookback`. The Agent posts a logon
until it is known. `Tick` keeps polls within `Interval` and requests within
`LongestRequest`; `Stored` is what the database keeps of a time, cut or rounded to
its unit. Both feeds, of contract 1 and 2, are this window.

### Correlation

`events`, `sessions`, `jobs` and `evidence` are the committed columns the
worker uses; `cycle` is its transaction: its view of the tables and what it has
yet to do. `EventArrives`, `SessionOpens`, `LogonIsKnown` and `SessionCloses` are
the API's commits, in any order, before, during and after a cycle. `Discover` is
`discover_correlation_jobs`, `Select` the query of `process_correlation_jobs`, and
then one action per outcome of a job: `SessionMissing`, `Restore` (evidence is
there), and for an answer of the resolver `Reply`, which is `Answer`, `Unavailable` or
`ProtocolError`; every other exception is `Abort`, which ends the cycle. `Commit` writes
the columns the cycle changed over the rows as they are by then, as the ORM's UPDATE
does. `Crash` loses the cycle; `Resume` is the loop of `correlation_worker.main`, or
systemd.

Abstractions: events are never deleted, so a job always has its event; one worker,
as deployed; the cycle reads the tables at one moment,
its start, where READ COMMITTED would let it see rows committed a little later;
time stands still during a cycle (`Tick` counts the remaining wait of jobs down
between cycles), which is the time the next attempt is computed from; error
codes and the payload of evidence are left out. `Metrics` counts what
`correlation_metrics` counts, ages and latencies excepted. `Requeue` is what
`tests/test_phase6_correlation.py` does to a job, `Purge` an operator's deletion of
a session on SQLite, which does not cascade: both between cycles.

`JobLifecycle` is the life cycle of `docs/phase6-async-correlation.md` as a
machine of its own: an attempt only when due, at most `MaxAttempts`, results
final. `Lifecycles` in `Correlation` instantiates it over the committed jobs and
`FollowsLifecycle` states that `Correlation` implements it.

### ResolverClient

`HttpAnswers` are the answers HTTP and JSON allow, `Outcome` the exception an answer
raises, or `NULL` if it becomes evidence: `Resolve` is `NetworkResolverClient.resolve`,
`Extract` is `_evidence_from_payload`, with its fields in the order they are read,
`Columns` the row it makes, and `Fits` what the table accepts: texts of the length of
their columns and, for `evidence_snapshot`, a payload MySQL takes for JSON. (The
parser knows `NaN` and `Infinity`, MySQL does not. SQLite takes any payload: there
`storable` holds of all.) A text is known by whether it is there and fits its
column, a confidence by its kind, since what is stored of it is between 0 and 1.

## 3. What is checked

| run | world and bounds | shows |
|---|---|---|
| `tracking_two_boots` | contract 2: 5 messages of an RDP session, an SSH session under the same id and a second boot, 4 rows, every order and repetition, failures; 630 k states | `TypeOK` `RowsConsistent` `OneOpenPerIdentity` `OpenInCurrentBoot` `DisconnectsCounted` `ClosedIsFinal` `ReplayInBootIsSafe` `SnapshotSettles` `OriginFrozen` `FollowsLifecycle` `ProtocolsApart` `SshUnseenInBoot` |
| `tracking_one_boot` | contract 1: 7 batches of one boot whose time jitters by half a second, three uses of one session id by two users, a DISCONNECT and a RECONNECT in batches of their own, 4 rows; 116 k | `LogoffIsBacked` `LogonsAreDisjoint` `NoFalseReboot` `LaterTransitionWins` `TimesAdvance` `TimelineHoldsItsEnds` |
| `tracking_migrated` | contract 1, batches and snapshots over a reboot, from a SQLite database as migration 0003 leaves it, 4 rows; 62 k | `OpenInCurrentBoot` `ReplayInBootIsSafe` |
| `concurrent_requests` | two requests at once, each any of two batches and a snapshot of one session, any number of times, 2 rows; 157 k | `OneRowPerLogon` `BatchesWhole` `LogonsHaveRows` `EndsRemembered` |
| `history_pages` | 4 sessions, 3 logon times or none, pages of one, sessions of every state between two dates, overlapping requests; 1.9 M | `WalkComplete` |
| `alert_feed` | 2 logons, posted twice each, a window of 3, polls and requests of 1, stored times of unit 2, 8 ticks; 1.1 M | `TypeOK` `NoneMissed` `OneAlertPerLogon` |
| `correlation_tables` | 3 events of one session, two of one second, batches of 2, requeueing, ten answers: two results, no answer, too long a text in each column, bodies and codes nobody expects; 556 k | `TypeOK` `SessionShowsLatest` `RecordsAgree` `MetricsAgree` `EvidenceFrozen` `MalformedAnswersStayLocal` |
| `correlation_progress` | 4 events, two of them without a session, batches of 2, 4 attempts with delays 1, 2, 3 (capped), crashes, configuration errors, deletions; 133 k | `RecordsAgree` `FollowsLifecycle` `QueueDrains` `EventsDiscovered` |

Why these bounds are enough to be interesting. In the tracking runs every message
may be posted any number of times, so a replay of any message after any other
happens; the rows are one more than the sessions of the history, so a duplicate has
a key to take; two rows, two users and two spellings of one user are what the
lookups compare; ids "9" and "10" sort the wrong way round as strings. Two
overlapping requests are enough for every pair of a read and a write to cross, and
each may be a repetition of the other. Pages of one put a boundary between any
two rows. In `alert_feed` the window is exactly what `WindowAssumption` asks for: one
tick less and a logon is missed. Four attempts reach the first, a middle and the
last retry and the cap of the delay; three events of one session are answered out
of order over two cycles with `BatchSize` 2.

Some properties are read together with their world; section 4 says what of it each
needs. `LogonsAreDisjoint` holds for events alone, of one boot, the clock moving
between inserts; `OneRowPerLogon` because the snapshot does not
say when the session began.
`EventsDiscovered` holds as long as fewer events without a session than fit a batch
stay unmarked: here two exist, and one of them is of a type discovery never takes.
`WalkComplete` holds for filters of every state that bound the logon time, and so keep
out rows whose logon time is unknown. `SnapshotSettles` says that a snapshot leaves what
it showed, not that what it showed was still so. `SshUnseenInBoot` says
nothing of a post that changes the boot or the platform of the server, as a post of
another contract does. `concurrent_requests` stays in one boot. What happens beyond these lines is in the
next tables.

Deadlock is checked in every run: the API always takes another post, the worker always starts another
cycle, readers always read again. In `alert_feed` the clock stops at `Horizon`, polls
do not.

Each model keeps, next to a definition, mutants of it: the bug a property is
there to catch. No `Next` uses them; `PROJECT.json` says which property each breaks.

### Where code and documents differ

Four disagreements are runs of their own, which end in a counterexample:

| run | what happens |
|---|---|
| `replay_after_reboot` | A batch of the boot before, resent after the first post of the new boot, holds only duplicates; still `close_previous_boot_sessions_common` runs first, closes what is open now as `REBOOT` at the older boot's time and makes the older boot current. The documents say replaying is safe. Within one boot it is: `ReplayInBootIsSafe`. |
| `concurrent_close` | A snapshot, DISCONNECT or RECONNECT that read a row open writes its `state` by primary key after another request closed it: the row is open again, with a logoff time and an end reason. Those two survive: `EndsRemembered`. |
| `late_logon` | A LOGON delivered after the snapshot that shows its session disconnected sets it `ACTIVE`: the branch compares times for the connection columns, not for `state`. The documents say the reducer ignores stale transitions. A DISCONNECT and a RECONNECT it does compare: `LaterTransitionWins`. |
| `unbounded_retry` | Attempts are counted in the cycle's transaction; a 401, 403 or 404 for a later job rolls them back, so a job the resolver is unavailable for is retried without backoff and without end. |

Others are kept as configurations to look at by hand, each with the one property
it refutes (`tlc -config <name>.cfg <module>`):

| configuration | module | what happens |
|---|---|---|
| `concurrent_reboot` | `MCConcurrentRequests` | A batch authenticated before the first post of the next boot still has the old boot in hand and opens a session of it beside those of the new one. |
| `late_logoff` | `MCSessionTracking` | A LOGOFF is compared with `logon_at` only: delivered after the next LOGON of the id, which the open row absorbed, it ends the row before it was last connected, and the second session has no row. |
| `timed_snapshot` | `MCConcurrentRequests` | A LOGON beside a snapshot that says when that session began: neither request sees the other's row, no index is on the session and its logon, and both rows stay. |
| `delayed_logon` | `MCSessionTracking` | The row a LOGON is compared with is the newest by `created_at`, then by random id. On a database of whole seconds the order of two rows of one second is chance, and a second row for a closed session may be created. |
| `stale_snapshot` | `MCSessionTracking` | A snapshot taken before a logon and applied after it ends the session that had just begun, at a time before its logon. |
| `timeline_of_reused_id` | `MCSessionQueries` | The timeline of a session whose logon time is not known shows the events of the session that used its id before. |
| `ssh_beside_rdp` | `MCSessionQueries` | The two contracts spell one boot differently: the first SSH post of contract 2 counts as a reboot and closes the RDP sessions of contract 1. |
| `history_learned_logon` | `MCHistoryPaging` | Without a filter, a session whose logon time becomes known between two pages moves from the end of the order to a page already read. |
| `history_reopened` | `MCHistoryPaging` | The closed sessions, as contract 1 reads them, while requests overlap: one of them is put back to an open state, those after it move forward, and one is never seen. |
| `orphans_block_discovery` | `MCCorrelation` | Events without a session keep no status and stand first in each scan of `batch_size` events; as many of them as fit a batch stop discovery for good. |
| `evidence_before_logoff` | `MCCorrelation` | An event is bound to the row that is still open; the LOGOFF that ended that session earlier arrives later, and the evidence stays where it is. |
| `device_of_no_match` | `MCCorrelation` | An AMBIGUOUS answer that names a device: the evidence names it too. |
| `unhandled_answer` | `MCCorrelation` | A confidence no float can hold raises `OverflowError`, a body too deep `RecursionError`, a payload that is no JSON to the database an error of the insert: nobody catches these, and the cycle of every job is rolled back. |

`history_closed` (`MCHistoryPaging`) holds: the closed sessions, with the requests of a
server one at a time.

### Fairness

Safety is checked without any. `correlation_progress`, and the two
counterexamples to progress, use `FairSpec`: weak fairness of `Worker` (`Discover`,
`Select`, `Process`, `Commit`, `Resume`), which is `while not _stop` around a cycle,
with every request to the resolver bounded by its timeout; and strong fairness of
`Tick`, since the worker sleeps at least five seconds between two cycles, so time
passes whenever it is idle again and again. The API, operators, crashes and
configuration errors owe nothing. `QueueDrains` and `EventsDiscovered` carry
`EventuallyHealthy` as a premise: a worker that fails in every cycle commits
nothing.

## 4. What is proved

For every set of messages, accounts, ids and keys, events, sessions and answers, any
number of rows, and any order, repetition and failure:

| theorem | module | states |
|---|---|---|
| `TypeCorrect` | `SessionTrackingProofs` | `Spec => []TypeOK` |
| `RowsAlwaysConsistent` | `SessionTrackingProofs` | `Spec => []RowsConsistent` |
| `ClosedStaysClosed` | `SessionTrackingProofs` | `Spec => ClosedIsFinal` |
| `LogoffAlwaysBacked` | `SessionTrackingProofs` | `Spec => []LogoffIsBacked` |
| `OriginStaysFrozen` | `SessionTrackingProofs` | `Spec => OriginFrozen` |
| `TimesOnlyAdvance` | `SessionTrackingProofs` | `Spec => TimesAdvance` |
| `LaterTransitionsWin` | `SessionTrackingProofs` | `Spec => LaterTransitionWins` |
| `ProtocolsStayApart` | `SessionTrackingProofs` | `Spec => ProtocolsApart` |
| `OneOpenAlways` | `SessionTrackingProofs` | `OneContract` implies `Spec => []OneOpenPerIdentity` |
| `OpenRowsOfThisBoot` | `SessionTrackingProofs` | `OneContract` implies `Spec => []OpenInCurrentBoot` |
| `DisconnectsAlwaysCounted` | `SessionTrackingProofs` | `OneContract` implies `Spec => []DisconnectsCounted` |
| `NeverFalseReboot` | `SessionTrackingProofs` | `FirstContract` implies `Spec => []NoFalseReboot` |
| `LogonsStayDisjoint` | `SessionTrackingProofs` | `EventsOnly`, `OneBootId` and `StampedApart` imply `Spec => []LogonsAreDisjoint` |
| `ReplayInBootStaysSafe` | `SessionTrackingProofs` | `Spec => ReplayInBootIsSafe` |
| `SnapshotsSettle` | `SessionTrackingProofs` | `OneContract`, `PlatformOfProtocol` and `SessionsShownOnce` imply `Spec => SnapshotSettles` |
| `TrackingFollowsLifecycle` | `SessionTrackingProofs` | `OneContract` implies `Spec => FollowsLifecycle` |
| `EndsStayRemembered` | `ConcurrentRequestsProofs` | `Spec => EndsRemembered` |
| `RecordedLogonsHaveRows` | `ConcurrentRequestsProofs` | `OneContract` implies `Spec => []LogonsHaveRows` |
| `BatchesRecordedWhole` | `ConcurrentRequestsProofs` | `BatchesApart` implies `Spec => []BatchesWhole` |
| `OneRowForOneLogon` | `ConcurrentRequestsProofs` | `OneContract`, `LogonsOnce` and `SnapshotsUntimed` imply `Spec => []OneRowPerLogon` |
| `TimelinesHoldTheirEnds` | `SessionQueriesProofs` | `QueriesSpec => []TimelineHoldsItsEnds` |
| `SshStaysUnseen` | `SessionQueriesProofs` | `QueriesSpec => SshUnseenInBoot` |
| `WalksComplete` | `HistoryPagingProofs` | `SettledFilters` implies `Spec => []WalkComplete` |
| `FeedTypeCorrect` | `AlertFeedProofs` | `Spec => []TypeOK` |
| `NoLogonMissed` | `AlertFeedProofs` | `Spec => []NoneMissed` |
| `NoLogonAlertsTwice` | `AlertFeedProofs` | `Spec => []OneAlertPerLogon` |
| `TypeCorrect` | `CorrelationProofs` | `Spec => []TypeOK` |
| `ShowsLatestAlways` | `CorrelationProofs` | `Spec => []SessionShowsLatest` |
| `RecordsAlwaysAgree` | `CorrelationProofs` | `Spec => []RecordsAgree` |
| `EvidenceIsFrozen` | `CorrelationProofs` | `Spec => EvidenceFrozen` |
| `MalformedStaysLocal` | `CorrelationProofs` | `Spec => MalformedAnswersStayLocal` |
| `JobsFollowLifecycle` | `CorrelationProofs` | no requeueing implies `Spec => FollowsLifecycle` |
| `MetricsAlwaysAgree` | `CorrelationProofs` | not both requeueing and purging implies `Spec => []MetricsAgree` |

Those of `SessionTrackingProofs` are about requests one at a time: `ClosedStaysClosed` is a theorem there, and `concurrent_close` shows it fails for
two at once. What is left of it for two is `EndsStayRemembered`.

### Assumptions

Those the constants carry. In `SessionTracking`: messages are well formed, times are
natural numbers, a second has at least one tick, `NULL` is none of the values;
`WorldAssumption` of `ConcurrentRequests` repeats them for its two requests. In
`AlertFeed`: `WindowAssumption`, `Interval + LongestRequest + Resolution - 1 <=
Lookback`, which is what a reader must choose its window by, and it is tight. In
`Correlation`: primary keys and times are natural numbers, the events of a behaviour
are finitely many (the metrics count them), batch size, attempts and delays are
positive, and answers are of those HTTP and JSON allow.

Hypotheses that stand in the table, and why each is needed:

- `OneContract`: all Agents of the server speak one contract. With both on one
  server `OpenInCurrentBoot` fails, and the reason is in the code: contract 2 leaves
  `last_boot_at` as it is, so a later message of contract 1 takes the boot for the one
  it saw last and adopts rows by boot time. `OneOpenPerIdentity` and `SnapshotSettles`
  rest on it in their proofs. An adopted row is also given another boot than its
  earlier events, which no longer count for it (`DisconnectsCounted`) or have no row
  at all (`LogonsHaveRows`).
- `FirstContract`: all messages are of contract 1, whose boot is known by its time.
  `NoFalseReboot` itself supposes that these times fall in one second.
- `PlatformOfProtocol` and `SessionsShownOnce`: a protocol runs on one platform, and a
  snapshot shows a session of a user once. The lookup of a row goes by protocol alone
  and the closing of what is missing by protocol and platform; two observations of
  one session would fall on one row.
- `BatchesApart`: two batches with an event in common are made of the same events, as
  when the Agent posts one again. Of a batch that only overlaps another, a part is
  recorded as soon as the other is, and rightly so.
- `EventsOnly`, `OneBootId`, `StampedApart`: only events are posted, all of one boot, and
  no two rows have the same `created_at`. Each is needed, and TLC finds two sessions
  that overlap without it. A boot posted late, or a snapshot posted late, ends an open
  row at a time before its logon; a LOGON delivered later still is compared with that
  end and makes a row amid sessions that are over. Of two rows stamped alike, random
  ids decide which one a LOGON is compared with (`delayed_logon`).
- `LogonsOnce` and `SnapshotsUntimed`: Windows records a logon once, so two LOGONs alike
  in session and time have one fingerprint; and snapshots leave `logon_at` to the LOGON.
  With a snapshot that dates a session itself the property fails (`timed_snapshot`).
- `SettledFilters`: the filter of a walk is for all states within a bound on the logon
  time; or, if requests come one at a time (`OneAtATime`), for closed sessions, as that of
  contract 1 always is. Without a bound a row whose logon time becomes known moves forward
  past the reader (`history_learned_logon`); with a filter for some of the states a row may
  leave it and so pull others forward, and with overlapping requests even a closed one may
  (`history_reopened`). `LearnsLogon` itself supposes that a LOGON and a snapshot that tell
  a row its logon time at once tell it the same.
- No requeueing: a job queued again has evidence, and is settled by it without an
  attempt, which is no step of the documented life cycle. If its session is deleted
  as well, it fails with evidence there, which `MetricsAgree` does not allow.

### Session tracking

`TypeOK` is inductive as it is; its proof has one lemma per action. The other
proofs share `RowStep`: whatever a step does to the rows, a row stays what it was,
or is an open row that changed nothing of its identity and stays open, or is an open
row that was closed with a time and a reason; and new rows are open. `ItemStep`,
`BeginStep` and `FinishStep` show it for the three parts of a request. Where that is
too coarse, `EventReduces` says what one event does to one row (its times, its count,
its origin, its end), and `BeginLeaves`, `ObserveLeaves` and `FinishLeaves` what the
other steps leave alone.

- `RowsConsistent` speaks of the committed rows, which come from the open
  transaction: `ConsistentInv` says it of both.
- `ClosedIsFinal` compares two committed states, between which lies a whole
  request: `KeptInv` says that the open transaction has every committed closed
  row as it was, from `Begin` to the commit.
- `LogoffIsBacked`: the event that ends a row is accepted in the same step, so
  `BackedInv` holds it of the open transaction, too. It needs `ConsistentInv`: a closed
  row keeps its end, and an open one has none to account for.
- `OriginFrozen` and `TimesAdvance` again compare two committed states. `RequestInv`
  relates each committed row to what the request has made of it so far (`SoFar`:
  times not before, the origin the same unless a LOGON of this batch filled it);
  both relations are transitive, so each item extends them.
- `ProtocolsApart`: `ApartInv` says that a request that stays in its boot has left the
  rows of the other protocol as they were.
- `OneOpenPerIdentity` and `OpenInCurrentBoot` need each other: a new row is the
  only one of its identity because the lookup before it found none, and the
  lookup sees every row only if nothing is unflushed; nothing is unflushed if no
  boot is ever spelled in two ways, which holds because the boot of the server row
  is always that of its boot time (`BootNamed`, where rounding a rounded time
  changes nothing), or has no boot time at all under contract 2. `IdentityInv`
  joins these.
- `DisconnectsCounted`: a DISCONNECT that raises the count of a row is a new member
  of the finite set of events behind it. That no step takes a row away from its
  events, by naming its boot anew, is `IdentityInv`.
- `NoFalseReboot`: two boot times of one second have one normal form, so the boot in
  the server row never differs from that of a message (`OnlyBoot`), and a snapshot
  or an event gives no other reason than its own.
- `ReplayInBootIsSafe`: during the request every item is a duplicate of an event
  committed before, and `Begin` only adopts (`ReplayInv`); this needs no hypothesis
  about the contracts.
- `LaterTransitionWins`: a DISCONNECT or RECONNECT that is applied is later than both
  times of its row, so the row is in the state of the later one from then on (`EventWins`),
  whatever it was before. `SettledInv` carries that, or that nothing was changed, from the
  beginning of a batch (`BeginWins`) over its items to the commit. Only a LOGON of the
  session may spoil it, which is `late_logon`.
- `LogonsAreDisjoint`: that two sessions are apart does not say in which order a third
  comes. `Sequential` orders the rows of one session by `created_at` and says that each
  was over before the next began, that each has its logon before its logoff, and that
  one is the newest. A LOGON that is not delayed begins after the logoff of the newest
  row, therefore after that of all (`LogonComesLast`), and its row is the newest from then
  on; every other event leaves what orders the rows as it is (`Endures`).
- `SnapshotSettles` counts. `SettlingInv` says that the rows seen so far are as many as
  the sessions observed so far, that each session has a row seen in the state it was
  observed in, and each row seen concerns one of them. The lookup finds the row of
  an earlier session of the snapshot only if the two are one session, which
  `SessionsShownOnce` rules out and `OneOpenPerIdentity` makes decidable by identity.
  `PlatformInv` says that closing what is `Missing` closes all that was not seen.
- `TrackingFollowsLifecycle` maps a whole request to one step, so `ProgressInv` says
  how far the open transaction has come: from the committed rows, or from those
  rows ended by REBOOT, each session is as it was, still open, or ended by LOGOFF
  and this only by a batch; and a snapshot has seen every row it inserted, so it
  closes none of them. `ItemProgress` carries that over an item, `FinishLifecycle`
  turns it into the step. `OneOpenPerIdentity` and `OpenInCurrentBoot`, proved
  before, give the two conditions the abstract step has on the rows it leaves.

### ConcurrentRequests

Each request is shown to keep the invariant of its own view, whatever the other does
within what it relies on, and to do no more than that to the committed tables itself
(`RequestTransactionProofs`); two such requests then keep both invariants at once
(`ConcurrentRequestsProofs`). `P1` and `P2` are the two requests with what is proved of
one; that their steps are those of `R1` and `R2` is shown by expanding both.

What a request relies on: the tables only grow (`Grows`: no row goes, none loses its
end, no event goes), rows keep their identity (`RowsStay`), and new rows have keys that
are not in its view (`KeysApart`, from keys being drawn at random). What its view keeps:

- `ViewEnds`: an end the request wrote is an end, and one it has but did not write is in
  the tables; so a commit, which takes some columns from the view and the others from
  the tables (`Written`), loses none, and never writes a time without its reason;
- `ViewLogons`: every LOGON of the view has its row there, and a row of the view has the
  identity it has in the tables. That no boot is named anew needs the server row read
  at authentication, the one in hand and the committed one to be well named
  (`Named`), and what a commit makes of the three, column by column, to be so, too
  (`WrittenNames`);
- `ViewDates`: a row whose logon time the request wrote has its LOGON among the events it
  wrote, and `SavedDates` that a committed one has it among the committed events. Two
  rows of one logon would be two events of one fingerprint (`LogonsOnce`), which
  `Conflict` refuses at the commit (`NoneBegunTwice`);
- `ViewBatches`: an event of the view that is not in the tables is of the request's own
  batch, and what it has been through of its batch is recorded in the view. The commit
  comes when nothing is left to go through.

### SessionQueries and HistoryPaging

A timeline is chosen by identity and by the time between logon and logoff.
`LogoffIsBacked`, proved before, says that a LOGOFF that ended a row is such an event and
that the LOGON is not after it, so both ends are inside (`EndsShown`). `SshUnseenInBoot`
follows from `ApartInv`, which leaves the rows of the other protocol alone, and from new
rows being of the protocol that was posted (`NewOfProtocol`): what contract 1 is shown of sessions is
a function of the RDP rows (`ViewOfRdpRows`).

`WalkInv` is what the next page rests on: every expected row still matches, and was
seen or has a place beyond the offset. A page takes the places up to the next offset,
the total is the last place (`PlaceBounds`), and no write takes a place down
(`PlaceGrows`): with a settled filter a row that matches keeps matching, and those
before it stay before it (`MatchStays`).

### AlertFeed

`TypeOK`, four facts about times and events, and no more, are inductive: an event
no poll has shown was flushed at most `LongestRequest` before the latest poll; a
request in progress has not taken longer; the latest poll is at most `Interval` ago;
no two committed events are of one logon. An event that has left the window would
have to be older than all of that.

### Correlation

The committed tables agree because a commit writes what a cycle has made of its view,
over tables the API has changed since. So `IInv` says the same of the view as of the
tables, and how the two relate:

- `Consistent`, of either: jobs, events and evidence tell one story (`Agree`), every
  job is of a session that is there or was deleted (`Placed`), and a session shows its
  newest evidence (`ShowsLatest`);
- `Ingested`: what came after the cycle began shows no correlation, so that what the
  commit does not write is right as it is;
- `Keeps`: the view has all committed evidence as it is, which is `EvidenceFrozen`;
- `Ready`: what is in the batch is queued and due.

`RecordsAgree` is weaker than `Agree`: that a queued job without evidence has an
attempt left, for instance, is what `TypeOK` needs of `Unavailable`. `ShowsLatest` after
an answer rests on the order of evidence, by time and then by event, being total
(`LatestIsOne`): the new evidence is the newest or `UpdateIfLatest` leaves the row to one
that is.

`JobsFollowLifecycle` maps a cycle to one abstract step, its commit. `Progress` says
that from each committed job to the view of it there is at most one such step, and that
a job still in the batch is as the cycle found it, or made it: the second conjunct is
what carries the first over an attempt. Jobs with evidence are resolved (`Resolved`),
without which an attempt could be skipped. `MetricsAlwaysAgree` counts: the jobs with
evidence are the resolved ones and those queued again.

`MalformedStaysLocal` is about the functions alone (`AbortingAnswers`): what passes
`Resolve` and `Extract` has no text that is too long, so that only the payload itself can
make the insert fail, and what either raises, but for a rejection, a body too deep and a
confidence too large, is caught.

### Only model-checked

Every invariant and every action property of a passing run is stated by a theorem,
with the hypotheses above. TLC alone checks

- `QueueDrains` and `EventsDiscovered`: liveness, and TLAPS proves nothing under
  fairness;
- `OpenInCurrentBoot` and `ReplayInBootIsSafe` from a migrated database
  (`tracking_migrated`): the theorems are about `Spec`, whose server starts empty;
- that an action of these modules is ever enabled, which the runs show by taking it.

Nothing is recursive in the modules with proofs or those they use.

## 5. What is not modelled, and the plan

Not modelled:

- which secret an Agent is accepted by, and rotation: a credential is read once at
  the start of a request, by a hash that is compared and nothing else;
- two workers, and row locks: one worker is deployed, and locks change when a
  commit happens, which is already arbitrary, and whether it fails, which it may;
- the migration as a step: it runs while the API is stopped, and what it leaves is
  where `tracking_migrated` starts; downgrades;
- ages and latencies in the metrics; lists of servers and of evidence, plain selects;
- parsing and validation of addresses, ports and time zones; settings, health,
  scripts and deployment, which hold no state of their own.

In the order of importance:

1. Composition of `SessionTracking` and `Correlation` over one set of tables, for
   the events bound before a LOGOFF is known.
2. Rotation of a secret beside a request that was authenticated with it.
