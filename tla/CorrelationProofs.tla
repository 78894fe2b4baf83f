-------------------------- MODULE CorrelationProofs --------------------------
(***************************************************************************)
(* Proofs about the correlation worker, for every set of events and        *)
(* sessions, every setting and all mishaps.                                *)
(*                                                                         *)
(* A cycle works on its own view of the tables and commits it over rows    *)
(* the API has changed meanwhile.  So the invariant says that the tables   *)
(* and the view are each consistent, and what lies between the two: the    *)
(* view has what evidence there is, and a row that it does not know is one *)
(* no correlation has touched.                                             *)
(*                                                                         *)
(* From that follow the refinement of JobLifecycle and the metrics, in the *)
(* second half.                                                            *)
(***************************************************************************)
EXTENDS Correlation, FiniteSetTheorems, TLAPS

\* What an event says of its job, once a cycle has processed it.
Told(status) == IF status \in Queued THEN "PENDING" ELSE status

\* RecordsAgree, of event rows es, jobs js and evidence ev, and attempts left.
Agree(es, js, ev, gone) ==
    /\ DOMAIN ev \subseteq DOMAIN js
    /\ DOMAIN js \subseteq DOMAIN es
    /\ \A e \in DOMAIN es \ DOMAIN js : es[e] = NULL
    /\ \A e \in DOMAIN js :
          /\ js[e].status \in Terminal => e \in DOMAIN ev /\ ev[e].status = js[e].status
          /\ js[e].status = "FAILED" /\ e \in DOMAIN ev => js[e].session \in gone
          /\ js[e].status \in Queued /\ e \notin DOMAIN ev =>
                js[e].attempt_count < MaxAttempts
          /\ e \in DOMAIN ev => ev[e].session = js[e].session
          /\ \/ es[e] = Told(js[e].status)
             \/ js[e].status \in Queued /\ e \in DOMAIN ev /\ es[e] = NULL

\* Every job is of a session there is or was.
Placed(js, ss, gone) == \A e \in DOMAIN js : js[e].session \in DOMAIN ss \union gone

\* SessionShowsLatest, of session rows ss and evidence ev.
ShowsLatest(ss, ev) ==
    \A i \in DOMAIN ss :
        /\ (\A e \in DOMAIN ev : ev[e].session # i) => ss[i].correlation_status = NULL
        /\ \A e \in Latest(ev, i) : ss[i].correlation_status = ev[e].status

Consistent(es, ss, js, ev, gone) ==
    Agree(es, js, ev, gone) /\ Placed(js, ss, gone) /\ ShowsLatest(ss, ev)

\* The fields of a running cycle, and no others.
IsCycle(c) ==
    c = [phase |-> c.phase, events |-> c.events, sessions |-> c.sessions,
         jobs |-> c.jobs, evidence |-> c.evidence, todo |-> c.todo,
         unavailable |-> c.unavailable]

\* The jobs of the batch are queued and due.
Ready ==
    /\ cycle.phase = "select" => cycle.todo = {}
    /\ \A e \in cycle.todo :
          cycle.jobs[e].status \in Queued /\ cycle.jobs[e].wait = 0

\* Rows that came after the cycle began show no correlation.
Ingested ==
    /\ DOMAIN cycle.events \subseteq DOMAIN events
    /\ \A e \in DOMAIN events \ DOMAIN cycle.events : events[e] = NULL
    /\ DOMAIN cycle.sessions \subseteq DOMAIN sessions
    /\ \A i \in DOMAIN sessions \ DOMAIN cycle.sessions :
          sessions[i].correlation_status = NULL

\* ev keeps all the evidence of old.
Keeps(old, ev) == \A e \in DOMAIN old : e \in DOMAIN ev /\ ev[e] = old[e]

CycleInv ==
    /\ IsCycle(cycle)
    /\ Ready
    /\ Ingested
    /\ Keeps(evidence, cycle.evidence)
    /\ Consistent(cycle.events, cycle.sessions, cycle.jobs, cycle.evidence, deleted)

IInv ==
    /\ TypeOK
    /\ DOMAIN sessions \cap deleted = {}
    /\ Consistent(events, sessions, jobs, evidence, deleted)
    /\ Running => CycleInv

-----------------------------------------------------------------------------
(* The order of evidence.                                                  *)

\* Two pieces of evidence, none behind the other, are one.
LEMMA LatestIsOne ==
    ASSUME NEW ev, IsPartial(ev, Events, EvidenceRow), NEW i,
           NEW e \in Latest(ev, i), NEW f \in Latest(ev, i)
    PROVE  e = f
<1>1. e \in Nat /\ f \in Nat /\ At(e) \in Nat /\ At(f) \in Nat
  BY RowsAssumption DEF Latest, IsPartial, At, EventRow
<1>2. ev[e].created_at \in Nat /\ ev[f].created_at \in Nat
  BY DEF Latest, IsPartial, EvidenceRow
<1> QED BY <1>1, <1>2 DEF Latest

\* One more piece of evidence is the latest, or the latest is what it was.
LEMMA LatestWithMore ==
    ASSUME NEW ev, NEW more, NEW e, Keeps(ev, more), DOMAIN more = DOMAIN ev \union {e},
           NEW i, NEW f \in Latest(more, i), f # e
    PROVE  f \in Latest(ev, i)
BY DEF Latest, Keeps

\* The latest of no other session changes.
LEMMA LatestOfOthers ==
    ASSUME NEW ev, NEW more, NEW e, Keeps(ev, more), DOMAIN more = DOMAIN ev \union {e},
           NEW i, more[e].session # i, NEW f \in Latest(more, i)
    PROVE  f \in Latest(ev, i)
BY DEF Latest, Keeps

(* What UpdateIfLatest does keeps the status of a session that of its      *)
(* latest evidence, whether the evidence is new or was there already.      *)
LEMMA UpdateShowsLatest ==
    ASSUME NEW ss, IsPartial(ss, Sessions, SessionRow),
           NEW ev, NEW more, NEW e,
           Keeps(ev, more), DOMAIN more = DOMAIN ev \union {e},
           IsPartial(more, Events, EvidenceRow),
           ShowsLatest(ss, ev),
           more[e].session \in DOMAIN ss
    PROVE  ShowsLatest(UpdateIfLatest(ss, more, more[e].session, e), more)
<1> DEFINE k == more[e].session
           tt == UpdateIfLatest(ss, more, k, e)
<1>1. DOMAIN tt = DOMAIN ss
  BY DEF UpdateIfLatest
<1>2. \A i \in DOMAIN ss : i # k => tt[i] = ss[i]
  BY DEF UpdateIfLatest
<1>3. ASSUME e \in Latest(more, k) PROVE tt[k].correlation_status = more[e].status
  BY <1>3 DEF UpdateIfLatest, IsPartial, SessionRow
<1>4. ASSUME e \notin Latest(more, k) PROVE tt = ss
  BY <1>4 DEF UpdateIfLatest
<1> HIDE DEF tt
<1>5. ASSUME e \in Latest(more, k) PROVE ShowsLatest(tt, more)
  <2>1. tt[k].correlation_status = more[e].status
    BY <1>3, <1>5
  <2>2. ASSUME NEW i \in DOMAIN ss, i # k
        PROVE  /\ (\A f \in DOMAIN more : more[f].session # i) =>
                      tt[i].correlation_status = NULL
               /\ \A f \in Latest(more, i) : tt[i].correlation_status = more[f].status
    <3>1. tt[i] = ss[i]
      BY <1>2, <2>2
    <3>2. (\A f \in DOMAIN more : more[f].session # i) => \A f \in DOMAIN ev : ev[f].session # i
      BY DEF Keeps
    <3>3. \A f \in Latest(more, i) : f \in Latest(ev, i)
      BY <2>2, LatestOfOthers
    <3>4. \A f \in Latest(more, i) : f \in DOMAIN ev /\ more[f] = ev[f]
      BY <3>3 DEF Latest, Keeps
    <3> QED BY <3>1, <3>2, <3>3, <3>4 DEF ShowsLatest
  <2>3. \A f \in Latest(more, k) : f = e
    BY <1>5, LatestIsOne
  <2>4. e \in DOMAIN more
    OBVIOUS
  <2>5. \A f \in Latest(more, k) : tt[k].correlation_status = more[f].status
    BY <2>1, <2>3
  <2> QED BY <1>1, <2>2, <2>4, <2>5 DEF ShowsLatest
<1>6. ASSUME e \notin Latest(more, k) PROVE ShowsLatest(tt, more)
  <2>1. tt = ss
    BY <1>4, <1>6
  <2>2. ASSUME NEW i \in DOMAIN ss
        PROVE  /\ (\A f \in DOMAIN more : more[f].session # i) =>
                      ss[i].correlation_status = NULL
               /\ \A f \in Latest(more, i) : ss[i].correlation_status = more[f].status
    <3>1. (\A f \in DOMAIN more : more[f].session # i) => \A f \in DOMAIN ev : ev[f].session # i
      BY DEF Keeps
    <3>2. \A f \in Latest(more, i) : f # e
      BY <1>6 DEF Latest
    <3>3. \A f \in Latest(more, i) : f \in Latest(ev, i)
      BY <3>2, LatestWithMore
    <3>4. \A f \in Latest(more, i) : f \in DOMAIN ev /\ more[f] = ev[f]
      BY <3>3 DEF Latest, Keeps
    <3> QED BY <3>1, <3>3, <3>4 DEF ShowsLatest
  <2> QED BY <2>1, <2>2 DEF ShowsLatest
<1>7. ShowsLatest(tt, more)
  BY <1>5, <1>6
<1> QED BY <1>7 DEF tt

-----------------------------------------------------------------------------
(* Processing one job.                                                     *)

\* The job of e with a new status, attempts and wait.
Row(e, status, attempts, wait) ==
    [session |-> cycle.jobs[e].session, status |-> status,
     attempt_count |-> attempts, wait |-> wait]

\* The cycle once the job of e has another row, and the event is told of it.
Settled(e, row, ss, ev, unavailable) ==
    [phase |-> "process",
     events |-> [cycle.events EXCEPT ![e] = Told(row.status)],
     sessions |-> ss,
     jobs |-> [cycle.jobs EXCEPT ![e] = row],
     evidence |-> ev,
     todo |-> cycle.todo \ {e},
     unavailable |-> unavailable]

Processed(e, row, ss, ev) ==
    /\ UNCHANGED <<events, sessions, jobs, evidence, deleted>>
    /\ cycle.phase = "process"
    /\ e \in cycle.todo
    /\ cycle' = Settled(e, row, ss, ev, cycle'.unavailable)

\* What a row must be to agree with the evidence and the deleted sessions.
Concluded(e, row, ev) ==
    /\ row \in JobRow
    /\ row.session = cycle.jobs[e].session
    /\ row.status # "PENDING"
    /\ row.status \in Terminal => e \in DOMAIN ev /\ ev[e].status = row.status
    /\ row.status \notin Terminal => ev = cycle.evidence
    /\ row.status = "FAILED" /\ e \in DOMAIN ev => row.session \in deleted
    /\ row.status = "RETRY" => e \notin DOMAIN ev /\ row.attempt_count < MaxAttempts
    /\ e \in DOMAIN ev => ev[e].session = row.session

\* The evidence and the session rows there are after the step.
Kept(e, ss, ev) ==
    /\ IsPartial(ss, Sessions, SessionRow)
    /\ DOMAIN ss = DOMAIN cycle.sessions
    /\ IsPartial(ev, Events, EvidenceRow)
    /\ DOMAIN ev \subseteq DOMAIN cycle.evidence \union {e}
    /\ Keeps(cycle.evidence, ev)
    /\ ShowsLatest(ss, ev)

\* The job was tried once, or lost its session, or had its evidence already.
Attempt(e, row) ==
    \/ /\ row.attempt_count = cycle.jobs[e].attempt_count + 1
       /\ IF row.status = "RETRY" THEN row.wait > 0 ELSE row.wait = 0
    \/ /\ row.attempt_count = cycle.jobs[e].attempt_count
       /\ row.wait = 0
       /\ row.status = "FAILED" \/ e \in DOMAIN cycle.evidence

ProcessStep(e) ==
    \E row, ss, ev :
        Processed(e, row, ss, ev) /\ Concluded(e, row, ev) /\ Kept(e, ss, ev) /\ Attempt(e, row)

LEMMA Settings ==
    /\ BatchSize \in Nat /\ MaxAttempts \in Nat /\ RetryCap \in Nat
    /\ BatchSize >= 1 /\ MaxAttempts >= 1 /\ RetryCap >= 1
BY SettingsAssumption

LEMMA Delayed ==
    ASSUME NEW n PROVE RetryDelay(n) \in 1..RetryCap
BY Settings DEF RetryDelay

\* A cycle that runs is well formed.
LEMMA RunningCycle ==
    ASSUME IInv, Running
    PROVE  /\ CycleInv
           /\ IsDatabase(cycle)
           /\ cycle.todo \subseteq DOMAIN cycle.jobs
           /\ DOMAIN cycle.jobs \subseteq DOMAIN cycle.events
BY DEF IInv, TypeOK, CycleInv, Consistent, Agree

LEMMA RowFields ==
    ASSUME NEW r \in JobRow, NEW status, NEW attempts, NEW wait
    PROVE  [[[r EXCEPT !.status = status] EXCEPT !.attempt_count = attempts]
               EXCEPT !.wait = wait]
               = [session |-> r.session, status |-> status,
                  attempt_count |-> attempts, wait |-> wait]
<1> DEFINE a == [r EXCEPT !.status = status]
           b == [a EXCEPT !.attempt_count = attempts]
<1>1. r = [session |-> r.session, status |-> r.status,
           attempt_count |-> r.attempt_count, wait |-> r.wait]
  BY DEF JobRow
<1>2. a = [session |-> r.session, status |-> status,
           attempt_count |-> r.attempt_count, wait |-> r.wait]
  BY <1>1
<1> HIDE DEF a
<1>3. b = [session |-> r.session, status |-> status,
           attempt_count |-> attempts, wait |-> r.wait]
  BY <1>2
<1> HIDE DEF b
<1>4. [b EXCEPT !.wait = wait] =
          [session |-> r.session, status |-> status,
           attempt_count |-> attempts, wait |-> wait]
  BY <1>3
<1> QED BY <1>4 DEF a, b

LEMMA SettleFields ==
    ASSUME IInv, NEW e, NextJob(e), NEW status, NEW attempts, NEW wait
    PROVE  Settle(e, status, Told(status), attempts, wait) =
               Settled(e, Row(e, status, attempts, wait), cycle.sessions,
                       cycle.evidence, cycle.unavailable)
<1>1. Running /\ cycle.phase = "process" /\ e \in cycle.todo
  BY DEF NextJob, Running
<1>2. IsCycle(cycle) /\ IsDatabase(cycle) /\ e \in DOMAIN cycle.jobs
  BY <1>1, RunningCycle DEF CycleInv
<1>3. cycle.jobs \in [DOMAIN cycle.jobs -> JobRow]
  BY <1>2 DEF IsDatabase, IsPartial
<1> DEFINE a == [cycle.jobs EXCEPT ![e].status = status]
           b == [a EXCEPT ![e].attempt_count = attempts]
           c == [b EXCEPT ![e].wait = wait]
<1>4. c = [cycle.jobs EXCEPT ![e] = Row(e, status, attempts, wait)]
  <2>1. cycle.jobs[e] \in JobRow
    BY <1>2, <1>3
  <2>2. [[[cycle.jobs[e] EXCEPT !.status = status] EXCEPT !.attempt_count = attempts]
            EXCEPT !.wait = wait] = Row(e, status, attempts, wait)
    BY <2>1, RowFields DEF Row
  <2> QED BY <1>2, <2>2
<1>5. Settle(e, status, Told(status), attempts, wait) =
        [cycle EXCEPT !.todo = @ \ {e}, !.jobs = c,
                      !.events = [cycle.events EXCEPT ![e] = Told(status)]]
  BY <1>2 DEF Settle, IsCycle
<1> HIDE DEF c
<1>6. Row(e, status, attempts, wait).status = status
  BY DEF Row
<1> QED BY <1>1, <1>2, <1>4, <1>5, <1>6 DEF IsCycle, Settled

LEMMA SettledUnavailable ==
    ASSUME NEW e, NEW row, NEW ss, NEW ev, NEW un
    PROVE  Settled(e, row, ss, ev, un).unavailable = un
BY DEF Settled

\* What is known of the job in hand.
LEMMA JobInHand ==
    ASSUME IInv, NEW e, NextJob(e)
    PROVE  /\ Running /\ cycle.phase = "process" /\ e \in cycle.todo
           /\ e \in Events /\ e \in DOMAIN cycle.jobs /\ e \in DOMAIN cycle.events
           /\ cycle.jobs[e] \in JobRow
           /\ cycle.jobs[e].status \in Queued
           /\ e \notin DOMAIN cycle.evidence => cycle.jobs[e].attempt_count < MaxAttempts
           /\ SessionGone(e) => cycle.jobs[e].session \in deleted
           /\ e \in DOMAIN cycle.evidence =>
                 /\ cycle.evidence[e].session = cycle.jobs[e].session
                 /\ cycle.evidence[e] \in EvidenceRow
<1>1. Running /\ cycle.phase = "process" /\ e \in cycle.todo
  BY DEF NextJob, Running
<1>2. /\ CycleInv /\ IsDatabase(cycle) /\ e \in DOMAIN cycle.jobs
      /\ DOMAIN cycle.jobs \subseteq DOMAIN cycle.events
  BY <1>1, RunningCycle
<1>3. e \in Events /\ cycle.jobs[e] \in JobRow
  BY <1>2 DEF IsDatabase, IsPartial
<1>4. cycle.jobs[e].status \in Queued
  BY <1>1, <1>2 DEF CycleInv, Ready
<1>5. e \notin DOMAIN cycle.evidence => cycle.jobs[e].attempt_count < MaxAttempts
  BY <1>2, <1>4 DEF CycleInv, Consistent, Agree
<1>6. SessionGone(e) => cycle.jobs[e].session \in deleted
  BY <1>2 DEF CycleInv, Consistent, Placed, SessionGone
<1>7. e \in DOMAIN cycle.evidence =>
                 /\ cycle.evidence[e].session = cycle.jobs[e].session
                 /\ cycle.evidence[e] \in EvidenceRow
  BY <1>2 DEF CycleInv, Consistent, Agree, IsDatabase, IsPartial
<1> QED BY <1>1, <1>2, <1>3, <1>4, <1>5, <1>6, <1>7

\* A step that leaves evidence and sessions alone keeps them.
LEMMA KeptAsIs ==
    ASSUME IInv, NEW e, NextJob(e)
    PROVE  Kept(e, cycle.sessions, cycle.evidence)
<1>1. CycleInv /\ IsDatabase(cycle)
  BY JobInHand, RunningCycle
<1> QED BY <1>1 DEF CycleInv, Consistent, IsDatabase, Kept, Keeps

\* A job that fails, or is to be tried again.
LEMMA NoResult ==
    ASSUME IInv, NEW e, NextJob(e), NEW status \in {"FAILED", "RETRY"},
           NEW attempts \in 0..MaxAttempts, NEW wait \in 0..RetryCap,
           SessionGone(e) \/ e \notin DOMAIN cycle.evidence,
           status = "RETRY" =>
               e \notin DOMAIN cycle.evidence /\ attempts < MaxAttempts
    PROVE  Concluded(e, Row(e, status, attempts, wait), cycle.evidence)
<1> DEFINE row == Row(e, status, attempts, wait)
<1>1. /\ row.session = cycle.jobs[e].session /\ row.status = status
      /\ row.attempt_count = attempts /\ row.wait = wait
  BY DEF Row
<1>2. row \in JobRow
  <2>1. cycle.jobs[e].session \in Sessions /\ status \in JobStatus
    BY JobInHand DEF JobRow, JobStatus, Queued
  <2> QED BY <2>1 DEF Row, JobRow
<1>3. status \notin Terminal /\ status # "PENDING"
  BY DEF Terminal
<1>4. status = "FAILED" /\ e \in DOMAIN cycle.evidence => row.session \in deleted
  BY <1>1, JobInHand
<1>5. e \in DOMAIN cycle.evidence => cycle.evidence[e].session = row.session
  BY <1>1, JobInHand
<1> HIDE DEF row
<1>6. Concluded(e, row, cycle.evidence)
  BY <1>1, <1>2, <1>3, <1>4, <1>5 DEF Concluded
<1> QED BY <1>6 DEF row

LEMMA SessionMissingStep ==
    ASSUME IInv, NEW e, SessionMissing(e) PROVE ProcessStep(e)
<1> DEFINE row == Row(e, "FAILED", cycle.jobs[e].attempt_count, 0)
<1>1. NextJob(e) /\ SessionGone(e)
  BY DEF SessionMissing
<1>2. Told("FAILED") = "FAILED"
  BY DEF Told, Queued
<1>3. Processed(e, row, cycle.sessions, cycle.evidence)
  BY <1>1, <1>2, SettleFields, SettledUnavailable DEF SessionMissing, NextJob, Processed
<1>4. Concluded(e, row, cycle.evidence)
  <2>1. cycle.jobs[e].attempt_count \in 0..MaxAttempts
    BY <1>1, JobInHand DEF JobRow
  <2> QED BY <1>1, <2>1, NoResult, Settings
<1>5. Attempt(e, row)
  BY DEF Attempt, Row
<1> QED BY <1>1, <1>3, <1>4, <1>5, KeptAsIs DEF ProcessStep

LEMMA ProtocolErrorStep ==
    ASSUME IInv, NEW e, ProtocolError(e) PROVE ProcessStep(e)
<1> DEFINE row == Row(e, "FAILED", cycle.jobs[e].attempt_count + 1, 0)
<1>1. NextJob(e) /\ e \notin DOMAIN cycle.evidence
  BY DEF ProtocolError, Ask
<1>2. Told("FAILED") = "FAILED"
  BY DEF Told, Queued
<1>3. Processed(e, row, cycle.sessions, cycle.evidence)
  BY <1>1, <1>2, SettleFields, SettledUnavailable DEF ProtocolError, NextJob, Processed
<1>4. Concluded(e, row, cycle.evidence)
  <2>1. cycle.jobs[e].attempt_count + 1 \in 0..MaxAttempts
    BY <1>1, JobInHand, Settings DEF JobRow
  <2> QED BY <1>1, <2>1, NoResult, Settings
<1>5. Attempt(e, row)
  BY DEF Attempt, Row
<1> QED BY <1>1, <1>3, <1>4, <1>5, KeptAsIs DEF ProcessStep

LEMMA UnavailableStep ==
    ASSUME IInv, NEW e, Unavailable(e) PROVE ProcessStep(e)
<1> DEFINE attempts == cycle.jobs[e].attempt_count + 1
           status == IF attempts >= MaxAttempts THEN "FAILED" ELSE "RETRY"
           wait == IF attempts >= MaxAttempts THEN 0 ELSE RetryDelay(attempts)
           row == Row(e, status, attempts, wait)
<1>1. NextJob(e) /\ e \notin DOMAIN cycle.evidence
  BY DEF Unavailable, Ask
<1>2. Told("FAILED") = "FAILED" /\ Told("RETRY") = "PENDING"
  BY DEF Told, Queued
<1>3. RetryDelay(attempts) \in 1..RetryCap
  BY Delayed
<1> DEFINE settled == Settle(e, status, Told(status), attempts, wait)
<1>4. cycle' = [settled EXCEPT !.unavailable = settled.unavailable \union {e}]
  BY <1>2 DEF Unavailable
<1>5. Processed(e, row, cycle.sessions, cycle.evidence)
  <2> HIDE DEF wait, status, attempts
  <2>1. settled = Settled(e, row, cycle.sessions, cycle.evidence, cycle.unavailable)
    BY <1>1, SettleFields
  <2> HIDE DEF row, settled
  <2>2. cycle' = Settled(e, row, cycle.sessions, cycle.evidence,
                         cycle.unavailable \union {e})
    <3> DEFINE es == [cycle.events EXCEPT ![e] = Told(row.status)]
               js == [cycle.jobs EXCEPT ![e] = row]
               batch == cycle.todo \ {e}
               un == cycle.unavailable \union {e}
    <3>1. settled = [phase |-> "process", events |-> es, sessions |-> cycle.sessions,
                     jobs |-> js, evidence |-> cycle.evidence, todo |-> batch,
                     unavailable |-> cycle.unavailable]
      BY <2>1 DEF Settled
    <3>2. Settled(e, row, cycle.sessions, cycle.evidence, un) =
                    [phase |-> "process", events |-> es, sessions |-> cycle.sessions,
                     jobs |-> js, evidence |-> cycle.evidence, todo |-> batch,
                     unavailable |-> un]
      BY DEF Settled
    <3>3. cycle' = [settled EXCEPT !.unavailable = un]
      BY <1>4, <3>1
    <3> HIDE DEF es, js, batch
    <3> QED BY <3>1, <3>2, <3>3
  <2> QED BY <1>1, <2>2, SettledUnavailable DEF NextJob, Processed
<1>6. Concluded(e, row, cycle.evidence)
  <2>1. attempts \in 0..MaxAttempts
    BY <1>1, JobInHand, Settings DEF JobRow
  <2>2. status \in {"FAILED", "RETRY"} /\ (status = "RETRY" => attempts < MaxAttempts)
    BY <2>1, Settings
  <2>3. wait \in 0..RetryCap
    BY <1>3, Settings
  <2> HIDE DEF attempts, status, wait
  <2> QED BY <1>1, <2>1, <2>2, <2>3, NoResult
<1>7. Attempt(e, row)
  <2>1. IF status = "RETRY" THEN wait > 0 ELSE wait = 0
    BY <1>3, Settings
  <2> HIDE DEF status, wait
  <2> QED BY <2>1 DEF Attempt, Row
<1> QED BY <1>1, <1>5, <1>6, <1>7, KeptAsIs DEF ProcessStep

LEMMA UpdateType ==
    ASSUME NEW ss, IsPartial(ss, Sessions, SessionRow),
           NEW ev, IsPartial(ev, Events, EvidenceRow), NEW i, NEW e \in DOMAIN ev
    PROVE  /\ IsPartial(UpdateIfLatest(ss, ev, i, e), Sessions, SessionRow)
           /\ DOMAIN UpdateIfLatest(ss, ev, i, e) = DOMAIN ss
<1> DEFINE tt == [ss EXCEPT ![i].correlation_status = ev[e].status]
<1>1. ev[e].status \in Terminal
  BY DEF IsPartial, EvidenceRow
<1>2. DOMAIN tt = DOMAIN ss
  OBVIOUS
<1>3. ASSUME NEW j \in DOMAIN ss PROVE tt[j] \in SessionRow
  <2>1. ss[j] \in SessionRow
    BY DEF IsPartial
  <2>2. [ss[j] EXCEPT !.correlation_status = ev[e].status] \in SessionRow
    BY <1>1, <2>1 DEF SessionRow, Maybe
  <2>3. tt[j] = IF j = i THEN [ss[j] EXCEPT !.correlation_status = ev[e].status] ELSE ss[j]
    OBVIOUS
  <2> QED BY <2>1, <2>2, <2>3
<1>4. tt \in [DOMAIN ss -> SessionRow]
  <2>1. tt = [j \in DOMAIN ss |-> tt[j]]
    OBVIOUS
  <2> HIDE DEF tt
  <2> QED BY <1>2, <1>3, <2>1
<1>5. UpdateIfLatest(ss, ev, i, e) \in {ss, tt}
  BY DEF UpdateIfLatest
<1> HIDE DEF tt
<1> QED BY <1>2, <1>4, <1>5 DEF IsPartial

\* A job that has a result, from evidence there was or that is new.
LEMMA WithResult ==
    ASSUME IInv, NEW e, NextJob(e), NEW ev, NEW attempts \in 0..MaxAttempts,
           e \in DOMAIN ev, ev[e].session = cycle.jobs[e].session,
           ev[e].status \in Terminal
    PROVE  Concluded(e, Row(e, ev[e].status, attempts, 0), ev)
<1> DEFINE row == Row(e, ev[e].status, attempts, 0)
<1>1. /\ row.session = cycle.jobs[e].session /\ row.status = ev[e].status
      /\ row.attempt_count = attempts /\ row.wait = 0
  BY DEF Row
<1>2. row \in JobRow
  <2>1. cycle.jobs[e].session \in Sessions /\ ev[e].status \in JobStatus
    BY JobInHand DEF JobRow, JobStatus
  <2>2. 0 \in 0..RetryCap
    BY Settings
  <2> QED BY <2>1, <2>2 DEF Row, JobRow
<1>3. row.status \notin {"PENDING", "FAILED", "RETRY"}
  BY <1>1 DEF Terminal
<1> HIDE DEF row
<1>4. Concluded(e, row, ev)
  BY <1>1, <1>2, <1>3 DEF Concluded
<1> QED BY <1>4 DEF row

LEMMA RestoreStep ==
    ASSUME IInv, NEW e, Restore(e) PROVE ProcessStep(e)
<1> DEFINE status == cycle.evidence[e].status
           attempts == cycle.jobs[e].attempt_count
           i == cycle.jobs[e].session
           ss == UpdateIfLatest(cycle.sessions, cycle.evidence, i, e)
           row == Row(e, status, attempts, 0)
           settled == Settle(e, status, Told(status), attempts, 0)
<1>1. NextJob(e) /\ e \in DOMAIN cycle.evidence /\ i \in DOMAIN cycle.sessions
  BY DEF Restore, SessionGone
<1>2. cycle.evidence[e].session = i /\ status \in Terminal
  BY <1>1, JobInHand DEF EvidenceRow
<1>3. Told(status) = status
  BY <1>2 DEF Told, Queued, Terminal
<1>4. settled = Settled(e, row, cycle.sessions, cycle.evidence, cycle.unavailable)
  BY <1>1, SettleFields
<1>5. Processed(e, row, ss, cycle.evidence)
  <2> DEFINE es == [cycle.events EXCEPT ![e] = Told(row.status)]
             js == [cycle.jobs EXCEPT ![e] = row]
             batch == cycle.todo \ {e}
  <2>1. settled = [phase |-> "process", events |-> es, sessions |-> cycle.sessions,
                   jobs |-> js, evidence |-> cycle.evidence, todo |-> batch,
                   unavailable |-> cycle.unavailable]
    BY <1>4 DEF Settled
  <2>2. Settled(e, row, ss, cycle.evidence, cycle.unavailable) =
            [phase |-> "process", events |-> es, sessions |-> ss, jobs |-> js,
             evidence |-> cycle.evidence, todo |-> batch,
             unavailable |-> cycle.unavailable]
    BY DEF Settled
  <2>3. cycle' = [settled EXCEPT
                     !.sessions = UpdateIfLatest(settled.sessions, cycle.evidence, i, e)]
    BY <1>3 DEF Restore
  <2> HIDE DEF es, js, batch, settled
  <2>4. cycle' = [settled EXCEPT !.sessions = ss]
    BY <2>1, <2>3
  <2> HIDE DEF ss
  <2>5. cycle' = Settled(e, row, ss, cycle.evidence, cycle.unavailable)
    BY <2>1, <2>2, <2>4
  <2> QED BY <1>1, <2>5, SettledUnavailable DEF NextJob, Processed
<1>6. Concluded(e, row, cycle.evidence)
  <2>1. attempts \in 0..MaxAttempts
    BY <1>1, JobInHand DEF JobRow
  <2> QED BY <1>1, <1>2, <2>1, WithResult
<1>7. Kept(e, ss, cycle.evidence)
  <2>1. /\ IsPartial(cycle.sessions, Sessions, SessionRow)
        /\ IsPartial(cycle.evidence, Events, EvidenceRow)
        /\ ShowsLatest(cycle.sessions, cycle.evidence)
    BY <1>1, KeptAsIs DEF Kept
  <2>2. DOMAIN cycle.evidence = DOMAIN cycle.evidence \union {e}
    BY <1>1
  <2>3. Keeps(cycle.evidence, cycle.evidence)
    BY DEF Keeps
  <2>4. ShowsLatest(ss, cycle.evidence)
    BY <1>1, <1>2, <2>1, <2>2, <2>3, UpdateShowsLatest
  <2>5. IsPartial(ss, Sessions, SessionRow) /\ DOMAIN ss = DOMAIN cycle.sessions
    BY <1>1, <2>1, UpdateType
  <2> QED BY <2>1, <2>3, <2>4, <2>5 DEF Kept
<1>8. Attempt(e, row)
  BY <1>1 DEF Attempt, Row
<1> QED BY <1>5, <1>6, <1>7, <1>8 DEF ProcessStep

LEMMA Kinds ==
    /\ NULL # "ResolverUnavailable" /\ NULL # "ResolverConfigurationError"
    /\ NULL # "ResolverProtocolError" /\ NULL # "RecursionError"
    /\ NULL # "OverflowError" /\ NULL # "DataError" /\ NULL # "long"
BY OutcomeAssumption DEF Exceptions

\* A result has a status of its own; what is raised has a cause in the answer.
LEMMA AbortingAnswers ==
    ASSUME NEW a \in HttpAnswers
    PROVE  /\ Outcome(a) = NULL => a.payload.status \in Terminal
           /\ Outcome(a) \notin {NULL, "ResolverUnavailable", "ResolverProtocolError"} =>
                 \/ a.http \in {401, 403, 404}
                 \/ a.json = "too deep"
                 \/ /\ a.json = "object"
                    /\ a.payload.confidence = "huge" \/ ~a.payload.storable
<1>1. CASE Resolve(a) # NULL
  BY <1>1 DEF Outcome, Resolve
<1>2. CASE Resolve(a) = NULL
  <2>1. a.http = 200 /\ a.json = "object" /\ a.payload.status \in Terminal
    <3>1. CASE a = TransportError \/ Retried(a.http)
      BY <1>2, <3>1, Kinds DEF Resolve
    <3>2. CASE ~(a = TransportError \/ Retried(a.http)) /\ a.http \in {401, 403, 404}
      BY <1>2, <3>2, Kinds DEF Resolve
    <3>3. CASE /\ ~(a = TransportError \/ Retried(a.http))
               /\ a.http \notin {401, 403, 404}
      <4>1. ~(a.http = 200 /\ a.json = "too deep")
        BY <1>2, <3>3, Kinds DEF Resolve
      <4>2. /\ a.http = 200
            /\ a.json = "object"
            /\ a.payload.status \in Terminal
            /\ a.payload.status = "MATCHED" => a.payload.device # "none"
        BY <1>2, <3>3, <4>1, Kinds DEF Resolve
      <4> QED BY <4>2
    <3> QED BY <3>1, <3>2, <3>3
  <2>2. Extract(a.payload) \in {"ResolverProtocolError", "OverflowError", NULL}
    BY DEF Extract
  <2>3. Extract(a.payload) = "OverflowError" => a.payload.confidence = "huge"
    BY Kinds DEF Extract
  <2>4. Extract(a.payload) = NULL /\ ~Fits(Columns(a.payload)) => ~a.payload.storable
    BY Kinds DEF Extract, TooLong, Columns, Fits
  <2> QED BY <1>2, <2>1, <2>2, <2>3, <2>4 DEF Outcome
<1> QED BY <1>1, <1>2

LEMMA OutcomeOfAnswer ==
    ASSUME NEW a \in Answers
    PROVE  a \in HttpAnswers /\ OutcomeOf[a] = Outcome(a)
BY WorldAssumption DEF OutcomeOf

LEMMA AnswerStep ==
    ASSUME IInv, NEW e, NEW status \in Terminal, Answer(e, status) PROVE ProcessStep(e)
<1> DEFINE attempts == cycle.jobs[e].attempt_count + 1
           i == cycle.jobs[e].session
           new == [session |-> i, status |-> status, created_at |-> Stamp]
           ev == [f \in DOMAIN cycle.evidence \union {e} |->
                     IF f = e THEN new ELSE cycle.evidence[f]]
           ss == UpdateIfLatest(cycle.sessions, ev, i, e)
           row == Row(e, status, attempts, 0)
           settled == Settle(e, status, Told(status), attempts, 0)
<1>1. NextJob(e) /\ e \notin DOMAIN cycle.evidence /\ i \in DOMAIN cycle.sessions
  BY DEF Answer, Ask, SessionGone
<1>2. status \in Terminal
  OBVIOUS
<1>3. Told(status) = status
  BY <1>2 DEF Told, Queued, Terminal
<1>4. settled = Settled(e, row, cycle.sessions, cycle.evidence, cycle.unavailable)
  BY <1>1, SettleFields
<1>5. Processed(e, row, ss, ev)
  <2> DEFINE es == [cycle.events EXCEPT ![e] = Told(row.status)]
             js == [cycle.jobs EXCEPT ![e] = row]
             batch == cycle.todo \ {e}
  <2>1. settled = [phase |-> "process", events |-> es, sessions |-> cycle.sessions,
                   jobs |-> js, evidence |-> cycle.evidence, todo |-> batch,
                   unavailable |-> cycle.unavailable]
    BY <1>4 DEF Settled
  <2>2. Settled(e, row, ss, ev, cycle.unavailable) =
            [phase |-> "process", events |-> es, sessions |-> ss, jobs |-> js,
             evidence |-> ev, todo |-> batch, unavailable |-> cycle.unavailable]
    BY DEF Settled
  <2>3. cycle' = [settled EXCEPT !.evidence = ev,
                     !.sessions = UpdateIfLatest(settled.sessions, ev, i, e)]
    BY <1>3 DEF Answer
  <2> HIDE DEF es, js, batch, settled
  <2> HIDE DEF ev
  <2> DEFINE half == [settled EXCEPT !.evidence = ev]
  <2>4. cycle' = [half EXCEPT !.sessions = ss]
    BY <2>1, <2>3
  <2>5. half = [phase |-> "process", events |-> es, sessions |-> cycle.sessions,
                jobs |-> js, evidence |-> ev, todo |-> batch,
                unavailable |-> cycle.unavailable]
    BY <2>1
  <2> HIDE DEF ss, half, row
  <2>6. cycle' = Settled(e, row, ss, ev, cycle.unavailable)
    BY <2>2, <2>4, <2>5
  <2> QED BY <1>1, <2>6, SettledUnavailable DEF NextJob, Processed
<1>6. /\ e \in DOMAIN ev /\ ev[e].session = i /\ ev[e].status = status
      /\ DOMAIN ev = DOMAIN cycle.evidence \union {e}
  OBVIOUS
<1>7. Concluded(e, row, ev)
  <2>1. attempts \in 0..MaxAttempts
    BY <1>1, JobInHand, Settings DEF JobRow
  <2> HIDE DEF ev, attempts
  <2> QED BY <1>1, <1>2, <1>6, <2>1, WithResult
<1>8. Kept(e, ss, ev)
  <2>1. /\ IsPartial(cycle.sessions, Sessions, SessionRow)
        /\ IsPartial(cycle.evidence, Events, EvidenceRow)
        /\ ShowsLatest(cycle.sessions, cycle.evidence)
    BY <1>1, KeptAsIs DEF Kept
  <2>2. Keeps(cycle.evidence, ev)
    BY <1>1 DEF Keeps
  <2>3. IsPartial(ev, Events, EvidenceRow)
    <3>1. Stamp \in Nat
      <4>1. DOMAIN evidence \subseteq Events
        BY DEF IInv, TypeOK, IsDatabase, Tables, IsPartial
      <4> QED BY <4>1, RowsAssumption, FS_Subset, FS_CardinalityType DEF Stamp
    <3>2. new \in EvidenceRow
      BY <1>1, <1>2, <3>1, JobInHand DEF JobRow, EvidenceRow
    <3> HIDE DEF new
    <3>3. \A f \in DOMAIN cycle.evidence : cycle.evidence[f] \in EvidenceRow
      BY <2>1 DEF IsPartial
    <3>4. DOMAIN ev \subseteq Events
      BY <1>1, <1>6, <2>1, JobInHand DEF IsPartial
    <3>5. ev \in [DOMAIN cycle.evidence \union {e} -> EvidenceRow]
      BY <3>2, <3>3
    <3> HIDE DEF ev
    <3> QED BY <1>6, <3>4, <3>5 DEF IsPartial
  <2> HIDE DEF ev
  <2>4. ShowsLatest(ss, ev)
    BY <1>1, <1>6, <2>1, <2>2, <2>3, UpdateShowsLatest
  <2>5. IsPartial(ss, Sessions, SessionRow) /\ DOMAIN ss = DOMAIN cycle.sessions
    BY <1>6, <2>1, <2>3, UpdateType
  <2> HIDE DEF ss
  <2> QED BY <1>6, <2>2, <2>3, <2>4, <2>5 DEF Kept
<1>9. Attempt(e, row)
  BY <1>2 DEF Attempt, Row, Terminal
<1> HIDE DEF row, ss, ev
<1> QED BY <1>5, <1>7, <1>8, <1>9 DEF ProcessStep

LEMMA ProcessKinds ==
    ASSUME IInv, Process
    PROVE  \E e \in Events : ProcessStep(e)
<1>1. ASSUME NEW e, NEW a \in Answers, Reply(e, a) PROVE ProcessStep(e)
  BY <1>1, OutcomeOfAnswer, AbortingAnswers, AnswerStep, UnavailableStep, ProtocolErrorStep
     DEF Reply
<1> QED BY <1>1, SessionMissingStep, RestoreStep DEF Process

\* A row that fits the evidence leaves the three records of every event in agreement.
LEMMA OutcomeAgrees ==
    ASSUME NEW es, NEW js, NEW old, NEW ev, NEW gone, Agree(es, js, old, gone),
           NEW e \in DOMAIN js, NEW row,
           DOMAIN ev \subseteq DOMAIN old \union {e}, Keeps(old, ev),
           row.session = js[e].session, row.status \in JobStatus, row.status # "PENDING",
           row.status \in Terminal => e \in DOMAIN ev /\ ev[e].status = row.status,
           row.status = "FAILED" /\ e \in DOMAIN ev => row.session \in gone,
           row.status = "RETRY" => e \notin DOMAIN ev /\ row.attempt_count < MaxAttempts,
           e \in DOMAIN ev => ev[e].session = row.session
    PROVE  Agree([es EXCEPT ![e] = Told(row.status)], [js EXCEPT ![e] = row], ev, gone)
<1> DEFINE fs == [es EXCEPT ![e] = Told(row.status)]
           ks == [js EXCEPT ![e] = row]
<1>1. DOMAIN fs = DOMAIN es /\ DOMAIN ks = DOMAIN js /\ e \in DOMAIN es
  BY DEF Agree
<1>2. fs[e] = Told(row.status) /\ ks[e] = row
  BY <1>1
<1>3. \A f \in DOMAIN es : f # e => fs[f] = es[f]
  OBVIOUS
<1>4. \A f \in DOMAIN js : f # e => ks[f] = js[f]
  OBVIOUS
<1> HIDE DEF fs, ks
<1>5. DOMAIN ev \subseteq DOMAIN ks /\ DOMAIN ks \subseteq DOMAIN fs
  BY <1>1 DEF Agree
<1>6. \A f \in DOMAIN fs \ DOMAIN ks : fs[f] = NULL
  BY <1>1, <1>3 DEF Agree
<1>7. ASSUME NEW f \in DOMAIN ks
      PROVE  /\ ks[f].status \in Terminal => f \in DOMAIN ev /\ ev[f].status = ks[f].status
             /\ ks[f].status = "FAILED" /\ f \in DOMAIN ev => ks[f].session \in gone
             /\ ks[f].status \in Queued /\ f \notin DOMAIN ev =>
                   ks[f].attempt_count < MaxAttempts
             /\ f \in DOMAIN ev => ev[f].session = ks[f].session
             /\ \/ fs[f] = Told(ks[f].status)
                \/ ks[f].status \in Queued /\ f \in DOMAIN ev /\ fs[f] = NULL
  <2>1. CASE f = e
    <3>1. row.status \in Queued => row.status = "RETRY"
      BY DEF Queued
    <3> QED BY <1>2, <2>1, <3>1
  <2>2. CASE f # e
    <3>1. ks[f] = js[f] /\ fs[f] = es[f] /\ f \in DOMAIN js
      BY <1>1, <1>3, <1>4, <2>2 DEF Agree
    <3>2. f \in DOMAIN ev <=> f \in DOMAIN old
      BY <2>2 DEF Keeps
    <3>3. f \in DOMAIN old => ev[f] = old[f]
      BY DEF Keeps
    <3> QED BY <3>1, <3>2, <3>3 DEF Agree
  <2> QED BY <2>1, <2>2
<1>8. Agree(fs, ks, ev, gone)
  BY <1>5, <1>6, <1>7 DEF Agree
<1> QED BY <1>8 DEF fs, ks

LEMMA TablesTyped ==
    ASSUME TypeOK
    PROVE  /\ IsPartial(events, Events, Maybe(JobStatus))
           /\ IsPartial(sessions, Sessions, SessionRow)
           /\ IsPartial(jobs, Events, JobRow)
           /\ IsPartial(evidence, Events, EvidenceRow)
BY DEF TypeOK, IsDatabase, Tables

LEMMA ProcessKeepsInv ==
    ASSUME IInv, NEW e, ProcessStep(e)
    PROVE  IInv'
<1>1. PICK row, ss, ev :
          Processed(e, row, ss, ev) /\ Concluded(e, row, ev) /\ Kept(e, ss, ev)
  BY DEF ProcessStep
<1>2. /\ cycle'.phase = "process"
      /\ cycle'.events = [cycle.events EXCEPT ![e] = Told(row.status)]
      /\ cycle'.sessions = ss
      /\ cycle'.jobs = [cycle.jobs EXCEPT ![e] = row]
      /\ cycle'.evidence = ev
      /\ cycle'.todo = cycle.todo \ {e}
      /\ IsCycle(cycle')
  BY <1>1 DEF Processed, Settled, IsCycle
<1>3. UNCHANGED <<events, sessions, jobs, evidence, deleted>>
  BY <1>1 DEF Processed
<1>4. Running /\ Running' /\ cycle.phase = "process"
  BY <1>1, <1>2 DEF Running, Processed
<1>5. /\ CycleInv /\ IsDatabase(cycle) /\ cycle.todo \subseteq DOMAIN cycle.jobs
      /\ DOMAIN cycle.jobs \subseteq DOMAIN cycle.events
  BY <1>4, RunningCycle
<1>6. e \in DOMAIN cycle.jobs /\ e \in cycle.todo
  BY <1>1, <1>5 DEF Processed
<1>7. row \in JobRow /\ Told(row.status) \in Maybe(JobStatus)
  BY <1>1 DEF Concluded, JobRow, Told, Maybe, JobStatus, Queued
<1>8. IsDatabase(cycle')
  <2>1. IsPartial(cycle'.events, Events, Maybe(JobStatus))
    BY <1>2, <1>5, <1>7 DEF IsDatabase, IsPartial
  <2>2. IsPartial(cycle'.jobs, Events, JobRow)
    BY <1>2, <1>5, <1>7 DEF IsDatabase, IsPartial
  <2>3. IsPartial(cycle'.sessions, Sessions, SessionRow)
    BY <1>1, <1>2 DEF Kept
  <2>4. IsPartial(cycle'.evidence, Events, EvidenceRow)
    BY <1>1, <1>2 DEF Kept
  <2> QED BY <2>1, <2>2, <2>3, <2>4 DEF IsDatabase
<1>9. TypeOK'
  <2>1. IsDatabase(Tables)'
    BY <1>3 DEF IInv, TypeOK, Tables
  <2>2. cycle'.todo \subseteq DOMAIN cycle'.jobs
    BY <1>2, <1>5
  <2> QED BY <1>4, <1>8, <2>1, <2>2 DEF TypeOK
<1>10. Consistent(cycle'.events, cycle'.sessions, cycle'.jobs, cycle'.evidence, deleted)
  <2>1. Agree(cycle'.events, cycle'.jobs, cycle'.evidence, deleted)
    BY <1>1, <1>2, <1>5, <1>6, <1>7, OutcomeAgrees
       DEF CycleInv, Consistent, Concluded, Kept, JobRow
  <2>2. Placed(cycle'.jobs, cycle'.sessions, deleted)
    BY <1>1, <1>2, <1>5, <1>6 DEF CycleInv, Consistent, Placed, Concluded, Kept
  <2>3. ShowsLatest(cycle'.sessions, cycle'.evidence)
    BY <1>1, <1>2 DEF Kept
  <2> QED BY <2>1, <2>2, <2>3 DEF Consistent
<1>11. CycleInv'
  <2>1. Ready'
    BY <1>2, <1>5, <1>6 DEF CycleInv, Ready
  <2>2. Ingested'
    BY <1>1, <1>2, <1>3, <1>5 DEF CycleInv, Ingested, Kept
  <2>3. Keeps(evidence', cycle'.evidence)
    BY <1>1, <1>2, <1>3, <1>5 DEF CycleInv, Keeps, Kept
  <2> QED BY <1>2, <1>3, <1>10, <2>1, <2>2, <2>3 DEF CycleInv
<1>12. Consistent(events', sessions', jobs', evidence', deleted')
       /\ DOMAIN sessions' \cap deleted' = {}
  BY <1>3 DEF IInv
<1> QED BY <1>9, <1>11, <1>12 DEF IInv

-----------------------------------------------------------------------------
(* What the API commits.                                                   *)

LEMMA InitInv == Init => IInv
<1> SUFFICES ASSUME Init PROVE IInv
  OBVIOUS
<1>1. /\ DOMAIN events = {} /\ DOMAIN sessions = {} /\ DOMAIN jobs = {}
      /\ DOMAIN evidence = {} /\ deleted = {} /\ cycle = Idle
  BY DEF Init
<1>2. ~Running
  BY <1>1 DEF Running, Idle
<1>3. TypeOK
  BY <1>1, <1>2 DEF Init, TypeOK, IsDatabase, Tables, IsPartial
<1>4. Consistent(events, sessions, jobs, evidence, deleted)
  BY <1>1 DEF Consistent, Agree, Placed, ShowsLatest
<1> QED BY <1>1, <1>2, <1>3, <1>4 DEF IInv

LEMMA EventArrivesKeepsInv ==
    ASSUME IInv, NEW e \in Events, EventArrives(e)
    PROVE  IInv'
<1>1. /\ DOMAIN events' = DOMAIN events \union {e} /\ e \notin DOMAIN events
      /\ events'[e] = NULL
      /\ \A f \in DOMAIN events : events'[f] = events[f]
      /\ UNCHANGED <<sessions, jobs, evidence, deleted, cycle>>
  BY DEF EventArrives
<1>2. IsPartial(events', Events, Maybe(JobStatus))
  <2>1. IsPartial(events, Events, Maybe(JobStatus))
    BY TablesTyped DEF IInv
  <2> QED BY <2>1 DEF EventArrives, IsPartial, Maybe
<1>3. TypeOK'
  BY <1>1, <1>2 DEF IInv, TypeOK, IsDatabase, Tables, Running
<1>4. Agree(events', jobs', evidence', deleted')
  <2>1. Agree(events, jobs, evidence, deleted)
    BY DEF IInv, Consistent
  <2> QED BY <1>1, <2>1 DEF Agree
<1>5. Consistent(events', sessions', jobs', evidence', deleted')
  BY <1>1, <1>4 DEF IInv, Consistent
<1>6. Running' => CycleInv'
  <2> SUFFICES ASSUME Running' PROVE CycleInv'
    OBVIOUS
  <2>1. Running /\ CycleInv
    BY <1>1 DEF Running, IInv
  <2>2. Ingested'
    BY <1>1, <2>1 DEF CycleInv, Ingested
  <2> QED BY <1>1, <2>1, <2>2 DEF CycleInv, Ready
<1> QED BY <1>1, <1>3, <1>5, <1>6 DEF IInv

\* Rows come, and are written to, but for what they show of correlation.
LEMMA SessionsIngested ==
    ASSUME IInv, UNCHANGED <<events, jobs, evidence, deleted, cycle>>,
           IsPartial(sessions', Sessions, SessionRow),
           DOMAIN sessions \subseteq DOMAIN sessions',
           DOMAIN sessions' \cap deleted = {},
           \A i \in DOMAIN sessions :
               sessions'[i].correlation_status = sessions[i].correlation_status,
           \A i \in DOMAIN sessions' \ DOMAIN sessions :
               sessions'[i].correlation_status = NULL
    PROVE  IInv'
<1>1. TypeOK'
  BY DEF IInv, TypeOK, IsDatabase, Tables, Running
<1>2. \A e \in DOMAIN evidence : evidence[e].session \in DOMAIN sessions \union deleted
  BY DEF IInv, Consistent, Agree, Placed
<1>3. ShowsLatest(sessions', evidence')
  <2> SUFFICES ASSUME NEW i \in DOMAIN sessions'
               PROVE  /\ (\A e \in DOMAIN evidence : evidence[e].session # i) =>
                             sessions'[i].correlation_status = NULL
                      /\ \A e \in Latest(evidence, i) :
                             sessions'[i].correlation_status = evidence[e].status
    BY DEF ShowsLatest
  <2>1. CASE i \in DOMAIN sessions
    BY <2>1 DEF IInv, Consistent, ShowsLatest
  <2>2. CASE i \notin DOMAIN sessions
    <3>1. \A e \in DOMAIN evidence : evidence[e].session # i
      BY <1>2, <2>2
    <3>2. Latest(evidence, i) = {}
      BY <3>1 DEF Latest
    <3> QED BY <2>2, <3>2
  <2> QED BY <2>1, <2>2
<1>4. Consistent(events', sessions', jobs', evidence', deleted')
  <2>1. Placed(jobs', sessions', deleted')
    BY DEF IInv, Consistent, Placed
  <2> QED BY <1>3, <2>1 DEF IInv, Consistent
<1>5. Running' => CycleInv'
  <2> SUFFICES ASSUME Running' PROVE CycleInv'
    OBVIOUS
  <2>1. Running /\ CycleInv
    BY DEF Running, IInv
  <2>2. Ingested'
    BY <2>1 DEF CycleInv, Ingested
  <2> QED BY <2>1, <2>2 DEF CycleInv, Ready
<1> QED BY <1>1, <1>4, <1>5 DEF IInv

LEMMA SessionOpensKeepsInv ==
    ASSUME IInv, NEW i \in Sessions, SessionOpens(i)
    PROVE  IInv'
<1>1. IsPartial(sessions, Sessions, SessionRow)
  BY TablesTyped DEF IInv
<1>2. PICK logon \in {NULL, SessionOf[i].logon_at} :
          sessions' = [j \in DOMAIN sessions \union {i} |->
              IF j = i THEN [logon_at |-> logon, logoff_at |-> NULL,
                             correlation_status |-> NULL]
                       ELSE sessions[j]]
  BY DEF SessionOpens
<1>3. [logon_at |-> logon, logoff_at |-> NULL, correlation_status |-> NULL] \in SessionRow
  BY RowsAssumption DEF Lifecycle, SessionRow, Maybe
<1>4. IsPartial(sessions', Sessions, SessionRow)
  BY <1>1, <1>2, <1>3 DEF IsPartial
<1> QED BY <1>2, <1>4, SessionsIngested DEF SessionOpens, IInv

LEMMA LogonIsKnownKeepsInv ==
    ASSUME IInv, NEW i \in Sessions, LogonIsKnown(i)
    PROVE  IInv'
<1>1. IsPartial(sessions, Sessions, SessionRow)
  BY TablesTyped DEF IInv
<1>2. DOMAIN sessions' = DOMAIN sessions /\ i \in DOMAIN sessions
  BY DEF LogonIsKnown
<1>3. ASSUME NEW j \in DOMAIN sessions
      PROVE  /\ sessions'[j] \in SessionRow
             /\ sessions'[j].correlation_status = sessions[j].correlation_status
  <2>1. sessions[j] \in SessionRow
    BY <1>1 DEF IsPartial
  <2>2. SessionOf[i].logon_at \in Maybe(Nat)
    BY RowsAssumption DEF Lifecycle, Maybe
  <2>3. sessions'[j] = IF j = i THEN [sessions[j] EXCEPT !.logon_at = SessionOf[i].logon_at]
                                ELSE sessions[j]
    BY DEF LogonIsKnown
  <2> QED BY <2>1, <2>2, <2>3 DEF SessionRow
<1>4. sessions' = [j \in DOMAIN sessions |-> sessions'[j]]
  BY DEF LogonIsKnown
<1>5. IsPartial(sessions', Sessions, SessionRow)
  BY <1>1, <1>2, <1>3, <1>4 DEF IsPartial
<1> QED BY <1>2, <1>3, <1>5, SessionsIngested DEF LogonIsKnown, IInv

LEMMA SessionClosesKeepsInv ==
    ASSUME IInv, NEW i \in Sessions, SessionCloses(i)
    PROVE  IInv'
<1>1. IsPartial(sessions, Sessions, SessionRow)
  BY TablesTyped DEF IInv
<1>2. DOMAIN sessions' = DOMAIN sessions /\ i \in DOMAIN sessions
  BY DEF SessionCloses
<1>3. ASSUME NEW j \in DOMAIN sessions
      PROVE  /\ sessions'[j] \in SessionRow
             /\ sessions'[j].correlation_status = sessions[j].correlation_status
  <2>1. sessions[j] \in SessionRow
    BY <1>1 DEF IsPartial
  <2>2. SessionOf[i].logoff_at \in Maybe(Nat)
    BY RowsAssumption DEF Lifecycle
  <2>3. sessions'[j] = IF j = i THEN [sessions[j] EXCEPT !.logoff_at = SessionOf[i].logoff_at]
                                ELSE sessions[j]
    BY DEF SessionCloses
  <2> QED BY <2>1, <2>2, <2>3 DEF SessionRow
<1>4. sessions' = [j \in DOMAIN sessions |-> sessions'[j]]
  BY DEF SessionCloses
<1>5. IsPartial(sessions', Sessions, SessionRow)
  BY <1>1, <1>2, <1>3, <1>4 DEF IsPartial
<1> QED BY <1>2, <1>3, <1>5, SessionsIngested DEF SessionCloses, IInv

-----------------------------------------------------------------------------
(* The rest of a cycle.                                                    *)

\* A new cycle: es and js are the tables with the events found and their jobs.
LEMMA DiscoverFields ==
    ASSUME IInv, Discover
    PROVE  \E found, new, es, js :
               /\ found \subseteq Undiscovered
               /\ new = found \ DOMAIN jobs
               /\ DOMAIN es = DOMAIN events
               /\ \A e \in DOMAIN events :
                     es[e] = IF e \in new THEN "PENDING"
                             ELSE IF e \in found THEN StatusOfExisting(jobs[e])
                             ELSE events[e]
               /\ DOMAIN js = DOMAIN jobs \union new
               /\ \A e \in new : js[e] \in {NewJob(i) : i \in DOMAIN sessions}
               /\ \A e \in DOMAIN jobs : js[e] = jobs[e]
               /\ js \in [DOMAIN js -> {js[e] : e \in DOMAIN js}]
               /\ es \in [DOMAIN es -> {es[e] : e \in DOMAIN es}]
               /\ cycle' = [phase |-> "select", events |-> es, sessions |-> sessions,
                            jobs |-> js, evidence |-> evidence,
                            todo |-> {}, unavailable |-> {}]
<1>1. PICK batch \in Batches(Undiscovered, BatchSize) :
          LET found == {e \in batch : SessionFor(e) # {}}
              new == found \ DOMAIN jobs
          IN  cycle' =
                [phase |-> "select",
                 events |-> [e \in DOMAIN events |->
                     CASE e \in new         -> "PENDING"
                       [] e \in found \ new -> StatusOfExisting(jobs[e])
                       [] OTHER             -> events[e]],
                 sessions |-> sessions,
                 jobs |-> [e \in DOMAIN jobs \union new |->
                     IF e \in new THEN NewJob(CHOOSE i \in SessionFor(e) : TRUE)
                                  ELSE jobs[e]],
                 evidence |-> evidence,
                 todo |-> {}, unavailable |-> {}]
  BY DEF Discover
<1> DEFINE found == {e \in batch : SessionFor(e) # {}}
           new == found \ DOMAIN jobs
           es == [e \in DOMAIN events |->
                     CASE e \in new         -> "PENDING"
                       [] e \in found \ new -> StatusOfExisting(jobs[e])
                       [] OTHER             -> events[e]]
           js == [e \in DOMAIN jobs \union new |->
                     IF e \in new THEN NewJob(CHOOSE i \in SessionFor(e) : TRUE)
                                  ELSE jobs[e]]
<1>2. found \subseteq Undiscovered
  BY DEF Batches
<1>3. \A e \in new : js[e] \in {NewJob(i) : i \in DOMAIN sessions}
  <2> SUFFICES ASSUME NEW e \in new PROVE js[e] \in {NewJob(i) : i \in DOMAIN sessions}
    OBVIOUS
  <2>1. SessionFor(e) # {} /\ SessionFor(e) \subseteq DOMAIN sessions
    BY DEF SessionFor
  <2>2. (CHOOSE i \in SessionFor(e) : TRUE) \in DOMAIN sessions
    BY <2>1
  <2>3. js[e] = NewJob(CHOOSE i \in SessionFor(e) : TRUE)
    OBVIOUS
  <2> HIDE DEF js
  <2> QED BY <2>2, <2>3
<1>4. \A e \in DOMAIN jobs : js[e] = jobs[e]
  OBVIOUS
<1>5. \A e \in DOMAIN events :
          es[e] = IF e \in new THEN "PENDING"
                  ELSE IF e \in found THEN StatusOfExisting(jobs[e])
                  ELSE events[e]
  OBVIOUS
<1>6. DOMAIN es = DOMAIN events /\ DOMAIN js = DOMAIN jobs \union new
  OBVIOUS
<1>7. /\ js \in [DOMAIN js -> {js[e] : e \in DOMAIN js}]
      /\ es \in [DOMAIN es -> {es[e] : e \in DOMAIN es}]
  <2>1. js = [e \in DOMAIN js |-> js[e]]
    OBVIOUS
  <2>2. es = [e \in DOMAIN es |-> es[e]]
    OBVIOUS
  <2> HIDE DEF js, es
  <2> QED BY <2>1, <2>2
<1>8. cycle' = [phase |-> "select", events |-> es, sessions |-> sessions,
                jobs |-> js, evidence |-> evidence, todo |-> {}, unavailable |-> {}]
  BY <1>1
<1>9. new = found \ DOMAIN jobs
  OBVIOUS
<1> HIDE DEF es, js, new, found
<1> QED BY <1>2, <1>3, <1>4, <1>5, <1>6, <1>7, <1>8, <1>9

LEMMA DiscoverKeepsInv ==
    ASSUME IInv, Discover
    PROVE  IInv'
<1>1. PICK found, new, es, js :
               /\ found \subseteq Undiscovered
               /\ new = found \ DOMAIN jobs
               /\ DOMAIN es = DOMAIN events
               /\ \A e \in DOMAIN events :
                     es[e] = IF e \in new THEN "PENDING"
                             ELSE IF e \in found THEN StatusOfExisting(jobs[e])
                             ELSE events[e]
               /\ DOMAIN js = DOMAIN jobs \union new
               /\ \A e \in new : js[e] \in {NewJob(i) : i \in DOMAIN sessions}
               /\ \A e \in DOMAIN jobs : js[e] = jobs[e]
               /\ js \in [DOMAIN js -> {js[e] : e \in DOMAIN js}]
               /\ es \in [DOMAIN es -> {es[e] : e \in DOMAIN es}]
               /\ cycle' = [phase |-> "select", events |-> es, sessions |-> sessions,
                            jobs |-> js, evidence |-> evidence,
                            todo |-> {}, unavailable |-> {}]
  BY DiscoverFields
<1>2. UNCHANGED <<events, sessions, jobs, evidence, deleted>>
  BY DEF Discover
<1>3. /\ IsPartial(events, Events, Maybe(JobStatus))
      /\ IsPartial(sessions, Sessions, SessionRow)
      /\ IsPartial(jobs, Events, JobRow)
      /\ IsPartial(evidence, Events, EvidenceRow)
  BY TablesTyped DEF IInv
<1>4. Agree(events, jobs, evidence, deleted) /\ Placed(jobs, sessions, deleted)
  BY DEF IInv, Consistent
<1>5. \A e \in new : e \in DOMAIN events /\ e \in Events /\ e \notin DOMAIN evidence
  BY <1>1, <1>3, <1>4 DEF Undiscovered, Agree, IsPartial
<1>6. ASSUME NEW e \in found \ new
      PROVE  e \in DOMAIN jobs /\ jobs[e].status \in Queued /\ e \in DOMAIN evidence
  <2>1. e \in DOMAIN jobs /\ e \in DOMAIN events /\ events[e] = NULL
    BY <1>1 DEF Undiscovered
  <2>2. jobs[e].status \in JobStatus
    BY <1>3, <2>1 DEF IsPartial, JobRow
  <2>3. Told(jobs[e].status) # NULL
    BY <2>2, NullAssumption DEF Told, JobStatus, Queued
  <2> QED BY <1>4, <2>1, <2>3 DEF Agree
<1>7. ASSUME NEW e \in found \ new PROVE es[e] = "PENDING"
  <2>1. e \in DOMAIN events
    BY <1>1 DEF Undiscovered
  <2>2. StatusOfExisting(jobs[e]) = "PENDING"
    BY <1>6 DEF StatusOfExisting, Terminal, Queued
  <2> QED BY <1>1, <2>1, <2>2
<1>8. ASSUME NEW e \in new
      PROVE  /\ js[e] \in JobRow /\ js[e].session \in DOMAIN sessions
             /\ js[e].status = "PENDING" /\ js[e].attempt_count = 0 /\ js[e].wait = 0
  <2>1. PICK i \in DOMAIN sessions : js[e] = NewJob(i)
    BY <1>1
  <2>2. i \in Sessions /\ 0 \in 0..MaxAttempts /\ 0 \in 0..RetryCap /\ "PENDING" \in JobStatus
    BY <1>3, Settings DEF IsPartial, JobStatus, Queued
  <2> QED BY <2>1, <2>2 DEF NewJob, JobRow
<1>9. Agree(es, js, evidence, deleted)
  <2>1. DOMAIN evidence \subseteq DOMAIN js /\ DOMAIN js \subseteq DOMAIN es
    BY <1>1, <1>4, <1>5 DEF Agree
  <2>2. \A e \in DOMAIN es \ DOMAIN js : es[e] = NULL
    BY <1>1, <1>4 DEF Agree
  <2>3. ASSUME NEW e \in DOMAIN js
        PROVE  /\ js[e].status \in Terminal =>
                      e \in DOMAIN evidence /\ evidence[e].status = js[e].status
               /\ js[e].status = "FAILED" /\ e \in DOMAIN evidence => js[e].session \in deleted
               /\ js[e].status \in Queued /\ e \notin DOMAIN evidence =>
                      js[e].attempt_count < MaxAttempts
               /\ e \in DOMAIN evidence => evidence[e].session = js[e].session
               /\ \/ es[e] = Told(js[e].status)
                  \/ js[e].status \in Queued /\ e \in DOMAIN evidence /\ es[e] = NULL
    <3>1. CASE e \in new
      <4>1. es[e] = "PENDING" /\ Told("PENDING") = "PENDING"
        BY <1>1, <1>5, <3>1 DEF Told
      <4> QED BY <1>5, <1>8, <3>1, <4>1, Settings DEF Terminal
    <3>2. CASE e \notin new /\ e \in found
      <4>1. js[e] = jobs[e] /\ e \in DOMAIN jobs
        BY <1>1, <3>2
      <4>2. Told(jobs[e].status) = "PENDING"
        BY <1>6, <3>2 DEF Told
      <4> QED BY <1>4, <1>7, <3>2, <4>1, <4>2 DEF Agree
    <3>3. CASE e \notin found
      <4>1. js[e] = jobs[e] /\ e \in DOMAIN jobs /\ e \in DOMAIN events
        BY <1>1, <1>4, <3>3 DEF Agree
      <4>2. es[e] = events[e]
        BY <1>1, <3>3, <4>1
      <4> QED BY <1>4, <4>1, <4>2 DEF Agree
    <3> QED BY <3>1, <3>2, <3>3
  <2> QED BY <2>1, <2>2, <2>3 DEF Agree
<1>10. Consistent(es, sessions, js, evidence, deleted)
  <2>1. Placed(js, sessions, deleted)
    BY <1>1, <1>4, <1>8 DEF Placed
  <2> QED BY <1>9, <2>1 DEF IInv, Consistent
<1>11. IsPartial(js, Events, JobRow)
  <2>1. DOMAIN js \subseteq Events
    BY <1>1, <1>3, <1>5 DEF IsPartial
  <2>2. \A e \in DOMAIN js : js[e] \in JobRow
    BY <1>1, <1>3, <1>8 DEF IsPartial
  <2> QED BY <1>1, <2>1, <2>2 DEF IsPartial
<1>12. IsPartial(es, Events, Maybe(JobStatus))
  <2>1. \A e \in DOMAIN es : es[e] \in Maybe(JobStatus)
    <3>1. "PENDING" \in Maybe(JobStatus)
      BY DEF Maybe, JobStatus, Queued
    <3> QED BY <1>1, <1>3, <1>7, <3>1 DEF IsPartial
  <2> QED BY <1>1, <1>3, <2>1 DEF IsPartial
<1>13. /\ cycle'.phase = "select" /\ cycle'.events = es /\ cycle'.sessions = sessions
       /\ cycle'.jobs = js /\ cycle'.evidence = evidence /\ cycle'.todo = {}
       /\ IsCycle(cycle')
  BY <1>1 DEF IsCycle
<1>14. TypeOK'
  <2>1. IsDatabase(cycle')
    BY <1>3, <1>11, <1>12, <1>13 DEF IsDatabase
  <2>2. IsDatabase(Tables)'
    BY <1>2 DEF IInv, TypeOK, Tables
  <2> QED BY <1>13, <2>1, <2>2 DEF TypeOK, Running
<1>15. CycleInv'
  <2>1. Ready'
    BY <1>13 DEF Ready
  <2>2. Ingested'
    BY <1>1, <1>2, <1>13 DEF Ingested
  <2>3. Keeps(evidence', cycle'.evidence)
    BY <1>2, <1>13 DEF Keeps
  <2> QED BY <1>2, <1>10, <1>13, <2>1, <2>2, <2>3 DEF CycleInv
<1> QED BY <1>2, <1>14, <1>15 DEF IInv

LEMMA SelectFields ==
    ASSUME IInv, Select
    PROVE  \E batch \in SUBSET Due :
               cycle' = [phase |-> "process", events |-> cycle.events,
                         sessions |-> cycle.sessions, jobs |-> cycle.jobs,
                         evidence |-> cycle.evidence, todo |-> batch,
                         unavailable |-> cycle.unavailable]
<1>1. PICK batch \in Batches(Due, BatchSize) :
          cycle' = [cycle EXCEPT !.phase = "process", !.todo = batch]
  BY DEF Select
<1>2. Running
  BY DEF Select, Running
<1>3. IsCycle(cycle)
  BY <1>2, RunningCycle DEF CycleInv
<1>4. batch \in SUBSET Due
  BY DEF Batches
<1> QED BY <1>1, <1>3, <1>4 DEF IsCycle

LEMMA SelectKeepsInv ==
    ASSUME IInv, Select
    PROVE  IInv'
<1>1. PICK batch \in SUBSET Due :
          cycle' = [phase |-> "process", events |-> cycle.events,
                    sessions |-> cycle.sessions, jobs |-> cycle.jobs,
                    evidence |-> cycle.evidence, todo |-> batch,
                    unavailable |-> cycle.unavailable]
  BY SelectFields
<1>2. /\ cycle'.phase = "process" /\ cycle'.events = cycle.events
      /\ cycle'.sessions = cycle.sessions /\ cycle'.jobs = cycle.jobs
      /\ cycle'.evidence = cycle.evidence /\ cycle'.todo = batch /\ IsCycle(cycle')
  BY <1>1 DEF IsCycle
<1>3. UNCHANGED <<events, sessions, jobs, evidence, deleted>>
  BY DEF Select
<1>4. Running /\ CycleInv /\ IsDatabase(cycle)
  BY RunningCycle DEF Select, Running
<1>5. TypeOK'
  <2>1. IsDatabase(cycle')
    BY <1>2, <1>4 DEF IsDatabase
  <2>2. IsDatabase(Tables)'
    BY <1>3 DEF IInv, TypeOK, Tables
  <2>3. cycle'.todo \subseteq DOMAIN cycle'.jobs
    BY <1>2 DEF Due
  <2> QED BY <1>2, <2>1, <2>2, <2>3 DEF TypeOK, Running
<1>6. CycleInv'
  <2>1. Ready'
    BY <1>2 DEF Ready, Due
  <2>2. Ingested' /\ Keeps(evidence', cycle'.evidence)
    BY <1>2, <1>3, <1>4 DEF CycleInv, Ingested
  <2> QED BY <1>2, <1>3, <1>4, <2>1, <2>2 DEF CycleInv
<1> QED BY <1>3, <1>5, <1>6 DEF IInv

\* The columns correlation owns are those of the view, the others the API's.
LEMMA CommitRow ==
    ASSUME IInv, Commit
    PROVE  /\ DOMAIN sessions' = DOMAIN sessions
           /\ IsPartial(sessions', Sessions, SessionRow)
           /\ \A i \in DOMAIN sessions :
                 /\ sessions'[i].logon_at = sessions[i].logon_at
                 /\ sessions'[i].logoff_at = sessions[i].logoff_at
                 /\ sessions'[i].correlation_status =
                       IF i \in DOMAIN cycle.sessions
                       THEN cycle.sessions[i].correlation_status
                       ELSE sessions[i].correlation_status
<1>1. IsDatabase(cycle) /\ IsPartial(sessions, Sessions, SessionRow)
  BY RunningCycle, TablesTyped DEF Commit, Running, IInv
<1>2. DOMAIN sessions' = DOMAIN sessions /\ sessions' = [i \in DOMAIN sessions |-> sessions'[i]]
  BY DEF Commit
<1>3. ASSUME NEW i \in DOMAIN sessions
      PROVE  /\ sessions'[i] \in SessionRow
             /\ sessions'[i].logon_at = sessions[i].logon_at
             /\ sessions'[i].logoff_at = sessions[i].logoff_at
             /\ sessions'[i].correlation_status =
                       IF i \in DOMAIN cycle.sessions
                       THEN cycle.sessions[i].correlation_status
                       ELSE sessions[i].correlation_status
  <2>1. sessions[i] \in SessionRow
    BY <1>1 DEF IsPartial
  <2>2. CASE i \in DOMAIN cycle.sessions
    <3>1. cycle.sessions[i].correlation_status \in Maybe(Terminal)
      BY <1>1, <2>2 DEF IsDatabase, IsPartial, SessionRow
    <3>2. sessions'[i] = [sessions[i] EXCEPT
              !.correlation_status = cycle.sessions[i].correlation_status]
      BY <2>2 DEF Commit
    <3> QED BY <2>1, <2>2, <3>1, <3>2 DEF SessionRow
  <2>3. CASE i \notin DOMAIN cycle.sessions
    <3>1. sessions'[i] = sessions[i]
      BY <2>3 DEF Commit
    <3> QED BY <2>1, <2>3, <3>1
  <2> QED BY <2>2, <2>3
<1>4. IsPartial(sessions', Sessions, SessionRow)
  BY <1>1, <1>2, <1>3 DEF IsPartial
<1> QED BY <1>2, <1>3, <1>4

LEMMA CommitKeepsInv ==
    ASSUME IInv, Commit
    PROVE  IInv'
<1>1. Running /\ CycleInv /\ IsDatabase(cycle)
  BY RunningCycle DEF Commit, Running
<1>2. IsPartial(events, Events, Maybe(JobStatus))
  BY TablesTyped DEF IInv
<1>3. jobs' = cycle.jobs /\ evidence' = cycle.evidence /\ cycle' = Idle /\ deleted' = deleted
  BY DEF Commit
<1>4. /\ DOMAIN events' = DOMAIN events
      /\ \A e \in DOMAIN events :
            events'[e] = IF e \in DOMAIN cycle.events THEN cycle.events[e] ELSE events[e]
  BY DEF Commit
<1>5. IsPartial(events', Events, Maybe(JobStatus))
  <2>1. \A e \in DOMAIN events : events'[e] \in Maybe(JobStatus)
    BY <1>1, <1>2, <1>4 DEF IsDatabase, IsPartial
  <2>2. events' = [e \in DOMAIN events |-> events'[e]]
    BY DEF Commit
  <2> QED BY <1>2, <1>4, <2>1, <2>2 DEF IsPartial
<1>6. TypeOK'
  <2>1. IsDatabase(Tables)'
    BY <1>1, <1>3, <1>5, CommitRow DEF IsDatabase, Tables
  <2> QED BY <1>3, <2>1 DEF TypeOK, Running, Idle
<1>7. /\ Agree(cycle.events, cycle.jobs, cycle.evidence, deleted)
      /\ Placed(cycle.jobs, cycle.sessions, deleted)
      /\ ShowsLatest(cycle.sessions, cycle.evidence)
      /\ Ingested
  BY <1>1 DEF CycleInv, Consistent
<1>8. Agree(events', jobs', evidence', deleted')
  <2>1. DOMAIN evidence' \subseteq DOMAIN jobs' /\ DOMAIN jobs' \subseteq DOMAIN events'
    BY <1>3, <1>4, <1>7 DEF Agree, Ingested
  <2>2. \A e \in DOMAIN events' \ DOMAIN jobs' : events'[e] = NULL
    BY <1>3, <1>4, <1>7 DEF Agree, Ingested
  <2>3. \A e \in DOMAIN jobs' : e \in DOMAIN cycle.events /\ events'[e] = cycle.events[e]
    BY <1>3, <1>4, <1>7 DEF Agree, Ingested
  <2> QED BY <1>3, <1>7, <2>1, <2>2, <2>3 DEF Agree
<1>9. Placed(jobs', sessions', deleted')
  BY <1>3, <1>7, CommitRow DEF Placed, Ingested
<1>10. ShowsLatest(sessions', evidence')
  <2> SUFFICES ASSUME NEW i \in DOMAIN sessions
               PROVE  /\ (\A e \in DOMAIN evidence' : evidence'[e].session # i) =>
                             sessions'[i].correlation_status = NULL
                      /\ \A e \in Latest(evidence', i) :
                             sessions'[i].correlation_status = evidence'[e].status
    BY CommitRow DEF ShowsLatest
  <2>1. CASE i \in DOMAIN cycle.sessions
    BY <1>3, <1>7, <2>1, CommitRow DEF ShowsLatest
  <2>2. CASE i \notin DOMAIN cycle.sessions
    <3>1. sessions'[i].correlation_status = NULL
      BY <1>7, <2>2, CommitRow DEF Ingested
    <3>2. i \notin deleted
      BY DEF IInv
    <3>3. \A e \in DOMAIN evidence' : evidence'[e].session # i
      BY <1>3, <1>7, <2>2, <3>2 DEF Agree, Placed
    <3>4. Latest(evidence', i) = {}
      BY <3>3 DEF Latest
    <3> QED BY <3>1, <3>4
  <2> QED BY <2>1, <2>2
<1>11. DOMAIN sessions' \cap deleted' = {}
  BY <1>3, CommitRow DEF IInv
<1>12. ~Running'
  BY <1>3 DEF Running, Idle
<1> QED BY <1>6, <1>8, <1>9, <1>10, <1>11, <1>12 DEF IInv, Consistent

\* Nothing is committed, and no cycle runs.
LEMMA NoCycleKeepsInv ==
    ASSUME IInv, UNCHANGED <<events, sessions, jobs, evidence, deleted>>,
           cycle' \in {Idle, Failed}
    PROVE  IInv'
<1>1. ~Running'
  BY DEF Running, Idle, Failed
<1>2. TypeOK'
  BY <1>1 DEF IInv, TypeOK, IsDatabase, Tables
<1> QED BY <1>1, <1>2 DEF IInv

-----------------------------------------------------------------------------
(* Time and operators.                                                     *)

\* Time changes nothing of a job but its wait, and never adds to that.
LEMMA TickRow ==
    ASSUME IInv, Tick
    PROVE  /\ DOMAIN jobs' = DOMAIN jobs
           /\ jobs' = [e \in DOMAIN jobs |-> jobs'[e]]
           /\ \A e \in DOMAIN jobs :
                 /\ jobs'[e] \in JobRow
                 /\ jobs'[e].session = jobs[e].session
                 /\ jobs'[e].status = jobs[e].status
                 /\ jobs'[e].attempt_count = jobs[e].attempt_count
                 /\ jobs'[e].wait = IF jobs[e].wait > 0 THEN jobs[e].wait - 1 ELSE 0
<1>1. DOMAIN jobs' = DOMAIN jobs /\ jobs' = [e \in DOMAIN jobs |-> jobs'[e]]
  BY DEF Tick
<1>2. ASSUME NEW e \in DOMAIN jobs
      PROVE  /\ jobs'[e] \in JobRow
             /\ jobs'[e].session = jobs[e].session
             /\ jobs'[e].status = jobs[e].status
             /\ jobs'[e].attempt_count = jobs[e].attempt_count
             /\ jobs'[e].wait = IF jobs[e].wait > 0 THEN jobs[e].wait - 1 ELSE 0
  <2> DEFINE left == IF jobs[e].wait > 0 THEN jobs[e].wait - 1 ELSE 0
  <2>1. jobs[e] \in JobRow
    BY TablesTyped DEF IInv, IsPartial
  <2>2. left \in 0..RetryCap
    BY <2>1, Settings DEF JobRow
  <2>3. jobs'[e] = [jobs[e] EXCEPT !.wait = left]
    BY DEF Tick
  <2> HIDE DEF left
  <2>4. /\ jobs'[e] \in JobRow
        /\ jobs'[e].session = jobs[e].session
        /\ jobs'[e].status = jobs[e].status
        /\ jobs'[e].attempt_count = jobs[e].attempt_count
        /\ jobs'[e].wait = left
    BY <2>1, <2>2, <2>3 DEF JobRow
  <2> QED BY <2>4 DEF left
<1> QED BY <1>1, <1>2

\* Nothing but jobs, with what they are of, and events change between cycles.
LEMMA JobsChange ==
    ASSUME IInv, cycle = Idle, UNCHANGED <<sessions, evidence, deleted, cycle>>,
           IsPartial(events', Events, Maybe(JobStatus)),
           IsPartial(jobs', Events, JobRow),
           DOMAIN jobs' = DOMAIN jobs,
           \A e \in DOMAIN jobs : jobs'[e].session = jobs[e].session,
           Agree(events', jobs', evidence, deleted)
    PROVE  IInv'
<1>1. ~Running'
  BY DEF Running, Idle
<1>2. TypeOK'
  BY <1>1 DEF IInv, TypeOK, IsDatabase, Tables
<1>3. Placed(jobs', sessions, deleted)
  BY DEF IInv, Consistent, Placed
<1> QED BY <1>1, <1>2, <1>3 DEF IInv, Consistent

LEMMA TickKeepsInv ==
    ASSUME IInv, Tick
    PROVE  IInv'
<1>1. IsPartial(jobs', Events, JobRow) /\ IsPartial(events, Events, Maybe(JobStatus))
  BY TickRow, TablesTyped DEF IInv, IsPartial
<1>2. Agree(events, jobs', evidence, deleted)
  <2>1. Agree(events, jobs, evidence, deleted)
    BY DEF IInv, Consistent
  <2> QED BY <2>1, TickRow DEF Agree
<1> QED BY <1>1, <1>2, TickRow, JobsChange DEF Tick

LEMMA RequeueRow ==
    ASSUME IInv, NEW e, Requeue(e)
    PROVE  /\ DOMAIN jobs' = DOMAIN jobs /\ DOMAIN events' = DOMAIN events
           /\ e \in DOMAIN jobs /\ e \in DOMAIN events /\ e \in DOMAIN evidence
           /\ jobs' = [f \in DOMAIN jobs |-> jobs'[f]]
           /\ events' = [f \in DOMAIN events |-> events'[f]]
           /\ jobs'[e] \in JobRow /\ jobs'[e].session = jobs[e].session
           /\ jobs'[e].status = "PENDING" /\ events'[e] = NULL
           /\ \A f \in DOMAIN jobs : f # e => jobs'[f] = jobs[f]
           /\ \A f \in DOMAIN events : f # e => events'[f] = events[f]
<1>1. e \in DOMAIN jobs /\ jobs[e] \in JobRow
  BY TablesTyped DEF IInv, IsPartial, Requeue
<1>2. jobs'[e] = [jobs[e] EXCEPT !.status = "PENDING"]
  BY <1>1 DEF Requeue
<1>3. "PENDING" \in JobStatus
  BY DEF JobStatus, Queued
<1>4. jobs'[e] \in JobRow /\ jobs'[e].session = jobs[e].session /\ jobs'[e].status = "PENDING"
  BY <1>1, <1>2, <1>3 DEF JobRow
<1>5. e \in DOMAIN events /\ e \in DOMAIN evidence
  BY <1>1 DEF IInv, Consistent, Agree, Requeue
<1> QED BY <1>1, <1>4, <1>5 DEF Requeue

LEMMA RequeueKeepsInv ==
    ASSUME IInv, NEW e, Requeue(e)
    PROVE  IInv'
<1>1. IsPartial(jobs', Events, JobRow)
  BY RequeueRow, TablesTyped DEF IInv, IsPartial
<1>2. IsPartial(events', Events, Maybe(JobStatus))
  BY RequeueRow, TablesTyped DEF IInv, IsPartial, Maybe
<1>3. Agree(events', jobs', evidence, deleted)
  <2>1. Agree(events, jobs, evidence, deleted)
    BY DEF IInv, Consistent
  <2>2. DOMAIN evidence \subseteq DOMAIN jobs' /\ DOMAIN jobs' \subseteq DOMAIN events'
    BY <2>1, RequeueRow DEF Agree
  <2>3. \A f \in DOMAIN events' \ DOMAIN jobs' : events'[f] = NULL
    BY <2>1, RequeueRow DEF Agree
  <2>4. ASSUME NEW f \in DOMAIN jobs'
        PROVE  /\ jobs'[f].status \in Terminal =>
                      f \in DOMAIN evidence /\ evidence[f].status = jobs'[f].status
               /\ jobs'[f].status = "FAILED" /\ f \in DOMAIN evidence =>
                      jobs'[f].session \in deleted
               /\ jobs'[f].status \in Queued /\ f \notin DOMAIN evidence =>
                      jobs'[f].attempt_count < MaxAttempts
               /\ f \in DOMAIN evidence => evidence[f].session = jobs'[f].session
               /\ \/ events'[f] = Told(jobs'[f].status)
                  \/ jobs'[f].status \in Queued /\ f \in DOMAIN evidence /\ events'[f] = NULL
    <3>1. CASE f = e
      <4>1. evidence[e].session = jobs[e].session
        BY <2>1, RequeueRow DEF Agree
      <4> QED BY <3>1, <4>1, RequeueRow DEF Terminal, Queued
    <3>2. CASE f # e
      <4>1. f \in DOMAIN jobs /\ f \in DOMAIN events
        BY <2>1, RequeueRow DEF Agree
      <4>2. jobs'[f] = jobs[f] /\ events'[f] = events[f]
        BY <3>2, <4>1, RequeueRow
      <4> QED BY <2>1, <4>1, <4>2 DEF Agree
    <3> QED BY <3>1, <3>2
  <2> QED BY <2>2, <2>3, <2>4 DEF Agree
<1> QED BY <1>1, <1>2, <1>3, RequeueRow, JobsChange DEF Requeue

LEMMA PurgeKeepsInv ==
    ASSUME IInv, NEW i \in Sessions, Purge(i)
    PROVE  IInv'
<1>1. /\ DOMAIN sessions' = DOMAIN sessions \ {i} /\ i \in DOMAIN sessions
      /\ \A j \in DOMAIN sessions' : sessions'[j] = sessions[j]
      /\ deleted' = deleted \union {i} /\ cycle = Idle
      /\ UNCHANGED <<events, jobs, evidence, cycle>>
  BY DEF Purge
<1>2. IsPartial(sessions', Sessions, SessionRow)
  BY TablesTyped DEF IInv, IsPartial, Purge
<1>3. ~Running'
  BY <1>1 DEF Running, Idle
<1>4. TypeOK'
  BY <1>1, <1>2, <1>3 DEF IInv, TypeOK, IsDatabase, Tables
<1>5. Agree(events', jobs', evidence', deleted')
  <2>1. Agree(events, jobs, evidence, deleted)
    BY DEF IInv, Consistent
  <2> QED BY <1>1, <2>1 DEF Agree
<1>6. Placed(jobs', sessions', deleted')
  BY <1>1 DEF IInv, Consistent, Placed
<1>7. ShowsLatest(sessions', evidence')
  BY <1>1 DEF IInv, Consistent, ShowsLatest
<1>8. DOMAIN sessions' \cap deleted' = {}
  BY <1>1 DEF IInv
<1> QED BY <1>3, <1>4, <1>5, <1>6, <1>7, <1>8 DEF IInv, Consistent

-----------------------------------------------------------------------------
(* The invariant, and what follows from it.                                *)

LEMMA NextKeepsInv == IInv /\ [Next]_vars => IInv'
<1> SUFFICES ASSUME IInv, [Next]_vars PROVE IInv'
  OBVIOUS
<1>1. CASE Api
  BY <1>1, EventArrivesKeepsInv, SessionOpensKeepsInv, LogonIsKnownKeepsInv,
     SessionClosesKeepsInv DEF Api
<1>2. CASE Discover
  BY <1>2, DiscoverKeepsInv
<1>3. CASE Select
  BY <1>3, SelectKeepsInv
<1>4. CASE Process
  BY <1>4, ProcessKinds, ProcessKeepsInv
<1>5. CASE Commit
  BY <1>5, CommitKeepsInv
<1>6. CASE Resume
  BY <1>6, NoCycleKeepsInv DEF Resume
<1>7. CASE CycleAborts \/ Crash
  BY <1>7, NoCycleKeepsInv DEF CycleAborts, Abort, Crash, Rollback
<1>8. CASE Tick
  BY <1>8, TickKeepsInv
<1>9. CASE Operator
  BY <1>9, RequeueKeepsInv, PurgeKeepsInv DEF Operator
<1>10. CASE UNCHANGED vars
  <2>1. UNCHANGED <<events, sessions, jobs, evidence, deleted, cycle>>
    BY <1>10 DEF vars
  <2>2. TypeOK'
    BY <2>1 DEF IInv, TypeOK, IsDatabase, Tables, Running
  <2>3. Running' => CycleInv'
    BY <2>1 DEF IInv, Running, CycleInv, Ready, Ingested
  <2> QED BY <2>1, <2>2, <2>3 DEF IInv
<1> QED BY <1>1, <1>2, <1>3, <1>4, <1>5, <1>6, <1>7, <1>8, <1>9, <1>10 DEF Next, Worker

LEMMA Invariant == Spec => []IInv
BY InitInv, NextKeepsInv, PTL DEF Spec

(* The columns of the four tables keep to their domains, committed and in  *)
(* the view of a cycle, and no job is tried more than MaxAttempts times.   *)
THEOREM TypeCorrect == Spec => []TypeOK
<1>1. IInv => TypeOK
  BY DEF IInv
<1> QED BY <1>1, Invariant, PTL

(* sessions.correlation_status is the status of the newest evidence, in    *)
(* whatever order jobs are answered and whatever the API commits during a  *)
(* cycle: UpdateIfLatest looks at the evidence of the cycle, and Commit    *)
(* writes its columns over the rows as they are by then.                   *)
THEOREM ShowsLatestAlways == Spec => []SessionShowsLatest
<1>1. ASSUME IInv PROVE SessionShowsLatest
  <2> SUFFICES ASSUME NEW i \in DOMAIN sessions
               PROVE  LET S == {e \in DOMAIN evidence : evidence[e].session = i}
                      IN  IF S = {} THEN sessions[i].correlation_status = NULL
                          ELSE \A e \in Latest(evidence, i) :
                                  sessions[i].correlation_status = evidence[e].status
    BY DEF SessionShowsLatest
  <2> QED BY <1>1 DEF IInv, Consistent, ShowsLatest
<1> QED BY <1>1, Invariant, PTL

(* A committed job, its event and its evidence tell one story, after any   *)
(* mixture of answers, retries, crashes, jobs queued again and sessions    *)
(* deleted: process_correlation_jobs changes all three or none.            *)
THEOREM RecordsAlwaysAgree == Spec => []RecordsAgree
<1>1. ASSUME IInv PROVE RecordsAgree
  <2>1. Agree(events, jobs, evidence, deleted)
    BY <1>1 DEF IInv, Consistent
  <2> SUFFICES ASSUME NEW e \in DOMAIN events
               PROVE  IF e \notin DOMAIN jobs
                      THEN events[e] = NULL /\ e \notin DOMAIN evidence
                      ELSE /\ jobs[e].status \in Terminal =>
                                e \in DOMAIN evidence /\ evidence[e].status = jobs[e].status
                           /\ e \in DOMAIN evidence => evidence[e].session = jobs[e].session
                           /\ jobs[e].status = "FAILED" /\ e \in DOMAIN evidence =>
                                jobs[e].session \in deleted
                           /\ \/ events[e] = IF jobs[e].status \in Queued THEN "PENDING"
                                                                          ELSE jobs[e].status
                              \/ Requeued(e) /\ events[e] = NULL
    BY DEF RecordsAgree
  <2> QED BY <2>1 DEF Agree, Told, Requeued
<1> QED BY <1>1, Invariant, PTL

LEMMA EvidenceStays ==
    ASSUME IInv, [Next]_vars
    PROVE  Keeps(evidence, evidence')
<1>1. CASE Commit
  <2>1. CycleInv
    BY <1>1, RunningCycle DEF Commit, Running
  <2> QED BY <1>1, <2>1 DEF Commit, CycleInv, Keeps
<1>2. CASE UNCHANGED evidence
  BY <1>2 DEF Keeps
<1>3. Commit \/ UNCHANGED evidence
  BY DEF Next, vars, Api, EventArrives, SessionOpens, LogonIsKnown, SessionCloses, Worker,
     Discover, Select, Process, SessionMissing, Restore, Reply, Answer, Ask, Unavailable,
     ProtocolError, NextJob, Resume, CycleAborts, Abort, Crash, Rollback, Tick, Operator,
     Requeue, Purge
<1> QED BY <1>1, <1>2, <1>3

(* Frozen evidence: no commit rewrites or drops what an earlier one wrote, *)
(* because a cycle that finds evidence of its job does not ask again.      *)
THEOREM EvidenceIsFrozen == Spec => EvidenceFrozen
<1>1. IInv /\ [Next]_vars =>
          [\A e \in DOMAIN evidence :
              e \in DOMAIN evidence' /\ evidence'[e] = evidence[e]]_vars
  BY EvidenceStays DEF Keeps
<1> QED BY <1>1, Invariant, PTL DEF Spec, EvidenceFrozen

(* An answer the resolver did give takes the other jobs of its cycle along *)
(* only if it rejects the worker, or is too deep to parse, or has too large*)
(* a confidence, or is no JSON to the database: whatever else is wrong with*)
(* it is noticed by _evidence_from_payload before the row is written.      *)
THEOREM MalformedStaysLocal == Spec => MalformedAnswersStayLocal
<1>1. ASSUME NEW e \in Events, NEW a \in Answers, Abort(e, a)
      PROVE  \/ a.http \in {401, 403, 404}
             \/ a.json = "too deep"
             \/ /\ a.json = "object"
                /\ a.payload.confidence = "huge" \/ ~a.payload.storable
  <2>1. OutcomeOf[a] \notin {NULL, "ResolverUnavailable", "ResolverProtocolError"}
    BY <1>1 DEF Abort
  <2>2. a \in HttpAnswers /\ OutcomeOf[a] = Outcome(a)
    BY OutcomeOfAnswer
  <2> QED BY <2>1, <2>2, AbortingAnswers
<1>2. [Next]_vars =>
          [\A e \in Events, a \in Answers :
              Abort(e, a) =>
                  \/ a.http \in {401, 403, 404}
                  \/ a.json = "too deep"
                  \/ /\ a.json = "object"
                     /\ a.payload.confidence = "huge" \/ ~a.payload.storable]_vars
  BY <1>1
<1> QED BY <1>2, PTL DEF Spec, MalformedAnswersStayLocal

-----------------------------------------------------------------------------
(***************************************************************************)
(* The correlation worker implements JobLifecycle when no operator queues  *)
(* a job again, and its metrics count what there is.                       *)
(*                                                                         *)
(* A step of JobLifecycle is a whole commit, so the invariant says how far *)
(* the cycle in progress has come: each job of its view is what committed  *)
(* it would be a move of that job, and a job it has yet to process is as   *)
(* the cycle found it, or made it.  A queued job must have no evidence: if *)
(* it had, the cycle would settle it without an attempt.                   *)
(***************************************************************************)

\* Whatever has evidence is resolved.
Resolved(js, ev) == \A e \in DOMAIN ev : js[e].status \in Terminal

\* The job of event e in table js, as JobLifecycle sees it.
JobIn(js, e) ==
    IF e \in DOMAIN js
    THEN [status |-> js[e].status, attempts |-> js[e].attempt_count, wait |-> js[e].wait]
    ELSE [status |-> "NONE", attempts |-> 0, wait |-> 0]

\* How a cycle finds job j, or makes it if there is none.
Start(j) == IF j = Lifecycles!NoJob THEN Lifecycles!NewJob ELSE j

Progress ==
    \A e \in Events :
        /\ Lifecycles!Moved(JobIn(jobs, e), JobIn(cycle.jobs, e))
        /\ e \in DOMAIN cycle.jobs /\ (cycle.phase = "select" \/ e \in cycle.todo) =>
              JobIn(cycle.jobs, e) = Start(JobIn(jobs, e))

NoRequeueInv ==
    /\ Resolved(jobs, evidence)
    /\ Running => Resolved(cycle.jobs, cycle.evidence) /\ Progress

-----------------------------------------------------------------------------
(* Without jobs queued again.                                              *)

LEMMA IdleNoRequeue ==
    ASSUME NoRequeueInv, UNCHANGED <<jobs, evidence>>, ~Running'
    PROVE  NoRequeueInv'
BY DEF NoRequeueInv

LEMMA SameNoRequeue ==
    ASSUME NoRequeueInv, UNCHANGED <<jobs, evidence, cycle>>
    PROVE  NoRequeueInv'
BY DEF NoRequeueInv, Running, Progress

LEMMA MovedNot ==
    ASSUME NEW j PROVE Lifecycles!Moved(j, j) /\ Lifecycles!Moved(j, Start(j))
BY DEF Lifecycles!Moved, Start

LEMMA DiscoverNoRequeue ==
    ASSUME IInv, NoRequeueInv, Discover
    PROVE  NoRequeueInv'
<1>1. PICK found, new, es, js :
               /\ new = found \ DOMAIN jobs
               /\ DOMAIN js = DOMAIN jobs \union new
               /\ \A e \in new : js[e] \in {NewJob(i) : i \in DOMAIN sessions}
               /\ \A e \in DOMAIN jobs : js[e] = jobs[e]
               /\ cycle' = [phase |-> "select", events |-> es, sessions |-> sessions,
                            jobs |-> js, evidence |-> evidence,
                            todo |-> {}, unavailable |-> {}]
  BY DiscoverFields
<1>2. UNCHANGED <<jobs, evidence>>
  BY DEF Discover
<1>3. cycle'.jobs = js /\ cycle'.evidence = evidence /\ cycle'.phase = "select"
  BY <1>1
<1>4. DOMAIN evidence \subseteq DOMAIN jobs
  BY DEF IInv, Consistent, Agree
<1>5. Resolved(js, evidence)
  BY <1>1, <1>4 DEF NoRequeueInv, Resolved
<1>6. ASSUME NEW e \in Events
      PROVE  /\ Lifecycles!Moved(JobIn(jobs, e), JobIn(js, e))
             /\ e \in DOMAIN js => JobIn(js, e) = Start(JobIn(jobs, e))
  <2>1. CASE e \in DOMAIN jobs
    <3>1. JobIn(js, e) = JobIn(jobs, e)
      BY <1>1, <2>1 DEF JobIn
    <3>2. jobs[e].status # "NONE"
      BY <2>1, TablesTyped DEF IInv, IsPartial, JobRow, JobStatus, Terminal, Queued
    <3>3. JobIn(jobs, e) # Lifecycles!NoJob
      BY <2>1, <3>2 DEF JobIn, Lifecycles!NoJob
    <3> QED BY <3>1, <3>3, MovedNot DEF Start
  <2>2. CASE e \in new
    <3>1. JobIn(jobs, e) = Lifecycles!NoJob
      BY <1>1, <2>2 DEF JobIn, Lifecycles!NoJob
    <3>2. JobIn(js, e) = Lifecycles!NewJob
      BY <1>1, <2>2 DEF JobIn, NewJob, Lifecycles!NewJob
    <3>3. JobIn(js, e) = Start(JobIn(jobs, e))
      BY <3>1, <3>2 DEF Start
    <3> QED BY <3>3, MovedNot
  <2>3. CASE e \notin DOMAIN jobs /\ e \notin new
    <3>1. JobIn(js, e) = JobIn(jobs, e) /\ e \notin DOMAIN js
      BY <1>1, <2>3 DEF JobIn
    <3> QED BY <3>1, MovedNot
  <2> QED BY <2>1, <2>2, <2>3
<1> QED BY <1>2, <1>3, <1>5, <1>6 DEF NoRequeueInv, Progress

LEMMA SelectNoRequeue ==
    ASSUME IInv, NoRequeueInv, Select
    PROVE  NoRequeueInv'
<1>1. PICK batch \in SUBSET Due :
          cycle' = [phase |-> "process", events |-> cycle.events,
                    sessions |-> cycle.sessions, jobs |-> cycle.jobs,
                    evidence |-> cycle.evidence, todo |-> batch,
                    unavailable |-> cycle.unavailable]
  BY SelectFields
<1>2. /\ cycle'.phase = "process" /\ cycle'.jobs = cycle.jobs
      /\ cycle'.evidence = cycle.evidence
  BY <1>1
<1>3. UNCHANGED <<jobs, evidence>> /\ cycle.phase = "select" /\ Running
  BY DEF Select, Running
<1> QED BY <1>2, <1>3 DEF NoRequeueInv, Progress

\* A queued job that is tried, or that has lost its session, moves.
LEMMA AttemptMoves ==
    ASSUME NEW j \in JobRow, j.status \in Queued, j.wait = 0,
           NEW row \in JobRow, row.status # "PENDING",
           row.status = "RETRY" => row.attempt_count < MaxAttempts,
           \/ /\ row.attempt_count = j.attempt_count + 1
              /\ IF row.status = "RETRY" THEN row.wait > 0 ELSE row.wait = 0
           \/ /\ row.attempt_count = j.attempt_count
              /\ row.wait = 0
              /\ row.status = "FAILED",
           NEW was,
           [status |-> j.status, attempts |-> j.attempt_count, wait |-> j.wait] = Start(was)
    PROVE  Lifecycles!Moved(was, [status |-> row.status, attempts |-> row.attempt_count,
                                  wait |-> row.wait])
<1> DEFINE start == [status |-> j.status, attempts |-> j.attempt_count, wait |-> j.wait]
           k == [status |-> row.status, attempts |-> row.attempt_count, wait |-> row.wait]
<1>1. row.status \in Lifecycles!Results \union {"RETRY"}
  BY DEF JobRow, JobStatus, Terminal, Queued, Lifecycles!Results
<1>2. row.status = "RETRY" => row.status \notin Lifecycles!Results
  BY DEF Lifecycles!Results
<1>3. start.status \in {"PENDING", "RETRY"}
  BY DEF Queued
<1>4. Lifecycles!Tried(start, k) \/ Lifecycles!Dropped(start, k)
  <2>1. CASE row.attempt_count = j.attempt_count + 1
             /\ IF row.status = "RETRY" THEN row.wait > 0 ELSE row.wait = 0
    BY <1>1, <1>2, <1>3, <2>1 DEF Lifecycles!Tried
  <2>2. CASE row.attempt_count = j.attempt_count /\ row.wait = 0 /\ row.status = "FAILED"
    <3> DEFINE half == [start EXCEPT !.status = "FAILED"]
    <3>1. half = [status |-> "FAILED", attempts |-> j.attempt_count, wait |-> j.wait]
      OBVIOUS
    <3> HIDE DEF half
    <3>2. [half EXCEPT !.wait = 0] =
              [status |-> "FAILED", attempts |-> j.attempt_count, wait |-> 0]
      BY <3>1
    <3>3. k = [half EXCEPT !.wait = 0]
      BY <2>2, <3>2
    <3>4. k = [start EXCEPT !.status = "FAILED", !.wait = 0]
      BY <3>3 DEF half
    <3> QED BY <1>3, <3>4 DEF Lifecycles!Dropped
  <2> QED BY <2>1, <2>2
<1>5. start = IF was = Lifecycles!NoJob THEN Lifecycles!NewJob ELSE was
  BY DEF Start
<1> HIDE DEF start, k
<1>6. Lifecycles!Moved(was, k)
  BY <1>4, <1>5 DEF Lifecycles!Moved
<1> QED BY <1>6 DEF k

LEMMA ProcessNoRequeue ==
    ASSUME IInv, NoRequeueInv, NEW e, ProcessStep(e)
    PROVE  NoRequeueInv'
<1>1. PICK row, ss, ev :
          /\ Processed(e, row, ss, ev) /\ Concluded(e, row, ev)
          /\ Kept(e, ss, ev) /\ Attempt(e, row)
  BY DEF ProcessStep
<1>2. /\ cycle'.phase = "process"
      /\ cycle'.jobs = [cycle.jobs EXCEPT ![e] = row]
      /\ cycle'.evidence = ev
      /\ cycle'.todo = cycle.todo \ {e}
      /\ UNCHANGED <<jobs, evidence>>
  BY <1>1 DEF Processed, Settled
<1>3. Running /\ cycle.phase = "process" /\ e \in cycle.todo
  BY <1>1 DEF Running, Processed
<1>4. CycleInv /\ IsDatabase(cycle) /\ e \in DOMAIN cycle.jobs /\ e \in Events
  BY <1>3, RunningCycle DEF IsDatabase, IsPartial
<1>5. /\ cycle.jobs[e] \in JobRow /\ cycle.jobs[e].status \in Queued
      /\ cycle.jobs[e].wait = 0
  BY <1>3, <1>4 DEF IsDatabase, IsPartial, CycleInv, Ready
<1>6. /\ Resolved(cycle.jobs, cycle.evidence) /\ Progress
      /\ DOMAIN cycle.evidence \subseteq DOMAIN cycle.jobs
  BY <1>3, <1>4 DEF NoRequeueInv, CycleInv, Consistent, Agree
<1>7. e \notin DOMAIN cycle.evidence
  BY <1>5, <1>6 DEF Resolved, Queued, Terminal
<1>8. Resolved(cycle'.jobs, cycle'.evidence)
  <2> SUFFICES ASSUME NEW f \in DOMAIN ev PROVE cycle'.jobs[f].status \in Terminal
    BY <1>2 DEF Resolved
  <2>1. CASE f = e
    <3>1. row.status \in Terminal
      BY <1>1, <1>7, <2>1 DEF Concluded
    <3> QED BY <1>2, <1>4, <2>1, <3>1
  <2>2. CASE f # e
    <3>1. f \in DOMAIN cycle.evidence
      BY <1>1, <2>2 DEF Kept
    <3> QED BY <1>2, <1>6, <2>2, <3>1 DEF Resolved
  <2> QED BY <2>1, <2>2
<1>9. Progress'
  <2> SUFFICES ASSUME NEW f \in Events
               PROVE  /\ Lifecycles!Moved(JobIn(jobs, f), JobIn(cycle'.jobs, f))
                      /\ f \in DOMAIN cycle'.jobs /\ f \in cycle'.todo =>
                            JobIn(cycle'.jobs, f) = Start(JobIn(jobs, f))
    BY <1>2 DEF Progress
  <2>1. CASE f = e
    <3>1. [status |-> cycle.jobs[e].status, attempts |-> cycle.jobs[e].attempt_count,
           wait |-> cycle.jobs[e].wait] = Start(JobIn(jobs, e))
      BY <1>3, <1>4, <1>6 DEF Progress, JobIn
    <3>2. JobIn(cycle'.jobs, e) = [status |-> row.status, attempts |-> row.attempt_count,
                                   wait |-> row.wait]
      BY <1>2, <1>4 DEF JobIn
    <3>3. /\ row \in JobRow /\ row.status # "PENDING"
          /\ row.status = "RETRY" => row.attempt_count < MaxAttempts
          /\ \/ /\ row.attempt_count = cycle.jobs[e].attempt_count + 1
                /\ IF row.status = "RETRY" THEN row.wait > 0 ELSE row.wait = 0
             \/ /\ row.attempt_count = cycle.jobs[e].attempt_count
                /\ row.wait = 0
                /\ row.status = "FAILED"
      BY <1>1, <1>7 DEF Concluded, Attempt
    <3>4. Lifecycles!Moved(JobIn(jobs, e), JobIn(cycle'.jobs, e))
      BY <1>5, <3>1, <3>2, <3>3, AttemptMoves
    <3> QED BY <1>2, <2>1, <3>4
  <2>2. CASE f # e
    <3>1. JobIn(cycle'.jobs, f) = JobIn(cycle.jobs, f)
      BY <1>2, <2>2 DEF JobIn
    <3> QED BY <1>2, <1>6, <2>2, <3>1 DEF Progress
  <2> QED BY <2>1, <2>2
<1> QED BY <1>2, <1>8, <1>9 DEF NoRequeueInv, Resolved

LEMMA CommitNoRequeue ==
    ASSUME NoRequeueInv, Commit
    PROVE  NoRequeueInv'
BY DEF NoRequeueInv, Commit, Running, Idle

LEMMA TickNoRequeue ==
    ASSUME IInv, NoRequeueInv, Tick
    PROVE  NoRequeueInv'
<1>1. DOMAIN evidence \subseteq DOMAIN jobs
  BY DEF IInv, Consistent, Agree
<1>2. Resolved(jobs', evidence')
  BY <1>1, TickRow DEF NoRequeueInv, Resolved, Tick
<1>3. ~Running'
  BY DEF Tick, Running, Idle
<1> QED BY <1>2, <1>3 DEF NoRequeueInv

LEMMA NextNoRequeue ==
    ASSUME "requeue" \notin Mishaps, IInv, NoRequeueInv, [Next]_vars
    PROVE  NoRequeueInv'
<1>1. CASE Api
  BY <1>1, SameNoRequeue
     DEF Api, EventArrives, SessionOpens, LogonIsKnown, SessionCloses
<1>2. CASE Discover
  BY <1>2, DiscoverNoRequeue
<1>3. CASE Select
  BY <1>3, SelectNoRequeue
<1>4. CASE Process
  BY <1>4, ProcessKinds, ProcessNoRequeue
<1>5. CASE Commit
  BY <1>5, CommitNoRequeue
<1>6. CASE Resume \/ CycleAborts \/ Crash
  BY <1>6, IdleNoRequeue
     DEF Resume, CycleAborts, Abort, Crash, Rollback, Running, Idle, Failed
<1>7. CASE Tick
  BY <1>7, TickNoRequeue
<1>8. CASE Operator
  BY <1>8, SameNoRequeue DEF Operator, Requeue, Purge
<1>9. CASE UNCHANGED vars
  BY <1>9, SameNoRequeue DEF vars
<1> QED BY <1>1, <1>2, <1>3, <1>4, <1>5, <1>6, <1>7, <1>8, <1>9 DEF Next, Worker

LEMMA InvariantNoRequeue ==
    ASSUME "requeue" \notin Mishaps
    PROVE  Spec => [](IInv /\ NoRequeueInv)
<1>1. Init => NoRequeueInv
  BY DEF Init, NoRequeueInv, Resolved, Running, Idle
<1>2. IInv /\ NoRequeueInv /\ [Next]_vars => NoRequeueInv'
  BY NextNoRequeue
<1> QED BY <1>1, <1>2, Invariant, PTL DEF Spec

-----------------------------------------------------------------------------
(* The refinement.                                                         *)

LEMMA CommittedJob ==
    ASSUME NEW js, IsPartial(js, Events, JobRow), NEW e
    PROVE  JobIn(js, e) \in Lifecycles!Job
<1>1. CASE e \in DOMAIN js
  <2>1. js[e] \in JobRow
    BY <1>1 DEF IsPartial
  <2>2. js[e].status \in {"NONE", "PENDING", "RETRY"} \union Lifecycles!Results
    BY <2>1 DEF JobRow, JobStatus, Terminal, Queued, Lifecycles!Results
  <2> QED BY <1>1, <2>1, <2>2 DEF JobIn, JobRow, Lifecycles!Job
<1>2. CASE e \notin DOMAIN js
  BY <1>2, Settings DEF JobIn, Lifecycles!Job
<1> QED BY <1>1, <1>2

LEMMA CommitIsCycle ==
    ASSUME IInv, NoRequeueInv, Commit
    PROVE  Lifecycles!Cycle
<1>1. Running /\ IsDatabase(cycle)
  BY RunningCycle DEF Commit, Running
<1>2. jobs' = cycle.jobs
  BY DEF Commit
<1>3. \A e \in Events : JobOf(e)' = JobIn(cycle.jobs, e) /\ JobOf(e) = JobIn(jobs, e)
  BY <1>2 DEF JobOf, JobIn
<1>4. \A e \in Events : JobOf(e)' \in Lifecycles!Job
  BY <1>1, <1>3, CommittedJob DEF IsDatabase
<1>5. \A e \in Events : Lifecycles!Moved(JobOf(e), JobOf(e)')
  BY <1>1, <1>3 DEF NoRequeueInv, Progress
<1> QED BY <1>4, <1>5 DEF Lifecycles!Cycle

LEMMA TickIsWait ==
    ASSUME IInv, Tick
    PROVE  Lifecycles!Wait
<1> SUFFICES ASSUME NEW e \in Events PROVE JobOf(e)' = Lifecycles!Waited(JobOf(e))
  BY DEF Lifecycles!Wait
<1>1. CASE e \in DOMAIN jobs
  BY <1>1, TickRow DEF JobOf, Lifecycles!Waited
<1>2. CASE e \notin DOMAIN jobs
  BY <1>2, TickRow DEF JobOf, Lifecycles!Waited
<1> QED BY <1>1, <1>2

(* docs/phase6-async-correlation.md, "Job lifecycle": unless an operator   *)
(* queues jobs again, a job is tried only when it is due and at most       *)
(* MaxAttempts times, one cycle tries it at most once, and its result is   *)
(* final, whatever crashes, configuration errors and deleted sessions      *)
(* come between.                                                           *)
THEOREM JobsFollowLifecycle == "requeue" \notin Mishaps => (Spec => FollowsLifecycle)
<1> SUFFICES ASSUME "requeue" \notin Mishaps PROVE Spec => FollowsLifecycle
  OBVIOUS
<1>1. Init => Lifecycles!Init
  BY DEF Init, JobOf, Lifecycles!Init, Lifecycles!NoJob
<1>2. ASSUME IInv, NoRequeueInv, [Next]_vars
      PROVE  [Lifecycles!Next]_[e \in Events |-> JobOf(e)]
  <2>1. CASE Commit
    BY <1>2, <2>1, CommitIsCycle DEF Lifecycles!Next
  <2>2. CASE Tick
    BY <1>2, <2>2, TickIsWait DEF Lifecycles!Next
  <2>3. CASE UNCHANGED jobs
    BY <2>3 DEF JobOf
  <2>4. Commit \/ Tick \/ UNCHANGED jobs
    BY <1>2 DEF Next, vars, Api, EventArrives, SessionOpens, LogonIsKnown, SessionCloses,
       Worker, Discover, Select, Process, SessionMissing, Restore, Reply, Answer, Ask, Unavailable,
       ProtocolError, NextJob, Resume, CycleAborts, Abort, Crash, Rollback, Operator,
       Requeue, Purge
  <2> QED BY <2>1, <2>2, <2>3, <2>4
<1> QED BY <1>1, <1>2, InvariantNoRequeue, PTL DEF Spec, FollowsLifecycle, Lifecycles!Spec

-----------------------------------------------------------------------------
(* The metrics.                                                            *)

\* Evidence is of resolved jobs and of those queued again, if of no failed one.
LEMMA CountsAgree ==
    ASSUME IInv, \A e \in DOMAIN evidence : jobs[e].status # "FAILED"
    PROVE  MetricsAgree
<1> DEFINE T == {e \in DOMAIN jobs : jobs[e].status \in Terminal}
           R == {e \in DOMAIN jobs : Requeued(e)}
<1>1. Agree(events, jobs, evidence, deleted)
  BY DEF IInv, Consistent
<1>2. \A e \in DOMAIN jobs : jobs[e].status \in JobStatus
  BY TablesTyped DEF IInv, IsPartial, JobRow
<1>3. DOMAIN evidence = T \union R
  BY <1>1, <1>2 DEF Agree, Requeued, JobStatus
<1>4. T \cap R = {}
  BY DEF Requeued, Terminal, Queued
<1>5. IsFiniteSet(T) /\ IsFiniteSet(R)
  <2>1. T \subseteq Events /\ R \subseteq Events
    BY TablesTyped DEF IInv, IsPartial
  <2> HIDE DEF T, R
  <2> QED BY <2>1, FS_Subset, RowsAssumption
<1>6. Cardinality(T) \in Nat /\ Cardinality(R) \in Nat
  BY <1>5, FS_CardinalityType
<1>7. Metrics.evidence_rows = Cardinality(DOMAIN evidence) /\ Metrics.terminal_jobs = Cardinality(T)
  BY DEF Metrics
<1> HIDE DEF T, R
<1>8. Cardinality(T \union R) = Cardinality(T) + Cardinality(R)
  <2>1. Cardinality(T \union R) = Cardinality(T) + Cardinality(R) - Cardinality(T \cap R)
    BY <1>5, FS_Union
  <2>2. Cardinality(T \cap R) = 0
    BY <1>4, FS_EmptySet
  <2> QED BY <1>6, <2>1, <2>2
<1>9. Metrics.evidence_rows = Metrics.terminal_jobs + Cardinality(R)
  BY <1>3, <1>7, <1>8
<1> QED BY <1>9 DEF MetricsAgree, R

NoneDeleted == deleted = {}

LEMMA InvariantNoPurge ==
    ASSUME "purge" \notin Mishaps
    PROVE  Spec => [](IInv /\ NoneDeleted)
<1>1. Init => NoneDeleted
  BY DEF Init, NoneDeleted
<1>2. NoneDeleted /\ [Next]_vars => NoneDeleted'
  BY DEF NoneDeleted, Next, vars, Api, EventArrives, SessionOpens, LogonIsKnown, SessionCloses,
     Worker, Discover, Select, Process, SessionMissing, Restore, Reply, Answer, Ask, Unavailable,
     ProtocolError, NextJob, Commit, Resume, CycleAborts, Abort, Crash, Rollback, Tick,
     Operator, Requeue, Purge
<1> QED BY <1>1, <1>2, Invariant, PTL DEF Spec

(* The evidence rows correlation_metrics counts are those of the terminal  *)
(* jobs, the base of its match rate, and of the jobs queued again.  A job  *)
(* that is queued again and then loses its session would fail with its     *)
(* evidence there, so one of the two must not happen.                      *)
THEOREM MetricsAlwaysAgree ==
    ~({"requeue", "purge"} \subseteq Mishaps) => (Spec => []MetricsAgree)
<1>1. ASSUME "requeue" \notin Mishaps PROVE Spec => []MetricsAgree
  <2>1. IInv /\ NoRequeueInv => MetricsAgree
    BY CountsAgree DEF NoRequeueInv, Resolved, Terminal
  <2> QED BY <1>1, <2>1, InvariantNoRequeue, PTL
<1>2. ASSUME "purge" \notin Mishaps PROVE Spec => []MetricsAgree
  <2>1. IInv /\ NoneDeleted => MetricsAgree
    <3> SUFFICES ASSUME IInv, NoneDeleted PROVE MetricsAgree
      OBVIOUS
    <3>1. Agree(events, jobs, evidence, deleted)
      BY DEF IInv, Consistent
    <3> QED BY <3>1, CountsAgree DEF Agree, NoneDeleted
  <2> QED BY <1>2, <2>1, InvariantNoPurge, PTL
<1>3. ~({"requeue", "purge"} \subseteq Mishaps) =>
          "requeue" \notin Mishaps \/ "purge" \notin Mishaps
  OBVIOUS
<1> QED BY <1>1, <1>2, <1>3
=============================================================================
