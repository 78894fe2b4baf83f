---------------------------- MODULE JobLifecycle -----------------------------
(***************************************************************************)
(* What the correlation worker promises about a job, the life cycle of     *)
(* docs/phase6-async-correlation.md as the code has it: a queued job is    *)
(* tried again and again, never before it is due, until it has a result or *)
(* has been tried MaxAttempts times; results are final.  One commit may    *)
(* move any number of jobs, each by one attempt at most.                   *)
(***************************************************************************)
EXTENDS Naturals

CONSTANTS
    Ids,          \* the events there may be a job for
    MaxAttempts,  \* how often a job may be tried, at least once
    MaxWait       \* the longest wait between two attempts

VARIABLE job

NoJob == [status |-> "NONE", attempts |-> 0, wait |-> 0]
NewJob == [status |-> "PENDING", attempts |-> 0, wait |-> 0]
Results == {"MATCHED", "AMBIGUOUS", "UNRESOLVED", "FAILED"}

Job ==
    [status: {"NONE", "PENDING", "RETRY"} \union Results,
     attempts: 0..MaxAttempts, wait: 0..MaxWait]

\* One attempt, and what may come of it.
Tried(j, k) ==
    /\ j.status \in {"PENDING", "RETRY"}
    /\ j.wait = 0
    /\ k.attempts = j.attempts + 1
    /\ \/ k.status \in Results /\ k.wait = 0
       \/ k.status = "RETRY" /\ k.attempts < MaxAttempts /\ k.wait > 0

\* A job whose session is gone fails untried.
Dropped(j, k) ==
    /\ j.status \in {"PENDING", "RETRY"}
    /\ k = [j EXCEPT !.status = "FAILED", !.wait = 0]

\* A cycle discovers a job, tries one, or does both to it.
Moved(j, k) ==
    LET start == IF j = NoJob THEN NewJob ELSE j
    IN  k = j \/ k = start \/ Tried(start, k) \/ Dropped(start, k)

Cycle == job' \in [Ids -> Job] /\ \A i \in Ids : Moved(job[i], job'[i])

Waited(j) == [j EXCEPT !.wait = IF @ > 0 THEN @ - 1 ELSE 0]
Wait == job' = [i \in Ids |-> Waited(job[i])]

Init == job = [i \in Ids |-> NoJob]
Next == Cycle \/ Wait
Spec == Init /\ [][Next]_job
=============================================================================
