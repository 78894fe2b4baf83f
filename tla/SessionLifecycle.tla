-------------------------- MODULE SessionLifecycle ---------------------------
(***************************************************************************)
(* What session tracking promises of the sessions table of one server: the *)
(* state machine of docs/system-architecture.md, section 9, as the code    *)
(* has it.  A request takes effect at once or not at all.  A batch of      *)
(* events opens sessions and ends some by LOGOFF, a snapshot opens         *)
(* sessions and ends some by RECONCILIATION; either may come from another  *)
(* boot, and then every session open before it has ended by REBOOT.  An    *)
(* ended session stays as it is, and no user's session is open twice.      *)
(***************************************************************************)
CONSTANTS
    Boots,  \* the boot identifiers there are
    NULL

VARIABLES
    boot,  \* the boot the server is in, or NULL
    rows   \* each session: whose it is, its state and why it ended

IsOpen(r) == r.state \in {"ACTIVE", "DISCONNECTED"}

Ended(r, reason) == r.state = "CLOSED" /\ r.end_reason = reason

\* The same session, open still or ended for this reason.
Continues(r, s, reason) ==
    /\ IsOpen(r)
    /\ s.who = r.who
    /\ IsOpen(s) \/ Ended(s, reason)

\* Sessions of the table old are as they were, or continue.
Continued(old, reason) ==
    /\ DOMAIN old \subseteq DOMAIN rows'
    /\ \A i \in DOMAIN old : rows'[i] = old[i] \/ Continues(old[i], rows'[i], reason)

New(old) == DOMAIN rows' \ DOMAIN old

\* A session may begin and end within one batch.
Batch(old) ==
    /\ Continued(old, "LOGOFF")
    /\ \A i \in New(old) : IsOpen(rows'[i]) \/ Ended(rows'[i], "LOGOFF")

Snapshot(old) ==
    /\ Continued(old, "RECONCILIATION")
    /\ \A i \in New(old) : IsOpen(rows'[i])

AfterReboot(r) ==
    IF IsOpen(r) THEN [who |-> r.who, state |-> "CLOSED", end_reason |-> "REBOOT"] ELSE r

Rebooted == [i \in DOMAIN rows |-> AfterReboot(rows[i])]

OneOpen(T) ==
    \A i, j \in DOMAIN T : IsOpen(T[i]) /\ IsOpen(T[j]) /\ T[i].who = T[j].who => i = j

Next ==
    /\ boot' \in Boots
    /\ \/ Batch(rows) \/ Snapshot(rows)
       \/ /\ boot \notin {NULL, boot'}
          /\ Batch(Rebooted) \/ Snapshot(Rebooted)
    /\ OneOpen(rows')

Init == boot = NULL /\ rows = [i \in {} |-> NULL]

Spec == Init /\ [][Next]_<<boot, rows>>
=============================================================================
