-------------------------- MODULE RequestTransaction --------------------------
(***************************************************************************)
(* A request of SessionTracking as one transaction among others.  It works *)
(* on a view of its own: the server row authenticate_agent read in an      *)
(* earlier transaction (expire_on_commit=False keeps it), the tables as    *)
(* its first query found them (the REPEATABLE READ of InnoDB), and its own *)
(* writes.                                                                 *)
(*                                                                         *)
(* A commit writes the columns the request changed over the rows as they   *)
(* are by then, as the ORM's UPDATE does, and adds its new rows; the       *)
(* unique index on fingerprints refuses an event committed meanwhile, and  *)
(* with it the whole request.  Every request updates its server's row      *)
(* (last_seen_at) in its first flush, and the lock that takes orders the   *)
(* writes of two requests, so all of a request's writes are taken to       *)
(* happen at its commit.                                                   *)
(*                                                                         *)
(* A row the request wrote is read back as it wrote it.                    *)
(***************************************************************************)
EXTENDS SessionTracking

VARIABLES
    loaded,   \* the server row and the events as the request read them
    wrote     \* the columns of existing rows the request changed

view == <<server, sessions, events, req, unflushed, loaded, wrote>>

Phase(name) == [kind |-> name]

NoRows == [i \in {} |-> NULL]
NoServer == [last_boot_id |-> NULL, last_boot_at |-> NULL]
NothingLoaded == [server |-> NoServer, events |-> {}]

\* No request in progress.
Closing ==
    /\ server' = NoServer
    /\ sessions' = NoRows
    /\ events' = {}
    /\ req' = NoRequest
    /\ unflushed' = {}
    /\ loaded' = NothingLoaded
    /\ wrote' = {}

ViewInit ==
    /\ server = NoServer
    /\ sessions = NoRows
    /\ events = {}
    /\ req = NoRequest
    /\ unflushed = {}
    /\ loaded = NothingLoaded
    /\ wrote = {}

-----------------------------------------------------------------------------
(* What a commit writes.                                                   *)

\* The columns of existing rows in which T differs from S.
Changed(S, T) ==
    UNION {{<<i, c>> : c \in {d \in DOMAIN S[i] : S[i][d] # T[i][d]}} : i \in DOMAIN S}

\* Mutant: the rows another request inserted meanwhile are lost.
OverwriteRows(rows, T, columns) == T

\* The columns written, over the rows as they are by now, and the new rows.
WriteRows(rows, T, columns) ==
    [i \in DOMAIN rows \union DOMAIN T |->
        IF i \notin DOMAIN rows THEN T[i]
        ELSE [c \in DOMAIN rows[i] |-> IF <<i, c>> \in columns THEN T[i][c] ELSE rows[i][c]]]

WriteServer(row) ==
    [c \in DOMAIN row |-> IF server[c] # loaded.server[c] THEN server[c] ELSE row[c]]

\* Mutant: the index on fingerprints is not unique.
NoConflict == FALSE

\* One of the new events was committed since the tables were read.
Conflict ==
    \E new \in events \ loaded.events, row \in saved.events :
        row.event_fingerprint = new.event_fingerprint

Write(T) ==
    saved' = [server   |-> WriteServer(saved.server),
              sessions |-> WriteRows(saved.sessions, T, wrote \union Changed(sessions, T)),
              events   |-> saved.events \union events]

-----------------------------------------------------------------------------
(* The request.                                                            *)

\* authenticate_agent reads the server row, stamps the credential, commits.
Authenticate ==
    /\ req = NoRequest
    /\ server' = saved.server
    /\ loaded' = [loaded EXCEPT !.server = saved.server]
    /\ req' = Phase("authenticated")
    /\ UNCHANGED <<saved, sessions, events, unflushed, wrote>>

\* The first query of the handler's own transaction.
ReadTables ==
    /\ req = Phase("authenticated")
    /\ sessions' = saved.sessions
    /\ events' = saved.events
    /\ loaded' = [loaded EXCEPT !.events = saved.events]
    /\ req' = Phase("open")
    /\ UNCHANGED <<saved, server, unflushed, wrote>>

Open ==
    /\ req = Phase("open")
    /\ \E m \in Messages : StartWith(Normalize(m))

\* The handler, up to its commit.  A new row's key, a uuid, is unused.
Work ==
    /\ \/ Open
       \/ /\ req.kind \in {"events", "snapshot"}
          /\ \E x \in req.todo : IngestEvent(x) \/ Observe(x)
    /\ (DOMAIN sessions' \ DOMAIN sessions) \intersect DOMAIN saved.sessions = {}
    /\ wrote' = wrote \union Changed(sessions, sessions')
    /\ UNCHANGED loaded

CommitEvents ==
    /\ req.kind = "events"
    /\ req.todo = {}
    /\ ~Conflict
    /\ Write(sessions)
    /\ Closing

CommitSnapshot ==
    /\ req.kind = "snapshot"
    /\ req.todo = {}
    /\ Write([i \in DOMAIN sessions |->
                 IF i \in Missing(req.msg)
                 THEN Closed(sessions[i], req.msg.agent_time, "RECONCILIATION")
                 ELSE sessions[i]])
    /\ Closing

\* Mutant: what was flushed before the failure stays.
RollbackKeepsEvents ==
    /\ req # NoRequest
    /\ saved' = [saved EXCEPT !.events = @ \union events]
    /\ Closing

\* A refused insert, a lock not granted in time, a deadlock, a lost connection.
Rollback ==
    /\ req # NoRequest
    /\ Closing
    /\ UNCHANGED saved

Step ==
    \/ Authenticate
    \/ ReadTables
    \/ Work
    \/ CommitEvents
    \/ CommitSnapshot
    \/ Rollback
=============================================================================
