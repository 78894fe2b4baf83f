---------------------------- MODULE MCCorrelation ----------------------------
(***************************************************************************)
(* Small worlds for Correlation: session 1 of alice from 2 to 6, a second  *)
(* one from 8 on in the same boot under the same id, events that belong to *)
(* them or to no session, and answers of the resolver.                     *)
(***************************************************************************)
EXTENDS Correlation

CONSTANTS alice, bob

Ev(who, type, at, has) ==
    [identity |-> who, type |-> type, occurred_at |-> at, has_source |-> has]

OneSession == {1}
TwoSessions == {1, 2}
MCSessionOf ==
    [i \in TwoSessions |-> IF i = 1
        THEN [identity |-> alice, logon_at |-> 2, logoff_at |-> 6]
        ELSE [identity |-> alice, logon_at |-> 8, logoff_at |-> NULL]]
OneSessionOf == [i \in OneSession |-> MCSessionOf[i]]

\* Two events of one second and a later one, all of session 1.
ThreeEvents == {1, 2, 3}
ThreeEventOf ==
    [e \in ThreeEvents |->
        CASE e = 1 -> Ev(alice, "RECONNECT", 4, TRUE)
          [] e = 2 -> Ev(alice, "LOGON", 4, TRUE)
          [] e = 3 -> Ev(alice, "RECONNECT", 5, TRUE)]

\* An event in each session.
TwoEvents == {1, 2}
TwoEventOf ==
    [e \in TwoEvents |-> IF e = 1 THEN Ev(alice, "RECONNECT", 4, TRUE)
                                  ELSE Ev(alice, "LOGON", 8, TRUE)]

\* Two events of bob, who has no session row, and then two of alice.
FourEvents == {1, 2, 3, 4}
OrphanEventOf ==
    [e \in FourEvents |->
        CASE e = 1 -> Ev(bob, "RECONNECT", 1, TRUE)
          [] e = 2 -> Ev(bob, "DISCONNECT", 1, TRUE)
          [] e = 3 -> Ev(alice, "LOGON", 2, TRUE)
          [] e = 4 -> Ev(alice, "RECONNECT", 5, TRUE)]

\* An event of the second session, which session 1 absorbs while it is open.
LaterEvent == {1}
LaterEventOf == [e \in LaterEvent |-> Ev(alice, "RECONNECT", 8, TRUE)]

Result(status) ==
    [http |-> 200, json |-> "object",
     payload |-> [status |-> status, device |-> IF status = "MATCHED" THEN "a uuid" ELSE "none",
                  link |-> NULL, asset_tag |-> "fits", method |-> "fits",
                  reason_code |-> NULL, confidence |-> "score", storable |-> TRUE]]

\* Two results; too long a text in each of the four columns; one more device
\* than there should be; bodies and codes nobody expects.
MalformedAnswers ==
    {Result("MATCHED"), Result("UNRESOLVED"), TransportError,
     [Result("MATCHED") EXCEPT !.payload.link = "long"],
     [Result("UNRESOLVED") EXCEPT !.payload.asset_tag = "long"],
     [Result("MATCHED") EXCEPT !.payload.method = "long", !.payload.confidence = "huge"],
     [Result("UNRESOLVED") EXCEPT !.payload.reason_code = "long"],
     [Result("MATCHED") EXCEPT !.payload.device = "none"],
     [http |-> 200, json |-> "no object", payload |-> NULL],
     [http |-> 302, json |-> "too deep", payload |-> NULL]}

Rejected == [http |-> 404, json |-> "no object", payload |-> NULL]

\* One of each kind: a result, no answer, a broken contract, a rejection.
OneOfEach ==
    {Result("MATCHED"), TransportError, [Result("MATCHED") EXCEPT !.payload.status = "another"],
     Rejected}

\* Answers the worker has no handler for.
OddAnswers ==
    {[Result("MATCHED") EXCEPT !.payload.confidence = "huge"],
     [Result("MATCHED") EXCEPT !.payload.storable = FALSE],
     [http |-> 200, json |-> "too deep", payload |-> NULL]}

\* Several devices fit, and the resolver names one of them.
AmbiguousDevice == {[Result("AMBIGUOUS") EXCEPT !.payload.device = "a uuid"]}
=============================================================================
