---------------------------- MODULE ResolverClient ----------------------------
(***************************************************************************)
(* What one answer of the network resolver amounts to, as an operator of   *)
(* Correlation: NetworkResolverClient.resolve, _evidence_from_payload, and *)
(* the insert of the evidence on MySQL.  Outcome says whether the answer   *)
(* is evidence or which exception it raises.                               *)
(*                                                                         *)
(* A text is known by how it fits its column: NULL (absent, or blank once  *)
(* stripped), "fits" or "long".                                            *)
(***************************************************************************)
EXTENDS Integers

CONSTANT NULL

Texts == {NULL, "fits", "long"}
Terminal == {"MATCHED", "AMBIGUOUS", "UNRESOLVED"}

Exceptions ==
    {"ResolverUnavailable", "ResolverConfigurationError", "ResolverProtocolError",
     "RecursionError", "OverflowError", "DataError"}
ASSUME OutcomeAssumption == NULL \notin Nat \union Exceptions \union {"long"}

(* The parts of a JSON object that are looked at.  The link is the only one*)
(* of a matched asset, or NULL.  A "huge" confidence is an integer that no *)
(* float can hold.  The whole is storable if a JSON column takes it: its   *)
(* numbers are finite (the parser knows NaN and Infinity), its texts valid *)
(* Unicode, and it is no deeper than the column allows.                    *)
Payload ==
    [status: Terminal \union {"another"}, device: {"none", "a uuid", "no uuid"},
     link: Texts, asset_tag: Texts, method: Texts, reason_code: Texts,
     confidence: {"score", "another", "huge"}, storable: BOOLEAN]

\* An answer that is "too deep" is JSON the parser's stack cannot follow.
TransportError == [http |-> NULL, json |-> NULL, payload |-> NULL]
HttpAnswers ==
    {TransportError}
    \union [http: 100..599, json: {"no object", "too deep"}, payload: {NULL}]
    \union [http: {200}, json: {"object"}, payload: Payload]

-----------------------------------------------------------------------------
(* resolve: NULL, or the exception it raises.                              *)

Retried(http) == http \in {408, 425, 429} \/ http >= 500

Resolve(a) ==
    IF a = TransportError \/ Retried(a.http) THEN "ResolverUnavailable"
    ELSE IF a.http \in {401, 403, 404} THEN "ResolverConfigurationError"
    ELSE IF a.http = 200 /\ a.json = "too deep" THEN "RecursionError"
    ELSE IF /\ a.http = 200
            /\ a.json = "object"
            /\ a.payload.status \in Terminal
            /\ a.payload.status = "MATCHED" => a.payload.device # "none"
         THEN NULL
    ELSE "ResolverProtocolError"

-----------------------------------------------------------------------------
(* _evidence_from_payload: NULL, or the exception it raises.               *)

\* Mutant: no text is too long.
AnyLength(text) == FALSE

TooLong(text) == text = "long"

\* The fields are read in this order, so the first one that is bad decides.
Extract(p) ==
    IF p.device = "no uuid" \/ TooLong(p.link) \/ TooLong(p.asset_tag) \/ TooLong(p.method)
    THEN "ResolverProtocolError"
    ELSE IF p.confidence = "huge" THEN "OverflowError"
    ELSE IF TooLong(p.reason_code) THEN "ResolverProtocolError"
    ELSE NULL

\* The columns of the evidence that are of the payload.
Columns(p) ==
    [status |-> p.status, source_device_id |-> IF p.device = "a uuid" THEN "fits" ELSE NULL,
     integration_record_id |-> p.link, asset_tag |-> p.asset_tag, method |-> p.method,
     reason_code |-> p.reason_code, evidence_snapshot |-> p]

\* What the table takes: texts of the length of their columns, storable JSON.
Fits(row) ==
    /\ "long" \notin {row.integration_record_id, row.asset_tag, row.method, row.reason_code}
    /\ row.evidence_snapshot.storable

Outcome(a) ==
    IF Resolve(a) # NULL THEN Resolve(a)
    ELSE IF Extract(a.payload) # NULL THEN Extract(a.payload)
    ELSE IF Fits(Columns(a.payload)) THEN NULL
    ELSE "DataError"
=============================================================================
