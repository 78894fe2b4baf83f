---------------------------- MODULE MCHistoryPaging ----------------------------
(* Filters a reader of the history asks for.                               *)
EXTENDS HistoryPaging

\* Everything: what the Portal shows first.
Default == [states |-> SessionStates, from |-> NULL, to |-> NULL]
DefaultOnly == {Default}

\* Every session between two dates, or since one.
Dated == {[Default EXCEPT !.from = 1, !.to = 2], [Default EXCEPT !.from = 2]}

\* The history of contract 1.
ClosedOnly == {[Default EXCEPT !.states = {"CLOSED"}]}
=============================================================================
