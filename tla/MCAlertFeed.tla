----------------------------- MODULE MCAlertFeed -----------------------------
(* Two logons of one server, which may change places.                      *)
EXTENDS AlertFeed, TLC

CONSTANTS l1, l2

LogonSymmetry == Permutations(Logons)
=============================================================================
