--------------------------- MODULE MCSessionQueries ---------------------------
(* Worlds for SessionQueries beside those of MCSessionTracking.            *)
EXTENDS SessionQueries, MCSessionTracking

\* An RDP session, disconnected and resumed elsewhere, and an SSH session of
\* the same user under the same id; the host reboots and the id is used again.
TwoBootsTwoProtocols ==
    LET RdpBatch(boot, at, items) == Batch2("windows", "RDP", boot, at, items)
        RdpSnapshot(boot, at, o) == Snapshot2("windows", "RDP", boot, at, {o})
    IN  {RdpBatch("b1", 5, {Ev("LOGON", "2", "9", "Alice", "home", 2),
                            Ev("DISCONNECT", "2", "10", "ALICE", NULL, 4)}),
         RdpBatch("b1", 9, {Ev("RECONNECT", "2", "11", "Alice", "work", 6),
                            Ev("LOGOFF", "2", "12", "Alice", NULL, 8)}),
         RdpSnapshot("b1", 5, Ob("2", "ALICE", "DISCONNECTED", NULL, NULL)),
         Batch2("windows", "SSH", "b1", 4, {Ev("LOGON", "2", "13", "Alice", "home", 3)}),
         RdpBatch("b2", 23, {Ev("LOGON", "2", "14", "Alice", "home", 22)})}

\* One session ends; a snapshot shows the id in use again, without the time of
\* the new logon, which Windows does not always tell.
IdUsedAgain ==
    {Batch(0, 5, {Ev("LOGON", "2", "9", "Alice", "home", 2),
                  Ev("LOGOFF", "2", "10", "Alice", NULL, 4)}),
     Snapshot(0, 9, {Ob("2", "Alice", "ACTIVE", NULL, NULL)})}

\* An RDP Agent of contract 1 and an SSH Agent of contract 2 on one server.
SshBesideRdp ==
    {Batch(0, 3, {Ev("LOGON", "2", "9", "Alice", "home", 2)}),
     Batch2("windows", "SSH", "b1", 5, {Ev("LOGON", "3", "10", "bob", "work", 4)})}
=============================================================================
