------------------------- MODULE MCReplicaAgreement -------------------------
(***************************************************************************)
(* Instances of ReplicaAgreement.                                          *)
(***************************************************************************)
EXTENDS ReplicaAgreement, MCLogs

CONSTANT MaxBlock   \* bound: highest block number voted for

PairLogs == PairLogsUpTo(MaxBlock)

\* three groups with one block each; group 0 sees block (1,0) before it raises
\* its clock and block (2,0) after
FailureLogs ==
    {[v \in 0 .. 2 |-> FullLog(v, CASE v = 0 -> <<1, 0, 2>>
                                    [] v = 1 -> <<0, 2, 1>>
                                    [] v = 2 -> <<0, 1, 2>>)]}

=============================================================================
