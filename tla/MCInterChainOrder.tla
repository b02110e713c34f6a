------------------------- MODULE MCInterChainOrder -------------------------
(***************************************************************************)
(* Instances of InterChainOrderManager: three groups, two blocks each.     *)
(***************************************************************************)
EXTENDS InterChainOrderManager, MCLogs

\* a few vote orders of three groups and two blocks each: in step, one group
\* behind, one group ahead, one group unseen until the end
Orders3 == {<<0, 1, 2, 0, 1, 2>>, <<2, 1, 0, 2, 1, 0>>, <<1, 1, 2, 0, 2, 0>>, <<2, 0, 0, 2, 1, 1>>}

TripleLogs == {[v \in Group |-> FullLog(v, o[v])] : o \in [Group -> Orders3]}

=============================================================================
