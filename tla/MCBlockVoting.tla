--------------------------- MODULE MCBlockVoting ---------------------------
(***************************************************************************)
(* Instances of BlockVoting: how many blocks each group produces.          *)
(***************************************************************************)
EXTENDS BlockVoting

TwoAndOne == [c \in Group |-> IF c = 0 THEN 2 ELSE 1]

OneOfFirst == [c \in Group |-> IF c = 0 THEN 1 ELSE 0]

-----------------------------------------------------------------------------
\* LogsSound: the logs are what the order manager needs of them (LogsWellFormed)
\* and no leader finds its own blocks out of order (NoneAborted).
LogsSound == LogsWellFormed /\ NoneAborted

\* VotesSound: the two threads that vote put one vote for a block in the log
\* (OneVote), and none that neither the block nor a majority justifies (Backed).
VotesSound == OneVote /\ Backed

=============================================================================
