------------------------------- MODULE MCLogs -------------------------------
(***************************************************************************)
(* The vote logs the runs of the interchain order are fed.                 *)
(***************************************************************************)
EXTENDS Integers, Sequences, FiniteSets

E(g, b, w) == [chain |-> g, block |-> b, mark |-> w]

\* the clocks of n votes, from -1 (no block yet) to max, never going back
ClockSeq(n, max) ==
    {s \in [1 .. n -> -1 .. max] : \A i, j \in 1 .. n : i <= j => s[i] <= s[j]}

\* two groups, 0 and 1: each votes for blocks 0 .. max of the other
PairLogsUpTo(max) ==
    {[v \in {0, 1} |-> [i \in DOMAIN s[v] |-> E(1 - v, i - 1, s[v][i])]] :
        s \in [{0, 1} -> ClockSeq(max + 1, max)]}

\* a full log of voter v that sees blocks of the groups o[1], o[2], ...: its own
\* blocks move the clock, and are voted for with their number
FullLog(v, o) ==
    LET Before(i) == Cardinality({j \in 1 .. (i - 1) : o[j] = o[i]})
        Clock(i)  == Cardinality({j \in 1 .. (i - 1) : o[j] = v}) - 1
    IN  [i \in DOMAIN o |-> E(o[i], Before(i), IF o[i] = v THEN Before(i) ELSE Clock(i))]

=============================================================================
