---------------------------- MODULE FragmentUtil ----------------------------
(***************************************************************************)
(* How the erasure-coded fragments of a block are shared out between the   *)
(* nodes of a sending and of a receiving group.                            *)
(***************************************************************************)
EXTENDS Integers, FiniteSets

CONSTANT MaxNodes   \* bound: nodes in a group

ASSUME MaxNodesAssumption == MaxNodes \in Nat \ {0}

\* greatest common divisor by repeated subtraction, as the loop of LCM
Hcf[s \in (1 .. MaxNodes) \X (1 .. MaxNodes)] ==
    IF s[1] = s[2] THEN s[1]
    ELSE IF s[1] > s[2] THEN Hcf[<<s[1] - s[2], s[2]>>] ELSE Hcf[<<s[1], s[2] - s[1]>>]

LCM(m, n) == (m * n) \div Hcf[<<m, n>>]

localFPS(m, n) == LCM(m, n) \div m
remoteFPS(m, n) == LCM(m, n) \div n

\* node i of the m senders sends the fragments [start, end) to node r of the n
\* receivers; its share is cut after the last fragment of every receiver
getSenderConfig(m, n, i) ==
    LET first == localFPS(m, n) * i
        stop  == localFPS(m, n) * (i + 1)
        Cuts  == {k + 1 : k \in {j \in first .. (stop - 1) : j % remoteFPS(m, n) = remoteFPS(m, n) - 1}}
                    \cup {stop}
        From(e) == LET before == {c \in Cuts \cup {first} : c < e}
                   IN  CHOOSE c \in before : \A d \in before : d <= c
    IN  {[start |-> From(e), end |-> e, localId |-> i, remoteId |-> (e - 1) \div remoteFPS(m, n)] :
            e \in Cuts}

Byzantine(n) == (n - 1) \div 3

\* as many fragments may be missing as the faulty nodes of both groups carry
parityShardCnt(m, n) ==
    Byzantine(n) * remoteFPS(m, n) + Byzantine(m) * localFPS(m, n)

\* A plausible slip: one fragment too many is asked for.
KeepOneLess(m, n) == LCM(m, n) - parityShardCnt(m, n) + 1

dataShardCnt(m, n) == LCM(m, n) - parityShardCnt(m, n)

\* the configuration of all senders
GenerateAllConfig(m, n) == UNION {getSenderConfig(m, n, i) : i \in 0 .. (m - 1)}

Fragments(p) == p.start .. (p.end - 1)

=============================================================================
