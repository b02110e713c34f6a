------------------------------- MODULE Steward -------------------------------
(***************************************************************************)
(* Steward (steward::BlockOrder): all clients use group 0, and one Raft    *)
(* log, led by a node of group 0, orders its blocks.  The state is that of *)
(* the leader and of one node which hears the log from every node of its   *)
(* group that takes part in Raft, itself included when it does.            *)
(***************************************************************************)
EXTENDS Integers, Sequences

CONSTANTS
    MaxBlock,   \* bound: the highest block number of the chain
    Source      \* the nodes of the group that take part in Raft

VARIABLES
    agreed,      \* agreed[0]: the blocks of group 0 in the leader's storage
    pending,     \* those that its subscription has not returned yet
    log,         \* the blocks proposed in the Raft log, in order
    validated,   \* the blocks that the followers have received
    committed,   \* the length of the committed prefix of the log
    heard,       \* heard[s]: entries of the log that came from s
    delivered    \* the calls of the deliver callback, in order

stewardVars == <<agreed, pending, log, validated, committed, heard, delivered>>

Init ==
    /\ agreed = [g \in {0} |-> {}]
    /\ pending = {}
    /\ log = <<>>
    /\ validated = {}
    /\ committed = 0
    /\ heard = [s \in Source |-> 0]
    /\ delivered = <<>>

\* the local consensus finishes a block; other threads replicate it
Insert ==
    \E b \in (0 .. MaxBlock) \ agreed[0] :
        /\ 0 .. (b - 1) \subseteq agreed[0]
        /\ agreed' = [agreed EXCEPT ![0] = @ \cup {b}]
        /\ pending' = pending \cup {b}
        /\ UNCHANGED <<log, validated, committed, heard, delivered>>

Replicate ==
    \E b \in agreed[0] \ validated :
        /\ validated' = validated \cup {b}
        /\ UNCHANGED <<agreed, pending, log, committed, heard, delivered>>

\* the leader's subscription returns a block, in any order, and it is proposed
voteNewBlock ==
    \E b \in pending :
        /\ pending' = pending \ {b}
        /\ log' = Append(log, b)
        /\ UNCHANGED <<agreed, validated, committed, heard, delivered>>

\* A follower waits for the block 6 times 40 ms and then refuses the entry, to
\* be asked again: the entry is accepted once the block is there.
waitUntilReceiveValidBlock ==
    /\ committed < Len(log)
    /\ log[committed + 1] \in validated
    /\ committed' = committed + 1
    /\ UNCHANGED <<agreed, pending, log, validated, heard, delivered>>

\* Mutant: of several entries of the log only the last one is applied.
applyNewest(s) ==
    /\ heard[s] < committed
    /\ heard' = [heard EXCEPT ![s] = committed]
    /\ delivered' = Append(delivered, <<0, log[committed]>>)
    /\ UNCHANGED <<agreed, pending, log, validated, committed>>

\* an entry applied at, or gossiped by, s: every one is executed
applyRawBlockOrder(s) ==
    /\ heard[s] < committed
    /\ heard' = [heard EXCEPT ![s] = @ + 1]
    /\ delivered' = Append(delivered, <<0, log[heard[s] + 1]>>)
    /\ UNCHANGED <<agreed, pending, log, validated, committed>>

Next ==
    \/ Insert \/ Replicate \/ voteNewBlock \/ waitUntilReceiveValidBlock
    \/ \E s \in Source : applyRawBlockOrder(s)

-----------------------------------------------------------------------------
\* FollowsLog: although the node hears every entry from several others, the
\* blocks are executed for the first time in the order of the log: when a block
\* is executed, so are all those before it in the log.  (They are executed again
\* for every further source.)
FollowsLog ==
    \A i \in DOMAIN delivered :
        \E p \in DOMAIN log :
            /\ delivered[i] = <<0, log[p]>>
            /\ \A q \in 1 .. (p - 1) : \E j \in 1 .. (i - 1) : delivered[j] = <<0, log[q]>>
=============================================================================
