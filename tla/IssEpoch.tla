------------------------------ MODULE IssEpoch ------------------------------
(***************************************************************************)
(* The leaders of the groups under the ISS ordering (iss::BlockOrder and   *)
(* iss::EpochManager).  Each leader proposes the blocks of its own group   *)
(* in the Raft log of the group, EpochLength blocks per epoch, and starts  *)
(* an epoch only when it has applied all blocks of the previous one, those *)
(* of the other groups included.                                           *)
(***************************************************************************)
EXTENDS Integers, Sequences, FiniteSets, FiniteSetsExt

CONSTANTS
    GroupCount,
    EpochLength,
    MaxBlock     \* bound: the highest block number of a chain


Group == 0 .. (GroupCount - 1)

VARIABLES
    inserted,      \* inserted[u]: blocks that the local consensus of u finished
    queue,         \* queue[u]: own blocks still in the subscription of leader u
    lastBlockId,   \* lastBlockId[u]: blocks up to this one are proposed
    target,        \* target[u]: the call voteNewBlock in progress, -1 if none
    proposed,      \* proposed[u]: entries of the Raft log of u: blocks 0 .. proposed[u]-1
    bucket,        \* bucket[u][b]: EpochManager::_bucket at leader u
    currentEpoch,  \* currentEpoch[u]
    applied        \* applied[u][v]: entries of the log of v applied at leader u

vars == <<inserted, queue, lastBlockId, target, proposed, bucket, currentEpoch, applied>>

Init ==
    /\ inserted = [u \in Group |-> 0]
    /\ queue = [u \in Group |-> {}]
    /\ lastBlockId = [u \in Group |-> -1]
    /\ target = [u \in Group |-> -1]
    /\ proposed = [u \in Group |-> 0]
    /\ bucket = [u \in Group |-> [b \in 0 .. MaxBlock |-> {}]]
    /\ currentEpoch = [u \in Group |-> 0]
    /\ applied = [u \in Group |-> [v \in Group |-> 0]]

\* the local consensus of u finishes its next block
Insert(u) ==
    /\ inserted[u] <= MaxBlock
    /\ inserted' = [inserted EXCEPT ![u] = @ + 1]
    /\ queue' = [queue EXCEPT ![u] = @ \cup {inserted[u]}]
    /\ UNCHANGED <<lastBlockId, target, proposed, bucket, currentEpoch, applied>>

\* voteNewBlock(u, b): the concurrent queue returns the blocks in any order; a
\* block already proposed with a later one is skipped
voteNewBlock(u) ==
    /\ target[u] = -1
    /\ \E b \in queue[u] :
         /\ queue' = [queue EXCEPT ![u] = @ \ {b}]
         /\ target' = [target EXCEPT ![u] = IF b > lastBlockId[u] THEN b ELSE -1]
    /\ UNCHANGED <<inserted, lastBlockId, proposed, bucket, currentEpoch, applied>>

\* Mutant: the first block of the next epoch is admitted.
canProposeNext(u, b) == b <= EpochLength * (currentEpoch[u] + 1)

canPropose(u, b) == b < EpochLength * (currentEpoch[u] + 1)

\* voteNewBlockInner: one iteration of its loop, once the epoch admits the block
voteNewBlockInner(u) ==
    LET b == proposed[u] IN
    /\ target[u] # -1
    /\ canPropose(u, b)
    /\ proposed' = [proposed EXCEPT ![u] = b + 1]
    /\ lastBlockId' = IF b = target[u] THEN [lastBlockId EXCEPT ![u] = b] ELSE lastBlockId
    /\ target' = IF b = target[u] THEN [target EXCEPT ![u] = -1] ELSE target
    /\ UNCHANGED <<inserted, queue, bucket, currentEpoch, applied>>

\* Mutant: one block too many is waited for.
checkEpochLong(k, e) ==
    \A b \in (EpochLength * e) .. (EpochLength * (e + 1) - 1) :
        b \in DOMAIN k /\ Cardinality(k[b]) > GroupCount

\* checkEpoch(e) over the buckets k
checkEpoch(k, e) ==
    \A b \in (EpochLength * e) .. (EpochLength * (e + 1) - 1) :
        b \in DOMAIN k /\ Cardinality(k[b]) >= GroupCount

\* receivedBlock: record the block, then advance over all the finished epochs
receivedBlock(u, v, b) ==
    LET k == [bucket[u] EXCEPT ![b] = @ \cup {v}]
        Reached(e) == \A i \in currentEpoch[u] .. (e - 1) : checkEpoch(k, i)
    IN  /\ bucket' = [bucket EXCEPT ![u] = k]
        /\ currentEpoch' = [currentEpoch EXCEPT ![u] =
                Max({e \in @ .. (MaxBlock + 1) : Reached(e)})]

\* leader u applies the next entry of the Raft log of v
Apply(u, v) ==
    /\ applied[u][v] < proposed[v]
    /\ receivedBlock(u, v, applied[u][v])
    /\ applied' = [applied EXCEPT ![u][v] = @ + 1]
    /\ UNCHANGED <<inserted, queue, lastBlockId, target, proposed>>

\* a peer of the group gossips to leader u an entry it has already applied
Duplicate(u, v) ==
    /\ \E b \in 0 .. (applied[u][v] - 1) : receivedBlock(u, v, b)
    /\ UNCHANGED <<inserted, queue, lastBlockId, target, proposed, applied>>

Next ==
    \/ \E u \in Group : Insert(u)
    \/ \E u \in Group : voteNewBlock(u)
    \/ \E u \in Group : voteNewBlockInner(u)
    \/ \E u, v \in Group : Apply(u, v)
    \/ \E u, v \in Group : Duplicate(u, v)

(***************************************************************************)
(* Correctness.                                                            *)
(***************************************************************************)

\* EpochsSeparated: a node has committed all blocks of an epoch, of all groups,
\* before it proposes a block of the next; and it proposes only blocks it has,
\* although it proposes those too that the concurrent queue has yet to return.
EpochsSeparated ==
    \A u \in Group :
        /\ proposed[u] <= inserted[u]
        /\ \A v \in Group : \A e \in 1 .. MaxBlock :
              proposed[u] > EpochLength * e => applied[u][v] >= EpochLength * e

\* AllProposed: when every group has finished its blocks, every group proposes
\* them all: the leaders never wait on each other's epochs for ever.
AllProposed ==
    (\A v \in Group : inserted[v] > MaxBlock) ~> (\A v \in Group : proposed[v] > MaxBlock)

=============================================================================
