----------------------- MODULE RoundBasedOrderManager -----------------------
(***************************************************************************)
(* One node's ordering by rounds (class rb::RoundBasedOrderManager, used   *)
(* by the round-based and the ISS orderings): round r is block r of every  *)
(* group that is not reported to be down, and is delivered once all of     *)
(* these have been agreed on.                                              *)
(***************************************************************************)
EXTENDS Integers, Sequences, FiniteSets

CONSTANTS
    GroupCount,  \* subChainCount
    Faulty,      \* the groups whose leader may be reported to be down
    MaxBlock     \* bound: the highest block number agreed on in a chain

ASSUME GroupCountAssumption == GroupCount \in Nat \ {0}
ASSUME FaultyAssumption == Faulty \subseteq 0 .. (GroupCount - 1)
ASSUME MaxBlockAssumption == MaxBlock \in Nat

Group == 0 .. (GroupCount - 1)

VARIABLES
    agreed,              \* agreed[g]: the blocks of g whose log entry was applied here
    receiveMap,          \* receiveMap[r]: the groups whose block r was received
    lastCommittedRound,
    invalidGroupList,    \* the groups reported to be down
    committing,          \* the mutex is held by a thread inside tryCommitBlock
    delivered            \* the calls of the deliver callback, in order

vars == <<agreed, receiveMap, lastCommittedRound, invalidGroupList, committing, delivered>>

Init ==
    /\ agreed = [g \in Group |-> {}]
    /\ receiveMap = [r \in {} |-> {}]
    /\ lastCommittedRound = -1
    /\ invalidGroupList = {}
    /\ committing = FALSE
    /\ delivered = <<>>

\* the entry of the round is created if it does not exist; tryCommitBlock follows
pushDecision(g, b) ==
    LET Old(r) == IF r \in DOMAIN receiveMap THEN receiveMap[r] ELSE {}
    IN  /\ ~ committing
        /\ receiveMap' = [r \in DOMAIN receiveMap \cup {b} |->
                            IF r = b THEN Old(r) \cup {g} ELSE receiveMap[r]]
        /\ committing' = TRUE

\* The node applies an entry of the Raft log of group g.  The leader of g has
\* proposed its blocks in the order in which its subscription, a concurrent
\* queue with several producers, returned them: in any order.
Apply(g) ==
    /\ \E b \in (0 .. MaxBlock) \ agreed[g] :
         /\ pushDecision(g, b)
         /\ agreed' = [agreed EXCEPT ![g] = @ \cup {b}]
    /\ UNCHANGED <<lastCommittedRound, invalidGroupList, delivered>>

\* a peer of the group gossips an entry that this node has already applied
Duplicate(g) ==
    /\ \E b \in agreed[g] : pushDecision(g, b)
    /\ UNCHANGED <<agreed, lastCommittedRound, invalidGroupList, delivered>>

\* The loop over the flags of the round asks whether the flag, converted to the
\* number 0, is an invalid group: a missing block of any group is excused when
\* group 0 is down, and not excused otherwise.
isRoundCommitted(r) ==
    /\ r \in DOMAIN receiveMap
    /\ \A g \in Group : g \notin receiveMap[r] => 0 \in invalidGroupList

\* the valid groups that the loop of tryCommitBlock has met after n iterations
ValidGroups[n \in Nat] ==
    IF n = 0 THEN <<>>
    ELSE IF n - 1 \in invalidGroupList THEN ValidGroups[n - 1]
    ELSE Append(ValidGroups[n - 1], n - 1)

\* one iteration of tryCommitBlock, with the mutex held
CommitRound ==
    LET r == lastCommittedRound + 1
        valid == ValidGroups[GroupCount]
    IN
    /\ committing
    /\ isRoundCommitted(r)
    /\ lastCommittedRound' = r
    /\ receiveMap' = [k \in DOMAIN receiveMap \ {r} |-> receiveMap[k]]
    /\ delivered' = delivered \o [i \in DOMAIN valid |-> <<valid[i], r>>]
    /\ UNCHANGED <<agreed, invalidGroupList, committing>>

\* Mutant: tryCommitBlock returns before the loop's condition fails.
CommitDoneEarly ==
    /\ committing
    /\ committing' = FALSE
    /\ UNCHANGED <<agreed, receiveMap, lastCommittedRound, invalidGroupList, delivered>>

CommitDone ==
    /\ committing
    /\ ~ isRoundCommitted(lastCommittedRound + 1)
    /\ committing' = FALSE
    /\ UNCHANGED <<agreed, receiveMap, lastCommittedRound, invalidGroupList, delivered>>

\* the leader of group g is reported to be down
invalidateChain(g) ==
    /\ ~ committing
    /\ g \notin invalidGroupList
    /\ invalidGroupList' = invalidGroupList \cup {g}
    /\ committing' = TRUE
    /\ UNCHANGED <<agreed, receiveMap, lastCommittedRound, delivered>>

Next ==
    \/ \E g \in Group : Apply(g)
    \/ \E g \in Group : Duplicate(g)
    \/ CommitRound
    \/ CommitDone
    \/ \E g \in Faulty : invalidateChain(g)

Spec == Init /\ [][Next]_vars

(***************************************************************************)
(* Correctness.                                                            *)
(***************************************************************************)

\* the order that the rounds define, of blocks that have been agreed on
R == INSTANCE RoundOrder
     WITH known <- agreed, down <- invalidGroupList, last <- lastCommittedRound,
          executed <- delivered

=============================================================================
