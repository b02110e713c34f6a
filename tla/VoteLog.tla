------------------------------ MODULE VoteLog ------------------------------
(***************************************************************************)
(* The vote logs that the groups exchange (proto::BlockOrder): every group *)
(* has one Raft log, led by the leader of the group.                       *)
(***************************************************************************)
EXTENDS Integers, Sequences

CONSTANT GroupCount   \* number of groups, maxGroupId + 1

ASSUME GroupCountAssumption == GroupCount \in Nat \ {0}

Group == 0 .. (GroupCount - 1)
INVALID_WATERMARK == -1
Mark == Nat \cup {INVALID_WATERMARK}

\* the entry (chain, block, mark) of the log of v: BlockOrder{chainId, blockId, v, mark}
Entry == [chain : Group, block : Nat, mark : Mark]

(***************************************************************************)
(* What the order manager needs of the logs: a voter votes once for a       *)
(* block, in block order within a chain, and its clock never goes back.    *)
(* The vote of a group for its own block carries the block number instead  *)
(* of the clock, and takes no part in the comparison of clocks.            *)
(***************************************************************************)
VotesInOrder(l, v) ==
    \A p \in DOMAIN l[v] : \A b \in 0 .. (l[v][p].block - 1) :
        \E q \in 1 .. (p - 1) : l[v][q].chain = l[v][p].chain /\ l[v][q].block = b

VotesOnce(l, v) ==
    \A p \in DOMAIN l[v] : \A q \in 1 .. (p - 1) :
        ~ (l[v][q].chain = l[v][p].chain /\ l[v][q].block = l[v][p].block)

ClockMonotone(l, v) ==
    \A p \in DOMAIN l[v] : \A q \in 1 .. (p - 1) :
        (l[v][q].chain # v /\ l[v][p].chain # v) => l[v][q].mark <= l[v][p].mark

WellFormed(l) ==
    /\ l \in [Group -> Seq(Entry)]
    /\ \A v \in Group : VotesInOrder(l, v) /\ VotesOnce(l, v) /\ ClockMonotone(l, v)

=============================================================================
