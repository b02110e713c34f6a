------------------------------- MODULE GeoBFT -------------------------------
(***************************************************************************)
(* One node's ordering under GeoBFT (geobft::RaftLogValidator): there is   *)
(* no agreement between the groups.  A thread takes the blocks of all      *)
(* groups from the node's block storage as they arrive, and executes a     *)
(* round when the last of its blocks has come.                             *)
(***************************************************************************)
EXTENDS Integers, Sequences, SequencesExt

CONSTANTS
    GroupCount,
    MaxBlock,   \* bound: the highest block number of a chain
    Several     \* the groups whose blocks are inserted by several threads

Group == 0 .. (GroupCount - 1)

VARIABLES
    agreed,              \* agreed[g]: the blocks of g in the storage
    subscriber,          \* subscriber[g]: those not yet returned to the thread
    blockList,
    lastCommittedRound,  \* the last round executed
    aborted,             \* a CHECK has failed
    delivered

geoVars == <<agreed, subscriber, blockList, lastCommittedRound, aborted, delivered>>

Init ==
    /\ agreed = [g \in Group |-> {}]
    /\ subscriber = [g \in Group |-> <<>>]
    /\ blockList = [g \in Group |-> -1]
    /\ lastCommittedRound = -1
    /\ aborted = FALSE
    /\ delivered = <<>>

\* the blocks of a chain are inserted one after the other
insertBlockAndNotify(g) ==
    LET b == blockList[g] + 1 + Len(subscriber[g]) IN
    /\ ~aborted /\ b <= MaxBlock
    /\ agreed' = [agreed EXCEPT ![g] = @ \cup {b}]
    /\ subscriber' = [subscriber EXCEPT ![g] = Append(@, b)]
    /\ UNCHANGED <<blockList, lastCommittedRound, aborted, delivered>>

\* the concurrent queue keeps the order of what one thread inserts, no more
Returnable(g) == {i \in DOMAIN subscriber[g] : g \in Several \/ i = 1}

\* Mutant: the round of the slowest group is executed whichever block came.
canExecuteSlowest(list, r) == \E g \in Group : list[g] >= r

canExecute(list, r) == \A g \in Group : list[g] >= r

\* orderBlock: one iteration of its loop
orderBlock(g) ==
    /\ ~aborted
    /\ \E i \in Returnable(g) :
         LET b == subscriber[g][i]
             list == [blockList EXCEPT ![g] = b]
         IN  /\ subscriber' = [subscriber EXCEPT ![g] = RemoveAt(@, i)]
             /\ aborted' = (blockList[g] # b - 1)
             /\ blockList' = IF aborted' THEN blockList ELSE list
             /\ IF ~aborted' /\ canExecute(list, b)
                THEN /\ lastCommittedRound' = b
                     /\ delivered' = delivered \o [k \in 1 .. GroupCount |-> <<k - 1, b>>]
                ELSE UNCHANGED <<lastCommittedRound, delivered>>
    /\ UNCHANGED agreed

Next == \E g \in Group : insertBlockAndNotify(g) \/ orderBlock(g)

=============================================================================
