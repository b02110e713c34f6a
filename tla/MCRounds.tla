------------------------------ MODULE MCRounds ------------------------------
(* The orderings by rounds.  The initial state chooses one of them:          *)
(*   "rb"       the round-based order manager, fed by the groups' logs;      *)
(*   "iss"      the leaders of ISS, and the order manager at leader 0;       *)
(*   "geobft"   the thread that orders the blocks under GeoBFT;              *)
(*   "steward"  the single log of Steward.                                   *)
EXTENDS RoundBasedOrderManager

CONSTANTS EpochLength, IssMaxBlock, Several, Source

ASSUME EpochAssumption == EpochLength \in Nat \ {0} /\ IssMaxBlock \in Nat

VARIABLES
    sys,
    inserted, queue, lastBlockId, target, proposed, bucket, currentEpoch, applied,
    subscriber, blockList, aborted,
    pending, log, validated, committed, heard

I == INSTANCE IssEpoch WITH MaxBlock <- IssMaxBlock
B == INSTANCE GeoBFT
S == INSTANCE Steward

managerVars == <<receiveMap, invalidGroupList, committing>>
issVars == <<inserted, queue, lastBlockId, target, proposed, bucket, currentEpoch, applied>>
geoVars == <<subscriber, blockList, aborted>>
stewardVars == <<pending, log, validated, committed, heard>>
all == <<sys, vars, issVars, geoVars, stewardVars>>

MCInit ==
    /\ sys \in {"rb", "iss", "geobft", "steward"}
    /\ Init /\ I!Init
    /\ subscriber = [g \in Group |-> <<>>] /\ blockList = [g \in Group |-> -1]
    /\ aborted = FALSE
    /\ pending = {} /\ log = <<>> /\ validated = {} /\ committed = 0
    /\ heard = [s \in Source |-> 0]

\* At leader 0 of ISS an entry reaches the epochs first, then the rounds, before
\* the thread of that log applies the next one.
IssPush(v) ==
    /\ Cardinality(agreed[v]) < applied[0][v]
    /\ pushDecision(v, Cardinality(agreed[v]))
    /\ agreed' = [agreed EXCEPT ![v] = @ \cup {Cardinality(@)}]
    /\ UNCHANGED <<lastCommittedRound, invalidGroupList, delivered>>

IssStep ==
    \/ /\ I!Next
       /\ \A v \in Group : applied'[0][v] # applied[0][v] =>
                              Cardinality(agreed[v]) = applied[0][v]
       /\ UNCHANGED vars
    \/ /\ \/ \E v \in Group : IssPush(v)
          \/ CommitRound
          \/ CommitDone
       /\ UNCHANGED issVars

MCNext ==
    /\ \/ sys = "rb" /\ Next /\ UNCHANGED <<issVars, geoVars, stewardVars>>
       \/ sys = "iss" /\ IssStep /\ UNCHANGED <<geoVars, stewardVars>>
       \/ sys = "geobft" /\ B!Next /\ UNCHANGED <<managerVars, issVars, stewardVars>>
       \/ sys = "steward" /\ S!Next
          /\ UNCHANGED <<managerVars, lastCommittedRound, issVars, geoVars>>
    /\ UNCHANGED sys

\* The threads of each ordering go on.  Except that entries may be gossiped
\* again, each has a bounded amount to do, so that it is enough that one of
\* its steps that are not repetitions is taken.
MCSpec ==
    /\ MCInit /\ [][MCNext]_all
    /\ \A g \in Group : WF_all(sys = "rb" /\ Apply(g) /\ MCNext)
    /\ WF_all(sys = "rb" /\ (CommitRound \/ CommitDone) /\ MCNext)
    /\ WF_all(sys = "iss" /\ MCNext /\ <<vars, target, proposed, applied>>' #
                                        <<vars, target, proposed, applied>>)
    /\ WF_all(sys \in {"geobft", "steward"} /\ MCNext)

-----------------------------------------------------------------------------
\* RoundsImplemented: every ordering by rounds executes complete rounds of the
\* groups that are not down, in order, none twice, however the logs interleave,
\* whatever is gossiped again, in whatever order a queue returns the blocks, and
\* whenever a leader other than that of group 0 is reported to be down.
RoundsImplemented == [][sys # "steward" => R!Next]_<<agreed, invalidGroupList,
                                                      lastCommittedRound, delivered>>

\* RoundsDelivered: every round is delivered in the end, once all of its blocks
\* and those of the rounds before it are agreed on or, under GeoBFT, stored;
\* unless, under GeoBFT, the queue has returned the blocks of a group out of
\* order: then orderBlock ends the process.
RoundsDelivered ==
    \A r \in 0 .. MaxBlock :
        (sys # "steward" /\ \A g \in Group : 0 .. r \subseteq agreed[g])
            ~> (r <= lastCommittedRound \/ aborted)

\* EpochsSeparated: of the leaders of ISS.
EpochsSeparated == I!EpochsSeparated

\* AllProposed: of the leaders of ISS.
AllProposed == sys = "iss" => I!AllProposed

\* FollowsLog: of Steward.
FollowsLog == sys = "steward" => S!FollowsLog
=============================================================================
