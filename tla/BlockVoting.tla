---------------------------- MODULE BlockVoting ----------------------------
(***************************************************************************)
(* How the leaders of the groups fill the vote logs (class OrderAssigner,  *)
(* BlockOrder::voteNewBlock, and the callbacks that NewBlockOrder installs *)
(* in OrderACB).                                                           *)
(*                                                                         *)
(* The leader of u votes for a block in two threads.  The subscriber of    *)
(* the block storage votes for the blocks u has received, in the order in  *)
(* which they arrive.  The Raft follower that validates the log of another *)
(* group v counts the votes it sees, and forces u to vote for a block that *)
(* more than half of the groups have voted for, even when u does not have  *)
(* it.  Both threads take the vote from the OrderAssigner under its mutex  *)
(* and append it to the log of u after the mutex is released.              *)
(***************************************************************************)
EXTENDS VoteLog, FiniteSets

CONSTANTS
    Blocks,      \* bound: Blocks[c] blocks are produced in chain c
    Unreachable, \* groups that never receive the blocks of other groups
    FifoQueue,   \* the subscriber gets the blocks of its own group in order
    QueueSize    \* OrderAssigner::BlockVotes::MAX_BLOCK_QUEUE_SIZE

ASSUME BlocksAssumption == Blocks \in [Group -> Nat]
ASSUME UnreachableAssumption == Unreachable \subseteq Group
ASSUME FifoQueueAssumption == FifoQueue \in BOOLEAN
ASSUME QueueSizeAssumption == QueueSize \in Nat \ {0}

VARIABLES
    produced,  \* produced[c]: blocks the local consensus of c has finished
    received,  \* received[u][c]: blocks of c in the storage of u
    queue,     \* queue[u]: blocks the subscriber of u has still to vote for (a
               \* concurrent queue, with no order between its producers)
    slot,      \* slot[u][c][k]: the ring of OrderAssigner::BlockVotes
    clock,     \* clock[u]: OrderAssigner::_myClock
    taken,     \* taken[u]: the vote the subscriber has taken, not yet in the log
    stage,     \* stage[u][v]: where u is in validating the next entry of log v
    forced,    \* forced[u][v]: the forced vote taken there, not yet in the log
    log,       \* log[v]: the Raft log led by v
    accepted,  \* accepted[u][v]: entries of log v that u has accepted
    applied,   \* applied[u][v]: entries of log v that u has applied
    aborted    \* the leaders whose process a CHECK has ended

vars == <<produced, received, queue, slot, clock, taken, stage, forced,
          log, accepted, applied, aborted>>

Threshold == (GroupCount \div 2) + 1

Slot == [blockId : Nat, votes : SUBSET Group, finished : BOOLEAN]

EmptySlot(b) == [blockId |-> b, votes |-> {}, finished |-> FALSE]

\* getRef: a slot that still holds an older block is cleared; a slot that holds
\* a newer one is returned as it is (the DCHECK is compiled out of the release)
getRef(u, c, b) ==
    LET s == slot[u][c][b % QueueSize]
    IN  IF s.blockId < b THEN EmptySlot(b) ELSE s

Init ==
    /\ produced = [c \in Group |-> 0]
    /\ received = [u \in Group |-> [c \in Group |-> 0]]
    /\ queue = [u \in Group |-> {}]
    /\ slot = [u \in Group |-> [c \in Group |-> [k \in 0 .. (QueueSize - 1) |-> EmptySlot(0)]]]
    /\ clock = [u \in Group |-> INVALID_WATERMARK]
    /\ taken = [u \in Group |-> <<>>]
    /\ stage = [u \in Group |-> [v \in Group |-> "idle"]]
    /\ forced = [u \in Group |-> [v \in Group |-> <<>>]]
    /\ log = [v \in Group |-> <<>>]
    /\ accepted = [u \in Group |-> [v \in Group |-> 0]]
    /\ applied = [u \in Group |-> [v \in Group |-> 0]]
    /\ aborted = {}

(***************************************************************************)
(* The block storage of a leader.                                          *)
(***************************************************************************)

\* insertBlockAndNotify at the leader of u, of the next block of chain c
Insert(u, c) ==
    /\ received' = [received EXCEPT ![u][c] = @ + 1]
    /\ queue' = [queue EXCEPT ![u] = @ \cup {<<c, received[u][c]>>}]

\* the local consensus of group c finishes its next block
Produce(c) ==
    /\ c \notin aborted
    /\ produced[c] < Blocks[c]
    /\ produced' = [produced EXCEPT ![c] = @ + 1]
    /\ Insert(c, c)
    /\ UNCHANGED <<slot, clock, taken, stage, forced, log, accepted, applied, aborted>>

\* the block receiver of u rebuilds the next block of chain c
Replicate(u, c) ==
    /\ u \notin aborted \cup Unreachable
    /\ u # c
    /\ received[u][c] < produced[c]
    /\ Insert(u, c)
    /\ UNCHANGED <<produced, slot, clock, taken, stage, forced, log, accepted, applied, aborted>>

(***************************************************************************)
(* OrderAssigner::getBlockOrder, and the append to the own log.            *)
(***************************************************************************)

\* the votes of u for block b of chain c: none when the vote is already taken
BlockOrder(u, c, b) ==
    IF getRef(u, c, b).finished THEN <<>>
    ELSE << [chain |-> c, block |-> b, mark |-> IF c = u THEN b ELSE clock[u]] >>

\* Mutant: the vote is not marked as taken.
getBlockOrderUnmarked(u, c, b) ==
    slot' = [slot EXCEPT ![u][c][b % QueueSize] = getRef(u, c, b)]

getBlockOrder(u, c, b) ==
    slot' = [slot EXCEPT ![u][c][b % QueueSize] = [getRef(u, c, b) EXCEPT !.finished = TRUE]]

\* Mutant: the queue keeps no order at all.
DequeueableAny(u) == queue[u]

\* the blocks that the subscriber of u may get next.  One thread inserts the
\* blocks of a remote chain; the blocks of the own chain are inserted by the
\* deliver RPCs of the local consensus, which run on several threads.
Dequeueable(u) ==
    {x \in queue[u] : (x[1] # u \/ FifoQueue) =>
                          \A y \in queue[u] : y[1] = x[1] => x[2] <= y[2]}

\* contentLeaderReceiverLoop: the subscriber takes the vote for a new block ...
SubscriberVote(u) ==
    /\ u \notin aborted
    /\ taken[u] = <<>>
    /\ \E x \in Dequeueable(u) :
         /\ taken' = [taken EXCEPT ![u] = BlockOrder(u, x[1], x[2])]
         /\ getBlockOrder(u, x[1], x[2])
         /\ queue' = [queue EXCEPT ![u] = @ \ {x}]
    /\ UNCHANGED <<produced, received, clock, stage, forced, log, accepted, applied, aborted>>

\* AsyncAgreement::apply: the leader of u appends the votes s to its log
Propose(u, s) ==
    /\ log' = [log EXCEPT ![u] = @ \o s]
    /\ accepted' = [accepted EXCEPT ![u][u] = @ + Len(s)]

\* ... and appends it to its own log, with no lock held
SubscriberPropose(u) ==
    /\ u \notin aborted
    /\ taken[u] # <<>>
    /\ Propose(u, taken[u])
    /\ taken' = [taken EXCEPT ![u] = <<>>]
    /\ UNCHANGED <<produced, received, queue, slot, clock, stage, forced, applied, aborted>>

(***************************************************************************)
(* OrderACB's onValidate: u validates the next entry of the log of v.      *)
(***************************************************************************)

\* the entry of log v that u is validating
Pending(u, v) == log[v][accepted[u][v] + 1]

\* Mutant: the threshold has to be exceeded.
ReachedAbove(votes) == Cardinality(votes) > Threshold

\* addVoteForBlock returns TRUE for the vote that makes the threshold
Reached(votes) == Cardinality(votes) = Threshold

\* addVoteForBlock
AddVote(u, v) ==
    /\ u \notin aborted
    /\ u # v
    /\ stage[u][v] = "idle"
    /\ accepted[u][v] < Len(log[v])
    /\ LET c == Pending(u, v).chain
           b == Pending(u, v).block
           s == getRef(u, c, b)
           votes == s.votes \cup {v}
       IN  \/ /\ c = u
              /\ stage' = [stage EXCEPT ![u][v] = "check"]
              /\ UNCHANGED slot
           \/ /\ c # u /\ s.finished
              /\ stage' = [stage EXCEPT ![u][v] = "check"]
              /\ slot' = [slot EXCEPT ![u][c][b % QueueSize] = s]
           \/ /\ c # u /\ ~ s.finished
              /\ stage' = [stage EXCEPT ![u][v] =
                             IF Reached(votes) THEN "force" ELSE "check"]
              /\ slot' = [slot EXCEPT ![u][c][b % QueueSize] = [s EXCEPT !.votes = votes]]
    /\ UNCHANGED <<produced, received, queue, clock, taken, forced, log, accepted, applied, aborted>>

\* voteNewBlock, called because more than half of the groups have voted ...
ForcedVote(u, v) ==
    /\ u \notin aborted
    /\ stage[u][v] = "force"
    /\ LET e == Pending(u, v)
       IN  /\ forced' = [forced EXCEPT ![u][v] = BlockOrder(u, e.chain, e.block)]
           /\ getBlockOrder(u, e.chain, e.block)
    /\ stage' = [stage EXCEPT ![u][v] = "propose"]
    /\ UNCHANGED <<produced, received, queue, clock, taken, log, accepted, applied, aborted>>

\* ... appends the vote, if the subscriber had not taken it
ForcedPropose(u, v) ==
    /\ u \notin aborted
    /\ stage[u][v] = "propose"
    /\ Propose(u, forced[u][v])
    /\ forced' = [forced EXCEPT ![u][v] = <<>>]
    /\ stage' = [stage EXCEPT ![u][v] = "check"]
    /\ UNCHANGED <<produced, received, queue, slot, clock, taken, applied, aborted>>

\* getVoteForBlock, or the block itself is in the storage
Valid(u, e) ==
    LET s == getRef(u, e.chain, e.block)
    IN  \/ e.chain = u
        \/ s.finished
        \/ Cardinality(s.votes) >= Threshold
        \/ e.block < received[u][e.chain]

CheckVote(u, v) ==
    LET e == Pending(u, v) IN
    /\ u \notin aborted
    /\ stage[u][v] = "check"
    /\ stage' = [stage EXCEPT ![u][v] = "idle"]
    /\ slot' = IF e.chain = u THEN slot
               ELSE [slot EXCEPT ![u][e.chain][e.block % QueueSize] = getRef(u, e.chain, e.block)]
    /\ accepted' = IF Valid(u, e) THEN [accepted EXCEPT ![u][v] = @ + 1]
                   ELSE accepted     \* 20 tries have failed; v sends the entry again
    /\ UNCHANGED <<produced, received, queue, clock, taken, forced, log, applied, aborted>>

(***************************************************************************)
(* Raft: an entry that more than half of the leaders hold is committed and *)
(* applied; the leader of the block's group then advances its clock.       *)
(***************************************************************************)
Committed(v, p) == 2 * Cardinality({u \in Group : accepted[u][v] >= p}) > GroupCount

\* applyRawBlockOrder's call of increaseLocalClock
Apply(u, v) ==
    LET e == log[v][applied[u][v] + 1] IN
    /\ u \notin aborted
    /\ applied[u][v] < accepted[u][v]
    /\ Committed(v, applied[u][v] + 1)
    \* the block of another region and a stale call change nothing
    /\ clock' = IF e.chain = u /\ e.block - 1 = clock[u]
                THEN [clock EXCEPT ![u] = e.block] ELSE clock
    \* CHECK: the own blocks are agreed on in order
    /\ aborted' = IF e.chain = u /\ e.block - 1 > clock[u] THEN aborted \cup {u} ELSE aborted
    /\ applied' = [applied EXCEPT ![u][v] = @ + 1]
    /\ UNCHANGED <<produced, received, queue, slot, taken, stage, forced, log, accepted>>

Next ==
    \/ \E c \in Group : Produce(c)
    \/ \E u, c \in Group : Replicate(u, c)
    \/ \E u \in Group : SubscriberVote(u)
    \/ \E u \in Group : SubscriberPropose(u)
    \/ \E u, v \in Group : AddVote(u, v)
    \/ \E u, v \in Group : ForcedVote(u, v)
    \/ \E u, v \in Group : ForcedPropose(u, v)
    \/ \E u, v \in Group : CheckVote(u, v)
    \/ \E u, v \in Group : Apply(u, v)

Spec == Init /\ [][Next]_vars

\* every thread of every leader runs, and the network eventually delivers
LiveSpec ==
    /\ Spec
    /\ \A u \in Group : WF_vars(SubscriberVote(u)) /\ WF_vars(SubscriberPropose(u))
    /\ \A u, v \in Group :
         /\ WF_vars(Replicate(u, v))
         /\ WF_vars(AddVote(u, v))
         /\ WF_vars(ForcedVote(u, v))
         /\ WF_vars(ForcedPropose(u, v))
         /\ WF_vars(CheckVote(u, v))
         /\ WF_vars(Apply(u, v))

(***************************************************************************)
(* Correctness.                                                            *)
(***************************************************************************)

\* TypeOK: every variable keeps its type, and no log is read beyond its end.
TypeOK ==
    /\ produced \in [Group -> Nat]
    /\ received \in [Group -> [Group -> Nat]]
    /\ queue \in [Group -> SUBSET (Group \X Nat)]
    /\ slot \in [Group -> [Group -> [0 .. (QueueSize - 1) -> Slot]]]
    /\ clock \in [Group -> Mark]
    /\ taken \in [Group -> Seq(Entry)]
    /\ stage \in [Group -> [Group -> {"idle", "force", "propose", "check"}]]
    /\ forced \in [Group -> [Group -> Seq(Entry)]]
    /\ log \in [Group -> Seq(Entry)]
    /\ accepted \in [Group -> [Group -> Nat]]
    /\ applied \in [Group -> [Group -> Nat]]
    /\ \A u, v \in Group : applied[u][v] <= accepted[u][v] /\ accepted[u][v] <= Len(log[v])
    /\ aborted \subseteq Group

\* LogsWellFormed: the logs are what the order manager needs of them: one vote
\* per block, in block order, under a clock that never goes back.
LogsWellFormed == WellFormed(log)

\* OneVote: the two threads that vote never put two votes for a block in the log.
OneVote == \A v \in Group : VotesOnce(log, v)

\* NoneAborted: no leader finds its own blocks agreed on out of order.
NoneAborted == aborted = {}

\* Backed: a vote in a log is for a block that its voter holds, or that more
\* than half of the groups have voted for.
Backed ==
    \A v \in Group : \A p \in DOMAIN log[v] :
        \/ log[v][p].block < received[v][log[v][p].chain]
        \/ Cardinality({w \in Group \ {v} : \E q \in DOMAIN log[w] :
                log[w][q].chain = log[v][p].chain /\ log[w][q].block = log[v][p].block}) >= Threshold

\* EveryoneVotes: every group, one that never receives blocks included, votes
\* in the end for every block of every group that can spread its blocks.
EveryoneVotes ==
    \A v \in Group : \A c \in Group \ Unreachable : \A b \in 0 .. (Blocks[c] - 1) :
        (b < produced[c]) ~>
            (\E p \in DOMAIN log[v] : log[v][p].chain = c /\ log[v][p].block = b)

=============================================================================
