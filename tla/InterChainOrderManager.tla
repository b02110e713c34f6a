----------------------- MODULE InterChainOrderManager -----------------------
(***************************************************************************)
(* One node's merge of the vote logs of all groups into a single block     *)
(* order (class InterChainOrderManager, fed by OrderACB::applyRawBlockOrder). *)
(*                                                                         *)
(* Every group v has a Raft log, led by the leader of v, in which v votes  *)
(* for the blocks of all groups: the entry (chain, block, mark) says that  *)
(* v received block `block` of group `chain` when its own clock was        *)
(* `mark`.  A node applies each log in order, but interleaves the logs     *)
(* arbitrarily, and may see an entry again when a peer gossips it.  The    *)
(* votes on a block form its vector of watermarks; blocks are delivered in *)
(* the lexicographic order of their vectors, as soon as the votes applied  *)
(* so far determine which block is the smallest.                           *)
(***************************************************************************)
EXTENDS VoteLog, FiniteSets

CONSTANTS
    Logs,         \* the vote logs the groups may have agreed on
    Faulty,       \* the groups whose leader may be reported to be down
    MaxDelivered  \* bound: calls of deliverCallback that are followed

ASSUME MaxDeliveredAssumption == MaxDelivered \in Nat
ASSUME FaultyAssumption == Faulty \subseteq Group
ASSUME LogsAssumption == \A l \in Logs : WellFormed(l)

VARIABLES
    log,        \* log[v]: the agreed Raft log of group v (never changes)
    pos,        \* pos[v]: entries of log[v] applied at this node
    chains,     \* chains[g]: cells of group g, indexed by position in the vector
    heads,      \* CommitBuffer.buffer: position of the next undelivered cell
    height,     \* Chain.height: highest block or clock seen of a group
    invalid,    \* CommitBuffer.invalidateMap: groups reported as failed
    popping,    \* the mutex is held by a thread inside popBlocks
    delivered,  \* the calls of deliverCallback, in order
    aborted     \* a CHECK failed and the process is gone

vars == <<log, pos, chains, heads, height, invalid, popping, delivered, aborted>>

(***************************************************************************)
(* Cells.                                                                  *)
(***************************************************************************)
Cell == [groupId : Group, blockId : Nat,
         watermarks : [Group -> Mark], real : [Group -> BOOLEAN]]

NewCell(g, b) ==
    [groupId |-> g, blockId |-> b,
     watermarks |-> [i \in Group |-> IF i = g THEN b ELSE INVALID_WATERMARK],
     real |-> [i \in Group |-> i = g]]

\* Mutant: an estimate of the left cell counts like a vote.
mustLessThanEager(left, right) ==
    LET Tied(i) == left.watermarks[i] = right.watermarks[i]
    IN  \/ left.groupId = right.groupId /\ left.blockId = right.blockId
        \/ \E i \in Group : /\ left.watermarks[i] < right.watermarks[i]
                            /\ \A j \in 0 .. (i - 1) : Tied(j)
        \/ /\ \A i \in Group : Tied(i)
           /\ \/ left.blockId < right.blockId
              \/ left.blockId = right.blockId /\ left.groupId < right.groupId

\* left is certainly before right, whatever the votes still to come
mustLessThan(left, right) ==
    LET Tied(i) == /\ left.real[i] /\ right.real[i]
                   /\ left.watermarks[i] = right.watermarks[i]
    IN  \/ left.groupId = right.groupId /\ left.blockId = right.blockId
        \/ \E i \in Group : /\ left.real[i]
                            /\ left.watermarks[i] < right.watermarks[i]
                            /\ \A j \in 0 .. (i - 1) : Tied(j)
        \/ /\ \A i \in Group : Tied(i)
           /\ \/ left.blockId < right.blockId
              \/ left.blockId = right.blockId /\ left.groupId < right.groupId

\* all the missing cells up to position b are created with the number b
createBlockIfNotExist(ch, g, b) ==
    [ch EXCEPT ![g] = [k \in DOMAIN ch[g] \cup 0 .. b |->
        IF k \in DOMAIN ch[g] THEN ch[g][k] ELSE NewCell(g, b)]]

HeadCell(g) == chains[g][heads[g]]

\* the groups whose head is certainly the smallest block not yet delivered
globalMinimum == {g \in Group : \A h \in Group : mustLessThan(HeadCell(g), HeadCell(h))}

Init ==
    /\ log \in Logs
    /\ pos = [v \in Group |-> 0]
    /\ chains = [g \in Group |-> [k \in {0} |-> NewCell(g, 0)]]
    /\ heads = [g \in Group |-> 0]
    /\ height = [g \in Group |-> -1]
    /\ invalid = {}
    /\ popping = FALSE
    /\ delivered = <<>>
    /\ aborted = FALSE

(***************************************************************************)
(* pushDecision(g, b, v, w): group v votes w for block b of group g.       *)
(***************************************************************************)

\* Mutant: updateEstimate overwrites the votes that the heads already have.
RecordVoteOverwrites(ch, g, b, v, w) ==
    [h \in Group |-> [k \in DOMAIN ch[h] |->
        CASE h = g /\ k = b ->
                [ch[h][k] EXCEPT !.watermarks[v] = w, !.real[v] = TRUE]
          [] ~ (h = g /\ k = b) /\ k = heads[h] ->
                [ch[h][k] EXCEPT !.watermarks[v] = w]
          [] OTHER -> ch[h][k]]]

\* setIthWaterMark on the block, then updateEstimate on the heads
RecordVote(ch, g, b, v, w) ==
    [h \in Group |-> [k \in DOMAIN ch[h] |->
        CASE h = g /\ k = b ->
                [ch[h][k] EXCEPT !.watermarks[v] = w, !.real[v] = TRUE]
          [] ~ (h = g /\ k = b) /\ k = heads[h] /\ ~ ch[h][k].real[v] ->
                [ch[h][k] EXCEPT !.watermarks[v] = w]
          [] OTHER -> ch[h][k]]]

\* the CHECKs of setIthWaterMark and updateEstimate
VoteChecks(ch, g, b, v, w) ==
    /\ ch[g][b].watermarks[v] <= w
    /\ \A h \in Group :
         (~ ch[h][heads[h]].real[v] /\ ~ (h = g /\ heads[h] = b))
            => h # v /\ ch[h][heads[h]].watermarks[v] <= w

pushDecisionSingle(g, b) ==
    /\ GroupCount = 1
    /\ Len(delivered) < MaxDelivered
    /\ chains' = createBlockIfNotExist(chains, g, b)
    /\ delivered' = Append(delivered, <<g, chains'[g][b].blockId>>)
    /\ UNCHANGED <<heads, height, popping, aborted>>

pushDecisionOwn(g, v) ==
    /\ GroupCount > 1
    /\ v = g
    /\ UNCHANGED <<chains, heads, height, popping, delivered, aborted>>

pushDecisionVote(g, b, v, w) ==
    LET ch == createBlockIfNotExist(chains, g, b) IN
    /\ GroupCount > 1
    /\ v # g
    /\ ~ popping
    /\ \/ /\ ch[g][b].real[v]     \* a duplicate
          /\ chains' = ch
          /\ UNCHANGED <<height, popping, aborted>>
       \/ /\ ~ ch[g][b].real[v]
          /\ aborted' = ~ VoteChecks(ch, g, b, v, w)
          /\ chains' = RecordVote(ch, g, b, v, w)
          /\ height' = [h \in Group |->
                CASE h = v -> IF height[h] < w THEN w ELSE height[h]
                  [] h = g -> IF height[h] < b THEN b ELSE height[h]
                  [] OTHER -> height[h]]
          /\ popping' = TRUE
    /\ UNCHANGED <<heads, delivered>>

pushDecision(g, b, v, w) ==
    \/ pushDecisionSingle(g, b)
    \/ pushDecisionOwn(g, v)
    \/ pushDecisionVote(g, b, v, w)

\* the node applies the next entry of the log of group v
Apply(v) ==
    /\ ~ aborted
    /\ pos[v] < Len(log[v])
    /\ LET e == log[v][pos[v] + 1] IN pushDecision(e.chain, e.block, v, e.mark)
    /\ pos' = [pos EXCEPT ![v] = @ + 1]
    /\ UNCHANGED <<log, invalid>>

\* a peer of the group gossips an entry that this node has already applied
Duplicate(v) ==
    /\ ~ aborted
    /\ \E p \in 1 .. pos[v] :
         LET e == log[v][p] IN pushDecision(e.chain, e.block, v, e.mark)
    /\ UNCHANGED <<log, pos, invalid>>

(***************************************************************************)
(* popBlocks, with the mutex held: deliver the minimum and move the head   *)
(* of its chain, until no head is certainly the smallest.                  *)
(***************************************************************************)

\* the cell that replaces prev, with the estimates prev knew of
ExchangedCell(prev, next) ==
    [next EXCEPT
        !.watermarks = [i \in Group |->
            IF i \in invalid \/ ~ next.real[i]
            THEN prev.watermarks[i] ELSE next.watermarks[i]],
        !.real = [i \in Group |-> next.real[i] \/ i \in invalid]]

ExchangeChecks(prev, next) ==
    /\ prev.blockId = next.blockId - 1
    /\ \A i \in Group : next.real[i] => prev.watermarks[i] <= next.watermarks[i]

\* Mutant: the head of the chain is not moved.
PopKeepsHead(g) ==
    /\ ~ aborted
    /\ popping
    /\ Len(delivered) < MaxDelivered
    /\ g \in globalMinimum
    /\ \A h \in globalMinimum : g <= h
    /\ delivered' = Append(delivered, <<g, HeadCell(g).blockId>>)
    /\ UNCHANGED <<log, pos, chains, heads, height, invalid, popping, aborted>>

Pop(g) ==
    LET prev == HeadCell(g)
        b    == prev.blockId + 1
        ch   == createBlockIfNotExist(chains, g, b)
        next == ch[g][b]
    IN  /\ ~ aborted
        /\ popping
        /\ Len(delivered) < MaxDelivered
        /\ g \in globalMinimum
        /\ \A h \in globalMinimum : g <= h   \* the buffer is scanned from group 0
        /\ delivered' = Append(delivered, <<g, prev.blockId>>)
        /\ aborted' = ~ ExchangeChecks(prev, next)
        /\ chains' = [ch EXCEPT ![g][b] = ExchangedCell(prev, next)]
        /\ heads' = [heads EXCEPT ![g] = b]
        /\ UNCHANGED <<log, pos, height, invalid, popping>>

\* Mutant: popBlocks returns while a head is still the certain minimum.
PopDoneEarly ==
    /\ ~ aborted
    /\ popping
    /\ popping' = FALSE
    /\ UNCHANGED <<log, pos, chains, heads, height, invalid, delivered, aborted>>

PopDone ==
    /\ ~ aborted
    /\ popping
    /\ globalMinimum = {}
    /\ popping' = FALSE
    /\ UNCHANGED <<log, pos, chains, heads, height, invalid, delivered, aborted>>

(***************************************************************************)
(* invalidateChain(g): the leader of group g is reported to be down.       *)
(***************************************************************************)
invalidateChain(g) ==
    /\ ~ aborted
    /\ ~ popping
    /\ \/ /\ g \in invalid        \* already invalidated
          /\ popping' = TRUE
          /\ UNCHANGED <<chains, invalid, aborted>>
       \/ /\ g \notin invalid
          /\ aborted' = ~ (\A h \in Group : HeadCell(h).watermarks[g] <= height[g])
          /\ chains' = [h \in Group |->
                [chains[h] EXCEPT ![heads[h]].real[g] = TRUE]]
          /\ invalid' = invalid \cup {g}
          /\ popping' = TRUE
    /\ UNCHANGED <<log, pos, heads, height, delivered>>

Next ==
    \/ \E v \in Group : Apply(v)
    \/ \E v \in Group : Duplicate(v)
    \/ \E g \in Group : Pop(g)
    \/ PopDone

\* the same node, when leaders of groups may be reported to be down
NextWithFailures ==
    \/ Next
    \/ \E g \in Faulty : invalidateChain(g)

Spec == Init /\ [][Next]_vars
FailureSpec == Init /\ [][NextWithFailures]_vars

\* the Raft threads keep applying their logs, and popBlocks runs to its end
LiveSpec ==
    /\ Spec
    /\ \A v \in Group : WF_vars(Apply(v))
    /\ WF_vars(\E g \in Group : Pop(g))
    /\ WF_vars(PopDone)

(***************************************************************************)
(* Correctness.                                                            *)
(***************************************************************************)

\* TypeOK: every variable keeps its type; the cells of a chain are contiguous
\* from position 0, so that indexing the chain vector is always in range.
TypeOK ==
    /\ log \in [Group -> Seq(Entry)]
    /\ pos \in [Group -> Nat]
    /\ \A v \in Group : pos[v] <= Len(log[v])
    /\ DOMAIN chains = Group
    /\ heads \in [Group -> Nat]
    /\ \A g \in Group :
         /\ \A k \in DOMAIN chains[g] : /\ k \in Nat
                                        /\ 0 .. k \subseteq DOMAIN chains[g]
                                        /\ chains[g][k] \in Cell
         /\ heads[g] \in DOMAIN chains[g]
    /\ height \in [Group -> Mark]
    /\ invalid \subseteq Group
    /\ popping \in BOOLEAN
    /\ delivered \in Seq(Group \X Nat)
    /\ aborted \in BOOLEAN

\* NotAborted: no CHECK of pushDecision, updateEstimate or exchange fails, in
\* whatever order the logs of the groups are applied and gossiped.
NotAborted == ~ aborted

\* the vote of group v on block x in the logs l: a set with at most one element
VoteOn(l, v, x) ==
    IF v = x[1] THEN {x[2]}
    ELSE {l[v][p].mark : p \in {q \in DOMAIN l[v] : /\ l[v][q].chain = x[1]
                                                    /\ l[v][q].block = x[2]}}

\* x is before y in the order of their final vectors of votes
FinalLess(l, x, y) ==
    LET Tied(i) == VoteOn(l, i, x) \cap VoteOn(l, i, y) # {}
    IN  \/ \E i \in Group :
             /\ \A j \in 0 .. (i - 1) : Tied(j)
             /\ \E a \in VoteOn(l, i, x) : \E b \in VoteOn(l, i, y) : a < b
        \/ /\ \A i \in Group : Tied(i)
           /\ \/ x[2] < y[2]
              \/ x[2] = y[2] /\ x[1] < y[1]

VotedBlock(l) == UNION {{<<l[v][p].chain, l[v][p].block>> : p \in DOMAIN l[v]} : v \in Group}

\* OrderSafe: a block is never delivered while a block that the final votes
\* put before it is still undelivered.  The votes are those of the agreed logs,
\* applied here or not, so every node delivers in the one order they define.
OrderSafe ==
    \A i \in DOMAIN delivered : \A y \in VotedBlock(log) :
        (\A j \in 1 .. i : delivered[j] # y) => ~ FinalLess(log, y, delivered[i])

\* NoGapNoRepeat: the blocks of one chain are delivered in the order of their
\* numbers, none skipped and none twice, failures and gossip notwithstanding.
NoGapNoRepeat ==
    \A i \in DOMAIN delivered :
        /\ \A j \in 1 .. (i - 1) : delivered[j] # delivered[i]
        /\ \A b \in 0 .. (delivered[i][2] - 1) :
             \E j \in 1 .. (i - 1) : delivered[j] = <<delivered[i][1], b>>

\* NoStall: once popBlocks has returned, some head still lacks a vote: blocks
\* never wait for a vote that has already been applied.
NoStall ==
    (~ popping /\ ~ aborted /\ GroupCount > 1) =>
        \E g \in Group : \E v \in Group : ~ HeadCell(g).real[v]

\* the final votes leave the head of g undetermined
HeadUndecided(g) == \E v \in Group : VoteOn(log, v, <<g, heads[g]>>) = {}

\* DeliversAll: delivery goes on until it reaches, in some chain, a block that
\* not every group has voted for in its log.
DeliversAll == <>[](\E g \in Group : HeadUndecided(g))

=============================================================================
