--------------------------- MODULE LocalConsensus ---------------------------
(***************************************************************************)
(* The BFT consensus inside one group, as the peers see it: the consensus  *)
(* itself (BFT-SMaRt) orders block headers and calls the peers by RPC; the *)
(* requests travel apart from it, in batches that the leader publishes and *)
(* every node keeps in its block cache until the header is decided.        *)
(***************************************************************************)
EXTENDS Integers, Sequences, FiniteSets, SequencesExt

CONSTANTS
    NodeCount, Quorum,  \* nodes of the group, votes that decide
    MaxRequests,        \* bound: user requests
    maxBatchSize,       \* requests in a batch
    MaxTerms,           \* bound: leaders
    SignatureSlots      \* slots of SignatureCache (10 in the code)

ASSUME LocalAssumption ==
    /\ NodeCount \in Nat /\ Quorum \in 1 .. NodeCount /\ 2 * Quorum > NodeCount /\ maxBatchSize \in Nat \ {0}
    /\ MaxRequests \in Nat /\ MaxTerms \in Nat /\ SignatureSlots \in Nat \ {0}

Nodes == 0 .. (NodeCount - 1)

\* CalculatePreviousHash: hashes are terms and never collide
CalculatePreviousHash(header) == header
Nil == <<>>

VARIABLES
    requests,       \* user requests sent so far
    userQueue,      \* _receiveFromUserQueue of each node
    collecting,     \* nodes whose collector and batching threads have been started
    follows,        \* the leader each node's follower thread is subscribed to
    wire,           \* batches published to each node and not yet received
    cache,          \* PBFTBlockCache: per node, batch -> header of the block
    queue,          \* _requestBatchQueue
    isLeader,
    proposed,       \* _proposedLastBlock
    delivered,      \* per node, the headers delivered to storage, the last is _deliveredBlock
    signatures,     \* SignatureCache: front, back and the slots
    dead,           \* nodes that have ended by a CHECK or std::terminate
    refused,        \* history: nodes where a proposal has timed out
    \* the consensus, outside this repository
    term, leader, told, proposal, vote, signed, decided

peerVars == <<requests, userQueue, collecting, follows, wire, cache, queue, isLeader,
              proposed, delivered, signatures, dead, refused>>
bftVars == <<term, leader, told, proposal, vote, signed, decided>>
vars == <<peerVars, bftVars>>

EmptySignatures == [front |-> 0, back |-> 0, slot |-> [i \in 0 .. (SignatureSlots - 1) |-> Nil]]

Init ==
    /\ requests = 0
    /\ userQueue = [n \in Nodes |-> <<>>] /\ collecting = {}
    /\ follows = [n \in Nodes |-> IF n = 0 THEN -1 ELSE 0]     \* checkAndStart
    /\ wire = [n \in Nodes |-> <<>>]
    /\ cache = [n \in Nodes |-> {}] /\ queue = [n \in Nodes |-> <<>>]
    /\ isLeader = [n \in Nodes |-> FALSE]
    /\ proposed = [n \in Nodes |-> Nil] /\ delivered = [n \in Nodes |-> <<>>]
    /\ signatures = [n \in Nodes |-> EmptySignatures]
    /\ dead = {} /\ refused = {}
    /\ term = 1 /\ leader = 0 /\ told = Nodes \ {0}
    /\ proposal = Nil /\ vote = [n \in Nodes |-> "none"] /\ signed = [n \in Nodes |-> Nil]
    /\ decided = <<>>

Live == Nodes \ dead
deliveredBlock(n) == IF delivered[n] = <<>> THEN Nil ELSE Last(delivered[n])

\* SignatureCache::push and pop; a pop of an empty slot returns nothing
PushSignature(n, h) ==
    signatures' = [signatures EXCEPT ![n].slot[signatures[n].back % SignatureSlots] = h, ![n].back = @ + 1]
FrontSignature(n) == signatures[n].slot[signatures[n].front % SignatureSlots]
PopSignature(n) ==
    IF FrontSignature(n) = Nil THEN signatures' = signatures
    ELSE signatures' = [signatures EXCEPT ![n].slot[signatures[n].front % SignatureSlots] = Nil,
                                          ![n].front = @ + 1]

-----------------------------------------------------------------------------
(* RequestReplicator: the batches.                                         *)

\* A plausible slip: of two requests the first is queued twice.
collectorFunctionTwice(n) ==
    /\ n \in collecting \ dead
    /\ n = leader
    /\ requests + 1 < MaxRequests
    /\ requests' = requests + 2
    /\ userQueue' = [userQueue EXCEPT ![n] = @ \o <<requests + 1, requests + 1>>]
    /\ UNCHANGED <<collecting, follows, wire, cache, queue, isLeader, proposed, delivered,
                   signatures, dead, refused, bftVars>>

\* a user sends a request to the leader
collectorFunction(n) ==
    /\ n \in collecting \ dead
    /\ n = leader
    /\ requests < MaxRequests
    /\ requests' = requests + 1
    /\ userQueue' = [userQueue EXCEPT ![n] = Append(@, requests + 1)]
    /\ UNCHANGED <<collecting, follows, wire, cache, queue, isLeader, proposed, delivered,
                   signatures, dead, refused, bftVars>>

Cached(n, batch) == \E c \in cache[n] : c[1] = batch
Store(n, batch, h) == [cache EXCEPT ![n] = {c \in @ : c[1] # batch} \cup {<<batch, h>>}]

\* a batch becomes a block; the leader also puts it in the queue of proposals
pushUnorderedBlock(n, batch) ==
    /\ queue' = IF isLeader[n] THEN [queue EXCEPT ![n] = Append(@, batch)] ELSE queue
    /\ cache' = Store(n, batch, Nil)

\* the batch is full or the time is over: the block is made here, then published
batchingFunction(n) ==
    /\ n \in collecting \ dead
    /\ \E size \in 1 .. maxBatchSize :
        /\ size <= Len(userQueue[n])
        /\ LET batch == SubSeq(userQueue[n], 1, size)
           IN  /\ pushUnorderedBlock(n, batch)
               /\ wire' = [f \in Nodes |-> IF follows[f] = n THEN Append(wire[f], batch) ELSE wire[f]]
        /\ userQueue' = [userQueue EXCEPT ![n] = SubSeq(@, size + 1, Len(@))]
    /\ UNCHANGED <<requests, collecting, follows, isLeader, proposed, delivered, signatures, dead,
                   refused, bftVars>>

\* also the thread of a node that has become leader in the meantime
followerFunction(n) ==
    /\ n \notin dead
    /\ wire[n] # <<>>
    /\ pushUnorderedBlock(n, Head(wire[n]))
    /\ wire' = [wire EXCEPT ![n] = Tail(@)]
    /\ UNCHANGED <<requests, userQueue, collecting, follows, isLeader, proposed, delivered,
                   signatures, dead, refused, bftVars>>

\* a collector thread that is still joinable is overwritten: std::terminate
startLeader(n) ==
    /\ dead' = IF n \in collecting THEN dead \cup {n} ELSE dead
    /\ collecting' = collecting \cup {n}
    /\ userQueue' = [userQueue EXCEPT ![n] = <<>>]

\* the new subscription does not get what the old one has not read
startFollower(n, m) ==
    /\ follows' = [follows EXCEPT ![n] = m]
    /\ wire' = [wire EXCEPT ![n] = <<>>]

-----------------------------------------------------------------------------
(* The state machine that the consensus calls.                             *)

OnLeaderStart(n) ==
    /\ proposed' = [proposed EXCEPT ![n] = deliveredBlock(n)]
    /\ signatures' = [signatures EXCEPT ![n] = EmptySignatures]
    /\ isLeader' = [isLeader EXCEPT ![n] = TRUE]
    /\ startLeader(n)
    /\ UNCHANGED <<requests, follows, wire, cache, queue, delivered, refused>>

\* A plausible slip: the signatures of the last term are kept.
OnLeaderChangeKeeps(n) ==
    /\ isLeader' = [isLeader EXCEPT ![n] = FALSE]
    /\ proposed' = [proposed EXCEPT ![n] = Nil]
    /\ startFollower(n, leader)
    /\ UNCHANGED <<requests, userQueue, collecting, cache, queue, delivered, signatures, dead, refused>>

OnLeaderChange(n) ==
    /\ isLeader' = [isLeader EXCEPT ![n] = FALSE]
    /\ proposed' = [proposed EXCEPT ![n] = Nil]
    /\ signatures' = [signatures EXCEPT ![n] = EmptySignatures]
    /\ startFollower(n, leader)
    /\ UNCHANGED <<requests, userQueue, collecting, cache, queue, delivered, dead, refused>>

\* A plausible slip: the number is not counted up.
HeaderSameNumber(last, batch) ==
    [number |-> IF last = Nil THEN 0 ELSE last.number,
     prev   |-> IF last = Nil THEN Nil ELSE CalculatePreviousHash(last),
     data   |-> batch]

\* updateBlockHeaderWithProposedBlock: the first block keeps number 0
HeaderAfter(last, batch) ==
    [number |-> IF last = Nil THEN 0 ELSE last.number + 1,
     prev   |-> IF last = Nil THEN Nil ELSE CalculatePreviousHash(last),
     data   |-> batch]

\* the block is the one in the cache: its header changes there, too
OnRequestProposal(n, h) ==
    /\ queue[n] # <<>>
    /\ h = HeaderAfter(proposed[n], Head(queue[n]))
    /\ proposed' = [proposed EXCEPT ![n] = h]
    /\ cache' = IF Cached(n, h.data) THEN Store(n, h.data, h) ELSE cache
    /\ queue' = [queue EXCEPT ![n] = Tail(@)]
    /\ PushSignature(n, h)
    /\ UNCHANGED <<requests, userQueue, collecting, follows, wire, isLeader, delivered, dead, refused>>

isDeliveredBlockHeaderValid(n, h) ==
    deliveredBlock(n) # Nil =>
        /\ h.prev = CalculatePreviousHash(deliveredBlock(n))
        /\ h.number = deliveredBlock(n).number + 1

\* Plausible slips: the header is not written to the block, ...
OnVerifyProposalForgets(n, h, ok) ==
    /\ isDeliveredBlockHeaderValid(n, h)
    /\ PushSignature(n, h)
    /\ ok = Cached(n, h.data)
    /\ UNCHANGED <<requests, userQueue, collecting, follows, wire, cache, queue, isLeader, proposed,
                   delivered, dead, refused>>

\* the header is signed, then the batch is waited for; the answer is ok
OnVerifyProposal(n, h, ok) ==
    \/ /\ ~isDeliveredBlockHeaderValid(n, h) /\ ~ok
       /\ UNCHANGED peerVars
    \/ /\ isDeliveredBlockHeaderValid(n, h)
       /\ PushSignature(n, h)
       /\ ok = Cached(n, h.data)
       /\ cache' = IF ok THEN Store(n, h.data, h) ELSE cache
       /\ refused' = IF ok THEN refused ELSE refused \cup {n}
       /\ UNCHANGED <<requests, userQueue, collecting, follows, wire, queue, isLeader, proposed,
                      delivered, dead>>

OnSignProposal(n) ==
    /\ PopSignature(n)
    /\ UNCHANGED <<requests, userQueue, collecting, follows, wire, cache, queue, isLeader, proposed,
                   delivered, dead, refused>>

\* CHECK(block != nullptr); the block is stored with the header it has in the cache,
\* which is an empty one (number 0) if it has not been verified here
BlockOf(n, batch) ==
    LET c == CHOOSE x \in cache[n] : x[1] = batch
    IN  IF c[2] = Nil THEN [number |-> 0, prev |-> Nil, data |-> batch] ELSE c[2]

OnDeliver(n, h) ==
    /\ \/ /\ Cached(n, h.data)
          /\ delivered' = [delivered EXCEPT ![n] = Append(@, BlockOf(n, h.data))]
          /\ cache' = [cache EXCEPT ![n] = {c \in @ : c[1] # h.data}]
          /\ UNCHANGED dead
       \/ /\ ~Cached(n, h.data)
          /\ dead' = dead \cup {n}
          /\ UNCHANGED <<delivered, cache>>
    /\ UNCHANGED <<requests, userQueue, collecting, follows, wire, queue, isLeader, proposed,
                   signatures, refused>>

-----------------------------------------------------------------------------
(* PBFTRPCService, called by the consensus.  It proposes one header at a   *)
(* time, asks every follower to verify it, has it signed by those that     *)
(* accept, decides with a quorum of signatures, and delivers everywhere.   *)
(* A term that does not decide ends with the next leader.                  *)

HasDelivered(n) == n \in dead \/ Len(delivered[n]) = Len(decided)

requestProposal ==
    /\ leader \in Live /\ leader \in told /\ isLeader[leader]
    /\ proposal = Nil /\ \A n \in Nodes : HasDelivered(n)
    /\ \E h \in {HeaderAfter(proposed[leader], b) : b \in ToSet(queue[leader])} :
        /\ OnRequestProposal(leader, h)
        /\ proposal' = h
    /\ vote' = [vote EXCEPT ![leader] = "yes"]
    /\ UNCHANGED <<term, leader, told, signed, decided>>

\* the follower waits for the batch as long as it may: only a late one is refused
verifyProposal(n) ==
    /\ n \in Live /\ n \in told /\ n # leader
    /\ proposal # Nil /\ vote[n] = "none"
    /\ \E ok \in BOOLEAN :
        /\ OnVerifyProposal(n, proposal, ok)
        /\ vote' = [vote EXCEPT ![n] = IF ok THEN "yes" ELSE "no"]
    /\ UNCHANGED <<term, leader, told, proposal, signed, decided>>

signProposal(n) ==
    /\ n \in Live /\ proposal # Nil
    /\ vote[n] = "yes" /\ signed[n] = Nil
    /\ OnSignProposal(n)
    /\ signed' = [signed EXCEPT ![n] = FrontSignature(n)]
    /\ UNCHANGED <<term, leader, told, proposal, vote, decided>>

\* decided, for the nodes that have not delivered the header yet
Decide ==
    /\ proposal # Nil /\ \A n \in Live : vote[n] # "none"
    /\ Cardinality({n \in Nodes : signed[n] # Nil}) >= Quorum
    /\ \A n \in Live : vote[n] = "yes" => signed[n] # Nil
    /\ decided' = Append(decided, proposal)
    /\ proposal' = Nil
    /\ vote' = [n \in Nodes |-> "none"] /\ signed' = [n \in Nodes |-> Nil]
    /\ UNCHANGED <<peerVars, term, leader, told>>

deliver(n) ==
    /\ ~HasDelivered(n)
    /\ OnDeliver(n, Last(decided))
    /\ UNCHANGED bftVars

NextLeader ==
    /\ term < MaxTerms
    /\ \A n \in Nodes : HasDelivered(n)
    /\ told = Nodes
    /\ term' = term + 1 /\ told' = {}
    /\ leader' \in Live \ {leader}
    /\ proposal' = Nil /\ vote' = [n \in Nodes |-> "none"] /\ signed' = [n \in Nodes |-> Nil]
    /\ UNCHANGED <<peerVars, decided>>

Tell(n) == told' = told \cup {n} /\ UNCHANGED <<term, leader, proposal, vote, signed, decided>>

leaderStart(n) == n \in Nodes \ told /\ n = leader /\ OnLeaderStart(n) /\ Tell(n)
leaderChange(n) == n \in Nodes \ told /\ n # leader /\ OnLeaderChange(n) /\ Tell(n)

Steps ==
    \/ \E n \in Nodes : collectorFunction(n) \/ batchingFunction(n) \/ followerFunction(n)
    \/ requestProposal
    \/ \E n \in Nodes : (proposal # Nil /\ Cached(n, proposal.data)) /\ verifyProposal(n)
    \/ \E n \in Nodes : signProposal(n) \/ deliver(n) \/ leaderStart(n) \/ leaderChange(n)
    \/ Decide

Next == Steps \/ (\E n \in Nodes : verifyProposal(n)) \/ NextLeader

\* threads and the consensus go on; nobody has to be late or be replaced
Spec == Init /\ [][Next]_vars /\ WF_vars(Steps)

-----------------------------------------------------------------------------
\* isDeliveredBlockHeaderValid, OnLeaderStart: over all leaders the decided headers
\* are numbered without a gap and each has the hash of the one before, and a node that
\* has got all batches in time delivers exactly them, in that order.
OneChain ==
    /\ \A i \in DOMAIN decided :
          /\ decided[i].number = i - 1
          /\ decided[i].prev = IF i = 1 THEN Nil ELSE CalculatePreviousHash(decided[i - 1])
    /\ \A n \in Nodes \ refused :
          /\ Len(delivered[n]) <= Len(decided)
          /\ \A i \in DOMAIN delivered[n] : delivered[n][i] = decided[i]

\* No user request is in two blocks, although batches wait in the queues of old
\* leaders and reach new ones through their follower thread.
RequestsOnce ==
    LET In(h, r) == r \in ToSet(h.data)
    IN  \A i, j \in DOMAIN decided, r \in 1 .. requests : In(decided[i], r) /\ In(decided[j], r) => i = j

\* OnSignProposal takes a signature from the cache without looking: it is the one of
\* the proposal in question, unless the node has refused one (it is left behind).  A
\* node ends only because a block is delivered whose batch it never got, after it had
\* refused the proposal, or because it becomes leader a second time.
NodesSound ==
    /\ \A n \in Nodes \ refused : signed[n] # Nil => signed[n] = proposal
    /\ \A n \in dead : n \in refused \/ (n \in collecting /\ term > 2)

\* Under the first leader, as long as no batch is late, all requests are delivered.
AllDelivered ==
    <>(\/ term > 1 \/ refused # {}
       \/ \A n \in Nodes, r \in 1 .. MaxRequests : \E i \in DOMAIN delivered[n] : r \in ToSet(delivered[n][i].data))

=============================================================================
