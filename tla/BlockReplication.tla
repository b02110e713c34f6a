-------------------------- MODULE BlockReplication --------------------------
(***************************************************************************)
(* The blocks of one group on their way to one node of another group.      *)
(*                                                                         *)
(* "v2": each sender sends fragments to some nodes of the receiving group, *)
(* which pass them on to each other; the node collects them in a ring, one *)
(* slot per block, and its blk_receiver thread rebuilds block after block. *)
(* "direct" and "multiway": whole blocks go to some nodes of the receiving *)
(* group, which pass them on; one thread per such node stores them.        *)
(*                                                                         *)
(* Channels are FIFO.  Up to a third of the nodes of a group are faulty:   *)
(* they may fall silent, and change the bytes of the fragments they pass   *)
(* on.                                                                     *)
(***************************************************************************)
EXTENDS FragmentUtil, FragmentCodec, BlockStorage

CONSTANTS
    Cap,            \* slots of the ring (256 in the code)
    Blocks,         \* bound: blocks sent
    V2Groups,       \* sizes <<senders, receivers>> of the groups in v2 mode
    DirectGroups    \* and in the other two

ASSUME ReplicationAssumption ==
    /\ Cap \in Nat \ {0} /\ Blocks \in Nat
    /\ V2Groups \cup DirectGroups \subseteq (1 .. MaxNodes) \X (1 .. MaxNodes)
    /\ <<1, 1>> \notin V2Groups     \* a Merkle tree needs two fragments
    /\ \A s \in V2Groups : LCM(s[1], s[2]) <= MaxFragments

VARIABLES
    mode, size,     \* the kind of replicator and the sizes of the groups
    faulty,         \* faulty senders and faulty receivers
    sent,           \* nextBlockNumber of each sender
    got,            \* per channel into this node, the blocks that have come out
    ring, low,      \* Buffer: fragments per slot, the block being rebuilt
    ctx, counted,   \* its Context and shardsValidated
    overrun,        \* history: a fragment found the ring full
    rejected,       \* history: whether an undamaged fragment was refused
    holding, lock   \* direct: the validated block of each thread, storageMutex

pathVars == <<mode, size, faulty, sent, got, ring, low, ctx, counted, overrun, rejected, holding, lock>>
replicationVars == <<pathVars, storageVars>>

Senders == 0 .. (size[1] - 1)
Total == LCM(size[1], size[2])
Data == dataShardCnt(size[1], size[2])

\* the pieces for all sizes of the groups, and the message of each piece with its
\* bytes intact or changed
AllPieces == [m \in 1 .. MaxNodes |-> [n \in 1 .. MaxNodes |-> GenerateAllConfig(m, n)]]
AllMessages ==
    [m \in 1 .. MaxNodes |-> [n \in 1 .. MaxNodes |->
        [p \in {q \in AllPieces[m][n] : LCM(m, n) > 1} |-> [damaged \in BOOLEAN |->
            serializeFragments(LCM(m, n), p.start, p.end, damaged)]]]]

Pieces == AllPieces[size[1]][size[2]]
Messages == AllMessages[size[1]][size[2]]

\* the nodes of the receiving group that get whole blocks, and from whom: the
\* first f + 1 from node 0, or each from the sender with its own number
DirectRelays == {[localId |-> 0, remoteId |-> r] : r \in 0 .. Byzantine(size[2])}
MultiwayRelays == {[localId |-> r, remoteId |-> r] : r \in Senders \cap 0 .. (size[2] - 1)}

Relays ==
    CASE mode = "direct"   -> DirectRelays
      [] mode = "multiway" -> MultiwayRelays
      [] OTHER             -> {}

Channels == IF mode = "v2" THEN Pieces ELSE Relays

Good(c) == c.localId \notin faulty[1] /\ c.remoteId \notin faulty[2]

\* which nodes may be faulty: a third of each group; the leader that sends all
\* blocks directly is not
FaultySets ==
    LET Few(k) == {S \in SUBSET (0 .. (k - 1)) : Cardinality(S) = Byzantine(k)}
    IN  {f \in Few(size[1]) \X Few(size[2]) : mode = "direct" => 0 \notin f[1]}

ReplicationInit ==
    /\ \/ mode = "v2" /\ size \in V2Groups
       \/ mode \in {"direct", "multiway"} /\ size \in DirectGroups
       \/ mode = "config" /\ size \in (1 .. MaxNodes) \X (1 .. MaxNodes)
    /\ faulty \in IF mode = "config" THEN {<<{}, {}>>} ELSE FaultySets
    /\ sent = [s \in Senders |-> 0]
    /\ got = [c \in Channels |-> 0]
    /\ ring = [x \in 0 .. (Cap - 1) |-> {}] /\ low = 0
    /\ ctx = EmptyContext /\ counted = {}
    /\ overrun = FALSE /\ rejected = FALSE
    /\ holding = [c \in Relays |-> None] /\ lock = FALSE
    /\ StorageInit

-----------------------------------------------------------------------------
\* MRBlockSender::run of a node, which waits for the next block of its own group
\* and sends it on all its channels
SendNext(s) ==
    /\ sent[s] < Blocks
    /\ sent' = [sent EXCEPT ![s] = @ + 1]
    /\ UNCHANGED <<mode, size, faulty, got, ring, low, ctx, counted, overrun, rejected, holding, lock>>
    /\ UNCHANGED storageVars

\* ... every node the fragments of its share,
encodeAndSendBlock(s) == mode = "v2" /\ SendNext(s)

\* ... the leader the block to f + 1 nodes of every other group (startSender),
runDirect(s) == mode = "direct" /\ s = 0 /\ SendNext(s)

\* ... every node the block to its counterpart
runMultiway(s) == mode = "multiway" /\ SendNext(s)

MRBlockSenderRun(s) == encodeAndSendBlock(s) \/ runDirect(s) \/ runMultiway(s)

InRing(b) == b >= low /\ b < low + Cap

\* Buffer::push: stale fragments are dropped, and so are those too far ahead
push(f) ==
    /\ ring' = IF InRing(f[2]) THEN [ring EXCEPT ![f[2] % Cap] = @ \cup {f}] ELSE ring
    /\ overrun' = (overrun \/ f[2] >= low + Cap)

\* the fragments of the next block come out of channel p
addMessageToCache(p, damaged) ==
    /\ mode = "v2"
    /\ got[p] < sent[p.localId]
    /\ damaged => ~Good(p)
    /\ got' = [got EXCEPT ![p] = @ + 1]
    /\ push(<<p, got[p], damaged>>)
    /\ UNCHANGED <<mode, size, faulty, sent, low, ctx, counted, rejected, holding, lock>>
    /\ UNCHANGED storageVars

\* genBlockFromQueue takes a fragment message from the slot of block low.  One of
\* another block or that does not verify is dropped; the context is a new one as
\* long as nothing has been counted.  When enough fragments have been counted the
\* block is rebuilt, validated and inserted.
genBlockFromQueue ==
    /\ mode = "v2" /\ Idle
    /\ \E f \in ring[low % Cap] :
        LET p    == f[1]
            use  == IF counted = {} THEN EmptyContext ELSE ctx
            res  == validateAndDeserializeFragments(use, Total, Root(Total), Messages[p][f[3]])
            cnt  == counted \cup Fragments(p)
            done == Cardinality(cnt) >= Data /\ regenerateMessage(res.ctx, Data)
        IN  /\ ring' = [ring EXCEPT ![low % Cap] = @ \ {f}]
            /\ \/ /\ f[2] # low
                  /\ UNCHANGED <<ctx, counted, rejected, storageVars>>
               \/ /\ f[2] = low /\ ~res.ok
                  /\ ctx' = res.ctx
                  /\ rejected' = (rejected \/ ~f[3])
                  /\ UNCHANGED <<counted, storageVars>>
               \/ /\ f[2] = low /\ res.ok /\ ~done
                  /\ ctx' = res.ctx /\ counted' = cnt
                  /\ UNCHANGED <<rejected, storageVars>>
               \/ /\ f[2] = low /\ res.ok /\ done
                  /\ BeginInsert(low)
                  /\ ctx' = EmptyContext /\ counted' = {}
                  /\ UNCHANGED rejected
    /\ UNCHANGED <<mode, size, faulty, sent, got, low, overrun, holding, lock>>

-----------------------------------------------------------------------------
\* runLocalReceiver: the thread of relay c gets the next block and validates it
getBlockFromRawString(c) ==
    /\ c \in Relays
    /\ holding[c] = None
    /\ got[c] < sent[c.localId]
    /\ got' = [got EXCEPT ![c] = @ + 1]
    /\ holding' = [holding EXCEPT ![c] = got[c]]
    /\ UNCHANGED <<mode, size, faulty, sent, ring, low, ctx, counted, overrun, rejected, lock>>
    /\ UNCHANGED storageVars

\* A plausible slip: the thread does not look whether another one was faster.
InsertAnyway(c) ==
    /\ c \in Relays
    /\ holding[c] # None /\ ~lock
    /\ BeginInsert(holding[c])
    /\ lock' = TRUE
    /\ holding' = [holding EXCEPT ![c] = None]
    /\ UNCHANGED <<mode, size, faulty, sent, got, ring, low, ctx, counted, overrun, rejected>>

\* then, under storageMutex, it inserts the block unless it is there already
validateFunc(c) ==
    /\ c \in Relays
    /\ holding[c] # None /\ ~lock
    /\ \/ /\ holding[c] <= newest
          /\ UNCHANGED <<lock, storageVars>>
       \/ /\ holding[c] > newest
          /\ BeginInsert(holding[c])
          /\ lock' = TRUE
    /\ holding' = [holding EXCEPT ![c] = None]
    /\ UNCHANGED <<mode, size, faulty, sent, got, ring, low, ctx, counted, overrun, rejected>>

\* the rest of insertBlockAndNotify; only then passiveGet moves the ring on
Insert ==
    /\ insertBlockAndNotify
    /\ lock' = (lock /\ inserting' # <<>>)
    /\ low' = IF mode = "v2" /\ inserting' = <<>> THEN low + 1 ELSE low
    /\ UNCHANGED <<mode, size, faulty, sent, got, ring, ctx, counted, overrun, rejected, holding>>

Read == (waitForBlock \/ getBlock) /\ UNCHANGED pathVars

ReplicationNext ==
    \/ \E s \in Senders : MRBlockSenderRun(s)
    \/ \E p \in Channels, d \in BOOLEAN : addMessageToCache(p, d)
    \/ genBlockFromQueue
    \/ \E c \in Channels : getBlockFromRawString(c) \/ validateFunc(c)
    \/ Insert
    \/ Read

ReplicationSpec == ReplicationInit /\ [][ReplicationNext]_replicationVars

\* the threads of correct nodes go on, and correct channels deliver; every such step
\* is one of finitely many, so fairness to their union is fairness to each
CorrectNodes ==
    \/ \E s \in Senders \ faulty[1] : MRBlockSenderRun(s)
    \/ \E c \in {x \in Channels : Good(x)} :
          addMessageToCache(c, FALSE) \/ getBlockFromRawString(c) \/ validateFunc(c)
    \/ genBlockFromQueue
    \/ Insert

LiveReplication == ReplicationSpec /\ WF_replicationVars(CorrectNodes)

-----------------------------------------------------------------------------
\* FragmentUtil: for any sizes of the groups every fragment is sent by exactly one
\* node, only to nodes that exist, at most a share each, and whatever third of
\* both groups is faulty, enough fragments pass through the others.
FragmentsSuffice ==
    LET m == size[1]
        n == size[2]
        Through(S, R) == UNION {Fragments(p) : p \in {q \in Pieces : q.localId \notin S /\ q.remoteId \notin R}}
        Few(k) == {S \in SUBSET (0 .. (k - 1)) : Cardinality(S) = Byzantine(k)}
    IN  mode = "config" =>
        /\ \A x \in 0 .. (Total - 1) : Cardinality({p \in Pieces : x \in Fragments(p)}) = 1
        /\ \A p \in Pieces : p.remoteId \in 0 .. (n - 1)
        /\ \A r \in 0 .. (n - 1) :
              Cardinality(UNION {Fragments(p) : p \in {q \in Pieces : q.remoteId = r}}) = remoteFPS(m, n)
        /\ \A S \in Few(m), R \in Few(n) : Cardinality(Through(S, R)) >= Data

\* validateAndDeserializeFragments gives back the proofs that serializeFragments
\* has shortened: no undamaged fragment is refused, and no damaged one is kept,
\* also when a damaged copy of the block's other fragments came first.
OnlyDamagedRefused ==
    /\ ~rejected
    /\ mode = "config" /\ Total > 1 /\ Total <= MaxFragments =>
         \A p \in Pieces :
            LET Res(d) == validateAndDeserializeFragments(EmptyContext, Total, Root(Total), Messages[p][d])
            IN  Res(FALSE).ok /\ Res(FALSE).ctx.loaded = Fragments(p) /\ Res(TRUE).ctx.loaded = {}

\* The subscribers get block after block, none twice and none left out, although
\* several threads receive the same blocks (insertBlockAndNotify's DCHECK); and a
\* reader that has seen the futex reach its block finds the block, unless MaxSize
\* newer ones have come (waitForBlock, pruneWithMaxBlockId).
Retained ==
    /\ \A i \in DOMAIN subscriber : subscriber[i] = i - 1
    /\ \A b \in 0 .. newest : b > newest - MaxSize => b \in stored

\* All blocks arrive, whatever the faulty nodes do, unless the node is so late
\* that fragments no longer fit in the ring (those are never sent again) or all the
\* nodes that pass whole blocks on are faulty (multiway from a small group).
AllArrive == <>(mode = "config" \/ overrun \/ newest = Blocks - 1 \/ (\A c \in Channels : ~Good(c)))

=============================================================================
