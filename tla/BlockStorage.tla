---------------------------- MODULE BlockStorage ----------------------------
(***************************************************************************)
(* MRBlockStorage of one node, for the blocks of one group: a thread       *)
(* inserts them one after the other, a reader waits for each in turn.      *)
(***************************************************************************)
EXTENDS Integers, Sequences, FiniteSets

CONSTANT MaxSize    \* blocks kept per group (256 in the code)

ASSUME MaxSizeAssumption == MaxSize \in Nat \ {0}

None == -1

VARIABLES
    stored,         \* blockStorage: the numbers of the blocks that are there
    newest,         \* newBlockFutexList: the highest block, -1 at first
    subscriber,     \* the queue of a subscriber, never emptied here
    inserting,      \* the block being inserted and what comes next, or None
    want,           \* the block the reader waits for
    seen            \* the futex value the reader has loaded

storageVars == <<stored, newest, subscriber, inserting, want, seen>>

StorageInit ==
    /\ stored = {} /\ newest = -1 /\ subscriber = <<>> /\ inserting = <<>>
    /\ want = 0 /\ seen = -1

Idle == inserting = <<>>

\* the first half of insertBlockAndNotify: all subscribers get the block
BeginInsert(b) ==
    /\ Idle
    /\ subscriber' = Append(subscriber, b)
    /\ inserting' = <<b, "emplace">>
    /\ UNCHANGED <<stored, newest, want, seen>>

tryEmplaceBlock ==
    /\ ~Idle /\ inserting[2] = "emplace"
    /\ stored' = stored \cup {inserting[1]}
    /\ inserting' = <<inserting[1], "store">>
    /\ UNCHANGED <<newest, subscriber, want, seen>>

StoreFutex ==
    /\ ~Idle /\ inserting[2] = "store"
    /\ newest' = inserting[1]
    /\ inserting' = <<inserting[1], "prune">>
    /\ UNCHANGED <<stored, subscriber, want, seen>>

pruneWithMaxBlockId ==
    /\ ~Idle /\ inserting[2] = "prune"
    /\ stored' = stored \ {inserting[1] - MaxSize}
    /\ inserting' = <<>>
    /\ UNCHANGED <<newest, subscriber, want, seen>>

insertBlockAndNotify == tryEmplaceBlock \/ StoreFutex \/ pruneWithMaxBlockId

\* waitForBlock: the loop on the futex, ...
waitForBlock ==
    /\ seen < want
    /\ newest >= want
    /\ seen' = newest
    /\ UNCHANGED <<stored, newest, subscriber, inserting, want>>

\* ... then the look-up; a reader that finds nothing asks again
getBlock ==
    /\ seen >= want
    /\ want' = IF want \in stored THEN want + 1 ELSE want
    /\ seen' = IF want \in stored THEN seen ELSE -1
    /\ UNCHANGED <<stored, newest, subscriber, inserting>>

=============================================================================
