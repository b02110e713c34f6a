----------------------------- MODULE ClientPath -----------------------------
(***************************************************************************)
(* A benchmark client and the peer it talks to.  The client's threads send *)
(* signed requests; the peer's executor runs the ordered blocks one after  *)
(* the other and then shows them to users through a cache; the client's    *)
(* monitor polls the blocks of its own group and counts what it sent; the  *)
(* engine ends the benchmark.  Users of the SDK query the same cache.      *)
(***************************************************************************)
EXTENDS Integers, Sequences, FiniteSets, SequencesExt

CONSTANTS
    Thread,         \* client threads
    TxnCount,       \* requests of a thread
    MaxBlock,       \* blocks that the group orders
    CacheSize,      \* maxSize of the LRU cache (256 in the code)
    Elasticity,     \* how far it may grow beyond that, less one (10)
    TopRetries,     \* attempts of getTop (5)
    Failures        \* RPCs and block executions that fail

VARIABLES
    thread,         \* of each thread: where it is, and _txnDone
    sent,           \* requests that reached the peer's collector
    pending,        \* Measurements::map: the digests that wait for a block
    blocks,         \* the group's blocks in order; block b is blocks[b + 1]
    tasks,          \* AsyncSerialExecutor: the blocks still to run
    filter,         \* executeResult.transactionFilter of the executed blocks
    inserting,      \* the block the executor is inserting, or None
    cache,          \* BlockLRUCache: block numbers, the latest used first
    newest,         \* its futex: the highest inserted block
    monitor,        \* the monitor thread: where it is, blockHeight, attempts
    txCountCommit, txCountAbort,    \* the counters, written by two threads
    loaded,         \* their values when the monitor loaded them
    status,         \* the status thread
    running,        \* StatusThread::running
    engine,         \* the engine's progress
    query,          \* a getTxWithProof: the request, the block it looks at, the last
    answer,         \* its response; each of the two is empty or has one element
    failures        \* failures that may still happen

clientVars == <<thread, sent, pending, monitor, txCountCommit, txCountAbort, loaded,
                status, running, engine>>
peerVars == <<blocks, tasks, filter, inserting, cache, newest>>
queryVars == <<query, answer>>
None == -1
NoDigest == <<"empty", 0>>

Requests(b) == blocks[b + 1]
Decided == UNION ToSet(blocks)
Executed == DOMAIN filter
stopRequested == engine \in {"stop", "destroy", "done"}
connected == engine \notin {"destroy", "done"}

Init ==
    /\ thread = [t \in Thread |-> [at |-> "next", done |-> 0, digest |-> NoDigest]]
    /\ sent = {} /\ pending = {} /\ blocks = <<>> /\ tasks = <<>>
    /\ filter = <<>> /\ inserting = None /\ cache = <<>> /\ newest = -1
    /\ monitor = [at |-> "top", height |-> 0, tries |-> 0]
    /\ txCountCommit = 0 /\ txCountAbort = 0 /\ loaded = <<0, 0>>
    /\ status = "cold" /\ running = TRUE /\ engine = "run"
    /\ query = {} /\ answer = {}
    /\ failures = Failures

-----------------------------------------------------------------------------
\* LRUCache.  Growing to CacheSize + Elasticity keys shrinks it to CacheSize.
prune(keys) ==
    IF CacheSize = 0 \/ Len(keys) < CacheSize + Elasticity THEN keys
    ELSE SubSeq(keys, 1, CacheSize)

splice(keys, k) == <<k>> \o RemoveAt(keys, CHOOSE i \in DOMAIN keys : keys[i] = k)

insert(keys, k) ==
    IF Contains(keys, k) THEN splice(keys, k) ELSE prune(<<k>> \o keys)

\* tryGetCopy: a hit makes the key the latest used
tryGetCopy(k) == cache' = IF Contains(cache, k) THEN splice(cache, k) ELSE cache

-----------------------------------------------------------------------------
(* The client's threads.                                                   *)

\* the head of doWork's loop: another request, unless there were enough or the
\* workload has been stopped
More(t) ==
    /\ thread[t].at = "next"
    /\ thread' = [thread EXCEPT ![t].at =
                      IF stopRequested \/ thread[t].done = TxnCount THEN "done" ELSE "send"]
    /\ UNCHANGED <<sent, pending>>

\* sendInvokeRequest signs a request with the thread's next nonce and
\* publishes it; a published message may be lost.  On a connection that is
\* shut down it fails, and the transaction goes on with an empty digest.
sendInvokeRequest(t) ==
    /\ thread[t].at = "send"
    /\ LET r == <<t, thread[t].done>>
       IN  \/ /\ connected /\ sent' \in {sent, sent \cup {r}}
              /\ thread' = [thread EXCEPT ![t].at = "sent", ![t].digest = r]
           \/ /\ ~connected /\ UNCHANGED sent
              /\ thread' = [thread EXCEPT ![t].at = "sent", ![t].digest = NoDigest]
    /\ UNCHANGED pending

\* beginTransaction: the workload records the digest after it has sent
beginTransaction(t) ==
    /\ thread[t].at = "sent"
    /\ pending' = pending \cup {thread[t].digest}
    /\ thread' = [thread EXCEPT ![t].at = "next", ![t].done = @ + 1]
    /\ UNCHANGED sent

doWork(t) ==
    /\ More(t) \/ sendInvokeRequest(t) \/ beginTransaction(t)
    /\ UNCHANGED <<monitor, txCountCommit, txCountAbort, loaded, status, running, engine,
                   peerVars, queryVars, failures>>

-----------------------------------------------------------------------------
(* The peer.                                                               *)

\* The group orders a block of requests, and deliveredCallback queues it.
Deliver ==
    /\ Len(blocks) < MaxBlock
    /\ \E requests \in SUBSET (sent \ Decided) : blocks' = Append(blocks, requests)
    /\ tasks' = Append(tasks, Len(blocks))
    /\ UNCHANGED <<filter, inserting, cache, newest, failures>>

\* A plausible slip: the block is shown to users before it is executed.
ShowFirst ==
    /\ inserting = None /\ tasks # <<>>
    /\ cache' = insert(cache, Head(tasks))
    /\ newest' = Head(tasks)
    /\ \/ \E valid \in SUBSET Requests(Head(tasks)) :
              filter' = [c \in Executed \cup {Head(tasks)} |->
                             IF c = Head(tasks) THEN valid ELSE filter[c]]
       \/ UNCHANGED filter
    /\ tasks' = Tail(tasks)
    /\ UNCHANGED <<blocks, inserting, failures>>

\* onConsensusBlockOrder, in the executor's thread: the block is executed,
\* which decides the requests that commit, and enters the users' cache; a
\* block that cannot be executed is left out of it.
onConsensusBlockOrder ==
    /\ inserting = None /\ tasks # <<>>
    /\ tasks' = Tail(tasks)
    /\ LET b == Head(tasks)
       IN  \/ /\ \E valid \in SUBSET Requests(b) :
                     filter' = [c \in Executed \cup {b} |-> IF c = b THEN valid ELSE filter[c]]
              /\ cache' = insert(cache, b)
              /\ inserting' = b
              /\ UNCHANGED failures
           \/ /\ failures > 0 /\ failures' = failures - 1
              /\ UNCHANGED <<filter, cache, inserting>>
    /\ UNCHANGED <<blocks, newest>>

\* insertBlockAndNotify: the futex, which wakes the waiting requests
StoreFutex ==
    /\ inserting # None
    /\ newest' = inserting
    /\ inserting' = None
    /\ UNCHANGED <<blocks, tasks, filter, cache, failures>>

Execute ==
    /\ onConsensusBlockOrder \/ StoreFutex
    /\ UNCHANGED <<clientVars, queryVars>>

Order == Deliver /\ UNCHANGED <<clientVars, queryVars>>

-----------------------------------------------------------------------------
(* The client's monitor, with the peer's side of its requests.             *)

\* getTop: the height that the peer has shown; after the last failed attempt
\* the monitor starts at block 1
getTop ==
    /\ monitor.at = "top"
    /\ \/ /\ monitor' = [monitor EXCEPT !.at = "poll", !.height = newest + 1]
          /\ UNCHANGED failures
       \/ /\ failures > 0 /\ failures' = failures - 1
          /\ monitor' = IF monitor.tries + 1 < TopRetries
                        THEN [monitor EXCEPT !.tries = @ + 1]
                        ELSE [monitor EXCEPT !.at = "poll", !.height = 1]
    /\ UNCHANGED <<pending, txCountCommit, txCountAbort, loaded, cache>>

\* the head of the monitor's loop
Poll ==
    /\ monitor.at = "poll"
    /\ monitor' = [monitor EXCEPT !.at = IF running THEN "wait" ELSE "done"]
    /\ UNCHANGED <<pending, txCountCommit, txCountAbort, loaded, cache, failures>>

\* getLightBlock at the peer: the block is there, or it has left the cache
getLightBlock ==
    /\ monitor.at = "wait" /\ newest >= monitor.height
    /\ tryGetCopy(monitor.height)
    /\ monitor' = [monitor EXCEPT !.at = IF Contains(cache, monitor.height) THEN "count" ELSE "poll"]
    /\ loaded' = IF Contains(cache, monitor.height) THEN <<txCountCommit, txCountAbort>> ELSE loaded
    /\ UNCHANGED <<pending, txCountCommit, txCountAbort, failures>>

\* A plausible slip: the client waits as long as the peer, which has no limit.
NoTimeout ==
    /\ monitor.at = "wait"
    /\ failures > 0 /\ failures' = failures - 1
    /\ monitor' = [monitor EXCEPT !.at = "poll"]
    /\ UNCHANGED <<pending, txCountCommit, txCountAbort, loaded, cache>>

\* the client gives up after five seconds, or the RPC fails
Timeout ==
    /\ monitor.at = "wait"
    /\ \/ newest < monitor.height /\ UNCHANGED failures
       \/ failures > 0 /\ failures' = failures - 1
    /\ monitor' = [monitor EXCEPT !.at = "poll"]
    /\ UNCHANGED <<pending, txCountCommit, txCountAbort, loaded, cache>>

\* getTxnLatency: a request of the block is erased from the map if it is there
getTxnLatency(b) == Requests(b) \cap pending

\* The monitor counts a block, from the counters it has loaded or from the
\* ones that the status thread has reset in between.  A request whose latency
\* comes out as zero counts as nothing.
Count ==
    /\ monitor.at = "count"
    /\ monitor.height \in Executed
    /\ LET b == monitor.height
           found == getTxnLatency(b)
       IN  \E zero \in SUBSET found :
             \E from \in {loaded, <<txCountCommit, txCountAbort>>} :
               /\ pending' = pending \ found
               /\ txCountCommit' = from[1] + Cardinality((found \ zero) \cap filter[b])
               /\ txCountAbort' = from[2] + Cardinality((found \ zero) \ filter[b])
    /\ monitor' = [monitor EXCEPT !.at = "poll", !.height = @ + 1]
    /\ loaded' = <<0, 0>>
    /\ UNCHANGED <<cache, failures>>

doMonitor ==
    /\ getTop \/ Poll \/ getLightBlock \/ Timeout \/ Count
    /\ UNCHANGED <<thread, sent, status, running, engine, queryVars,
                   blocks, tasks, filter, inserting, newest>>

\* doStatus resets the counters once, after the warm-up, and ends with running
doStatus ==
    /\ \/ /\ status = "cold" /\ running
          /\ status' = "warm" /\ txCountCommit' = 0 /\ txCountAbort' = 0
       \/ /\ status # "done" /\ ~running
          /\ status' = "done" /\ UNCHANGED <<txCountCommit, txCountAbort>>
    /\ UNCHANGED <<thread, sent, pending, monitor, loaded, running, engine,
                   peerVars, queryVars, failures>>

-----------------------------------------------------------------------------
(* The engine.  The benchmark's time is up; statusThread.reset() waits for  *)
(* its two threads; requestStop(); the clients are destroyed, the first of  *)
(* which shuts down the connection that they share.                         *)

TimeUp ==
    /\ engine = "run"
    /\ engine' = "reset" /\ running' = FALSE

Stop ==
    /\ \/ /\ engine = "reset" /\ monitor.at = "done" /\ status = "done"
          /\ engine' = "stop"
       \/ engine = "stop" /\ engine' = "destroy"
       \/ /\ engine = "destroy" /\ \A t \in Thread : thread[t].at = "done"
          /\ engine' = "done"
    /\ UNCHANGED running

waitUntilFinish ==
    /\ TimeUp \/ Stop
    /\ UNCHANGED <<thread, sent, pending, monitor, txCountCommit, txCountAbort, loaded,
                   status, peerVars, queryVars, failures>>

-----------------------------------------------------------------------------
(* A user of the SDK.                                                      *)

\* getTransaction: a look through the blocks from the hint to the newest one
getTransaction ==
    /\ query = {} /\ answer = {}
    /\ \E tx \in sent : \E hint \in 0 .. newest :
           query' = {[tx |-> tx, at |-> hint, last |-> newest]}
    /\ UNCHANGED <<answer, cache>>

\* getTxWithProof: one block of the look-up; a block that has left the cache
\* is passed over, and the answer comes with what its execution decided
getTxWithProof ==
    \E q \in query :
      /\ tryGetCopy(q.at)
      /\ \/ /\ Contains(cache, q.at) /\ q.tx \in Requests(q.at)
            /\ answer' = {[tx |-> q.tx, block |-> q.at, valid |-> q.tx \in filter[q.at]]}
            /\ query' = {}
         \/ /\ ~(Contains(cache, q.at) /\ q.tx \in Requests(q.at))
            /\ query' = IF q.at < q.last THEN {[q EXCEPT !.at = @ + 1]} ELSE {}
            /\ UNCHANGED answer

\* getBlock and getBlockHeader: one block, at most those shown so far
getBlock ==
    /\ \E b \in 0 .. newest : tryGetCopy(b)
    /\ UNCHANGED queryVars

User ==
    /\ getTransaction \/ getTxWithProof \/ getBlock
    /\ UNCHANGED <<clientVars, blocks, tasks, filter, inserting, newest, failures>>

Next ==
    \/ \E t \in Thread : doWork(t)
    \/ Order \/ Execute \/ doMonitor \/ doStatus \/ waitUntilFinish \/ User

\* The threads whose work is bounded: it is enough that one of them goes on.
\* The monitor is not among them; the benchmark need not end, nor users ask.
Bounded ==
    \/ \E t \in Thread : doWork(t)
    \/ Execute \/ doStatus
    \/ waitUntilFinish /\ Stop

-----------------------------------------------------------------------------
(* Properties.                                                             *)

Begun == {r \in Thread \X (0 .. TxnCount - 1) : r[2] < thread[r[1]].done}

Polled == {b \in Executed : b < monitor.height}

\* MeasuredTruly: what the client reports is not more than what happened.  It
\* counts as committed only requests that the executed blocks it has passed
\* committed; of the requests its threads have begun, none is counted twice,
\* nor counted while it is still pending, however block polling, sending and
\* the reset after the warm-up interleave; and a user who is told the outcome
\* of a transaction is told the one that its block's execution gave.
MeasuredTruly ==
    /\ txCountCommit <= Cardinality(UNION {filter[b] : b \in Polled})
    /\ txCountCommit + txCountAbort + Cardinality(pending \ {NoDigest}) <= Cardinality(Begun)
    /\ monitor.at = "count" => monitor.height \in Executed
    /\ \A a \in answer : /\ a.block \in Executed /\ a.tx \in Requests(a.block)
                         /\ a.valid = (a.tx \in filter[a.block])

Lost == newest >= monitor.height /\ ~Contains(cache, monitor.height)

\* MonitorServed: a monitor that is behind the peer catches up, unless it stops
\* or the block it asks for has left the cache; and when the benchmark's time
\* is up the engine ends, although the peer puts no limit on the wait for a
\* block that never comes.
MonitorServed ==
    /\ newest >= monitor.height ~> newest < monitor.height \/ ~running \/ Lost
    /\ ~running ~> engine = "done"
=============================================================================
