------------------------------ MODULE MCRuntime ------------------------------
(* The mechanisms that the peer's components run on: the coordinator's      *)
(* command protocol, one Raft group and its leader, a reliable ZeroMQ        *)
(* connection, the thread pools and the way of a client's requests.  They    *)
(* share no state; the initial state chooses one, and the others stay as     *)
(* they are.                                                                 *)
EXTENDS CommandBarrier, Sequences, FiniteSets

CONSTANTS
    Node, Leader, MaxTerm, Disturbances,                   \* RaftLeadership
    Client, Retry, Messages,                               \* ReliableZmq
    Region, BCCSPWorker, Signatures, Contexts, Corrupted,          \* ForkJoin
    Thread, TxnCount, MaxBlock, CacheSize, Elasticity,
    TopRetries, Failures                                   \* ClientPath

\* The threads of a client are finitely many; "empty" stands for an empty digest.
ASSUME ClientAssumption ==
    /\ IsFiniteSet(Thread) /\ "empty" \notin Thread
    /\ TxnCount \in Nat /\ CacheSize \in Nat /\ Elasticity \in Nat

VARIABLES
    sys,
    instances, stopped, leading, term, disturbed, following, elected, handing, running,
    hasLed, onError, ready,
    owner, server, shared, helloThread, isReady, receivedHello, receiver, received,
    pipe, client, tries, sent,
    poolRunning, sema, tasks, worker, current, contexts, held, caller, corrupted,
    enqueued, forked, counting, executed,
    thread, sentRequests, pending, blocks, taskQueue, filter, inserting, cache, newest,
    monitor, txCountCommit, txCountAbort, loaded, status, isRunning, engine,
    query, answer, failures

R == INSTANCE RaftLeadership
Z == INSTANCE ReliableZmq
F == INSTANCE ForkJoin
C == INSTANCE ClientPath WITH sent <- sentRequests, tasks <- taskQueue, running <- isRunning

raftVars == <<instances, stopped, leading, term, disturbed, following, elected, handing,
              running, hasLed, onError, ready>>
zmqVars == <<owner, server, shared, helloThread, isReady, receivedHello, receiver,
             received, pipe, client, tries, sent>>
poolVars == <<poolRunning, sema, tasks, worker, current, contexts, held, caller,
              corrupted, enqueued, forked, counting, executed>>
clientVars == <<thread, sentRequests, pending, blocks, taskQueue, filter, inserting,
                cache, newest, monitor, txCountCommit, txCountAbort, loaded, status,
                isRunning, engine, query, answer, failures>>
all == <<sys, vars, raftVars, zmqVars, poolVars, clientVars>>

MCInit ==
    /\ sys \in {"barrier", "raft", "zmq", "pools", "client"}
    /\ Init /\ R!Init /\ Z!Init /\ F!Init /\ C!Init

\* One mechanism moves, the others stay as they are.
BarrierAlone ==
    sys = "barrier" /\ UNCHANGED <<sys, raftVars, zmqVars, poolVars, clientVars>>
RaftAlone ==
    sys = "raft" /\ UNCHANGED <<sys, vars, zmqVars, poolVars, clientVars>>
ZmqAlone ==
    sys = "zmq" /\ UNCHANGED <<sys, vars, raftVars, poolVars, clientVars>>
PoolsAlone ==
    sys = "pools" /\ UNCHANGED <<sys, vars, raftVars, zmqVars, clientVars>>
ClientAlone ==
    sys = "client" /\ UNCHANGED <<sys, vars, raftVars, zmqVars, poolVars>>

MCNext ==
    \/ BarrierAlone /\ Next
    \/ RaftAlone /\ R!Next
    \/ ZmqAlone /\ Z!Next
    \/ PoolsAlone /\ F!Next
    \/ ClientAlone /\ C!Next

\* The fairness of each mechanism.  Only one of them moves, so a disjunction of
\* steps of different ones is as strong as the conjunction for each.  The threads
\* of the command protocol, of the connection and of the pools do a bounded
\* amount of work, so that it is enough that one of them goes on.
MCSpec ==
    /\ MCInit /\ [][MCNext]_all
    /\ WF_all(\/ BarrierAlone /\ Next
              \/ RaftAlone /\ R!Local
              \/ ZmqAlone /\ Z!Work
              \/ PoolsAlone /\ F!Next
              \/ ClientAlone /\ C!Bounded)
    /\ WF_all(\/ RaftAlone /\ leading = R!Nobody /\ R!Election
              \/ ClientAlone /\ C!doMonitor)
    /\ SF_all(RaftAlone /\ R!Transfer /\ leading' = Leader)

-----------------------------------------------------------------------------
\* CallsReturn: EveryCallReturns, of the command protocol, and ForksJoin, of the
\* thread pools: whoever hands work to other threads gets it back.
CallsReturn == (sys = "barrier" => EveryCallReturns) /\ (sys = "pools" => F!ForksJoin)

\* LeaderSettles: of the Raft group; what ready() has returned is true
\* (ReadyTruthful), and the end of the leader is noticed (FailureReported).
LeaderSettles == sys = "raft" => R!LeaderSettles /\ []R!ReadyTruthful /\ R!FailureReported

\* DataArrives: of the ZeroMQ connection, all data in the end and at all times
\* only data, in order (DataInOrder).
DataArrives == sys = "zmq" => Z!DataArrives /\ []Z!DataInOrder

\* MeasuredTruly: of the client's path.
MeasuredTruly == C!MeasuredTruly

\* MonitorServed: of the client's path.
MonitorServed == sys = "client" => C!MonitorServed
=============================================================================
