------------------------------- MODULE ForkJoin -------------------------------
(* The threads of a peer that fork tasks onto thread pools and wait for them *)
(* (thread_pool_light.h): the blk_sender thread gives its own pool one task  *)
(* per remote region, each of which takes an erasure-coding context          *)
(* (BlockFragmentGenerator::getEmptyContext); the receiver of each region    *)
(* holds contexts while fragments come in and then has the signatures        *)
(* verified on the BCCSP pool; the Raft thread verifies those of a block     *)
(* order there.  ConcurrentQueue, LightweightSemaphore and CountdownEvent    *)
(* are external; instanceCount is 1, as FragmentUtil has it.                 *)
EXTENDS Integers, FiniteSets

CONSTANTS
    Region,      \* remote regions
    BCCSPWorker, \* thread_count of the BCCSP pool
    Signatures,  \* signatures of a block
    Contexts,    \* the concurrency of all regions of one configuration
    Corrupted    \* bound: corrupted first fragments per receiver

Pool == {"send", "bccsp"}
Caller == Region \cup {"sender", "raft"}
\* The sender's pool has a thread per remote region.
ThreadCount(p) == IF p = "send" THEN Cardinality(Region) ELSE BCCSPWorker
Worker == UNION {{p} \X (1 .. ThreadCount(p)) : p \in Pool}

\* The pool a caller forks onto, and the tasks it forks: per remote region,
\* per routine (as many as the pool has threads), per signature.
PoolOf(a) == IF a = "sender" THEN "send" ELSE "bccsp"
TaskOf(a) ==
    {a} \X (CASE a = "sender" -> Region
              [] a = "raft" -> 1 .. BCCSPWorker
              [] OTHER -> 1 .. Signatures)
Task == UNION {TaskOf(a) : a \in Caller}

VARIABLES
    poolRunning, \* per pool, thread_pool_light::running
    sema,       \* per pool, the permits of the semaphore
    tasks,      \* per pool, the tasks that are queued: tasks or priTasks
    worker,     \* per worker, where worker() is
    current,    \* per worker, the task it has dequeued
    contexts,   \* permits of semaMap, as many as there are instances in ecMap
    held,       \* per receiver, the contexts it holds
    caller,     \* per caller, where it is
    corrupted,  \* per receiver, corrupted fragments met
    enqueued,   \* per caller, the task it has enqueued and not signalled
    forked,     \* per caller, the tasks it has pushed
    counting,   \* per caller, the countdown event
    executed    \* history: how often a task has run

callerVars == <<caller, enqueued, forked>>
poolVars == <<poolRunning, worker, current, executed>>
vars == <<poolRunning, sema, tasks, worker, current, contexts, held, caller, corrupted,
          enqueued, forked, counting, executed>>

NoTask == <<>>

Init ==
    /\ poolRunning = [p \in Pool |-> TRUE]
    /\ sema = [p \in Pool |-> 0]
    /\ tasks = [p \in Pool |-> {}]
    /\ worker = [w \in Worker |-> "wait"]
    /\ current = [w \in Worker |-> NoTask]
    /\ contexts = Contexts
    /\ held = [r \in Region |-> 0]
    /\ caller = [a \in Caller |-> IF a \in Region THEN "fragment" ELSE "fork"]
    /\ corrupted = [r \in Region |-> 0]
    /\ enqueued = [a \in Caller |-> NoTask]
    /\ forked = [a \in Caller |-> {}]
    /\ counting = [a \in Caller |-> Cardinality(TaskOf(a))]
    /\ executed = [t \in Task |-> 0]

-----------------------------------------------------------------------------
(* The contexts.                                                             *)

getEmptyContext == contexts > 0 /\ contexts' = contexts - 1

freeContext(n) == contexts' = contexts + n

-----------------------------------------------------------------------------
(* genBlockFromQueue of the receiver of region r.                            *)

\* A fragment of a block of which no shard is valid yet: the new context is
\* taken before the one of an earlier, corrupted fragment is let go.
TakeContext(r) ==
    /\ caller[r] = "fragment"
    /\ getEmptyContext
    /\ held' = [held EXCEPT ![r] = @ + 1]
    /\ caller' = [caller EXCEPT ![r] = "validate"]
    /\ UNCHANGED <<poolVars, sema, tasks, corrupted, enqueued, forked, counting>>

DropOld(r) ==
    /\ caller[r] = "validate" /\ held[r] > 1
    /\ freeContext(1)
    /\ held' = [held EXCEPT ![r] = 1]
    /\ UNCHANGED <<poolVars, sema, tasks, callerVars, corrupted, counting>>

ShardCorrupted(r) ==
    /\ caller[r] = "validate" /\ held[r] = 1 /\ corrupted[r] < Corrupted
    /\ corrupted' = [corrupted EXCEPT ![r] = @ + 1]
    /\ caller' = [caller EXCEPT ![r] = "fragment"]
    /\ UNCHANGED <<poolVars, sema, tasks, contexts, held, enqueued, forked, counting>>

\* Enough shards: the block is put together and its signatures verified.
Regenerated(r) ==
    /\ caller[r] = "validate" /\ held[r] = 1
    /\ caller' = [caller EXCEPT ![r] = "fork"]
    /\ UNCHANGED <<poolVars, sema, tasks, contexts, held, corrupted, enqueued, forked,
                   counting>>

ReleaseContexts(r) ==
    /\ caller[r] = "free"
    /\ freeContext(held[r])
    /\ held' = [held EXCEPT ![r] = 0]
    /\ caller' = [caller EXCEPT ![r] = "returned"]
    /\ UNCHANGED <<poolVars, sema, tasks, corrupted, enqueued, forked, counting>>

-----------------------------------------------------------------------------
(* Fork and join.                                                            *)

\* push_task, push_emergency_task: enqueue, and then signal.
Enqueue(a) ==
    /\ caller[a] = "fork" /\ enqueued[a] = NoTask
    /\ \E t \in TaskOf(a) \ forked[a] :
        /\ tasks' = [tasks EXCEPT ![PoolOf(a)] = @ \cup {t}]
        /\ enqueued' = [enqueued EXCEPT ![a] = t]
    /\ UNCHANGED <<poolVars, sema, contexts, held, corrupted, counting, caller, forked>>

Signal(a) ==
    /\ enqueued[a] # NoTask
    /\ sema' = [sema EXCEPT ![PoolOf(a)] = @ + 1]
    /\ forked' = [forked EXCEPT ![a] = @ \cup {enqueued[a]}]
    /\ enqueued' = [enqueued EXCEPT ![a] = NoTask]
    /\ UNCHANGED <<poolVars, tasks, contexts, held, corrupted, counting, caller>>

\* countdown.wait() returns
Join(a) ==
    /\ caller[a] = "fork" /\ forked[a] = TaskOf(a) /\ counting[a] <= 0
    /\ caller' = [caller EXCEPT ![a] = IF a \in Region THEN "free" ELSE "returned"]
    /\ UNCHANGED <<poolVars, sema, tasks, contexts, held, corrupted, counting,
                   enqueued, forked>>

-----------------------------------------------------------------------------
(* thread_pool_light::worker                                                 *)

otherVars == <<poolRunning, held, corrupted, callerVars>>

\* The loop's condition and sema.wait().
SemaWait(w) ==
    /\ worker[w] = "wait"
    /\ \/ /\ ~poolRunning[w[1]]
          /\ worker' = [worker EXCEPT ![w] = "ended"]
          /\ UNCHANGED sema
       \/ /\ sema[w[1]] > 0
          /\ sema' = [sema EXCEPT ![w[1]] = @ - 1]
          /\ worker' = [worker EXCEPT ![w] = "get"]
    /\ UNCHANGED <<otherVars, tasks, current, contexts, counting, executed>>

Dequeue(w) ==
    /\ worker[w] = "get"
    /\ \/ /\ poolRunning[w[1]]
          /\ \E t \in tasks[w[1]] :
                /\ tasks' = [tasks EXCEPT ![w[1]] = @ \ {t}]
                /\ current' = [current EXCEPT ![w] = t]
          /\ worker' = [worker EXCEPT ![w] = IF w[1] = "send" THEN "context" ELSE "run"]
       \/ /\ ~poolRunning[w[1]]
          /\ worker' = [worker EXCEPT ![w] = "ended"]
          /\ UNCHANGED <<tasks, current>>
    /\ UNCHANGED <<otherVars, sema, contexts, counting, executed>>

\* encodeAndSendBlock takes a context ...
TaskContext(w) ==
    /\ worker[w] = "context"
    /\ getEmptyContext
    /\ worker' = [worker EXCEPT ![w] = "run"]
    /\ UNCHANGED <<otherVars, sema, tasks, current, counting, executed>>

\* ... which is given back when it returns, before the task signals.
RunTask(w) ==
    /\ worker[w] = "run"
    /\ executed' = [executed EXCEPT ![current[w]] = @ + 1]
    /\ IF w[1] = "send" THEN freeContext(1) ELSE UNCHANGED contexts
    /\ worker' = [worker EXCEPT ![w] = "signal"]
    /\ UNCHANGED <<otherVars, sema, tasks, current, counting>>

TaskSignal(w) ==
    /\ worker[w] = "signal"
    /\ counting' = [counting EXCEPT ![current[w][1]] = @ - 1]
    /\ worker' = [worker EXCEPT ![w] = "wait"]
    /\ UNCHANGED <<otherVars, sema, tasks, current, contexts, executed>>

\* destroy_threads: the last owner of the pool is gone.
destroy_threads(p) ==
    /\ poolRunning[p] /\ \A a \in Caller : PoolOf(a) = p => caller[a] = "returned"
    /\ poolRunning' = [poolRunning EXCEPT ![p] = FALSE]
    /\ sema' = [sema EXCEPT ![p] = @ + ThreadCount(p)]
    /\ UNCHANGED <<tasks, worker, current, contexts, held, corrupted, callerVars,
                   counting, executed>>

-----------------------------------------------------------------------------
Receive(r) ==
    \/ TakeContext(r) \/ DropOld(r) \/ ShardCorrupted(r) \/ Regenerated(r)
    \/ ReleaseContexts(r)
Call(a) == Enqueue(a) \/ Signal(a) \/ Join(a) \/ (a \in Region /\ Receive(a))
Work(w) ==
    SemaWait(w) \/ Dequeue(w) \/ TaskContext(w) \/ RunTask(w) \/ TaskSignal(w)
Next ==
    \/ \E a \in Caller : Call(a)
    \/ \E w \in Worker : Work(w)
    \/ \E p \in Pool : destroy_threads(p)

Spec == Init /\ [][Next]_vars

\* Some thread that can take a step takes one.  No more is needed: every
\* thread does a bounded amount of work.
Fairness == WF_vars(Next)

-----------------------------------------------------------------------------
\* ForksJoin: every thread that forks returns, its tasks having been run once
\* each, although threads wait for contexts while they hold some; then the
\* pools' threads end and no context is missing.
ForksJoin ==
    <>(/\ \A a \in Caller : caller[a] = "returned"
       /\ \A t \in Task : executed[t] = 1
       /\ \A w \in Worker : worker[w] = "ended"
       /\ contexts = Contexts)
=============================================================================
