---------------------------- MODULE CommandBarrier ----------------------------
(* How a concurrency-control coordinator drives its worker threads:          *)
(* Coordinator::processParallel (coordinator.h) gives every worker a         *)
(* callback and a command and waits on a countdown, Worker::run              *)
(* (worker_fsm.h) takes the command out of a butex word, runs the handler    *)
(* and calls the callback.  The phases of every concurrency control (START,  *)
(* EXEC, COMMIT) are successive calls; call p gives command p, and command 0 *)
(* is InvokerCommand::IDLE.                                                  *)
(*                                                                           *)
(* execute() first stores the command and then wakes the butex's waiters.    *)
(* LateWake says whether a worker may take the command, run it and be back   *)
(* at its wait between the two.                                              *)
EXTENDS Integers

CONSTANTS
    WorkerCount,  \* number of worker threads
    Calls,        \* bound: number of processParallel calls
    LateWake      \* BOOLEAN: may a wake-up come after its command has run?

ASSUME BarrierAssumption ==
    /\ WorkerCount \in Nat \ {0}
    /\ Calls \in Nat \ {0}
    /\ LateWake \in BOOLEAN

VARIABLES
    call,       \* the number of processParallel calls begun
    coord,      \* where the coordinator is in the call
    issued,     \* workers that have been given the call's command
    countdown,  \* bthread::CountdownEvent
    command,    \* per worker, the butex word _command
    pc,         \* per worker, where run() is
    cEnum,      \* per worker, run()'s local copy of the command
    ran         \* per worker and command, how often the handler has run

vars == <<call, coord, issued, countdown, command, pc, cEnum, ran>>

IDLE == 0
Worker == 0 .. WorkerCount - 1
Command == 1 .. Calls

-----------------------------------------------------------------------------
(* The coordinator's thread.                                                 *)

Init ==
    /\ call = 0
    /\ coord = "returned"
    /\ issued = 0
    /\ countdown = 0
    /\ command = [w \in Worker |-> IDLE]
    /\ pc = [w \in Worker |-> "wait"]
    /\ cEnum = [w \in Worker |-> IDLE]
    /\ ran = [w \in Worker |-> [c \in Command |-> 0]]

\* Mutant: the countdown is one short.
BeginCallShort ==
    /\ coord = "returned" /\ call < Calls
    /\ call' = call + 1
    /\ countdown' = WorkerCount - 1
    /\ issued' = 0
    /\ coord' = "store"
    /\ UNCHANGED <<command, pc, cEnum, ran>>

\* countdown.reset
BeginCall ==
    /\ coord = "returned" /\ call < Calls
    /\ call' = call + 1
    /\ countdown' = WorkerCount
    /\ issued' = 0
    /\ coord' = "store"
    /\ UNCHANGED <<command, pc, cEnum, ran>>

\* butex_wake_all releases the workers that are blocked in butex_wait.
Woken(w) == [pc EXCEPT ![w] = IF @ = "blocked" THEN "load" ELSE @]

\* setCommandCallback and the store of execute(), for the next worker
Store ==
    /\ coord = "store"
    /\ command' = [command EXCEPT ![issued] = call]
    /\ coord' = "wake"
    /\ UNCHANGED <<call, issued, countdown, pc, cEnum, ran>>

Wake ==
    /\ coord = "wake"
    /\ pc' = Woken(issued)
    /\ issued' = issued + 1
    /\ coord' = IF issued + 1 = WorkerCount THEN "join" ELSE "store"
    /\ UNCHANGED <<call, countdown, command, cEnum, ran>>

\* countdown.wait() returns
Return ==
    /\ coord = "join"
    /\ countdown <= 0
    /\ coord' = "returned"
    /\ UNCHANGED <<call, issued, countdown, command, pc, cEnum, ran>>

-----------------------------------------------------------------------------
(* The loop of Worker::run.                                                  *)

\* Mutant: the wait does not compare the word first.
ButexWaitBlind(w) ==
    /\ pc[w] = "wait"
    /\ pc' = [pc EXCEPT ![w] = "blocked"]
    /\ UNCHANGED <<call, coord, issued, countdown, command, cEnum, ran>>

\* butex_wait blocks only while the word still holds IDLE.
ButexWait(w) ==
    /\ pc[w] = "wait"
    /\ pc' = [pc EXCEPT ![w] = IF command[w] = IDLE THEN "blocked" ELSE "load"]
    /\ UNCHANGED <<call, coord, issued, countdown, command, cEnum, ran>>

Load(w) ==
    /\ pc[w] = "load"
    /\ cEnum' = [cEnum EXCEPT ![w] = command[w]]
    /\ pc' = [pc EXCEPT ![w] = "exchange"]
    /\ UNCHANGED <<call, coord, issued, countdown, command, ran>>

\* compare_exchange_strong: on success the word becomes IDLE, on failure the
\* local copy takes the word's value and the word keeps it.
Exchange(w) ==
    /\ pc[w] = "exchange"
    /\ IF command[w] = cEnum[w]
       THEN command' = [command EXCEPT ![w] = IDLE] /\ UNCHANGED cEnum
       ELSE cEnum' = [cEnum EXCEPT ![w] = command[w]] /\ UNCHANGED command
    /\ pc' = [pc EXCEPT ![w] = IF cEnum'[w] = IDLE THEN "wait" ELSE "run"]
    /\ UNCHANGED <<call, coord, issued, countdown, ran>>

\* the handler of the command
Handle(w) ==
    /\ pc[w] = "run"
    /\ ran' = [ran EXCEPT ![w][cEnum[w]] = @ + 1]
    /\ pc' = [pc EXCEPT ![w] = "callback"]
    /\ UNCHANGED <<call, coord, issued, countdown, command, cEnum>>

\* _commandCallback: beforeFinish and countdown.signal()
Callback(w) ==
    /\ pc[w] = "callback"
    /\ LateWake \/ ~(coord = "wake" /\ issued = w)
    /\ countdown' = countdown - 1
    /\ pc' = [pc EXCEPT ![w] = "wait"]
    /\ UNCHANGED <<call, coord, issued, command, cEnum, ran>>

Coordinator == BeginCall \/ Store \/ Wake \/ Return
Run(w) == ButexWait(w) \/ Load(w) \/ Exchange(w) \/ Handle(w) \/ Callback(w)
Next == Coordinator \/ \E w \in Worker : Run(w)

Spec == Init /\ [][Next]_vars

\* Every thread is scheduled; one blocked in butex_wait or countdown.wait has
\* no step to take.
LiveSpec ==
    Spec /\ WF_vars(Coordinator) /\ \A w \in Worker : WF_vars(Run(w))

-----------------------------------------------------------------------------
(* Correctness.                                                              *)

\* TypeOK: every variable keeps its type; the countdown never goes below zero,
\* that is, no worker signals twice in one call of processParallel.
TypeOK ==
    /\ call \in 0 .. Calls
    /\ coord \in {"returned", "store", "wake", "join"}
    /\ issued \in 0 .. WorkerCount
    /\ countdown \in 0 .. WorkerCount
    /\ command \in [Worker -> {IDLE} \cup Command]
    /\ pc \in [Worker ->
                 {"wait", "blocked", "load", "exchange", "run", "callback"}]
    /\ cEnum \in [Worker -> {IDLE} \cup Command]
    /\ ran \in [Worker -> [Command -> Nat]]

\* Barrier: when processParallel has returned ("Block until all worker
\* finish", coordinator.h), every worker has run the handler of every command
\* given so far exactly once and is inside no handler.  The phases of Aria
\* rely on it: no transaction executes while another one commits.
Barrier ==
    coord = "returned" =>
        \A w \in Worker :
            /\ \A c \in 1 .. call : ran[w][c] = 1
            /\ pc[w] \notin {"run", "callback"}

\* EveryCallReturns: no wake-up is lost between a worker's check of the butex
\* word and its going to sleep, so the coordinator never waits forever.
EveryCallReturns == <>(call = Calls /\ coord = "returned")
=============================================================================
