---------------------------- MODULE MixedExecution ----------------------------
(* The coordinators that execute an ordered block other than by plain Aria:  *)
(* MixCoordinator (my_cc/mix) runs the CRDT transactions of a block with a   *)
(* CrdtCoordinator first and the others with a DeterministicCoordinator, and *)
(* puts the results back in the order of the requests; with mixing disabled  *)
(* it hands the whole block to the DeterministicCoordinator; WBCoordinator   *)
(* (deterministic/write_based) runs it with two commit phases.  All of them  *)
(* are instances of Coordinator, which moves the transactions to its workers *)
(* and back.                                                                 *)
(*                                                                           *)
(* A request is a vote or a query of the voting chaincode, or a transaction  *)
(* of another chaincode that gets keys and puts keys.  Reserving the keys of *)
(* one transaction is one step here; module DeterministicCoordinator has the *)
(* finer steps.                                                              *)
EXTENDS Integers, Sequences, FiniteSets, Functions

CONSTANTS
    Key,
    WorkerCount,   \* worker threads of every coordinator
    Requests,      \* [cc, func, key, count] of "vote", [cc, gets, puts] of "kv"
    BlockLength,
    Blocks,        \* bound: number of blocks executed
    Coordinators   \* subset of {"mix", "plain", "write_based"}

(* A request adds between 0 and 10 votes: none takes votes away. *)
ASSUME MixedAssumption ==
    /\ WorkerCount \in Nat \ {0} /\ BlockLength \in Nat /\ Blocks \in Nat
    /\ Coordinators \subseteq {"mix", "plain", "write_based"}
    /\ Requests \subseteq
         [cc : {"vote"}, func : {"vote", "get", "other"}, key : Key, count : Nat]
         \cup [cc : {"kv"}, gets : SUBSET Key, puts : SUBSET Key]

Worker == 0 .. WorkerCount - 1
Place == 1 .. BlockLength
Absent == -1        \* nothing under a key
NoTxn == 0          \* a moved-from pointer
Nobody == -1        \* a lock that is free
NotPutting == -2    \* a worker outside DBShim::put
Unreserved == BlockLength + 1

VARIABLES
    coordinator,  \* the coordinator in use
    block,        \* number of blocks begun
    request,      \* the block: a sequence of requests
    tid,          \* transaction identifiers: the rank of each request's digest
    stage,        \* "idle", "crdt", "det" or "write_based"
    phase,        \* of processSync: "start", "exec", "commit", "second"
    txns,         \* the vector of the running coordinator: places of the block
    waiting,      \* deterministicTxn while the CRDT transactions run
    done,         \* crdtTxn, then deterministicTxn, once processed
    list,         \* per worker, its txnList
    at,           \* per worker, the next entry of its list
    finished,     \* workers that have signalled the countdown
    writer,       \* DBShim: per key, the worker that holds its lock to write
    old,          \* per worker, the value put read under the lock
    table,        \* reserve tables: [reads, writes : smallest tid per key]
    db,
    atStart,      \* history: the database when the block began
    result,       \* ExecutionResult of every transaction
    writes,       \* its write set
    value,        \* its return value
    retResults    \* what processValidatedRequests returns: [of, commit]

blockVars == <<coordinator, block, request, tid, atStart>>
workVars == <<list, at, finished, writer, old, table>>
vars == <<blockVars, stage, phase, txns, waiting, done, workVars, db, result,
          writes, value, retResults>>

Fresh == [reads |-> [k \in Key |-> Unreserved], writes |-> [k \in Key |-> Unreserved]]
EachWorker(x) == [w \in Worker |-> x]

Init ==
    /\ coordinator \in Coordinators
    /\ block = 0 /\ request = <<>> /\ tid = <<>>
    /\ stage = "idle" /\ phase = "start"
    /\ txns = <<>> /\ waiting = <<>> /\ done = <<>>
    /\ list = EachWorker(<<>>) /\ at = EachWorker(1) /\ finished = {}
    /\ writer = [k \in Key |-> Nobody] /\ old = EachWorker(NotPutting)
    /\ table = Fresh
    /\ db \in [Key -> {Absent, 0}] /\ atStart = db
    /\ result = <<>> /\ writes = <<>> /\ value = <<>> /\ retResults = <<>>

-----------------------------------------------------------------------------
(* MixCoordinator::processValidatedRequests                                  *)

isCrdtChainCode(r) == r.cc = "vote"

IsCrdt(i) == isCrdtChainCode(request[i])

\* the counter with which the i-th request enters its vector
Rank(i) == Cardinality({j \in 1 .. i : IsCrdt(j) <=> IsCrdt(i)})

\* crdtTxn or deterministicTxn: the places of one kind in the block's order
Split(crdt) ==
    LET mine == {i \in Place : IsCrdt(i) <=> crdt}
    IN  [n \in 1 .. Cardinality(mine) |-> CHOOSE i \in mine : Rank(i) = n]

\* the classification, and the call of the first coordinator
Begin ==
    /\ stage = "idle" /\ block < Blocks
    /\ block' = block + 1
    /\ request' \in [Place -> Requests]
    /\ tid' \in {p \in [Place -> Place] : IsInjective(p)}
    /\ atStart' = db
    /\ LET all == [i \in Place |-> i] IN
       \/ /\ coordinator = "mix" /\ stage' = "crdt"
          /\ txns' = Split(TRUE)' /\ waiting' = Split(FALSE)'
       \/ /\ coordinator = "plain" /\ stage' = "det"
          /\ txns' = all /\ waiting' = <<>>
       \/ /\ coordinator = "write_based" /\ stage' = "write_based"
          /\ txns' = all /\ waiting' = <<>>
    /\ done' = <<>>
    /\ result' = [i \in Place |-> "PENDING"] /\ value' = [i \in Place |-> Absent]
    /\ writes' = [i \in Place |-> <<>>]
    /\ retResults' = <<>> /\ table' = Fresh
    /\ UNCHANGED <<coordinator, phase, list, at, finished, writer, old, db>>

\* crdt->processValidatedRequests has returned
EndCrdt ==
    /\ stage = "crdt" /\ phase = "returned"
    /\ stage' = "det" /\ phase' = "start"
    /\ done' = txns /\ txns' = waiting /\ waiting' = <<>>
    /\ table' = Fresh
    /\ UNCHANGED <<blockVars, list, at, finished, writer, old, db, result, writes,
                   value, retResults>>

Outcome(i) == [of |-> i, commit |-> result[i] = "COMMIT"]

\* Mutant: one counter serves both vectors.
MergeOneCounter(crdtTxn, deterministicTxn) ==
    [i \in Place |->
        LET from == IF IsCrdt(i) THEN crdtTxn ELSE deterministicTxn
        IN  Outcome(from[1 + ((i - 1) % Len(from))])]

\* The i-th request gets the next transaction of the vector it was put in.
Merge(crdtTxn, deterministicTxn) ==
    [i \in Place |->
        Outcome(IF IsCrdt(i) THEN crdtTxn[Rank(i)] ELSE deterministicTxn[Rank(i)])]

EndBlock ==
    /\ stage \in {"det", "write_based"} /\ phase = "returned"
    /\ stage' = "idle" /\ phase' = "start"
    /\ retResults' = IF coordinator = "mix" THEN Merge(done, txns)
                     ELSE [i \in Place |-> Outcome(txns[i])]
    /\ UNCHANGED <<blockVars, txns, waiting, done, workVars, db, result, writes, value>>

-----------------------------------------------------------------------------
(* Coordinator: processParallel starts a phase on every worker and waits for *)
(* all of them; the callbacks move the transactions to the workers and back. *)

LastPhase == [crdt |-> "exec", det |-> "commit", write_based |-> "second"][stage]
FollowingPhase ==
    [start |-> "exec", exec |-> "commit", commit |-> "second"][phase]

EndPhase ==
    /\ stage # "idle" /\ phase # "returned" /\ finished = Worker
    /\ phase' = IF phase = LastPhase THEN "returned" ELSE FollowingPhase
    /\ finished' = {} /\ at' = EachWorker(1)
    /\ UNCHANGED <<blockVars, stage, txns, waiting, done, list, writer, old,
                   table, db, result, writes, value, retResults>>

\* the places of the vector a worker is dealt: id, id + workerCount, ...
Dealt(w) == {i \in DOMAIN txns : (i - 1) % WorkerCount = w}
Nth(i) == 1 + (i - 1) \div WorkerCount
Turn(w, n) == 1 + w + (n - 1) * WorkerCount   \* its n-th

\* afterStart
Start(w) ==
    /\ stage # "idle" /\ phase = "start" /\ w \notin finished
    /\ list' = [list EXCEPT ![w] =
                   [n \in {m \in DOMAIN txns : Turn(w, m) \in DOMAIN txns} |->
                       txns[Turn(w, n)]]]
    /\ txns' = [i \in DOMAIN txns |-> IF i \in Dealt(w) THEN NoTxn ELSE txns[i]]
    /\ finished' = finished \cup {w}
    /\ UNCHANGED <<blockVars, stage, phase, waiting, done, at, writer, old, table,
                   db, result, writes, value, retResults>>

Busy(w, p) == stage # "idle" /\ phase = p /\ w \notin finished
\* Mutant: a worker takes its transactions from the back of the list.
CurrentFromBack(w) == list[w][Len(list[w]) + 1 - at[w]]

Current(w) == list[w][at[w]]
Has(w) == at[w] \in DOMAIN list[w]
Step(w) == at' = [at EXCEPT ![w] = @ + 1]

\* The worker has reached the end of its list; afterCommit in the last phase.
Finish(w) ==
    /\ \E p \in {"exec", "commit", "second"} : Busy(w, p)
    /\ ~Has(w)
    /\ finished' = finished \cup {w}
    /\ txns' = IF phase = LastPhase
               THEN [i \in DOMAIN txns |-> IF i \in Dealt(w) THEN list[w][Nth(i)]
                                                            ELSE txns[i]]
               ELSE txns
    /\ UNCHANGED <<blockVars, stage, phase, waiting, done, list, at, writer, old,
                   table, db, result, writes, value, retResults>>

-----------------------------------------------------------------------------
(* crdtFSM::OnExecuteTransaction with VoteChaincode over a DBShim.           *)

crdtUnchanged == <<blockVars, stage, phase, txns, waiting, done, list, finished,
                   table, writes, retResults>>

Crdt(w, func) ==
    /\ stage = "crdt" /\ Busy(w, "exec") /\ Has(w)
    /\ request[Current(w)].func = func

Holds(w) == old[w] # NotPutting

\* Mutant: DBShim::put does not wait for the lock.
PutLockRaces(w) ==
    /\ Crdt(w, "vote") /\ ~Holds(w)
    /\ LET k == request[Current(w)].key IN
          /\ writer' = [writer EXCEPT ![k] = w]
          /\ old' = [old EXCEPT ![w] = db[k]]
    /\ UNCHANGED <<crdtUnchanged, at, db, result, value>>

\* DBShim::put takes the key's lock and gets the value ...
PutLock(w) ==
    /\ Crdt(w, "vote") /\ ~Holds(w)
    /\ LET k == request[Current(w)].key IN
          /\ writer[k] = Nobody
          /\ writer' = [writer EXCEPT ![k] = w]
          /\ old' = [old EXCEPT ![w] = db[k]]
    /\ UNCHANGED <<crdtUnchanged, at, db, result, value>>

\* ... and Vote's callback changes it, unless there is none to decode.
Vote(w) ==
    /\ Crdt(w, "vote") /\ Holds(w)
    /\ LET i == Current(w)  r == request[i] IN
          /\ db' = IF old[w] = Absent THEN db
                   ELSE [db EXCEPT ![r.key] = old[w] + r.count]
          /\ result' = [result EXCEPT ![i] =
                          IF old[w] = Absent THEN "ABORT_NO_RETRY" ELSE "COMMIT"]
          /\ writer' = [writer EXCEPT ![r.key] = Nobody]
    /\ old' = [old EXCEPT ![w] = NotPutting]
    /\ Step(w)
    /\ UNCHANGED <<crdtUnchanged, value>>

\* DBShim::get under the shared lock
Get(w) ==
    /\ Crdt(w, "get")
    /\ LET i == Current(w)  k == request[i].key IN
          /\ writer[k] = Nobody
          /\ result' = [result EXCEPT ![i] =
                          IF db[k] = Absent THEN "ABORT_NO_RETRY" ELSE "COMMIT"]
          /\ value' = [value EXCEPT ![i] = db[k]]
    /\ Step(w)
    /\ UNCHANGED <<crdtUnchanged, writer, old, db>>

\* InvokeChaincode knows no other function.
Unknown(w) ==
    /\ Crdt(w, "other")
    /\ result' = [result EXCEPT ![Current(w)] = "ABORT_NO_RETRY"]
    /\ Step(w)
    /\ UNCHANGED <<crdtUnchanged, writer, old, db, value>>

-----------------------------------------------------------------------------
(* The deterministic workers.  SimpleVote is the voting chaincode there.     *)

\* what a transaction gets and puts; an unknown function does neither
Gets(r) == IF r.cc = "kv" THEN r.gets ELSE IF r.func = "other" THEN {} ELSE {r.key}
Puts(r) == IF r.cc = "kv" THEN r.puts ELSE IF r.func = "vote" THEN {r.key} ELSE {}
Fails(r, state) ==
    (r.cc = "vote" /\ r.func = "other") \/ \E k \in Gets(r) : state[k] = Absent
Written(r, t, state, k) ==
    IF r.cc = "kv" THEN 10 * t ELSE state[k] + r.count

\* Mutant: the first reservation of a key stays.
LowerFirst(f, keys, t) ==
    [k \in Key |-> IF k \in keys /\ f[k] = Unreserved THEN t ELSE f[k]]

\* reserveWrites and updateTable keep the smallest identifier under a key.
Lower(f, keys, t) == [k \in Key |-> IF k \in keys /\ t < f[k] THEN t ELSE f[k]]

\* OnExecuteTransaction of DeterministicFSM and of WBWorkerFSM; the latter
\* leaves a read-only transaction to its first commit and reserves no reads.
Execute(w) ==
    /\ stage \in {"det", "write_based"} /\ Busy(w, "exec") /\ Has(w)
    /\ LET i == Current(w)  r == request[i]  fails == Fails(r, db)
           reserves == ~fails /\ Puts(r) # {}
       IN  /\ result' = [result EXCEPT ![i] =
                 IF fails THEN "ABORT_NO_RETRY"
                 ELSE IF stage = "det" /\ ~reserves THEN "COMMIT" ELSE @]
           /\ value' = [value EXCEPT ![i] =
                 IF r.cc = "vote" /\ r.func = "get" THEN db[r.key] ELSE @]
           /\ writes' = [writes EXCEPT ![i] =
                 IF fails THEN @ ELSE [k \in Puts(r) |-> Written(r, tid[i], db, k)]]
           /\ table' = IF ~reserves THEN table
                ELSE [reads |-> IF stage = "det"
                                THEN Lower(table.reads, Gets(r), tid[i])
                                ELSE table.reads,
                      writes |-> Lower(table.writes, Puts(r), tid[i])]
    /\ Step(w)
    /\ UNCHANGED <<blockVars, stage, phase, txns, waiting, done, list, finished,
                   writer, old, db, retResults>>

commitUnchanged == <<blockVars, stage, phase, txns, waiting, done, list,
                     finished, writer, old, writes, value, retResults>>

Waw(i) == \E k \in Puts(request[i]) : table.writes[k] < tid[i]
War(i) == \E k \in Puts(request[i]) : table.reads[k] < tid[i]
Raw(i) == \E k \in Gets(request[i]) : table.writes[k] < tid[i]

\* OnCommitTransaction of DeterministicFSM
Commit(w) ==
    /\ stage = "det" /\ Busy(w, "commit") /\ Has(w)
    /\ LET i == Current(w)
           pending == result[i] = "PENDING"
           commits == pending /\ ~Waw(i) /\ ~(War(i) /\ Raw(i))
       IN  /\ result' = [result EXCEPT ![i] =
                 IF commits THEN "COMMIT" ELSE IF pending THEN "ABORT" ELSE @]
           /\ db' = IF ~commits THEN db
                    ELSE [k \in Key |-> IF k \in DOMAIN writes[i] THEN writes[i][k] ELSE db[k]]
    /\ Step(w)
    /\ UNCHANGED <<commitUnchanged, table>>

\* onFirstCommit: a transaction that read what an earlier one writes aborts.
\* The table mvccReserveWrites fills is never looked at.
FirstCommit(w) ==
    /\ stage = "write_based" /\ Busy(w, "commit") /\ Has(w)
    /\ LET i == Current(w) IN
          result' = [result EXCEPT ![i] =
             IF @ = "ABORT_NO_RETRY" THEN @
             ELSE IF Puts(request[i]) # {} /\ Raw(i) THEN "ABORT" ELSE "COMMIT"]
    /\ Step(w)
    /\ UNCHANGED <<commitUnchanged, table, db>>

\* updateDB writes the keys for which the transaction is the earliest of all
\* that were executed.
updateDB(i) == {k \in Puts(request[i]) : table.writes[k] = tid[i]}

\* onSecondCommit
SecondCommit(w) ==
    /\ stage = "write_based" /\ Busy(w, "second") /\ Has(w)
    /\ LET i == Current(w) IN
          db' = IF result[i] # "COMMIT" THEN db
                ELSE [k \in Key |-> IF k \in updateDB(i) THEN writes[i][k] ELSE db[k]]
    /\ Step(w)
    /\ UNCHANGED <<commitUnchanged, table, result>>

-----------------------------------------------------------------------------
Work(w) ==
    \/ Start(w) \/ Finish(w)
    \/ PutLock(w) \/ Vote(w) \/ Get(w) \/ Unknown(w)
    \/ Execute(w) \/ Commit(w) \/ FirstCommit(w) \/ SecondCommit(w)

Next == Begin \/ EndCrdt \/ EndBlock \/ EndPhase \/ \E w \in Worker : Work(w)

Spec == Init /\ [][Next]_vars

-----------------------------------------------------------------------------
Executed == stage = "idle" /\ block > 0

Votes(k, places) ==
    {i \in places : LET r == request[i]
                    IN  r.cc = "vote" /\ r.func = "vote" /\ r.key = k}
Counts(places) ==
    LET total[n \in 0 .. BlockLength] ==
            IF n = 0 THEN 0
            ELSE IF n \in places THEN total[n - 1] + request[n].count ELSE total[n - 1]
    IN  total[BlockLength]

\* VotesCounted: when the CRDT part of a block has run, every candidate has its
\* count of before plus all the block's votes for it, whatever the workers'
\* interleaving, and a vote fails just when the candidate was unknown.  The
\* votes are not reserved anywhere: only DBShim's locks keep them apart.
VotesCounted ==
    (stage = "crdt" /\ phase = "returned") =>
        \A k \in Key :
            /\ db[k] = IF atStart[k] = Absent THEN Absent
                       ELSE atStart[k] + Counts(Votes(k, Place))
            /\ \A i \in Votes(k, Place) :
                  (result[i] = "COMMIT") <=> (atStart[k] # Absent)

\* GetsConsistent: what a query of a candidate returns depends on the
\* interleaving, but it is always the count of before plus the votes of some
\* set of the block's transactions that holds all those the same worker ran
\* before the query and none of those it runs later.
GetsConsistent ==
    Executed /\ coordinator = "mix" =>
        \A i \in Place :
            (request[i].cc = "vote" /\ request[i].func = "get" /\ result[i] = "COMMIT") =>
                LET k == request[i].key
                    rank(j) == Cardinality({l \in 1 .. j : isCrdtChainCode(request[l])})
                    mine == {j \in Votes(k, Place) :
                                (rank(j) - rank(i)) % WorkerCount = 0}
                    before == {j \in mine : j < i}
                    others == Votes(k, Place) \ mine
                IN  \E seen \in SUBSET others :
                        value[i] = atStart[k] + Counts(before \cup seen)

\* ResultsAligned: every request of an executed block gets its own outcome
\* back, from whichever coordinator and worker it went to, and no transaction
\* is left undecided; the block's filter and its read-write sets rest on it.
ResultsAligned ==
    Executed => \A i \in Place :
        /\ retResults[i] = Outcome(i)
        /\ result[i] # "PENDING"

\* the write-based outcome, from the block and the database before it alone
WbFails(i) == Fails(request[i], atStart)
WbFirst(k) == {i \in Place : /\ ~WbFails(i) /\ k \in Puts(request[i])
                             /\ \A j \in Place :
                                   (~WbFails(j) /\ k \in Puts(request[j])) => tid[i] <= tid[j]}
WbAborts(i) ==
    /\ Puts(request[i]) # {}
    /\ \E k \in Gets(request[i]) : \E j \in WbFirst(k) : tid[j] < tid[i]

\* WriteBasedDeterministic: with WBCoordinator too, the results and the
\* database after a block are those the block and the database before it
\* determine: an update transaction aborts when an executed one with a smaller
\* identifier writes a key it reads, and under every key stands the value of
\* the earliest writer, provided that one committed.
WriteBasedDeterministic ==
    Executed /\ coordinator = "write_based" =>
        /\ \A i \in Place :
              result[i] = IF WbFails(i) THEN "ABORT_NO_RETRY"
                          ELSE IF WbAborts(i) THEN "ABORT" ELSE "COMMIT"
        /\ \A k \in Key :
              IF \E i \in WbFirst(k) : ~WbAborts(i)
              THEN \E i \in WbFirst(k) :
                      db[k] = Written(request[i], tid[i], atStart, k)
              ELSE db[k] = atStart[k]
=============================================================================
