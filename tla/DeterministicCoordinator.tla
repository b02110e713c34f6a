----------------------- MODULE DeterministicCoordinator -----------------------
(* The deterministic (Aria) concurrency control that executes an ordered     *)
(* block (my_cc/deterministic): the block's transactions are dealt out to    *)
(* the workers, every worker executes its transactions against the database  *)
(* and reserves their keys in a shared ReserveTable, and after a barrier     *)
(* every worker decides from the table which of its transactions commit and  *)
(* writes those to the database.                                             *)
(*                                                                           *)
(* A transaction is named by the rank of its identifier (the digest of its   *)
(* request) among those of the block, and its place in the block is          *)
(* independent of that.  It gets keys, puts some and deletes some; a         *)
(* chaincode whose get finds nothing returns an error.  The value written by *)
(* transaction t of the b-th block is the number Written(b, t).              *)
EXTENDS Integers, FiniteSets

CONSTANTS
    Key,
    TxnCount,     \* transactions of a block
    WorkerCount,  \* aria worker threads
    Programs,     \* what a transaction may do: [gets, puts, dels : sets of keys]
    Blocks        \* bound: number of blocks executed

ASSUME AriaAssumption ==
    /\ TxnCount \in Nat \ {0}
    /\ WorkerCount \in Nat \ {0}
    /\ Blocks \in Nat
    /\ Programs \subseteq
         [gets : SUBSET Key, puts : SUBSET Key, dels : SUBSET Key]

Txn == 1 .. TxnCount
Worker == 0 .. WorkerCount - 1
Place == 0 .. TxnCount - 1

Absent == -1
Original == 0
Written(b, t) == b * TxnCount + t
Result == {"PENDING", "COMMIT", "ABORT", "ABORT_NO_RETRY"}

\* No entry in the table: above every identifier.
Unreserved == TxnCount + 1

VARIABLES
    block,       \* number of blocks begun
    phase,       \* of the coordinator: "idle", "exec" or "commit"
    prog,        \* the block's transactions
    place,       \* their places in the block
    db,          \* the database
    snapshot,    \* history: the database when the block began
    seen,        \* history: what each transaction read
    todo,        \* transactions not yet executed
    current,     \* per worker, the transaction it is reserving for
    readsLeft,   \* per worker, keys updateTable has still to reserve
    writesLeft,
    readTable,   \* ReserveTable: per key the smallest identifier reserved
    writeTable,
    result,      \* getExecutionResult of each transaction
    decided,     \* workers whose write batch has been built
    putsLeft,    \* per worker, <<key, transaction>> of the batch to be put
    delsLeft     \* per worker, keys of the batch to be deleted

batchVars == <<block, prog, place, snapshot>>
execVars == <<todo, current, readsLeft, writesLeft, readTable, writeTable>>
commitVars == <<decided, putsLeft, delsLeft>>
vars == <<batchVars, phase, db, seen, execVars, result, commitVars>>

Writes(t) == prog[t].puts \cup prog[t].dels

\* Transactions are dealt out round robin by their place.
Owner(t) == place[t] % WorkerCount

Init ==
    /\ block = 0
    /\ phase = "idle"
    /\ prog \in [Txn -> Programs]
    /\ place = [t \in Txn |-> t - 1]
    /\ db \in [Key -> {Absent, Original}]
    /\ snapshot = db
    /\ seen = [t \in Txn |-> <<>>]
    /\ todo = {}
    /\ current = [w \in Worker |-> 1]
    /\ readsLeft = [w \in Worker |-> {}]
    /\ writesLeft = [w \in Worker |-> {}]
    /\ readTable = [k \in Key |-> Unreserved]
    /\ writeTable = [k \in Key |-> Unreserved]
    /\ result = [t \in Txn |-> "PENDING"]
    /\ decided = {}
    /\ putsLeft = [w \in Worker |-> {}]
    /\ delsLeft = [w \in Worker |-> {}]

-----------------------------------------------------------------------------
(* processSync resets the table and runs the phases; every phase ends with   *)
(* the barrier of processParallel.                                           *)

\* reserveTable->reset() and the START phase, with the next ordered block
Begin ==
    /\ phase = "idle" /\ block < Blocks
    /\ phase' = "exec"
    /\ block' = block + 1
    /\ prog' \in [Txn -> Programs]
    /\ place' \in {p \in [Txn -> Place] : \A t, u \in Txn : p[t] = p[u] => t = u}
    /\ snapshot' = db
    /\ seen' = [t \in Txn |-> <<>>]
    /\ todo' = Txn
    /\ readTable' = [k \in Key |-> Unreserved]
    /\ writeTable' = [k \in Key |-> Unreserved]
    /\ result' = [t \in Txn |-> "PENDING"]
    /\ decided' = {}
    /\ UNCHANGED <<db, current, readsLeft, writesLeft, putsLeft, delsLeft>>

Reserved(w) == readsLeft[w] = {} /\ writesLeft[w] = {}

\* Mutant: the phase ends without the barrier's last reservations.
EndExecEarly ==
    /\ phase = "exec"
    /\ todo = {}
    /\ phase' = "commit"
    /\ UNCHANGED <<batchVars, db, seen, execVars, result, commitVars>>

EndExec ==
    /\ phase = "exec"
    /\ todo = {} /\ \A w \in Worker : Reserved(w)
    /\ phase' = "commit"
    /\ UNCHANGED <<batchVars, db, seen, execVars, result, commitVars>>

\* Mutant: the barrier waits for a worker that does not exist.
EndCommitMiscounted ==
    /\ phase = "commit"
    /\ Cardinality(decided) = WorkerCount + 1
    /\ phase' = "idle"
    /\ UNCHANGED <<batchVars, db, seen, execVars, result, commitVars>>

EndCommit ==
    /\ phase = "commit"
    /\ decided = Worker
    /\ \A w \in Worker : putsLeft[w] = {} /\ delsLeft[w] = {}
    /\ phase' = "idle"
    /\ UNCHANGED <<batchVars, db, seen, execVars, result, commitVars>>

-----------------------------------------------------------------------------
(* OnExecuteTransaction: one transaction after the other in block order.     *)

\* ORM::get finds nothing under one of the keys.
Fails(t) == \E k \in prog[t].gets : db[k] = Absent

Execute(w) ==
    /\ phase = "exec" /\ Reserved(w)
    /\ \E t \in todo :
          /\ Owner(t) = w
          /\ \A u \in todo : Owner(u) = w => place[t] <= place[u]
          /\ todo' = todo \ {t}
          /\ seen' = [seen EXCEPT ![t] = [k \in prog[t].gets |-> db[k]]]
          /\ current' = [current EXCEPT ![w] = t]
          /\ result' = [result EXCEPT ![t] =
                          IF Fails(t) THEN "ABORT_NO_RETRY"
                          ELSE IF Writes(t) = {} THEN "COMMIT" ELSE @]
          /\ LET reserves == ~Fails(t) /\ Writes(t) # {} IN
                /\ readsLeft' = [readsLeft EXCEPT ![w] =
                                   IF reserves THEN prog[t].gets ELSE {}]
                /\ writesLeft' = [writesLeft EXCEPT ![w] =
                                    IF reserves THEN Writes(t) ELSE {}]
    /\ UNCHANGED <<batchVars, phase, db, readTable, writeTable, commitVars>>

\* Mutant: the first reservation stays.
ReserveFirst(table, k, t) == [table EXCEPT ![k] = IF @ # Unreserved THEN @ ELSE t]

\* updateTable keeps the smallest identifier under each key; each key is one
\* atomic operation of the table.
Reserve(table, k, t) == [table EXCEPT ![k] = IF @ <= t THEN @ ELSE t]

ReserveRead(w) ==
    /\ phase = "exec"
    /\ \E k \in readsLeft[w] :
          /\ readTable' = Reserve(readTable, k, current[w])
          /\ readsLeft' = [readsLeft EXCEPT ![w] = @ \ {k}]
    /\ UNCHANGED <<batchVars, phase, db, seen, todo, current, writesLeft,
                   writeTable, result, commitVars>>

ReserveWrite(w) ==
    /\ phase = "exec" /\ readsLeft[w] = {}
    /\ \E k \in writesLeft[w] :
          /\ writeTable' = Reserve(writeTable, k, current[w])
          /\ writesLeft' = [writesLeft EXCEPT ![w] = @ \ {k}]
    /\ UNCHANGED <<batchVars, phase, db, seen, todo, current, readsLeft,
                   readTable, result, commitVars>>

-----------------------------------------------------------------------------
(* OnCommitTransaction.                                                      *)

\* getDependence
Waw(t) == \E k \in Writes(t) : writeTable[k] < t
War(t) == \E k \in Writes(t) : readTable[k] < t
Raw(t) == \E k \in prog[t].gets : writeTable[k] < t

\* Mutant: a transaction that reads late and overwrites is let through.
MayCommitSkewed(t) == ~Waw(t)

MayCommit(t) == ~Waw(t) /\ ~(War(t) /\ Raw(t))

\* The callback given to syncWriteBatch decides all the worker's transactions
\* before the first of them is written.
Decide(w) ==
    /\ phase = "commit" /\ w \notin decided
    /\ decided' = decided \cup {w}
    /\ LET undecided == {t \in Txn : Owner(t) = w /\ result[t] = "PENDING"}
           commits == {t \in undecided : MayCommit(t)}
       IN  /\ result' = [t \in Txn |-> IF t \in commits THEN "COMMIT"
                                       ELSE IF t \in undecided THEN "ABORT"
                                       ELSE result[t]]
           /\ putsLeft' = [putsLeft EXCEPT ![w] =
                 {e \in Key \X Txn : e[2] \in commits /\ e[1] \in prog[e[2]].puts}]
           /\ delsLeft' = [delsLeft EXCEPT ![w] =
                 {k \in Key : \E t \in commits : k \in prog[t].dels}]
    /\ UNCHANGED <<batchVars, phase, db, seen, execVars>>

\* syncWriteBatch: all puts, then all deletes, one key at a time
SyncPut(w) ==
    /\ phase = "commit"
    /\ \E e \in putsLeft[w] :
          /\ db' = [db EXCEPT ![e[1]] = Written(block, e[2])]
          /\ putsLeft' = [putsLeft EXCEPT ![w] = @ \ {e}]
    /\ UNCHANGED <<batchVars, phase, seen, execVars, result, decided, delsLeft>>

SyncDelete(w) ==
    /\ phase = "commit" /\ putsLeft[w] = {}
    /\ \E k \in delsLeft[w] :
          /\ db' = [db EXCEPT ![k] = Absent]
          /\ delsLeft' = [delsLeft EXCEPT ![w] = @ \ {k}]
    /\ UNCHANGED <<batchVars, phase, seen, execVars, result, decided, putsLeft>>

Work(w) ==
    \/ Execute(w) \/ ReserveRead(w) \/ ReserveWrite(w)
    \/ Decide(w) \/ SyncPut(w) \/ SyncDelete(w)

Coordinate == Begin \/ EndExec \/ EndCommit

Next == Coordinate \/ \E w \in Worker : Work(w)

Spec == Init /\ [][Next]_vars

\* The coordinator and every worker thread keep running.
LiveSpec ==
    Spec /\ WF_vars(Coordinate) /\ \A w \in Worker : WF_vars(Work(w))

-----------------------------------------------------------------------------
(* What a block's outcome should be, from the block and the database alone.  *)

Broken(t) == \E k \in prog[t].gets : snapshot[k] = Absent
Updater(t) == ~Broken(t) /\ Writes(t) # {}

ReadLate(t) ==  \* an earlier transaction writes what t reads
    \E u \in Txn : u < t /\ Updater(u) /\ prog[t].gets \cap Writes(u) # {}
Overwrites(t) ==  \* an earlier transaction reads what t writes
    \E u \in Txn : u < t /\ Updater(u) /\ Writes(t) \cap prog[u].gets # {}
Collides(t) ==  \* an earlier transaction writes what t writes
    \E u \in Txn : u < t /\ Updater(u) /\ Writes(t) \cap Writes(u) # {}

Outcome(t) ==
    IF Broken(t) THEN "ABORT_NO_RETRY"
    ELSE IF Updater(t) /\ (Collides(t) \/ (ReadLate(t) /\ Overwrites(t)))
         THEN "ABORT" ELSE "COMMIT"

Committed == {t \in Txn : result[t] = "COMMIT"}
Executed == phase = "idle" /\ block > 0

\* TypeOK: every variable keeps its type; the table of reservations holds
\* identifiers of the block and nothing else.
TypeOK ==
    /\ block \in 0 .. Blocks
    /\ phase \in {"idle", "exec", "commit"}
    /\ prog \in [Txn -> Programs]
    /\ place \in [Txn -> Place]
    /\ todo \subseteq Txn
    /\ current \in [Worker -> Txn]
    /\ readsLeft \in [Worker -> SUBSET Key]
    /\ writesLeft \in [Worker -> SUBSET Key]
    /\ readTable \in [Key -> Txn \cup {Unreserved}]
    /\ writeTable \in [Key -> Txn \cup {Unreserved}]
    /\ result \in [Txn -> Result]
    /\ decided \subseteq Worker
    /\ db \in [Key -> Int]
    /\ snapshot \in [Key -> Int]
    /\ putsLeft \in [Worker -> SUBSET (Key \X Txn)]
    /\ delsLeft \in [Worker -> SUBSET Key]

\* Deterministic: whatever the number of workers, the dealing out of the
\* block and the interleaving of the threads, the transaction filter of an
\* executed block is the one the block and the database before it determine.
\* Every node executes the blocks for itself, so replicas depend on it.
Deterministic ==
    Executed => \A t \in Txn : result[t] = Outcome(t)

\* the place of t in a serial order: read-only ones come first, then those that
\* read late, the last of them first, then the others in order
SerialRank(t) ==
    IF Writes(t) = {} THEN -(TxnCount + 1)
    ELSE IF ReadLate(t) THEN -t ELSE t

\* ConflictsOrdered: of the transactions a block commits no two write the
\* same key, and "reads a key before its writer" is acyclic among them.
ConflictsOrdered ==
    \A t, u \in Committed :
        t # u =>
            /\ Writes(t) \cap Writes(u) = {}
            /\ prog[t].gets \cap Writes(u) # {} => SerialRank(t) < SerialRank(u)

\* what t leaves under a key it writes
ValueOf(t, k) == IF k \in prog[t].dels THEN Absent ELSE Written(block, t)

\* what is under k before the i-th transaction of a serial order
ReadBefore(order, i, k) ==
    LET writers == {j \in DOMAIN order : j < i /\ k \in Writes(order[j])}
    IN  IF writers = {} THEN snapshot[k]
        ELSE LET last == CHOOSE j \in writers : \A l \in writers : l <= j
             IN  ValueOf(order[last], k)

\* SerialEquivalent: running the committed transactions of a block one after
\* the other in some order gives each of them the values it read and leaves
\* the database as it is.
SerialEquivalent ==
    Executed =>
        LET n == Cardinality(Committed) IN
        \E order \in [1 .. n -> Committed] :
            /\ \A t \in Committed : \E i \in 1 .. n : order[i] = t
            /\ \A i \in 1 .. n : \A k \in prog[order[i]].gets :
                  seen[order[i]][k] = ReadBefore(order, i, k)
            /\ \A k \in Key : db[k] = ReadBefore(order, n + 1, k)

\* ExecutesAll: the phases never wait for each other forever.
ExecutesAll == <>(block = Blocks /\ phase = "idle")
=============================================================================
