-------------------------- MODULE DeterministicProofs --------------------------
(* For every set of keys and transactions and every number of workers, Aria's *)
(* outcome is the one the block determines, conflicts among the transactions  *)
(* that commit are acyclic, and the block is as good as a serial run.  What a *)
(* serial run of the chaincodes keeps is proved at the end.                   *)
(*                                                                            *)
(* The inductive invariant says what the reserve table knows at any moment:   *)
(* an entry is the identifier of a transaction that does touch the key        *)
(* (Sound), and it is at most the identifier of every executed transaction    *)
(* that touches the key, unless the worker has yet to reserve it (Complete).  *)
(* At the barrier no reservation is left, so the table holds exactly the      *)
(* minimum and getDependence computes the declarative conflict relation.      *)
EXTENDS DeterministicCoordinator, SerialExecution, FiniteSetTheorems, SequenceTheorems, WellFoundedInduction, TLAPS

Sound ==
    \A k \in Key :
        /\ readTable[k] \in Txn =>
              Updater(readTable[k]) /\ k \in prog[readTable[k]].gets
        /\ writeTable[k] \in Txn =>
              Updater(writeTable[k]) /\ k \in Writes(writeTable[k])

ReadPending(t, k) == \E w \in Worker : current[w] = t /\ k \in readsLeft[w]
WritePending(t, k) == \E w \in Worker : current[w] = t /\ k \in writesLeft[w]

Complete ==
    block > 0 =>
        \A t \in Txn \ todo :
            Updater(t) =>
                /\ \A k \in prog[t].gets :
                      readTable[k] <= t \/ ReadPending(t, k)
                /\ \A k \in Writes(t) :
                      writeTable[k] <= t \/ WritePending(t, k)

Reserving ==
    \A w \in Worker :
        /\ readsLeft[w] # {} \/ writesLeft[w] # {} =>
              phase = "exec" /\ Updater(current[w])
        /\ readsLeft[w] \subseteq prog[current[w]].gets
        /\ writesLeft[w] \subseteq Writes(current[w])

Phases ==
    /\ phase = "exec" => block > 0 /\ db = snapshot /\ decided = {}
    /\ phase = "commit" => block > 0 /\ todo = {}
    /\ phase = "idle" /\ block > 0 => todo = {} /\ decided = Worker

Results ==
    \A t \in Txn :
        result[t] = IF block = 0 \/ t \in todo THEN "PENDING"
                    ELSE IF ~Updater(t) \/ Owner(t) \in decided
                         THEN Outcome(t) ELSE "PENDING"

Inv == TypeOK /\ Sound /\ Complete /\ Reserving /\ Phases /\ Results

-----------------------------------------------------------------------------
\* A key of a program is a key of the database.
LEMMA ProgramKeys ==
    ASSUME TypeOK, NEW t \in Txn
    PROVE  /\ prog[t].gets \subseteq Key
           /\ prog[t].puts \subseteq Key
           /\ Writes(t) \subseteq Key
  BY AriaAssumption DEF TypeOK, Writes

\* Every transaction is dealt to one of the workers.
LEMMA OwnerIsWorker ==
    ASSUME TypeOK, NEW t \in Txn
    PROVE  Owner(t) \in Worker
  <1>1. place[t] \in Int
    BY AriaAssumption DEF TypeOK, Place
  <1>2. place[t] % WorkerCount \in 0 .. WorkerCount - 1
    BY <1>1, AriaAssumption
  <1> QED BY <1>2 DEF Owner, Worker

\* Once nothing is left to execute or to reserve, getDependence decides as
\* the declarative outcome does.
LEMMA DependenceIsConflict ==
    ASSUME Inv, block > 0, todo = {}, NEW t \in Txn, Updater(t),
           \A w \in Worker : Reserved(w)
    PROVE  Outcome(t) = IF MayCommit(t) THEN "COMMIT" ELSE "ABORT"
  <1> USE AriaAssumption
  <1>1. /\ readTable \in [Key -> Txn \cup {Unreserved}]
        /\ writeTable \in [Key -> Txn \cup {Unreserved}]
    BY DEF Inv, TypeOK
  <1>2. \A u \in Txn : prog[u].gets \subseteq Key /\ Writes(u) \subseteq Key
    BY ProgramKeys DEF Inv
  <1>3. \A u \in Txn, k \in Key : ~ReadPending(u, k) /\ ~WritePending(u, k)
    BY DEF Reserved, ReadPending, WritePending
  <1>4. \A u \in Txn : Updater(u) =>
            /\ \A k \in prog[u].gets : readTable[k] <= u
            /\ \A k \in Writes(u) : writeTable[k] <= u
    BY <1>2, <1>3 DEF Inv, Complete
  <1>5. \A k \in Key :
            /\ readTable[k] < t =>
                  /\ readTable[k] \in Txn /\ Updater(readTable[k])
                  /\ k \in prog[readTable[k]].gets
            /\ writeTable[k] < t =>
                  /\ writeTable[k] \in Txn /\ Updater(writeTable[k])
                  /\ k \in Writes(writeTable[k])
    <2> TAKE k \in Key
    <2>1. /\ readTable[k] < t => readTable[k] \in Txn
          /\ writeTable[k] < t => writeTable[k] \in Txn
      BY <1>1 DEF Txn, Unreserved
    <2> QED BY <2>1 DEF Inv, Sound
  <1>6. \A k \in Key : readTable[k] \in Int /\ writeTable[k] \in Int
    BY <1>1 DEF Txn, Unreserved
  <1>7. t \in Int /\ \A u \in Txn : u \in Int
    BY DEF Txn
  <1>8. Waw(t) <=> Collides(t)
    <2>1. ASSUME Waw(t) PROVE Collides(t)
      <3>1. PICK k \in Writes(t) : writeTable[k] < t
        BY <2>1 DEF Waw
      <3>2. k \in Key
        BY <1>2
      <3>3. k \in Writes(t) \cap Writes(writeTable[k])
        BY <3>1, <3>2, <1>5
      <3> QED BY <3>1, <3>2, <3>3, <1>5 DEF Collides
    <2>2. ASSUME Collides(t) PROVE Waw(t)
      <3>1. PICK u \in Txn : u < t /\ Updater(u) /\ Writes(t) \cap Writes(u) # {}
        BY <2>2 DEF Collides
      <3>2. PICK k \in Writes(t) : k \in Writes(u)
        BY <3>1
      <3>3. writeTable[k] <= u /\ k \in Key
        BY <1>2, <1>4, <3>1, <3>2
      <3> QED BY <3>1, <3>2, <3>3, <1>6, <1>7 DEF Waw
    <2> QED BY <2>1, <2>2
  <1>9. War(t) <=> Overwrites(t)
    <2>1. ASSUME War(t) PROVE Overwrites(t)
      <3>1. PICK k \in Writes(t) : readTable[k] < t
        BY <2>1 DEF War
      <3>2. k \in Key
        BY <1>2
      <3>3. k \in Writes(t) \cap prog[readTable[k]].gets
        BY <3>1, <3>2, <1>5
      <3> QED BY <3>1, <3>2, <3>3, <1>5 DEF Overwrites
    <2>2. ASSUME Overwrites(t) PROVE War(t)
      <3>1. PICK u \in Txn :
               u < t /\ Updater(u) /\ Writes(t) \cap prog[u].gets # {}
        BY <2>2 DEF Overwrites
      <3>2. PICK k \in Writes(t) : k \in prog[u].gets
        BY <3>1
      <3>3. readTable[k] <= u /\ k \in Key
        BY <1>2, <1>4, <3>1, <3>2
      <3> QED BY <3>1, <3>2, <3>3, <1>6, <1>7 DEF War
    <2> QED BY <2>1, <2>2
  <1>10. Raw(t) <=> ReadLate(t)
    <2>1. ASSUME Raw(t) PROVE ReadLate(t)
      <3>1. PICK k \in prog[t].gets : writeTable[k] < t
        BY <2>1 DEF Raw
      <3>2. k \in Key
        BY <1>2
      <3>3. k \in prog[t].gets \cap Writes(writeTable[k])
        BY <3>1, <3>2, <1>5
      <3> QED BY <3>1, <3>2, <3>3, <1>5 DEF ReadLate
    <2>2. ASSUME ReadLate(t) PROVE Raw(t)
      <3>1. PICK u \in Txn :
               u < t /\ Updater(u) /\ prog[t].gets \cap Writes(u) # {}
        BY <2>2 DEF ReadLate
      <3>2. PICK k \in prog[t].gets : k \in Writes(u)
        BY <3>1
      <3>3. writeTable[k] <= u /\ k \in Key
        BY <1>2, <1>4, <3>1, <3>2
      <3> QED BY <3>1, <3>2, <3>3, <1>6, <1>7 DEF Raw
    <2> QED BY <2>1, <2>2
  <1>11. ~Broken(t)
    BY DEF Updater
  <1> QED BY <1>8, <1>9, <1>10, <1>11 DEF Outcome, MayCommit

-----------------------------------------------------------------------------
\* The invariant holds before the first block.
LEMMA InitInv == Init => Inv
  <1> SUFFICES ASSUME Init PROVE Inv
    OBVIOUS
  <1> USE AriaAssumption
  <1>1. TypeOK
    BY DEF Init, TypeOK, Txn, Place, Result, Absent, Original
  <1>2. Sound
    BY DEF Init, Sound, Txn, Unreserved
  <1>3. Complete /\ Phases /\ Results
    BY DEF Init, Complete, Phases, Results
  <1>4. Reserving
    BY DEF Init, Reserving
  <1> QED BY <1>1, <1>2, <1>3, <1>4 DEF Inv

-----------------------------------------------------------------------------
(* The steps.  All but Begin leave the block and the snapshot alone, and with *)
(* them everything the outcome is defined from.                               *)

\* A step within a block changes neither who updates what nor the outcome.
LEMMA SameBlock ==
    ASSUME UNCHANGED batchVars, NEW t \in Txn
    PROVE  /\ Writes(t)' = Writes(t) /\ prog'[t] = prog[t]
           /\ Updater(t)' <=> Updater(t)
           /\ Outcome(t)' = Outcome(t)
           /\ Owner(t)' = Owner(t)
  <1> USE DEF batchVars
  <1>1. \A u \in Txn : Writes(u)' = Writes(u) /\ (Broken(u)' <=> Broken(u))
    BY DEF Writes, Broken
  <1>2. \A u \in Txn : Updater(u)' <=> Updater(u)
    BY <1>1 DEF Updater
  <1>3. /\ ReadLate(t)' <=> ReadLate(t)
        /\ Overwrites(t)' <=> Overwrites(t)
        /\ Collides(t)' <=> Collides(t)
    BY <1>1, <1>2 DEF ReadLate, Overwrites, Collides
  <1>4. Outcome(t)' = Outcome(t)
    BY <1>1, <1>2, <1>3 DEF Outcome
  <1> QED BY <1>1, <1>2, <1>4 DEF Owner

\* A new block begins with an empty table and nothing executed.
LEMMA BeginInv == ASSUME Inv, Begin PROVE Inv'
  <1> USE AriaAssumption
  <1>1. TypeOK'
    BY DEF Inv, TypeOK, Begin, Txn, Place, Unreserved, Result
  <1>2. Sound'
    BY DEF Begin, Sound, Txn, Unreserved
  <1>3. Complete' /\ Phases'
    BY DEF Inv, TypeOK, Begin, Complete, Phases
  <1>4. Reserving'
    BY DEF Inv, Begin, Reserving
  <1>5. Results'
    BY DEF Begin, Results
  <1> QED BY <1>1, <1>2, <1>3, <1>4, <1>5 DEF Inv

\* The steps that leave the reservations and the results alone.
LEMMA QuietInv ==
    ASSUME Inv, block > 0, UNCHANGED <<batchVars, execVars, result, decided>>,
           TypeOK', Phases',
           phase' = phase \/ \A w \in Worker : Reserved(w)
    PROVE  Inv'
  <1> USE DEF execVars, batchVars
  <1>1. \A t \in Txn : /\ Writes(t)' = Writes(t) /\ prog'[t] = prog[t]
                       /\ Updater(t)' <=> Updater(t)
                       /\ Outcome(t)' = Outcome(t)
                       /\ Owner(t)' = Owner(t)
    BY SameBlock
  <1>2. Sound'
    BY <1>1 DEF Inv, Sound
  <1>3. Complete'
    BY <1>1 DEF Inv, Complete, ReadPending, WritePending
  <1>4. Reserving'
    BY <1>1 DEF Inv, TypeOK, Reserving, Reserved
  <1>5. Results'
    BY <1>1 DEF Inv, Results
  <1> QED BY <1>2, <1>3, <1>4, <1>5 DEF Inv

\* The barriers at the end of the two phases.
LEMMA BarrierInv == ASSUME Inv, EndExec \/ EndCommit PROVE Inv'
  <1> USE DEF batchVars, execVars, commitVars
  <1>1. CASE EndExec
    <2>1. TypeOK' /\ Phases' /\ block > 0
      BY <1>1 DEF Inv, TypeOK, Phases, EndExec
    <2> QED BY <1>1, <2>1, QuietInv DEF EndExec
  <1>2. CASE EndCommit
    <2>1. TypeOK' /\ Phases' /\ block > 0
      BY <1>2 DEF Inv, TypeOK, Phases, EndCommit
    <2>2. \A w \in Worker : Reserved(w)
      BY <1>2 DEF Inv, Reserving, Reserved, EndCommit
    <2> QED BY <1>2, <2>1, <2>2, QuietInv DEF EndCommit
  <1> QED BY <1>1, <1>2

\* Writing the batch changes nothing the outcome depends on.
LEMMA SyncInv ==
    ASSUME Inv, NEW w \in Worker, SyncPut(w) \/ SyncDelete(w)
    PROVE  Inv'
  <1> USE DEF batchVars, execVars, commitVars
  <1>1. CASE SyncPut(w)
    <2>1. PICK e \in putsLeft[w] :
             /\ db' = [db EXCEPT ![e[1]] = Written(block, e[2])]
             /\ putsLeft' = [putsLeft EXCEPT ![w] = @ \ {e}]
      BY <1>1 DEF SyncPut
    <2>2. e \in Key \X Txn
      BY DEF Inv, TypeOK
    <2>3. Written(block, e[2]) \in Int
      BY <2>2, AriaAssumption DEF Inv, TypeOK, Written, Txn
    <2>4. TypeOK' /\ Phases' /\ block > 0
      BY <1>1, <2>1, <2>2, <2>3 DEF SyncPut, Inv, TypeOK, Phases
    <2> QED BY <1>1, <2>4, QuietInv DEF SyncPut
  <1>2. CASE SyncDelete(w)
    <2>1. TypeOK' /\ Phases' /\ block > 0
      BY <1>2 DEF SyncDelete, Inv, TypeOK, Phases, Absent
    <2> QED BY <1>2, <2>1, QuietInv DEF SyncDelete
  <1> QED BY <1>1, <1>2

\* Executing a transaction announces every reservation it has to make.
LEMMA ExecuteInv == ASSUME Inv, NEW w \in Worker, Execute(w) PROVE Inv'
  <1> USE DEF batchVars, commitVars
  <1>1. PICK t \in todo :
           /\ Owner(t) = w
           /\ todo' = todo \ {t}
           /\ current' = [current EXCEPT ![w] = t]
           /\ result' = [result EXCEPT ![t] =
                           IF Fails(t) THEN "ABORT_NO_RETRY"
                           ELSE IF Writes(t) = {} THEN "COMMIT" ELSE @]
           /\ readsLeft' = [readsLeft EXCEPT ![w] =
                IF ~Fails(t) /\ Writes(t) # {} THEN prog[t].gets ELSE {}]
           /\ writesLeft' = [writesLeft EXCEPT ![w] =
                IF ~Fails(t) /\ Writes(t) # {} THEN Writes(t) ELSE {}]
    BY DEF Execute
  <1>2. /\ phase = "exec" /\ phase' = "exec" /\ block > 0 /\ db = snapshot
        /\ readsLeft[w] = {} /\ writesLeft[w] = {} /\ decided = {}
        /\ UNCHANGED <<batchVars, db, readTable, writeTable, commitVars>>
    BY DEF Execute, Reserved, Inv, Phases
  <1>3. t \in Txn /\ (Fails(t) <=> Broken(t))
    BY <1>2 DEF Inv, TypeOK, Fails, Broken
  <1>4. \A u \in Txn : /\ Writes(u)' = Writes(u) /\ prog'[u] = prog[u]
                       /\ Updater(u)' <=> Updater(u)
                       /\ Outcome(u)' = Outcome(u)
                       /\ Owner(u)' = Owner(u)
    BY <1>2, SameBlock
  <1>5. ~Fails(t) /\ Writes(t) # {} <=> Updater(t)
    BY <1>3 DEF Updater
  <1>6. TypeOK'
    <2>1. prog[t].gets \subseteq Key /\ Writes(t) \subseteq Key
      BY <1>3, ProgramKeys DEF Inv
    <2>2. readsLeft' \in [Worker -> SUBSET Key]
          /\ writesLeft' \in [Worker -> SUBSET Key]
      BY <1>1, <2>1 DEF Inv, TypeOK
    <2>3. result' \in [Txn -> Result]
      BY <1>1, <1>3 DEF Inv, TypeOK, Result
    <2> QED BY <1>1, <1>2, <1>3, <2>2, <2>3 DEF Inv, TypeOK
  <1>7. Sound'
    BY <1>2, <1>4 DEF Inv, Sound
  <1>8. Complete'
    <2> SUFFICES ASSUME NEW u \in Txn \ todo', Updater(u)'
                 PROVE  /\ \A k \in prog'[u].gets :
                              readTable'[k] <= u \/ ReadPending(u, k)'
                        /\ \A k \in Writes(u)' :
                              writeTable'[k] <= u \/ WritePending(u, k)'
      BY DEF Complete
    <2>1. prog'[u] = prog[u] /\ Writes(u)' = Writes(u) /\ Updater(u)
      BY <1>4
    <2>2. CASE u = t
      <3>1. /\ current'[w] = t
            /\ readsLeft'[w] = prog[t].gets /\ writesLeft'[w] = Writes(t)
        BY <1>1, <1>5, <2>1, <2>2 DEF Inv, TypeOK
      <3> QED BY <2>1, <2>2, <3>1 DEF ReadPending, WritePending
    <2>3. CASE u # t
      <3>1. \A k : ReadPending(u, k) => ReadPending(u, k)'
        BY <1>1, <1>2 DEF Inv, TypeOK, ReadPending
      <3>2. \A k : WritePending(u, k) => WritePending(u, k)'
        BY <1>1, <1>2 DEF Inv, TypeOK, WritePending
      <3>3. u \in Txn \ todo
        BY <1>1, <2>3
      <3> QED BY <1>2, <2>1, <3>1, <3>2, <3>3 DEF Inv, Complete
    <2> QED BY <2>2, <2>3
  <1>9. Reserving'
    <2> SUFFICES ASSUME NEW v \in Worker
                 PROVE  /\ readsLeft'[v] # {} \/ writesLeft'[v] # {} =>
                              phase' = "exec" /\ Updater(current[v])'
                        /\ readsLeft'[v] \subseteq prog'[current'[v]].gets
                        /\ writesLeft'[v] \subseteq Writes(current[v])'
      BY DEF Reserving
    <2>1. current[v] \in Txn
      BY DEF Inv, TypeOK
    <2>2. CASE v = w
      <3>1. /\ current'[v] = t
            /\ readsLeft'[v] = IF Updater(t) THEN prog[t].gets ELSE {}
            /\ writesLeft'[v] = IF Updater(t) THEN Writes(t) ELSE {}
        BY <1>1, <1>5, <2>2 DEF Inv, TypeOK
      <3>2. /\ prog'[t].gets = prog[t].gets /\ Writes(t)' = Writes(t)
            /\ Updater(t)' <=> Updater(t)
        BY <1>3, <1>4
      <3>3. Writes(current[v])' = Writes(t)' /\ Updater(current[v])' = Updater(t)'
        BY <3>1 DEF Writes, Updater, Broken
      <3> QED BY <1>2, <3>1, <3>2, <3>3
    <2>3. CASE v # w
      <3>1. /\ current'[v] = current[v]
            /\ readsLeft'[v] = readsLeft[v] /\ writesLeft'[v] = writesLeft[v]
        BY <1>1, <2>3 DEF Inv, TypeOK
      <3>2. /\ Writes(current[v])' = Writes(current[v])
            /\ Updater(current[v])' = Updater(current[v])
        BY <1>2, <3>1 DEF Writes, Updater, Broken
      <3> QED BY <1>2, <1>4, <2>1, <3>1, <3>2 DEF Inv, Reserving
    <2> QED BY <2>2, <2>3
  <1>10. Phases'
    BY <1>2 DEF Inv, Phases
  <1>11. Results'
    <2> SUFFICES ASSUME NEW u \in Txn
                 PROVE  result'[u] =
                          IF u \in todo' THEN "PENDING"
                          ELSE IF ~Updater(u) THEN Outcome(u) ELSE "PENDING"
      BY <1>2, <1>4 DEF Results
    <2>1. CASE u = t
      <3>1. result[t] = "PENDING"
        BY <1>2, <1>3 DEF Inv, Results
      <3>2. result'[t] = IF Broken(t) THEN "ABORT_NO_RETRY"
                         ELSE IF Writes(t) = {} THEN "COMMIT" ELSE "PENDING"
        BY <1>1, <1>3, <3>1 DEF Inv, TypeOK
      <3> QED BY <1>1, <2>1, <3>2 DEF Outcome, Updater
    <2>2. CASE u # t
      <3>1. result'[u] = result[u] /\ (u \in todo' <=> u \in todo)
        BY <1>1, <2>2 DEF Inv, TypeOK
      <3> QED BY <1>2, <3>1 DEF Inv, Results
    <2> QED BY <2>1, <2>2
  <1> QED BY <1>6, <1>7, <1>8, <1>9, <1>10, <1>11 DEF Inv

\* A reservation lowers the entry to at most its transaction and keeps every
\* other bound.
LEMMA ReserveReadInv == ASSUME Inv, NEW w \in Worker, ReserveRead(w) PROVE Inv'
  <1> USE DEF batchVars, commitVars
  <1>1. PICK k \in readsLeft[w] :
           /\ readTable' = Reserve(readTable, k, current[w])
           /\ readsLeft' = [readsLeft EXCEPT ![w] = @ \ {k}]
    BY DEF ReserveRead
  <1>2. /\ phase = "exec" /\ phase' = "exec" /\ block > 0
        /\ UNCHANGED <<batchVars, db, todo, current, writesLeft, writeTable,
                       result, commitVars>>
    BY DEF ReserveRead, Inv, Phases
  <1>3. k \in Key /\ current[w] \in Txn
    BY DEF Inv, TypeOK
  <1>4. /\ readTable'[k] = IF readTable[k] <= current[w]
                           THEN readTable[k] ELSE current[w]
        /\ \A j \in Key : j # k => readTable'[j] = readTable[j]
        /\ readTable' \in [Key -> Txn \cup {Unreserved}]
    BY <1>1, <1>3 DEF Inv, TypeOK, Reserve
  <1>5. \A u \in Txn : /\ Writes(u)' = Writes(u) /\ prog'[u] = prog[u]
                       /\ Updater(u)' <=> Updater(u)
                       /\ Outcome(u)' = Outcome(u)
                       /\ Owner(u)' = Owner(u)
    BY <1>2, SameBlock
  <1>6. Updater(current[w]) /\ k \in prog[current[w]].gets
    BY DEF Inv, Reserving
  <1>7. TypeOK'
    BY <1>1, <1>2, <1>4 DEF Inv, TypeOK
  <1>8. Sound'
    <2> SUFFICES ASSUME NEW j \in Key
                 PROVE  /\ readTable'[j] \in Txn =>
                             /\ Updater(readTable[j])'
                             /\ j \in prog'[readTable'[j]].gets
                        /\ writeTable'[j] \in Txn =>
                             /\ Updater(writeTable[j])'
                             /\ j \in Writes(writeTable[j])'
      BY DEF Sound
    <2>1. writeTable'[j] \in Txn =>
             Updater(writeTable[j])' /\ j \in Writes(writeTable[j])'
      BY <1>2 DEF Inv, Sound, Updater, Broken, Writes
    <2>2. readTable'[j] \in Txn =>
             Updater(readTable'[j]) /\ j \in prog[readTable'[j]].gets
      BY <1>3, <1>4, <1>6 DEF Inv, Sound
    <2>3. readTable'[j] \in Txn =>
             Updater(readTable[j])' /\ j \in prog'[readTable'[j]].gets
      BY <1>2, <2>2 DEF Updater, Broken, Writes
    <2> QED BY <2>1, <2>3
  <1>9. Complete'
    <2> SUFFICES ASSUME NEW u \in Txn \ todo, Updater(u)
                 PROVE  /\ \A j \in prog[u].gets :
                              readTable'[j] <= u \/ ReadPending(u, j)'
                        /\ \A j \in Writes(u) :
                              writeTable[j] <= u \/ WritePending(u, j)'
      BY <1>2, <1>5 DEF Complete
    <2>1. /\ \A j \in prog[u].gets : readTable[j] <= u \/ ReadPending(u, j)
          /\ \A j \in Writes(u) : writeTable[j] <= u \/ WritePending(u, j)
      BY <1>2 DEF Inv, Complete
    <2>2. \A j : WritePending(u, j)' <=> WritePending(u, j)
      BY <1>2 DEF WritePending
    <2>3. ASSUME NEW j \in prog[u].gets
          PROVE  readTable'[j] <= u \/ ReadPending(u, j)'
      <3>1. j \in Key /\ u \in Int /\ current[w] \in Int /\ readTable[j] \in Int
        BY <1>3, ProgramKeys, AriaAssumption
           DEF Inv, TypeOK, Txn, Unreserved
      <3>2. readTable'[j] <= readTable[j]
        BY <1>3, <1>4, <3>1
      <3>3. ASSUME ReadPending(u, j), ~ReadPending(u, j)'
            PROVE  j = k /\ u = current[w]
        <4>1. PICK v \in Worker : current[v] = u /\ j \in readsLeft[v]
          BY <3>3 DEF ReadPending
        <4>2. ~(current'[v] = u /\ j \in readsLeft'[v])
          BY <3>3 DEF ReadPending
        <4> QED BY <1>1, <1>2, <4>1, <4>2 DEF Inv, TypeOK
      <3>4. readTable'[k] <= current[w]
        BY <1>3, <1>4, <3>1, AriaAssumption DEF Inv, TypeOK, Txn, Unreserved
      <3>5. readTable'[j] \in Int
        BY <1>4, <3>1, AriaAssumption DEF Txn, Unreserved
      <3> QED BY <2>1, <3>1, <3>2, <3>3, <3>4, <3>5
    <2> QED BY <2>1, <2>2, <2>3
  <1>10. Reserving'
    <2> SUFFICES ASSUME NEW v \in Worker
                 PROVE  /\ readsLeft'[v] # {} \/ writesLeft'[v] # {} =>
                              phase' = "exec" /\ Updater(current[v])'
                        /\ readsLeft'[v] \subseteq prog'[current'[v]].gets
                        /\ writesLeft'[v] \subseteq Writes(current[v])'
      BY DEF Reserving
    <2>1. /\ readsLeft'[v] \subseteq readsLeft[v]
          /\ readsLeft'[v] # {} => readsLeft[v] # {}
      BY <1>1 DEF Inv, TypeOK
    <2>2. /\ Writes(current[v])' = Writes(current[v])
          /\ Updater(current[v])' = Updater(current[v])
      BY <1>2 DEF Writes, Updater, Broken
    <2> QED BY <1>2, <2>1, <2>2 DEF Inv, Reserving
  <1>11. Phases'
    BY <1>2 DEF Inv, Phases
  <1>12. Results'
    BY <1>2, <1>5 DEF Inv, Results
  <1> QED BY <1>7, <1>8, <1>9, <1>10, <1>11, <1>12 DEF Inv

\* The same for the table of writes.
LEMMA ReserveWriteInv ==
    ASSUME Inv, NEW w \in Worker, ReserveWrite(w) PROVE Inv'
  <1> USE DEF batchVars, commitVars
  <1>1. PICK k \in writesLeft[w] :
           /\ writeTable' = Reserve(writeTable, k, current[w])
           /\ writesLeft' = [writesLeft EXCEPT ![w] = @ \ {k}]
    BY DEF ReserveWrite
  <1>2. /\ phase = "exec" /\ phase' = "exec" /\ block > 0
        /\ UNCHANGED <<batchVars, db, todo, current, readsLeft, readTable,
                       result, commitVars>>
    BY DEF ReserveWrite, Inv, Phases
  <1>3. k \in Key /\ current[w] \in Txn
    BY DEF Inv, TypeOK
  <1>4. /\ writeTable'[k] = IF writeTable[k] <= current[w]
                            THEN writeTable[k] ELSE current[w]
        /\ \A j \in Key : j # k => writeTable'[j] = writeTable[j]
        /\ writeTable' \in [Key -> Txn \cup {Unreserved}]
    BY <1>1, <1>3 DEF Inv, TypeOK, Reserve
  <1>5. \A u \in Txn : /\ Writes(u)' = Writes(u) /\ prog'[u] = prog[u]
                       /\ Updater(u)' <=> Updater(u)
                       /\ Outcome(u)' = Outcome(u)
                       /\ Owner(u)' = Owner(u)
    BY <1>2, SameBlock
  <1>6. Updater(current[w]) /\ k \in Writes(current[w])
    BY DEF Inv, Reserving
  <1>7. TypeOK'
    BY <1>1, <1>2, <1>4 DEF Inv, TypeOK
  <1>8. Sound'
    <2> SUFFICES ASSUME NEW j \in Key
                 PROVE  /\ readTable'[j] \in Txn =>
                             /\ Updater(readTable[j])'
                             /\ j \in prog'[readTable'[j]].gets
                        /\ writeTable'[j] \in Txn =>
                             /\ Updater(writeTable[j])'
                             /\ j \in Writes(writeTable[j])'
      BY DEF Sound
    <2>1. readTable'[j] \in Txn =>
             Updater(readTable[j])' /\ j \in prog'[readTable'[j]].gets
      BY <1>2 DEF Inv, Sound, Updater, Broken, Writes
    <2>2. writeTable'[j] \in Txn =>
             Updater(writeTable'[j]) /\ j \in Writes(writeTable'[j])
      BY <1>3, <1>4, <1>6 DEF Inv, Sound
    <2>3. writeTable'[j] \in Txn =>
             Updater(writeTable[j])' /\ j \in Writes(writeTable[j])'
      BY <1>2, <2>2 DEF Updater, Broken, Writes
    <2> QED BY <2>1, <2>3
  <1>9. Complete'
    <2> SUFFICES ASSUME NEW u \in Txn \ todo, Updater(u)
                 PROVE  /\ \A j \in prog[u].gets :
                              readTable[j] <= u \/ ReadPending(u, j)'
                        /\ \A j \in Writes(u) :
                              writeTable'[j] <= u \/ WritePending(u, j)'
      BY <1>2, <1>5 DEF Complete
    <2>1. /\ \A j \in prog[u].gets : readTable[j] <= u \/ ReadPending(u, j)
          /\ \A j \in Writes(u) : writeTable[j] <= u \/ WritePending(u, j)
      BY <1>2 DEF Inv, Complete
    <2>2. \A j : ReadPending(u, j)' <=> ReadPending(u, j)
      BY <1>2 DEF ReadPending
    <2>3. ASSUME NEW j \in Writes(u)
          PROVE  writeTable'[j] <= u \/ WritePending(u, j)'
      <3>1. j \in Key /\ u \in Int /\ current[w] \in Int /\ writeTable[j] \in Int
        BY <1>3, ProgramKeys, AriaAssumption
           DEF Inv, TypeOK, Txn, Unreserved
      <3>2. writeTable'[j] <= writeTable[j]
        BY <1>3, <1>4, <3>1
      <3>3. ASSUME WritePending(u, j), ~WritePending(u, j)'
            PROVE  j = k /\ u = current[w]
        <4>1. PICK v \in Worker : current[v] = u /\ j \in writesLeft[v]
          BY <3>3 DEF WritePending
        <4>2. ~(current'[v] = u /\ j \in writesLeft'[v])
          BY <3>3 DEF WritePending
        <4> QED BY <1>1, <1>2, <4>1, <4>2 DEF Inv, TypeOK
      <3>4. writeTable'[k] <= current[w]
        BY <1>3, <1>4, <3>1, AriaAssumption DEF Inv, TypeOK, Txn, Unreserved
      <3>5. writeTable'[j] \in Int
        BY <1>4, <3>1, AriaAssumption DEF Txn, Unreserved
      <3> QED BY <2>1, <3>1, <3>2, <3>3, <3>4, <3>5
    <2> QED BY <2>1, <2>2, <2>3
  <1>10. Reserving'
    <2> SUFFICES ASSUME NEW v \in Worker
                 PROVE  /\ readsLeft'[v] # {} \/ writesLeft'[v] # {} =>
                              phase' = "exec" /\ Updater(current[v])'
                        /\ readsLeft'[v] \subseteq prog'[current'[v]].gets
                        /\ writesLeft'[v] \subseteq Writes(current[v])'
      BY DEF Reserving
    <2>1. /\ writesLeft'[v] \subseteq writesLeft[v]
          /\ writesLeft'[v] # {} => writesLeft[v] # {}
      BY <1>1 DEF Inv, TypeOK
    <2>2. /\ Writes(current[v])' = Writes(current[v])
          /\ Updater(current[v])' = Updater(current[v])
      BY <1>2 DEF Writes, Updater, Broken
    <2> QED BY <1>2, <2>1, <2>2 DEF Inv, Reserving
  <1>11. Phases'
    BY <1>2 DEF Inv, Phases
  <1>12. Results'
    BY <1>2, <1>5 DEF Inv, Results
  <1> QED BY <1>7, <1>8, <1>9, <1>10, <1>11, <1>12 DEF Inv

\* A worker's decision gives each of its transactions its outcome.
LEMMA DecideInv == ASSUME Inv, NEW w \in Worker, Decide(w) PROVE Inv'
  <1> USE DEF batchVars, execVars
  <1> DEFINE undecided == {t \in Txn : Owner(t) = w /\ result[t] = "PENDING"}
             commits == {t \in undecided : MayCommit(t)}
  <1>1. /\ phase = "commit" /\ phase' = "commit" /\ block > 0 /\ todo = {}
        /\ decided' = decided \cup {w} /\ w \notin decided
        /\ UNCHANGED <<batchVars, db, execVars>>
    BY DEF Decide, Inv, Phases
  <1>2. /\ result' = [t \in Txn |-> IF t \in commits THEN "COMMIT"
                                    ELSE IF t \in undecided THEN "ABORT"
                                    ELSE result[t]]
        /\ putsLeft' = [putsLeft EXCEPT ![w] =
             {e \in Key \X Txn : e[2] \in commits /\ e[1] \in prog[e[2]].puts}]
        /\ delsLeft' = [delsLeft EXCEPT ![w] =
             {k \in Key : \E t \in commits : k \in prog[t].dels}]
    BY DEF Decide
  <1>3. \A u \in Txn : /\ Writes(u)' = Writes(u) /\ prog'[u] = prog[u]
                       /\ Updater(u)' <=> Updater(u)
                       /\ Outcome(u)' = Outcome(u)
                       /\ Owner(u)' = Owner(u)
    BY <1>1, SameBlock
  <1>4. \A v \in Worker : Reserved(v)
    BY <1>1 DEF Inv, Reserving, Reserved
  <1>5. TypeOK'
    BY <1>1, <1>2 DEF Inv, TypeOK, Result
  <1>6. Sound' /\ Phases'
    BY <1>1, <1>3 DEF Inv, Sound, Phases
  <1>7. Complete'
    BY <1>1, <1>3 DEF Inv, Complete, ReadPending, WritePending
  <1>8. Reserving'
    BY <1>1, <1>4 DEF Inv, Reserving, Reserved, Writes
  <1>9. Results'
    <2> SUFFICES ASSUME NEW t \in Txn
                 PROVE  result'[t] = IF ~Updater(t) \/ Owner(t) \in decided'
                                     THEN Outcome(t) ELSE "PENDING"
      BY <1>1, <1>3 DEF Results
    <2>1. result[t] = IF ~Updater(t) \/ Owner(t) \in decided
                      THEN Outcome(t) ELSE "PENDING"
      BY <1>1 DEF Inv, Results
    <2>2. Outcome(t) # "PENDING"
      BY DEF Outcome
    <2>3. CASE t \in undecided
      <3>1. Updater(t) /\ Owner(t) \in decided'
        BY <1>1, <2>1, <2>2, <2>3
      <3>2. Outcome(t) = IF MayCommit(t) THEN "COMMIT" ELSE "ABORT"
        BY <1>1, <1>4, <3>1, DependenceIsConflict
      <3> QED BY <1>2, <2>3, <3>1, <3>2
    <2>4. CASE t \notin undecided
      <3>1. result'[t] = result[t]
        BY <1>2, <2>4
      <3>2. Owner(t) = w => result[t] # "PENDING"
        BY <2>4
      <3> QED BY <1>1, <2>1, <2>2, <3>1, <3>2
    <2> QED BY <2>3, <2>4
  <1> QED BY <1>5, <1>6, <1>7, <1>8, <1>9 DEF Inv

-----------------------------------------------------------------------------
\* The inductive invariant of the deterministic concurrency control.
THEOREM Invariance == Spec => []Inv
  <1>1. Inv /\ [Next]_vars => Inv'
    <2> SUFFICES ASSUME Inv, [Next]_vars PROVE Inv'
      OBVIOUS
    <2>1. CASE Begin
      BY <2>1, BeginInv
    <2>2. CASE EndExec \/ EndCommit
      BY <2>2, BarrierInv
    <2>3. ASSUME NEW w \in Worker, Work(w) PROVE Inv'
      BY <2>3, ExecuteInv, ReserveReadInv, ReserveWriteInv, DecideInv, SyncInv
         DEF Work
    <2>4. CASE UNCHANGED vars
      <3>1. \A t \in Txn : /\ Writes(t)' = Writes(t) /\ prog'[t] = prog[t]
                           /\ Updater(t)' <=> Updater(t)
                           /\ Outcome(t)' = Outcome(t)
                           /\ Owner(t)' = Owner(t)
        BY <2>4, SameBlock DEF vars
      <3>2. TypeOK' /\ Phases'
        BY <2>4 DEF Inv, TypeOK, Phases, vars, batchVars, execVars, commitVars
      <3>3. Sound' /\ Results'
        BY <2>4, <3>1 DEF Inv, Sound, Results, vars, batchVars, execVars,
                          commitVars
      <3>4. Complete' /\ Reserving'
        BY <2>4, <3>1 DEF Inv, TypeOK, Complete, Reserving, ReadPending,
                          WritePending, vars, batchVars, execVars, commitVars
      <3> QED BY <3>2, <3>3, <3>4 DEF Inv
    <2> QED BY <2>1, <2>2, <2>3, <2>4 DEF Next, Coordinate
  <1> QED BY <1>1, InitInv, PTL DEF Spec

\* Deterministic holds for every number of workers and transactions: the
\* results an executed block reports are a function of the block and of the
\* database it was executed on.
THEOREM BlockDeterminesOutcome == Spec => []Deterministic
  <1>1. Inv => Deterministic
    <2> SUFFICES ASSUME Inv, Executed, NEW t \in Txn
                 PROVE  result[t] = Outcome(t)
      BY DEF Deterministic
    <2>1. block > 0 /\ todo = {} /\ decided = Worker
      BY DEF Inv, Phases, Executed
    <2>2. Owner(t) \in Worker
      BY OwnerIsWorker DEF Inv
    <2> QED BY <2>1, <2>2 DEF Inv, Results
  <1> QED BY <1>1, Invariance, PTL

\* ConflictsOrdered holds always: the transactions a block commits can be put
\* in a serial order, which is the one Aria's commit rule promises.
THEOREM CommitsAreSerializable == Spec => []ConflictsOrdered
  <1>1. Inv => ConflictsOrdered
    <2> SUFFICES ASSUME Inv, NEW t \in Committed, NEW u \in Committed, t # u
                 PROVE  /\ Writes(t) \cap Writes(u) = {}
                        /\ prog[t].gets \cap Writes(u) # {} =>
                              SerialRank(t) < SerialRank(u)
      BY DEF ConflictsOrdered
    <2>1. /\ t \in Txn /\ u \in Txn
          /\ Outcome(t) = "COMMIT" /\ Outcome(u) = "COMMIT"
      BY DEF Inv, Results, Committed
    <2>2. ~Broken(t) /\ ~Broken(u)
      BY <2>1 DEF Outcome
    <2>3. t < u \/ u < t
      BY <2>1, AriaAssumption DEF Txn
    <2>4. Writes(t) \cap Writes(u) = {}
      <3> SUFFICES ASSUME Writes(t) \cap Writes(u) # {} PROVE FALSE
        OBVIOUS
      <3>1. Updater(t) /\ Updater(u)
        BY <2>2 DEF Updater
      <3>2. Collides(t) \/ Collides(u)
        BY <2>1, <2>3, <3>1 DEF Collides
      <3> QED BY <2>1, <2>2, <3>1, <3>2 DEF Outcome
    <2>5. ASSUME prog[t].gets \cap Writes(u) # {}
          PROVE  SerialRank(t) < SerialRank(u)
      <3>1. Updater(u) /\ Writes(u) # {}
        BY <2>2, <2>5 DEF Updater
      <3>2. t \in 1 .. TxnCount /\ u \in 1 .. TxnCount /\ TxnCount \in Nat
        BY <2>1, AriaAssumption DEF Txn
      <3>3. CASE Writes(t) = {}
        BY <3>1, <3>2, <3>3 DEF SerialRank
      <3>4. CASE Writes(t) # {} /\ t < u
        <4>1. Overwrites(u)
          BY <2>1, <2>2, <2>5, <3>4 DEF Overwrites, Updater
        <4>2. ~ReadLate(u)
          BY <2>1, <2>2, <3>1, <4>1 DEF Outcome
        <4> QED BY <3>1, <3>2, <3>4, <4>2 DEF SerialRank
      <3>5. CASE Writes(t) # {} /\ u < t
        <4>1. ReadLate(t)
          BY <2>1, <2>5, <3>1, <3>5 DEF ReadLate
        <4> QED BY <3>1, <3>2, <3>5, <4>1 DEF SerialRank
      <3> QED BY <2>3, <3>3, <3>4, <3>5
    <2> QED BY <2>4, <2>5
  <1> QED BY <1>1, Invariance, PTL


-----------------------------------------------------------------------------
(* What the transactions have read and what the write batches have left in   *)
(* the database: the committed transactions are equivalent to a serial run.  *)

\* the transactions whose writes are put into a batch
Committing(t) == Updater(t) /\ Outcome(t) = "COMMIT"

\* Every executed transaction has read the database of before the block.
ReadSnapshot ==
    /\ DOMAIN seen = Txn
    /\ block > 0 => \A t \in Txn \ todo : \A k \in prog[t].gets : seen[t][k] = snapshot[k]

\* A batch holds writes of the worker's committing transactions; the deletion
\* of a key is still to come while a put of the same transaction is.
Batches ==
    /\ phase = "idle" => \A w \in Worker : putsLeft[w] = {} /\ delsLeft[w] = {}
    /\ \A w \in Worker :
          /\ w \notin decided => putsLeft[w] = {} /\ delsLeft[w] = {}
          /\ \A e \in putsLeft[w] :
                /\ Committing(e[2]) /\ Owner(e[2]) = w /\ e[1] \in prog[e[2]].puts
                /\ e[1] \in prog[e[2]].dels => e[1] \in delsLeft[w]
          /\ \A k \in delsLeft[w] :
                \E t \in Txn : Committing(t) /\ Owner(t) = w /\ k \in prog[t].dels

\* Under every key stands what its one committing writer leaves there, unless
\* that is still to be put or deleted.
Stored ==
    block > 0 =>
        \A k \in Key :
            /\ (\A t \in Txn : Committing(t) => k \notin Writes(t)) => db[k] = snapshot[k]
            /\ \A t \in Txn :
                  Committing(t) /\ k \in Writes(t) /\ Owner(t) \in decided =>
                      IF k \in prog[t].dels
                      THEN k \in delsLeft[Owner(t)] \/ db[k] = Absent
                      ELSE <<k, t>> \in putsLeft[Owner(t)] \/ db[k] = Written(block, t)

DataInv == ReadSnapshot /\ Batches /\ Stored

\* No two committing transactions write the same key.
LEMMA OneWriter ==
    ASSUME NEW t \in Txn, NEW u \in Txn, Committing(t), Committing(u),
           Writes(t) \cap Writes(u) # {}
    PROVE  t = u
  <1> SUFFICES ASSUME t # u PROVE FALSE
    OBVIOUS
  <1>1. t < u \/ u < t
    BY AriaAssumption DEF Txn
  <1>2. Collides(t) \/ Collides(u)
    BY <1>1 DEF Collides, Committing
  <1> QED BY <1>2 DEF Committing, Outcome, Updater

\* Within a block it stays fixed who commits.
LEMMA SameCommitting ==
    ASSUME UNCHANGED batchVars
    PROVE  /\ \A t \in Txn : /\ Committing(t)' <=> Committing(t)
                             /\ Writes(t)' = Writes(t) /\ Owner(t)' = Owner(t)
           /\ prog' = prog /\ block' = block /\ snapshot' = snapshot
  <1>1. \A t \in Txn : /\ Writes(t)' = Writes(t) /\ (Updater(t)' <=> Updater(t))
                       /\ Outcome(t)' = Outcome(t) /\ Owner(t)' = Owner(t)
    BY SameBlock
  <1> QED BY <1>1 DEF Committing, batchVars

\* The steps that leave the batches and the database alone.
LEMMA SameStore ==
    ASSUME Inv, DataInv, UNCHANGED <<batchVars, db, decided, putsLeft, delsLeft>>,
           phase' = "idle" => \A w \in Worker : putsLeft[w] = {} /\ delsLeft[w] = {}
    PROVE  Batches' /\ Stored'
  <1>1. /\ \A t \in Txn : /\ Committing(t)' <=> Committing(t)
                          /\ Writes(t)' = Writes(t) /\ Owner(t)' = Owner(t)
        /\ prog' = prog /\ block' = block /\ snapshot' = snapshot
        /\ db' = db /\ decided' = decided /\ putsLeft' = putsLeft /\ delsLeft' = delsLeft
    BY SameCommitting
  <1>2. \A w \in Worker : \A e \in putsLeft[w] : e[2] \in Txn
    BY DEF Inv, TypeOK
  <1>3. Batches'
    BY <1>1, <1>2 DEF DataInv, Batches
  <1>4. Stored'
    BY <1>1 DEF DataInv, Stored, Written
  <1> QED BY <1>3, <1>4

LEMMA InitData == Init => DataInv
  <1> SUFFICES ASSUME Init PROVE DataInv
    OBVIOUS
  <1>1. ReadSnapshot /\ Stored
    BY DEF Init, ReadSnapshot, Stored
  <1>2. Batches
    BY DEF Init, Batches
  <1> QED BY <1>1, <1>2 DEF DataInv

\* A block begins on the database as it is, with empty batches.
LEMMA BeginData == ASSUME Inv, DataInv, Begin PROVE DataInv'
  <1>1. /\ phase = "idle" /\ phase' = "exec" /\ snapshot' = db /\ db' = db /\ decided' = {}
        /\ todo' = Txn /\ seen' = [t \in Txn |-> <<>>]
        /\ putsLeft' = putsLeft /\ delsLeft' = delsLeft
    BY DEF Begin
  <1>2. \A w \in Worker : putsLeft'[w] = {} /\ delsLeft'[w] = {}
    BY <1>1 DEF DataInv, Batches
  <1>3. ReadSnapshot'
    BY <1>1 DEF ReadSnapshot
  <1>4. Batches'
    BY <1>2 DEF Batches
  <1>5. Stored'
    BY <1>1 DEF Stored
  <1> QED BY <1>3, <1>4, <1>5 DEF DataInv

\* A transaction executes on the database of before the block.
LEMMA ExecuteData == ASSUME Inv, DataInv, NEW w \in Worker, Execute(w) PROVE DataInv'
  <1>1. PICK t \in todo : /\ todo' = todo \ {t}
                          /\ seen' = [seen EXCEPT ![t] = [k \in prog[t].gets |-> db[k]]]
    BY DEF Execute
  <1>2. /\ UNCHANGED <<batchVars, db, decided, putsLeft, delsLeft>> /\ phase' = "exec"
        /\ db = snapshot /\ t \in Txn
    BY DEF Execute, Inv, Phases, TypeOK, commitVars
  <1>3. prog' = prog /\ block' = block /\ snapshot' = snapshot
    BY <1>2 DEF batchVars
  <1>4. ReadSnapshot'
    BY <1>1, <1>2, <1>3 DEF DataInv, ReadSnapshot
  <1>5. Batches' /\ Stored'
    BY <1>2, SameStore
  <1> QED BY <1>4, <1>5 DEF DataInv

\* Reserving a key and the two barriers concern neither reads nor batches.
LEMMA ControlData ==
    ASSUME Inv, DataInv,
           \/ EndExec \/ EndCommit \/ UNCHANGED vars
           \/ \E w \in Worker : ReserveRead(w) \/ ReserveWrite(w)
    PROVE  DataInv'
  <1>1. /\ UNCHANGED <<batchVars, db, decided, putsLeft, delsLeft>>
        /\ seen' = seen /\ todo' = todo
        /\ phase' = "idle" => \A w \in Worker : putsLeft[w] = {} /\ delsLeft[w] = {}
    BY DEF EndExec, EndCommit, ReserveRead, ReserveWrite, vars, execVars, commitVars,
           DataInv, Batches
  <1>2. prog' = prog /\ block' = block /\ snapshot' = snapshot
    BY <1>1 DEF batchVars
  <1>3. ReadSnapshot'
    BY <1>1, <1>2 DEF DataInv, ReadSnapshot
  <1> QED BY <1>1, <1>3, SameStore DEF DataInv

\* The callback fills the worker's batch with the writes of its committing
\* transactions.
LEMMA DecideData == ASSUME Inv, DataInv, NEW w \in Worker, Decide(w) PROVE DataInv'
  <1> DEFINE undecided == {t \in Txn : Owner(t) = w /\ result[t] = "PENDING"}
             commits == {t \in undecided : MayCommit(t)}
  <1>1. /\ phase = "commit" /\ phase' = "commit" /\ block > 0 /\ todo = {}
        /\ decided' = decided \cup {w} /\ w \notin decided
        /\ UNCHANGED batchVars /\ db' = db /\ seen' = seen /\ todo' = todo
    BY DEF Decide, Inv, Phases, execVars
  <1>2. /\ putsLeft' = [putsLeft EXCEPT ![w] =
             {e \in Key \X Txn : e[2] \in commits /\ e[1] \in prog[e[2]].puts}]
        /\ delsLeft' = [delsLeft EXCEPT ![w] =
             {k \in Key : \E t \in commits : k \in prog[t].dels}]
    BY DEF Decide
  <1>3. /\ \A t \in Txn : /\ Committing(t)' <=> Committing(t)
                          /\ Writes(t)' = Writes(t) /\ Owner(t)' = Owner(t)
        /\ prog' = prog /\ block' = block /\ snapshot' = snapshot
    BY <1>1, SameCommitting
  <1>4. ASSUME NEW t \in Txn, Owner(t) = w PROVE t \in commits <=> Committing(t)
    <2>1. \A v \in Worker : Reserved(v)
      BY <1>1 DEF Inv, Reserving, Reserved
    <2>2. result[t] = IF ~Updater(t) THEN Outcome(t) ELSE "PENDING"
      BY <1>1, <1>4 DEF Inv, Results
    <2>3. Outcome(t) # "PENDING"
      BY DEF Outcome
    <2>4. Updater(t) => Outcome(t) = IF MayCommit(t) THEN "COMMIT" ELSE "ABORT"
      BY <1>1, <2>1, DependenceIsConflict
    <2> QED BY <1>4, <2>2, <2>3, <2>4 DEF Committing
  <1>5. \A t \in commits : t \in Txn /\ Owner(t) = w /\ Committing(t)
    BY <1>4
  <1> HIDE DEF commits
  <1>6. /\ putsLeft'[w] = {e \in Key \X Txn : e[2] \in commits /\ e[1] \in prog[e[2]].puts}
        /\ delsLeft'[w] = {k \in Key : \E t \in commits : k \in prog[t].dels}
        /\ \A v \in Worker : v # w => putsLeft'[v] = putsLeft[v] /\ delsLeft'[v] = delsLeft[v]
    BY <1>2 DEF Inv, TypeOK
  <1>7. \A v \in Worker : \A e \in putsLeft[v] : e[2] \in Txn
    BY DEF Inv, TypeOK
  <1>8. ReadSnapshot'
    BY <1>1, <1>3 DEF DataInv, ReadSnapshot
  <1>9. Batches'
    <2> SUFFICES ASSUME NEW v \in Worker
                 PROVE  /\ v \notin decided' => putsLeft'[v] = {} /\ delsLeft'[v] = {}
                        /\ \A e \in putsLeft'[v] :
                              /\ Committing(e[2])' /\ Owner(e[2])' = v
                              /\ e[1] \in prog'[e[2]].puts
                              /\ e[1] \in prog'[e[2]].dels => e[1] \in delsLeft'[v]
                        /\ \A k \in delsLeft'[v] :
                              \E t \in Txn : /\ Committing(t)' /\ Owner(t)' = v
                                             /\ k \in prog'[t].dels
      BY <1>1 DEF Batches
    <2>1. CASE v # w
      BY <1>1, <1>3, <1>6, <1>7, <2>1 DEF DataInv, Batches
    <2>2. CASE v = w
      <3>1. v \in decided'
        BY <1>1, <2>2
      <3>2. ASSUME NEW e \in putsLeft'[v]
            PROVE  /\ Committing(e[2])' /\ Owner(e[2])' = v /\ e[1] \in prog'[e[2]].puts
                   /\ e[1] \in prog'[e[2]].dels => e[1] \in delsLeft'[v]
        <4>1. e[1] \in Key /\ e[2] \in commits /\ e[1] \in prog[e[2]].puts
          BY <1>6, <2>2
        <4>2. e[2] \in Txn /\ Owner(e[2]) = w /\ Committing(e[2])
          BY <1>5, <4>1
        <4> QED BY <1>3, <1>6, <2>2, <4>1, <4>2
      <3>3. ASSUME NEW k \in delsLeft'[v]
            PROVE  \E t \in Txn : Committing(t)' /\ Owner(t)' = v /\ k \in prog'[t].dels
        <4>1. PICK t \in commits : k \in prog[t].dels
          BY <1>6, <2>2
        <4> QED BY <1>3, <1>5, <2>2, <4>1
      <3> QED BY <3>1, <3>2, <3>3
    <2> QED BY <2>1, <2>2
  <1>10. Stored'
    <2> SUFFICES ASSUME NEW k \in Key
                 PROVE  /\ (\A t \in Txn : Committing(t) => k \notin Writes(t)) => db[k] = snapshot[k]
                        /\ \A t \in Txn :
                              Committing(t) /\ k \in Writes(t) /\ Owner(t) \in decided' =>
                                  IF k \in prog[t].dels
                                  THEN k \in delsLeft'[Owner(t)] \/ db[k] = Absent
                                  ELSE \/ <<k, t>> \in putsLeft'[Owner(t)]
                                       \/ db[k] = Written(block, t)
      BY <1>1, <1>3 DEF Stored, Written
    <2>1. ASSUME NEW t \in Txn, Committing(t), k \in Writes(t), Owner(t) \in decided'
          PROVE  IF k \in prog[t].dels
                 THEN k \in delsLeft'[Owner(t)] \/ db[k] = Absent
                 ELSE <<k, t>> \in putsLeft'[Owner(t)] \/ db[k] = Written(block, t)
      <3>1. CASE Owner(t) # w
        <4>1. Owner(t) \in Worker /\ Owner(t) \in decided
          BY <1>1, <2>1, <3>1, OwnerIsWorker DEF Inv
        <4> QED BY <1>1, <1>6, <2>1, <3>1, <4>1 DEF DataInv, Stored
      <3>2. CASE Owner(t) = w
        <4>1. t \in commits
          BY <1>4, <2>1, <3>2
        <4>2. k \in prog[t].dels => k \in delsLeft'[w]
          BY <1>6, <4>1
        <4>3. k \notin prog[t].dels => <<k, t>> \in putsLeft'[w]
          BY <1>6, <2>1, <4>1 DEF Writes
        <4> QED BY <3>2, <4>2, <4>3
      <3> QED BY <3>1, <3>2
    <2> QED BY <1>1, <2>1 DEF DataInv, Stored
  <1> QED BY <1>8, <1>9, <1>10 DEF DataInv

\* A put of a batch stores the value of the key's one writer.
LEMMA PutData == ASSUME Inv, DataInv, NEW w \in Worker, SyncPut(w) PROVE DataInv'
  <1>1. PICK e \in putsLeft[w] :
           /\ db' = [db EXCEPT ![e[1]] = Written(block, e[2])]
           /\ putsLeft' = [putsLeft EXCEPT ![w] = @ \ {e}]
    BY DEF SyncPut
  <1>2. /\ UNCHANGED batchVars /\ phase' = phase /\ phase = "commit" /\ seen' = seen
        /\ todo' = todo /\ decided' = decided /\ delsLeft' = delsLeft
    BY DEF SyncPut, execVars
  <1>3. /\ \A t \in Txn : /\ Committing(t)' <=> Committing(t)
                          /\ Writes(t)' = Writes(t) /\ Owner(t)' = Owner(t)
        /\ prog' = prog /\ block' = block /\ snapshot' = snapshot
    BY <1>2, SameCommitting
  <1>4. /\ \A v \in Worker : putsLeft[v] \subseteq Key \X Txn
        /\ putsLeft \in [Worker -> SUBSET (Key \X Txn)] /\ db \in [Key -> Int]
    BY DEF Inv, TypeOK
  <1>5. PICK x \in Key, u \in Txn : e = <<x, u>>
    BY <1>4
  <1>6. /\ Committing(u) /\ Owner(u) = w /\ x \in prog[u].puts
        /\ x \in prog[u].dels => x \in delsLeft[w]
    BY <1>5 DEF DataInv, Batches
  <1>7. /\ putsLeft'[w] = putsLeft[w] \ {<<x, u>>}
        /\ \A v \in Worker : v # w => putsLeft'[v] = putsLeft[v]
        /\ \A v \in Worker : putsLeft'[v] \subseteq putsLeft[v]
        /\ db'[x] = Written(block, u) /\ \A k \in Key : k # x => db'[k] = db[k]
    BY <1>1, <1>4, <1>5
  <1>8. ReadSnapshot'
    BY <1>2, <1>3 DEF DataInv, ReadSnapshot
  <1>9. Batches'
    <2>1. \A v \in Worker : \A f \in putsLeft'[v] : f \in putsLeft[v] /\ f[2] \in Txn
      BY <1>4, <1>7
    <2> QED BY <1>2, <1>3, <1>7, <2>1 DEF DataInv, Batches
  <1>10. Stored'
    <2> SUFFICES ASSUME block > 0, NEW k \in Key
                 PROVE  /\ (\A t \in Txn : Committing(t) => k \notin Writes(t)) => db'[k] = snapshot[k]
                        /\ \A t \in Txn :
                              Committing(t) /\ k \in Writes(t) /\ Owner(t) \in decided =>
                                  IF k \in prog[t].dels
                                  THEN k \in delsLeft[Owner(t)] \/ db'[k] = Absent
                                  ELSE \/ <<k, t>> \in putsLeft'[Owner(t)]
                                       \/ db'[k] = Written(block, t)
      BY <1>2, <1>3 DEF Stored, Written
    <2>1. CASE k # x
      <3>1. db'[k] = db[k]
        BY <1>7, <2>1
      <3>2. ASSUME NEW t \in Txn, <<k, t>> \in putsLeft[Owner(t)]
            PROVE  <<k, t>> \in putsLeft'[Owner(t)]
        <4>1. <<k, t>> # <<x, u>> /\ Owner(t) \in Worker
          BY <2>1, OwnerIsWorker DEF Inv
        <4> QED BY <1>7, <3>2, <4>1
      <3> QED BY <3>1, <3>2 DEF DataInv, Stored
    <2>2. CASE k = x
      <3>1. k \in Writes(u)
        BY <1>6, <2>2 DEF Writes
      <3>2. \A t \in Txn : Committing(t) /\ k \in Writes(t) => t = u
        BY <1>6, <3>1, OneWriter
      <3> QED BY <1>6, <1>7, <2>2, <3>1, <3>2
    <2> QED BY <2>1, <2>2
  <1> QED BY <1>8, <1>9, <1>10 DEF DataInv

\* A deletion of a batch comes after the puts, so the key stays deleted.
LEMMA DeleteData == ASSUME Inv, DataInv, NEW w \in Worker, SyncDelete(w) PROVE DataInv'
  <1>1. PICK x \in delsLeft[w] :
           /\ db' = [db EXCEPT ![x] = Absent]
           /\ delsLeft' = [delsLeft EXCEPT ![w] = @ \ {x}]
    BY DEF SyncDelete
  <1>2. /\ UNCHANGED batchVars /\ phase' = phase /\ phase = "commit" /\ seen' = seen
        /\ todo' = todo /\ decided' = decided /\ putsLeft' = putsLeft /\ putsLeft[w] = {}
    BY DEF SyncDelete, execVars
  <1>3. /\ \A t \in Txn : /\ Committing(t)' <=> Committing(t)
                          /\ Writes(t)' = Writes(t) /\ Owner(t)' = Owner(t)
        /\ prog' = prog /\ block' = block /\ snapshot' = snapshot
    BY <1>2, SameCommitting
  <1>4. /\ x \in Key /\ db \in [Key -> Int] /\ delsLeft \in [Worker -> SUBSET Key]
        /\ \A v \in Worker : \A e \in putsLeft[v] : e[2] \in Txn
    BY DEF Inv, TypeOK
  <1>5. PICK u \in Txn : Committing(u) /\ Owner(u) = w /\ x \in prog[u].dels
    BY DEF DataInv, Batches
  <1>6. /\ delsLeft'[w] = delsLeft[w] \ {x}
        /\ \A v \in Worker : v # w => delsLeft'[v] = delsLeft[v]
        /\ db'[x] = Absent /\ \A k \in Key : k # x => db'[k] = db[k]
    BY <1>1, <1>4
  <1>7. ReadSnapshot'
    BY <1>2, <1>3 DEF DataInv, ReadSnapshot
  <1>8. Batches'
    <2>1. \A v \in Worker : delsLeft'[v] \subseteq delsLeft[v]
      BY <1>6
    <2>2. \A v \in Worker : \A e \in putsLeft[v] : delsLeft'[v] = delsLeft[v]
      BY <1>2, <1>6
    <2> QED BY <1>2, <1>3, <1>4, <2>1, <2>2 DEF DataInv, Batches
  <1>9. Stored'
    <2> SUFFICES ASSUME block > 0, NEW k \in Key
                 PROVE  /\ (\A t \in Txn : Committing(t) => k \notin Writes(t)) => db'[k] = snapshot[k]
                        /\ \A t \in Txn :
                              Committing(t) /\ k \in Writes(t) /\ Owner(t) \in decided =>
                                  IF k \in prog[t].dels
                                  THEN k \in delsLeft'[Owner(t)] \/ db'[k] = Absent
                                  ELSE \/ <<k, t>> \in putsLeft[Owner(t)]
                                       \/ db'[k] = Written(block, t)
      BY <1>2, <1>3 DEF Stored, Written
    <2>1. CASE k # x
      <3>1. db'[k] = db[k]
        BY <1>6, <2>1
      <3>2. \A t \in Txn : k \in delsLeft[Owner(t)] => k \in delsLeft'[Owner(t)]
        BY <1>6, <2>1, OwnerIsWorker DEF Inv
      <3> QED BY <3>1, <3>2 DEF DataInv, Stored
    <2>2. CASE k = x
      <3>1. k \in Writes(u)
        BY <1>5, <2>2 DEF Writes
      <3>2. \A t \in Txn : Committing(t) /\ k \in Writes(t) => t = u
        BY <1>5, <3>1, OneWriter
      <3> QED BY <1>5, <1>6, <2>2, <3>1, <3>2
    <2> QED BY <2>1, <2>2
  <1> QED BY <1>7, <1>8, <1>9 DEF DataInv

\* The reads and the write-back of every block are as DataInv says.
THEOREM DataInvariance == Spec => [](Inv /\ DataInv)
  <1>1. Inv /\ DataInv /\ [Next]_vars => DataInv'
    <2> SUFFICES ASSUME Inv, DataInv, [Next]_vars PROVE DataInv'
      OBVIOUS
    <2>1. CASE Begin
      BY <2>1, BeginData
    <2>2. CASE EndExec \/ EndCommit \/ UNCHANGED vars
      BY <2>2, ControlData
    <2>3. ASSUME NEW w \in Worker, Work(w) PROVE DataInv'
      BY <2>3, ExecuteData, ControlData, DecideData, PutData, DeleteData DEF Work
    <2> QED BY <2>1, <2>2, <2>3 DEF Next, Coordinate
  <1> QED BY <1>1, Invariance, InitData, PTL DEF Spec

-----------------------------------------------------------------------------
(* The serial order: by SerialRank, and by identifier among equals.          *)

Before(t, u) ==
    SerialRank(t) < SerialRank(u) \/ (SerialRank(t) = SerialRank(u) /\ t < u)

\* The committed transactions can be numbered in that order.
LEMMA SerialOrder ==
    ASSUME TypeOK
    PROVE  LET n == Cardinality(Committed) IN
           \E order \in [1 .. n -> Committed], pos \in [Committed -> 1 .. n] :
              /\ n \in Nat
              /\ \A i \in 1 .. n : pos[order[i]] = i
              /\ \A t \in Committed : order[pos[t]] = t
              /\ \A t, u \in Committed : Before(t, u) => pos[t] < pos[u]
  <1> DEFINE C == Committed
             n == Cardinality(C)
             Down(t) == {u \in C : Before(u, t) \/ u = t}
             pos == [t \in C |-> Cardinality(Down(t))]
             order == [i \in 1 .. n |-> CHOOSE t \in C : pos[t] = i]
  <1>1. IsFiniteSet(C) /\ n \in Nat
    <2>1. IsFiniteSet(Txn)
      BY AriaAssumption, FS_Interval DEF Txn
    <2>2. C \in SUBSET Txn
      BY DEF Committed
    <2> QED BY <2>1, <2>2, FS_Subset, FS_CardinalityType
  <1>2. \A t \in C : t \in Int /\ SerialRank(t) \in Int
    BY AriaAssumption DEF Committed, Txn, SerialRank
  <1>3. \A t, u, v \in C : Before(t, u) /\ Before(u, v) => Before(t, v)
    BY <1>2 DEF Before
  <1>4. \A t, u \in C : /\ ~ (Before(t, u) /\ Before(u, t)) /\ ~ Before(t, t)
                        /\ Before(t, u) \/ Before(u, t) \/ t = u
    BY <1>2 DEF Before
  <1> HIDE DEF C
  <1>5. \A t \in C : /\ IsFiniteSet(Down(t)) /\ Cardinality(Down(t)) \in Nat
                     /\ Cardinality(Down(t)) <= n
                     /\ t \in Down(t)
    <2> SUFFICES ASSUME NEW t \in C
                 PROVE  /\ IsFiniteSet(Down(t)) /\ Cardinality(Down(t)) \in Nat
                        /\ Cardinality(Down(t)) <= n /\ t \in Down(t)
      OBVIOUS
    <2>1. Down(t) \in SUBSET C /\ t \in Down(t)
      OBVIOUS
    <2> HIDE DEF Down
    <2> QED BY <1>1, <2>1, FS_Subset, FS_CardinalityType
  <1>6. \A t \in C : Cardinality(Down(t)) # 0
    BY <1>5, FS_EmptySet
  <1>7. ASSUME NEW t \in C, NEW u \in C, Before(t, u)
        PROVE  Cardinality(Down(t)) < Cardinality(Down(u))
    <2>1. Down(t) \in SUBSET Down(u) /\ u \in Down(u) /\ u \notin Down(t)
      BY <1>3, <1>4, <1>7
    <2> HIDE DEF Down
    <2>2. Cardinality(Down(t)) <= Cardinality(Down(u)) /\ Cardinality(Down(t)) # Cardinality(Down(u))
      BY <1>5, <2>1, FS_Subset
    <2> QED BY <1>5, <2>2
  <1>8. pos \in [C -> 1 .. n] /\ \A t, u \in C : Before(t, u) => pos[t] < pos[u]
    <2> HIDE DEF Down
    <2>1. \A t \in C : Cardinality(Down(t)) \in 1 .. n
      BY <1>1, <1>5, <1>6
    <2> QED BY <1>7, <2>1
  <1> HIDE DEF pos
  <1>9. \A t, u \in C : pos[t] = pos[u] => t = u
    <2>1. \A t \in C : pos[t] \in Int
      BY <1>1, <1>8
    <2> QED BY <1>4, <1>8, <2>1
  <1>10. \A i \in 1 .. n : \E t \in C : pos[t] = i
    <2>1. pos \in Injection(C, 1 .. n)
      BY <1>8, <1>9 DEF Injection, IsInjective
    <2>2. IsFiniteSet(1 .. n) /\ Cardinality(1 .. n) = n
      BY <1>1, FS_Interval
    <2>3. pos \in Surjection(C, 1 .. n)
      BY <2>1, <2>2, FS_Injection
    <2> QED BY <2>3 DEF Surjection
  <1>11. \A i \in 1 .. n : order[i] \in C /\ pos[order[i]] = i
    BY <1>10
  <1>12. order \in [1 .. n -> C]
    BY <1>11
  <1> HIDE DEF order
  <1>13. \A t \in C : order[pos[t]] = t
    BY <1>8, <1>9, <1>11
  <1> QED BY <1>1, <1>8, <1>11, <1>12, <1>13 DEF C

\* The committed transactions of an executed block, run one after the other in
\* that order, read what they have read and leave the database as it is.
LEMMA SerialRun ==
    ASSUME Inv, DataInv, ConflictsOrdered PROVE SerialEquivalent
  <1> SUFFICES ASSUME Executed PROVE SerialEquivalent
    BY DEF SerialEquivalent
  <1> DEFINE n == Cardinality(Committed)
  <1>1. PICK order \in [1 .. n -> Committed], pos \in [Committed -> 1 .. n] :
           /\ n \in Nat
           /\ \A i \in 1 .. n : pos[order[i]] = i
           /\ \A t \in Committed : order[pos[t]] = t
           /\ \A t, u \in Committed : Before(t, u) => pos[t] < pos[u]
    BY SerialOrder DEF Inv
  <1> HIDE DEF n
  <1>2. block > 0 /\ todo = {} /\ decided = Worker /\ phase = "idle"
    BY DEF Inv, Phases, Executed
  <1>3. \A t \in Txn : t \in Committed <=> Outcome(t) = "COMMIT"
    <2>1. \A t \in Txn : Owner(t) \in Worker
      BY OwnerIsWorker DEF Inv
    <2>2. \A t \in Txn : result[t] = Outcome(t)
      BY <1>2, <2>1 DEF Inv, Results
    <2> QED BY <2>2 DEF Committed
  <1>4. /\ \A t \in Committed : t \in Txn
        /\ \A t \in Committed : Writes(t) # {} => Committing(t)
        /\ \A t \in Txn : Committing(t) => t \in Committed
    <2>1. \A t \in Committed : t \in Txn
      BY DEF Committed
    <2>2. \A t \in Txn : Outcome(t) = "COMMIT" => ~Broken(t)
      BY DEF Outcome
    <2> QED BY <1>3, <2>1, <2>2 DEF Committing, Updater
  <1>5. \A t \in Committed : prog[t].gets \subseteq Key
    BY <1>4, ProgramKeys DEF Inv
  <1>6. ASSUME NEW i \in 1 .. n, NEW k \in prog[order[i]].gets
        PROVE  seen[order[i]][k] = ReadBefore(order, i, k)
    <2>1. seen[order[i]][k] = snapshot[k]
      BY <1>2, <1>4 DEF DataInv, ReadSnapshot
    <2>2. ASSUME NEW j \in 1 .. n, j < i, k \in Writes(order[j]) PROVE FALSE
      <3>1. order[i] \in Committed /\ order[j] \in Committed /\ order[i] # order[j]
        BY <1>1, <2>2
      <3>2. SerialRank(order[i]) < SerialRank(order[j])
        BY <2>2, <3>1 DEF ConflictsOrdered
      <3>3. pos[order[i]] < pos[order[j]]
        BY <1>1, <3>1, <3>2 DEF Before
      <3> QED BY <1>1, <2>2, <3>3
    <2>3. {j \in DOMAIN order : j < i /\ k \in Writes(order[j])} = {}
      BY <2>2
    <2> QED BY <2>1, <2>3 DEF ReadBefore
  <1>7. ASSUME NEW k \in Key PROVE db[k] = ReadBefore(order, n + 1, k)
    <2> DEFINE writers == {j \in DOMAIN order : j < n + 1 /\ k \in Writes(order[j])}
    <2>1. \A w \in Worker : putsLeft[w] = {} /\ delsLeft[w] = {}
      BY <1>2 DEF DataInv, Batches
    <2>2. CASE writers = {}
      <3>1. ASSUME NEW t \in Txn, Committing(t), k \in Writes(t) PROVE FALSE
        <4>1. t \in Committed
          BY <1>4, <3>1
        <4>2. pos[t] \in 1 .. n /\ order[pos[t]] = t
          BY <1>1, <4>1
        <4>3. pos[t] \in writers
          BY <1>1, <3>1, <4>2
        <4> QED BY <2>2, <4>3
      <3>2. db[k] = snapshot[k]
        BY <1>2, <3>1 DEF DataInv, Stored
      <3> QED BY <2>2, <3>2 DEF ReadBefore
    <2>3. CASE writers # {}
      <3>1. PICK j \in 1 .. n : k \in Writes(order[j])
        BY <2>3
      <3> DEFINE u == order[j]
      <3>2. u \in Committed /\ u \in Txn /\ Committing(u) /\ k \in Writes(u)
        BY <1>4, <3>1
      <3>3. writers = {j}
        <4>1. ASSUME NEW l \in writers PROVE l = j
          <5>1. l \in 1 .. n /\ order[l] \in Committed /\ k \in Writes(order[l])
            OBVIOUS
          <5>2. order[l] \in Txn /\ Committing(order[l])
            BY <1>4, <5>1
          <5>3. order[l] = u
            BY <3>2, <5>1, <5>2, OneWriter
          <5> QED BY <1>1, <5>1, <5>3
        <4>2. j \in writers
          BY <1>1, <3>1
        <4> QED BY <4>1, <4>2
      <3> HIDE DEF writers
      <3>4. (CHOOSE x \in writers : \A l \in writers : l <= x) = j
        BY <3>3
      <3>5. ReadBefore(order, n + 1, k) = ValueOf(u, k)
        BY <2>3, <3>4 DEF ReadBefore, writers
      <3>6. Owner(u) \in decided /\ Owner(u) \in Worker
        BY <1>2, <3>2, OwnerIsWorker DEF Inv
      <3>7. IF k \in prog[u].dels THEN db[k] = Absent ELSE db[k] = Written(block, u)
        <4> HIDE DEF u
        <4> QED BY <1>2, <2>1, <3>2, <3>6 DEF DataInv, Stored
      <3> QED BY <3>5, <3>7 DEF ValueOf
    <2> QED BY <2>2, <2>3
  <1>8. \A t \in Committed : \E i \in 1 .. n : order[i] = t
    BY <1>1
  <1>9. \E o \in [1 .. n -> Committed] :
           /\ \A t \in Committed : \E i \in 1 .. n : o[i] = t
           /\ \A i \in 1 .. n : \A k \in prog[o[i]].gets : seen[o[i]][k] = ReadBefore(o, i, k)
           /\ \A k \in Key : db[k] = ReadBefore(o, n + 1, k)
    BY <1>6, <1>7, <1>8
  <1> QED BY <1>9 DEF SerialEquivalent, n

\* SerialEquivalent holds for every number of keys, transactions and workers:
\* an executed block leaves the database, and has given each committed
\* transaction the values, that some serial run of those transactions would.
THEOREM BlocksAreSerializable == Spec => []SerialEquivalent
  <1>1. Inv /\ DataInv /\ ConflictsOrdered => SerialEquivalent
    BY SerialRun
  <1> QED BY <1>1, DataInvariance, CommitsAreSerializable, PTL

-----------------------------------------------------------------------------
(* The chaincodes, one after the other (SerialExecution).                    *)

-----------------------------------------------------------------------------
(* Sums over finite sets of keys.                                            *)

\* a set of natural numbers has a least element
LEMMA LeastNatural ==
    ASSUME NEW T, T \subseteq Nat, T # {}
    PROVE  \E n \in T : \A m \in T : n <= m
<1> DEFINE Smaller == OpToRel(<, Nat)
<1>1. IsWellFoundedOn(Smaller, Nat) BY NatLessThanWellFounded
<1>2. \A n, m \in Nat : <<n, m>> \in Smaller <=> n < m BY DEF OpToRel
<1> HIDE DEF Smaller
<1>3. PICK n \in T : \A m \in T : ~ (<<m, n>> \in Smaller) BY <1>1, WFMin
<1>4. ASSUME NEW m \in T PROVE n <= m
    <2>1. n \in Nat /\ m \in Nat /\ ~ (<<m, n>> \in Smaller) BY <1>3
    <2> QED BY <1>2, <2>1
<1> QED BY <1>4

\* a set of subsets of a finite set has a minimal element
LEMMA SmallestSet ==
    ASSUME NEW T, IsFiniteSet(T), NEW W, W \subseteq SUBSET T, W # {}
    PROVE  \E s \in W : \A x \in s : s \ {x} \notin W
<1> DEFINE Sizes == {Cardinality(s) : s \in W}
<1>1. \A s \in W : IsFiniteSet(s) /\ Cardinality(s) \in Nat BY FS_Subset, FS_CardinalityType
<1>2. PICK n \in Sizes : \A m \in Sizes : n <= m
    <2>1. Sizes \subseteq Nat /\ Sizes # {} BY <1>1
    <2> HIDE DEF Sizes
    <2> QED BY <2>1, LeastNatural
<1>3. PICK s \in W : Cardinality(s) = n BY <1>2
<1>4. ASSUME NEW x \in s, s \ {x} \in W PROVE FALSE
    <2>1. Cardinality(s \ {x}) = Cardinality(s) - 1 BY <1>1, <1>3, FS_RemoveElement
    <2>2. n <= Cardinality(s \ {x}) BY <1>2, <1>4
    <2> QED BY <1>1, <1>3, <2>1, <2>2
<1> QED BY <1>4

SomeOf(s) == CHOOSE x \in s : TRUE

\* t[s] is the sum of d over the keys in s, for all s within keys
IsSum(t, d, keys) ==
    t = [s \in SUBSET keys |-> IF s = {} THEN 0 ELSE d[SomeOf(s)] + t[s \ {SomeOf(s)}]]

SumOf(d, keys) == (CHOOSE t : IsSum(t, d, keys))[keys]

MoneyKeys(d) == {key \in DOMAIN d : key[1] \in {"checking", "savings", "number"}}

LEMMA SumRead == \A d, keys : Sum(d, keys) = SumOf(d, keys)
BY Zenon DEF Sum, SumOf, IsSum, MapThenSumSet, MapThenFoldSet, SomeOf

LEMMA BalanceRead == \A d : Balance(d) = SumOf(d, MoneyKeys(d))
BY SumRead DEF Balance, MoneyKeys

Upto(keys, n) == {s \in SUBSET keys : Cardinality(s) <= n}
IsSumUpto(t, d, keys, n) ==
    t = [s \in Upto(keys, n) |-> IF s = {} THEN 0 ELSE d[SomeOf(s)] + t[s \ {SomeOf(s)}]]

\* without one element a set is one smaller
LEMMA WithoutOne ==
    ASSUME NEW keys, IsFiniteSet(keys), NEW s \in SUBSET keys, s # {}, NEW x \in s
    PROVE  /\ s \ {x} \in SUBSET keys
           /\ Cardinality(s) \in Nat \ {0}
           /\ Cardinality(s \ {x}) = Cardinality(s) - 1
<1>1. IsFiniteSet(s) /\ Cardinality(s) \in Nat BY FS_Subset, FS_CardinalityType
<1>2. Cardinality(s) # 0 BY <1>1, FS_EmptySet
<1>3. Cardinality(s \ {x}) = Cardinality(s) - 1 BY <1>1, FS_RemoveElement
<1> QED BY <1>1, <1>2, <1>3

LEMMA SumExists ==
    ASSUME NEW d, NEW keys, IsFiniteSet(keys)
    PROVE  \E t : IsSum(t, d, keys)
<1> DEFINE Missing == {n \in Nat : ~ \E t : IsSumUpto(t, d, keys, n)}
<1>1. Missing = {}
    <2> SUFFICES ASSUME Missing # {} PROVE FALSE OBVIOUS
    <2>1. PICK n \in Missing : \A m \in Missing : n <= m
        <3>1. Missing \subseteq Nat OBVIOUS
        <3> HIDE DEF Missing
        <3> QED BY <3>1, LeastNatural
    <2>2. \A s \in SUBSET keys : Cardinality(s) \in Nat /\ (Cardinality(s) = 0 <=> s = {})
        BY FS_Subset, FS_CardinalityType, FS_EmptySet
    <2>3. CASE n = 0
        <3> DEFINE t == [s \in Upto(keys, 0) |-> 0]
        <3>1. \A s \in Upto(keys, 0) : s = {} BY <2>2 DEF Upto
        <3>2. IsSumUpto(t, d, keys, 0) BY <3>1 DEF IsSumUpto
        <3> QED BY <2>1, <2>3, <3>2
    <2>4. CASE n # 0
        <3>1. n - 1 \in Nat /\ n - 1 \notin Missing BY <2>1, <2>4
        <3>2. PICK t : IsSumUpto(t, d, keys, n - 1) BY <3>1
        <3> DEFINE u == [s \in Upto(keys, n) |->
                            IF s = {} THEN 0 ELSE d[SomeOf(s)] + t[s \ {SomeOf(s)}]]
        <3>3. ASSUME NEW s \in Upto(keys, n - 1) PROVE s \in Upto(keys, n) /\ u[s] = t[s]
            <4>1. s \in Upto(keys, n) BY <2>1, <2>2, <3>1 DEF Upto
            <4> QED BY <3>2, <4>1 DEF IsSumUpto
        <3>4. ASSUME NEW s \in Upto(keys, n), s # {} PROVE s \ {SomeOf(s)} \in Upto(keys, n - 1)
            <4>1. SomeOf(s) \in s BY <3>4 DEF SomeOf
            <4>2. s \in SUBSET keys /\ Cardinality(s) <= n BY DEF Upto
            <4> QED BY <2>1, <3>4, <4>1, <4>2, WithoutOne DEF Upto
        <3>5. IsSumUpto(u, d, keys, n)
            <4>1. \A s \in Upto(keys, n) :
                     u[s] = IF s = {} THEN 0 ELSE d[SomeOf(s)] + u[s \ {SomeOf(s)}]
                BY <3>3, <3>4
            <4>2. u = [s \in Upto(keys, n) |-> u[s]] OBVIOUS
            <4> HIDE DEF u
            <4> QED BY <4>1, <4>2 DEF IsSumUpto
        <3> QED BY <2>1, <3>5
    <2> QED BY <2>3, <2>4
<1> DEFINE c == Cardinality(keys)
<1>2. c \in Nat BY FS_CardinalityType
<1>3. PICK t : IsSumUpto(t, d, keys, c) BY <1>1, <1>2
<1>4. Upto(keys, c) = SUBSET keys BY FS_Subset DEF Upto
<1> QED BY <1>3, <1>4 DEF IsSumUpto, IsSum

Sums(t, d, keys) ==
    /\ SumOf(d, keys) = t[keys]
    /\ t[{}] = 0
    /\ \A s \in SUBSET keys : s # {} => SomeOf(s) \in s /\ t[s] = d[SomeOf(s)] + t[s \ {SomeOf(s)}]

LEMMA SumTable ==
    ASSUME NEW d, NEW keys, IsFiniteSet(keys)
    PROVE  \E t : Sums(t, d, keys)
<1> DEFINE t == CHOOSE u : IsSum(u, d, keys)
<1>1. IsSum(t, d, keys) BY SumExists
<1>2. SumOf(d, keys) = t[keys] BY DEF SumOf
<1> HIDE DEF t
<1>3. t[{}] = 0 BY <1>1 DEF IsSum
<1>4. \A s \in SUBSET keys : s # {} => t[s] = d[SomeOf(s)] + t[s \ {SomeOf(s)}] BY <1>1 DEF IsSum
<1>5. \A s \in SUBSET keys : s # {} => SomeOf(s) \in s BY DEF SomeOf
<1> QED BY <1>2, <1>3, <1>4, <1>5 DEF Sums

\* a sum of integers is an integer, and changes by what one of them changes by
LEMMA SumChanges ==
    ASSUME NEW keys, IsFiniteSet(keys), NEW d, NEW e, NEW k \in keys,
           \A x \in keys : d[x] \in Int /\ e[x] \in Int,
           \A x \in keys : x # k => e[x] = d[x]
    PROVE  SumOf(d, keys) \in Int /\ SumOf(e, keys) = SumOf(d, keys) + e[k] - d[k]
<1>1. PICK t : Sums(t, d, keys) BY SumTable
<1>2. PICK u : Sums(u, e, keys) BY SumTable
<1> DEFINE Right(s) == t[s] \in Int /\ u[s] = IF k \in s THEN t[s] + e[k] - d[k] ELSE t[s]
           Wrong == {s \in SUBSET keys : ~ Right(s)}
<1>3. Wrong = {}
    <2> SUFFICES ASSUME Wrong # {} PROVE FALSE OBVIOUS
    <2>1. PICK s \in Wrong : \A x \in s : s \ {x} \notin Wrong
        <3>1. Wrong \subseteq SUBSET keys OBVIOUS
        <3> HIDE DEF Wrong
        <3> QED BY <3>1, SmallestSet
    <2>2. s # {}
        <3>1. Right({}) BY <1>1, <1>2 DEF Sums
        <3> QED BY <2>1, <3>1
    <2>3. PICK a : a = SomeOf(s) OBVIOUS
    <2>4. /\ a \in s /\ a \in keys /\ s \ {a} \in SUBSET keys
          /\ t[s] = d[a] + t[s \ {a}] /\ u[s] = e[a] + u[s \ {a}]
        BY <1>1, <1>2, <2>1, <2>2, <2>3 DEF Sums
    <2>5. Right(s \ {a}) BY <2>1, <2>4
    <2>6. PICK r : r = s \ {a} OBVIOUS
    <2>7. t[r] \in Int /\ (k \in r <=> k \in s /\ k # a) /\ Right(r) BY <2>5, <2>6
    <2>8. d[a] \in Int /\ e[a] \in Int /\ d[k] \in Int /\ e[k] \in Int /\ (a # k => e[a] = d[a])
        BY <2>4
    <2>9. Right(s)
        <3>1. CASE a = k BY <2>4, <2>6, <2>7, <2>8, <3>1
        <3>2. CASE a # k BY <2>4, <2>6, <2>7, <2>8, <3>2
        <3> QED BY <3>1, <3>2
    <2> QED BY <2>1, <2>9
<1>4. Right(keys) BY <1>3
<1> QED BY <1>1, <1>2, <1>4 DEF Sums

LEMMA SumIsInt ==
    ASSUME NEW keys, IsFiniteSet(keys), NEW d, \A x \in keys : d[x] \in Int
    PROVE  SumOf(d, keys) \in Int
<1>1. CASE keys = {}
    <2>1. PICK t : Sums(t, d, keys) BY SumTable
    <2> QED BY <1>1, <2>1 DEF Sums
<1>2. CASE keys # {}
    <2>1. PICK k : k \in keys BY <1>2
    <2> QED BY <2>1, SumChanges
<1> QED BY <1>1, <1>2

ApplyOne(d, w) ==
    IF w.empty THEN Restrict(d, DOMAIN d \ {w.key})
    ELSE [k \in DOMAIN d \cup {w.key} |-> IF k = w.key THEN w.value ELSE d[k]]

\* t[s] is d after the writes with the numbers in s
IsApplied(t, d, ws) ==
    t = [s \in SUBSET (DOMAIN ws) |->
            IF s = {} THEN d ELSE ApplyOne(t[s \ {Max(s)}], ws[Max(s)])]

LEMMA AppliedRead ==
    \A d, ws : ApplyWrites(d, ws) = (CHOOSE t : IsApplied(t, d, ws))[DOMAIN ws]
BY Zenon DEF ApplyWrites, IsApplied, ApplyOne, FoldLeft, MapThenFoldSet

\* the largest number of a set up to n
LEMMA MaxIn ==
    ASSUME NEW n \in Nat, NEW s \in SUBSET (1 .. n), s # {}
    PROVE  Max(s) \in s /\ \A y \in s : Max(s) >= y
<1> DEFINE T == {n - x : x \in s}
<1>1. PICK m \in T : \A l \in T : m <= l
    <2>1. \A x \in s : x \in 1 .. n /\ n - x \in Nat OBVIOUS
    <2>2. T \subseteq Nat /\ T # {} BY <2>1
    <2> HIDE DEF T
    <2> QED BY <2>2, LeastNatural
<1>2. PICK x \in s : m = n - x BY <1>1
<1>3. ASSUME NEW y \in s PROVE x >= y
    <2>1. m <= n - y BY <1>1
    <2> QED BY <1>2, <2>1
<1> QED BY <1>3 DEF Max

IsAppliedUpto(t, d, ws, n) ==
    t = [s \in Upto(DOMAIN ws, n) |->
            IF s = {} THEN d ELSE ApplyOne(t[s \ {Max(s)}], ws[Max(s)])]

LEMMA AppliedExists ==
    ASSUME NEW d, NEW ws, NEW len \in Nat, DOMAIN ws = 1 .. len
    PROVE  \E t : IsApplied(t, d, ws)
<1> DEFINE keys == DOMAIN ws
           Missing == {n \in Nat : ~ \E t : IsAppliedUpto(t, d, ws, n)}
<1>0. IsFiniteSet(keys) /\ \A s \in SUBSET keys : s # {} => Max(s) \in s
    <2>1. IsFiniteSet(keys) BY FS_Interval
    <2> QED BY <2>1, MaxIn
<1> HIDE DEF keys
<1>1. Missing = {}
    <2> SUFFICES ASSUME Missing # {} PROVE FALSE OBVIOUS
    <2>1. PICK n \in Missing : \A m \in Missing : n <= m
        <3>1. Missing \subseteq Nat OBVIOUS
        <3> HIDE DEF Missing
        <3> QED BY <3>1, LeastNatural
    <2>2. \A s \in SUBSET keys : Cardinality(s) \in Nat /\ (Cardinality(s) = 0 <=> s = {})
        BY <1>0, FS_Subset, FS_CardinalityType, FS_EmptySet
    <2>3. CASE n = 0
        <3> DEFINE t == [s \in Upto(keys, 0) |-> d]
        <3>1. \A s \in Upto(keys, 0) : s = {} BY <2>2 DEF Upto
        <3>2. IsAppliedUpto(t, d, ws, 0) BY <3>1 DEF IsAppliedUpto, keys
        <3> QED BY <2>1, <2>3, <3>2
    <2>4. CASE n # 0
        <3>1. n - 1 \in Nat /\ n - 1 \notin Missing BY <2>1, <2>4
        <3>2. PICK t : IsAppliedUpto(t, d, ws, n - 1) BY <3>1
        <3> DEFINE u == [s \in Upto(keys, n) |->
                            IF s = {} THEN d ELSE ApplyOne(t[s \ {Max(s)}], ws[Max(s)])]
        <3>3. ASSUME NEW s \in Upto(keys, n - 1) PROVE s \in Upto(keys, n) /\ u[s] = t[s]
            <4>1. s \in Upto(keys, n) BY <2>1, <2>2, <3>1 DEF Upto
            <4> QED BY <3>2, <4>1 DEF IsAppliedUpto, keys
        <3>4. ASSUME NEW s \in Upto(keys, n), s # {} PROVE s \ {Max(s)} \in Upto(keys, n - 1)
            <4>1. s \in SUBSET keys /\ Cardinality(s) <= n BY DEF Upto
            <4>2. Max(s) \in s BY <1>0, <3>4, <4>1
            <4> QED BY <1>0, <2>1, <3>4, <4>1, <4>2, WithoutOne DEF Upto
        <3>5. IsAppliedUpto(u, d, ws, n)
            <4>1. \A s \in Upto(keys, n) :
                     u[s] = IF s = {} THEN d ELSE ApplyOne(u[s \ {Max(s)}], ws[Max(s)])
                BY <3>3, <3>4
            <4>2. u = [s \in Upto(keys, n) |-> u[s]] OBVIOUS
            <4> HIDE DEF u
            <4> QED BY <4>1, <4>2 DEF IsAppliedUpto, keys
        <3> QED BY <2>1, <3>5
    <2> QED BY <2>3, <2>4
<1> DEFINE c == Cardinality(keys)
<1>2. c \in Nat BY <1>0, FS_CardinalityType
<1>3. PICK t : IsAppliedUpto(t, d, ws, c) BY <1>1, <1>2
<1>4. Upto(keys, c) = SUBSET keys BY <1>0, FS_Subset DEF Upto
<1> QED BY <1>3, <1>4 DEF IsAppliedUpto, IsApplied, keys

\* the databases that the writes of ws leave one after the other
Stages(a, d, ws, len) ==
    /\ a[0] = d
    /\ \A i \in 1 .. len : a[i] = ApplyOne(a[i - 1], ws[i])
    /\ ApplyWrites(d, ws) = a[len]

LEMMA WritesApplied ==
    ASSUME NEW d, NEW ws, NEW len \in Nat, DOMAIN ws = 1 .. len
    PROVE  \E a : Stages(a, d, ws, len)
<1> DEFINE t == CHOOSE u : IsApplied(u, d, ws)
           a == [i \in 0 .. len |-> t[1 .. i]]
<1>1. IsApplied(t, d, ws) BY AppliedExists
<1>2. ApplyWrites(d, ws) = t[1 .. len] BY AppliedRead
<1> HIDE DEF t
<1>3. a[0] = d BY <1>1 DEF IsApplied
<1>4. ASSUME NEW i \in 1 .. len PROVE a[i] = ApplyOne(a[i - 1], ws[i])
    <2>1. 1 .. i \in SUBSET (1 .. len) /\ 1 .. i # {} OBVIOUS
    <2>2. Max(1 .. i) = i
        <3>1. PICK m : m = Max(1 .. i) OBVIOUS
        <3>2. m \in 1 .. i /\ \A y \in 1 .. i : m >= y BY <2>1, <3>1, MaxIn
        <3> QED BY <3>1, <3>2
    <2>3. (1 .. i) \ {i} = 1 .. (i - 1) OBVIOUS
    <2>4. t[1 .. i] = ApplyOne(t[1 .. (i - 1)], ws[i]) BY <1>1, <2>1, <2>2, <2>3 DEF IsApplied
    <2>5. a[i] = t[1 .. i] /\ a[i - 1] = t[1 .. (i - 1)] OBVIOUS
    <2> QED BY <2>4, <2>5
<1>5. a[len] = t[1 .. len] OBVIOUS
<1> HIDE DEF a
<1> QED BY <1>2, <1>3, <1>4, <1>5 DEF Stages
-----------------------------------------------------------------------------
(* The money and the votes.                                                  *)

Ids(n) == 0 .. n - 1
LedgerKeys ==
    IF workload = "small_bank"
    THEN UNION {{Account(a), Checking(a), Savings(a)} : a \in Ids(AccountsCount)}
    ELSE {Number(k) : k \in Ids(IF workload = "voting" THEN CandidateCount ELSE RecordCount)}

IsMoney(key) == key[1] \in {"checking", "savings", "number"}

LedgerInv ==
    workload \in {"small_bank", "voting", "transfer"} =>
        /\ ledger \in [LedgerKeys -> Int]
        /\ Balance(ledger) = net
        /\ workload = "small_bank" => \A key \in LedgerKeys : key[1] = "savings" => ledger[key] >= 0

LEMMA LedgerFinite == IsFiniteSet(LedgerKeys)
<1> DEFINE numbers == Ids(IF workload = "voting" THEN CandidateCount ELSE RecordCount)
           tables == {"account", "checking", "savings"}
<1>1. \A n \in Nat : IsFiniteSet(Ids(n)) BY FS_Interval DEF Ids
<1>2. IsFiniteSet(numbers) /\ IsFiniteSet(Ids(AccountsCount)) BY <1>1, SerialAssumption
<1>3. CASE workload = "small_bank"
    <2> DEFINE T == tables \X Ids(AccountsCount)
    <2>1. IsFiniteSet(tables)
        <3>1. IsFiniteSet({"account"}) BY FS_Singleton
        <3>2. IsFiniteSet({"account"} \cup {"checking"}) BY <3>1, FS_AddElement
        <3>3. IsFiniteSet(({"account"} \cup {"checking"}) \cup {"savings"}) BY <3>2, FS_AddElement
        <3>4. ({"account"} \cup {"checking"}) \cup {"savings"} = tables OBVIOUS
        <3> QED BY <3>3, <3>4
    <2>2. IsFiniteSet(T) BY <1>2, <2>1, FS_Product
    <2>3. LedgerKeys \subseteq T BY <1>3 DEF LedgerKeys, Account, Checking, Savings
    <2> QED BY <2>2, <2>3, FS_Subset
<1>4. CASE workload # "small_bank"
    <2> DEFINE T == {"number"} \X numbers
    <2>1. IsFiniteSet(T) BY <1>2, FS_Singleton, FS_Product
    <2>2. LedgerKeys \subseteq T BY <1>4 DEF LedgerKeys, Number
    <2> QED BY <2>1, <2>2, FS_Subset
<1> QED BY <1>3, <1>4

\* a put in the writes of a transaction
Write(k, v) == [key |-> k, value |-> v, empty |-> FALSE]

\* e is d with v under key k, and its money has changed accordingly
PutTo(d, e, K, k, v) ==
    /\ e = [d EXCEPT ![k] = v]
    /\ e \in [K -> Int]
    /\ Balance(d) \in Int
    /\ Balance(e) = Balance(d) + v - d[k]

LEMMA PutMoney ==
    ASSUME NEW K, IsFiniteSet(K), NEW d \in [K -> Int], NEW k \in K, IsMoney(k), NEW v \in Int
    PROVE  PutTo(d, ApplyOne(d, Write(k, v)), K, k, v)
<1> DEFINE e == [d EXCEPT ![k] = v]
<1>1. ApplyOne(d, Write(k, v)) = e
    <2>1. PICK w : w = Write(k, v) OBVIOUS
    <2>2. w.key = k /\ w.value = v /\ ~ w.empty BY <2>1 DEF Write
    <2>3. ApplyOne(d, w) = [x \in DOMAIN d \cup {k} |-> IF x = k THEN v ELSE d[x]]
        BY <2>2 DEF ApplyOne
    <2>4. DOMAIN d \cup {k} = K OBVIOUS
    <2> QED BY <2>1, <2>3, <2>4
<1>2. MoneyKeys(d) = MoneyKeys(e) /\ k \in MoneyKeys(d) /\ MoneyKeys(d) \subseteq K
    BY DEF MoneyKeys, IsMoney
<1>3. PICK M : M = MoneyKeys(d) OBVIOUS
<1>4. IsFiniteSet(M) BY <1>2, <1>3, FS_Subset
<1>5. e \in [K -> Int] /\ e[k] = v /\ \A x \in K : x # k => e[x] = d[x] OBVIOUS
<1>6. SumOf(d, M) \in Int /\ SumOf(e, M) = SumOf(d, M) + e[k] - d[k]
    <2> HIDE DEF e
    <2> QED BY <1>2, <1>3, <1>4, <1>5, SumChanges
<1> QED BY <1>1, <1>2, <1>3, <1>5, <1>6, BalanceRead DEF PutTo

\* the writes of a transaction with few of them
LEMMA FewPuts ==
    ASSUME NEW d, NEW k, NEW v, NEW l, NEW x, NEW m, NEW y
    PROVE  /\ ApplyWrites(d, <<>>) = d
           /\ ApplyWrites(d, put(k, v)) = ApplyOne(d, Write(k, v))
           /\ ApplyWrites(d, put(k, v) \o put(l, x))
                = ApplyOne(ApplyOne(d, Write(k, v)), Write(l, x))
           /\ ApplyWrites(d, put(k, v) \o put(l, x) \o put(m, y))
                = ApplyOne(ApplyOne(ApplyOne(d, Write(k, v)), Write(l, x)), Write(m, y))
<1>1. put(k, v) = <<Write(k, v)>> /\ put(l, x) = <<Write(l, x)>> /\ put(m, y) = <<Write(m, y)>>
    BY DEF put, Write
<1>2. PICK a, b, c : a = Write(k, v) /\ b = Write(l, x) /\ c = Write(m, y) OBVIOUS
<1>3. ApplyWrites(d, <<>>) = d
    <2>1. DOMAIN <<>> = 1 .. 0 OBVIOUS
    <2>2. PICK t : Stages(t, d, <<>>, 0) BY <2>1, WritesApplied
    <2> QED BY <2>2 DEF Stages
<1>4. ApplyWrites(d, <<a>>) = ApplyOne(d, a)
    <2>1. DOMAIN <<a>> = 1 .. 1 OBVIOUS
    <2>2. PICK t : Stages(t, d, <<a>>, 1) BY <2>1, WritesApplied
    <2>3. t[0] = d /\ t[1] = ApplyOne(t[0], a) BY <2>2 DEF Stages
    <2> QED BY <2>2, <2>3 DEF Stages
<1>5. ApplyWrites(d, <<a>> \o <<b>>) = ApplyOne(ApplyOne(d, a), b)
    <2>1. PICK ws : ws = <<a>> \o <<b>> OBVIOUS
    <2>2. DOMAIN ws = 1 .. 2 /\ ws[1] = a /\ ws[2] = b BY <2>1
    <2>3. PICK t : Stages(t, d, ws, 2) BY <2>2, WritesApplied
    <2>4. t[0] = d /\ t[1] = ApplyOne(t[0], ws[1]) /\ t[2] = ApplyOne(t[1], ws[2])
        BY <2>3 DEF Stages
    <2> QED BY <2>1, <2>2, <2>3, <2>4 DEF Stages
<1>6. ApplyWrites(d, <<a>> \o <<b>> \o <<c>>) = ApplyOne(ApplyOne(ApplyOne(d, a), b), c)
    <2>1. PICK ws : ws = <<a>> \o <<b>> \o <<c>> OBVIOUS
    <2>2. DOMAIN ws = 1 .. 3 /\ ws[1] = a /\ ws[2] = b /\ ws[3] = c
        <3>1. PICK u : u = <<a>> \o <<b>> OBVIOUS
        <3>2. u \in Seq({a, b, c}) /\ Len(u) = 2 /\ u[1] = a /\ u[2] = b
            <4>1. <<a>> \in Seq({a, b, c}) /\ <<b>> \in Seq({a, b, c}) OBVIOUS
            <4> QED BY <3>1, <4>1
        <3>3. PICK z : z = <<c>> OBVIOUS
        <3>4. z \in Seq({a, b, c}) /\ Len(z) = 1 /\ z[1] = c BY <3>3
        <3>5. ws = u \o z BY <2>1, <3>1, <3>3
        <3>6. /\ u \o z \in Seq({a, b, c}) /\ Len(u \o z) = Len(u) + Len(z)
              /\ \A i \in 1 .. (Len(u) + Len(z)) :
                    (u \o z)[i] = IF i <= Len(u) THEN u[i] ELSE z[i - Len(u)]
            BY <3>2, <3>4, ConcatProperties
        <3> QED BY <3>2, <3>4, <3>5, <3>6
    <2>3. PICK t : Stages(t, d, ws, 3) BY <2>2, WritesApplied
    <2>4. /\ t[0] = d /\ t[1] = ApplyOne(t[0], ws[1]) /\ t[2] = ApplyOne(t[1], ws[2])
          /\ t[3] = ApplyOne(t[2], ws[3])
        BY <2>3 DEF Stages
    <2> QED BY <2>1, <2>2, <2>3, <2>4 DEF Stages
<1> QED BY <1>1, <1>2, <1>3, <1>4, <1>5, <1>6

\* what a transaction that commits leaves: the database after its writes keeps the
\* rows, its money changes by delta, and no savings row gets below zero
Moves(d, e, K, delta) ==
    /\ e \in [K -> Int]
    /\ Balance(e) = Balance(d) + delta
    /\ \A key \in K : key[1] = "savings" /\ d[key] >= 0 => e[key] >= 0

MayPut(K, k, v) == k \in K /\ IsMoney(k) /\ v \in Int /\ (k[1] = "savings" => v >= 0)

LEMMA MovesOne ==
    ASSUME NEW K, IsFiniteSet(K), NEW d \in [K -> Int], NEW k, NEW v, MayPut(K, k, v)
    PROVE  /\ Moves(d, ApplyWrites(d, put(k, v)), K, v - d[k])
           /\ PutTo(d, ApplyWrites(d, put(k, v)), K, k, v)
<1>1. PICK e : e = ApplyWrites(d, put(k, v)) OBVIOUS
<1>2. e = ApplyOne(d, Write(k, v)) BY <1>1, FewPuts
<1>3. PutTo(d, e, K, k, v) BY <1>2, PutMoney DEF MayPut
<1>4. d[k] \in Int /\ v \in Int /\ (k[1] = "savings" => v >= 0) BY DEF MayPut
<1>5. Balance(e) = Balance(d) + (v - d[k]) BY <1>3, <1>4 DEF PutTo
<1>6. \A key \in K : key[1] = "savings" /\ d[key] >= 0 => e[key] >= 0 BY <1>3, <1>4 DEF PutTo
<1> QED BY <1>1, <1>3, <1>5, <1>6 DEF Moves, PutTo

LEMMA MovesTwo ==
    ASSUME NEW K, IsFiniteSet(K), NEW d \in [K -> Int], NEW k, NEW v, MayPut(K, k, v),
           NEW l, NEW x, MayPut(K, l, x), k # l
    PROVE  Moves(d, ApplyWrites(d, put(k, v) \o put(l, x)), K, v - d[k] + x - d[l])
<1>1. PICK e : e = ApplyWrites(d, put(k, v)) OBVIOUS
<1>2. PICK f : f = ApplyWrites(e, put(l, x)) OBVIOUS
<1>3. e = ApplyOne(d, Write(k, v)) /\ f = ApplyOne(e, Write(l, x)) BY <1>1, <1>2, FewPuts
<1>4. ApplyWrites(d, put(k, v) \o put(l, x)) = f BY <1>3, FewPuts
<1>5. Moves(d, e, K, v - d[k]) /\ PutTo(d, e, K, k, v) BY <1>1, MovesOne
<1>6. e \in [K -> Int] /\ e[l] = d[l] /\ d[l] \in Int BY <1>5 DEF PutTo, MayPut
<1>7. Moves(e, f, K, x - e[l]) BY <1>2, <1>6, MovesOne
<1>8. Balance(d) \in Int /\ d[k] \in Int /\ v \in Int /\ x \in Int BY <1>5 DEF PutTo, MayPut
<1>9. Balance(f) = Balance(d) + (v - d[k] + x - d[l])
    <2>1. Balance(f) = Balance(e) + (x - e[l]) /\ Balance(e) = Balance(d) + (v - d[k])
        BY <1>5, <1>7 DEF Moves
    <2> QED BY <1>6, <1>8, <2>1
<1> QED BY <1>4, <1>5, <1>7, <1>9 DEF Moves

LEMMA MovesThree ==
    ASSUME NEW K, IsFiniteSet(K), NEW d \in [K -> Int], NEW k, NEW v, MayPut(K, k, v),
           NEW l, NEW x, MayPut(K, l, x), NEW m, NEW y, MayPut(K, m, y), k # l, k # m, l # m
    PROVE  Moves(d, ApplyWrites(d, put(k, v) \o put(l, x) \o put(m, y)), K,
                 v - d[k] + x - d[l] + y - d[m])
<1>1. PICK e : e = ApplyWrites(d, put(k, v)) OBVIOUS
<1>2. PICK f : f = ApplyWrites(e, put(l, x) \o put(m, y)) OBVIOUS
<1>3. e = ApplyOne(d, Write(k, v)) /\ f = ApplyOne(ApplyOne(e, Write(l, x)), Write(m, y))
    BY <1>1, <1>2, FewPuts
<1>4. ApplyWrites(d, put(k, v) \o put(l, x) \o put(m, y)) = f BY <1>3, FewPuts
<1>5. Moves(d, e, K, v - d[k]) /\ PutTo(d, e, K, k, v) BY <1>1, MovesOne
<1>6. /\ e \in [K -> Int] /\ e[l] = d[l] /\ d[l] \in Int
      /\ e[m] = d[m] /\ d[m] \in Int
    BY <1>5 DEF PutTo, MayPut
<1>7. Moves(e, f, K, x - e[l] + y - e[m]) BY <1>2, <1>6, MovesTwo
<1>8. /\ Balance(d) \in Int /\ d[k] \in Int /\ v \in Int /\ x \in Int
      /\ y \in Int
    BY <1>5 DEF PutTo, MayPut
<1>9. Balance(f) = Balance(d) + (v - d[k] + x - d[l] + y - d[m])
    <2>1. /\ Balance(f) = Balance(e) + (x - e[l] + y - e[m])
          /\ Balance(e) = Balance(d) + (v - d[k])
        BY <1>5, <1>7 DEF Moves
    <2> QED BY <1>6, <1>8, <2>1
<1> QED BY <1>4, <1>5, <1>7, <1>9 DEF Moves

\* Every chaincode that keeps money or votes, on the requests of its workload: if
\* it commits, the money changes by what the client put in.
LedgerStep(r, K) ==
    LET out == NewChaincodeByName(ledger, r)
    IN  out.ret = 0 => Moves(ledger, ApplyWrites(ledger, out.writes), K, Deposited(r))

LEMMA Requires ==
    ASSUME NEW d, NEW keys, NEW ws, NEW out, out = Require(d, keys, ws), out.ret = 0
    PROVE  keys \subseteq DOMAIN d /\ out.writes = ws
BY DEF Require, Success, Failure, get

LEMMA VoteStep ==
    ASSUME NEW K, IsFiniteSet(K), ledger \in [K -> Int], Balance(ledger) \in Int,
           NEW r \in CrdtWorkload
    PROVE  LedgerStep(r, K)
<1>1. PICK out : out = NewChaincodeByName(ledger, r) OBVIOUS
<1>2. r.cc = "voting" BY DEF CrdtWorkload, doVoteCandidate, doGetCandidate
<1>3. out = SimpleVote(ledger, r) BY <1>1, <1>2 DEF NewChaincodeByName
<1> SUFFICES ASSUME out.ret = 0
             PROVE  Moves(ledger, ApplyWrites(ledger, out.writes), K, Deposited(r))
    BY <1>1 DEF LedgerStep
<1>4. CASE r.func = "get"
    <2>1. out = Require(ledger, {Number(r.key)}, <<>>) BY <1>3, <1>4 DEF SimpleVote, Get
    <2>2. out.writes = <<>> BY <2>1, Requires
    <2>3. ApplyWrites(ledger, out.writes) = ledger BY <2>2, FewPuts
    <2>4. Deposited(r) = 0 BY <1>2, <1>4 DEF Deposited
    <2> QED BY <2>3, <2>4 DEF Moves
<1>5. CASE r.func = "vote"
    <2>1. PICK k : k = Number(r.key) OBVIOUS
    <2>2. PICK v : v = ledger[k] + r.count OBVIOUS
    <2>3. out = Require(ledger, {k}, put(k, v))
        BY <1>3, <1>5, <2>1, <2>2 DEF SimpleVote, Vote
    <2>4. k \in K /\ out.writes = put(k, v) BY <2>3, Requires
    <2>5. r.count \in Int
        <3>1. r \in doVoteCandidate BY <1>5 DEF CrdtWorkload, doGetCandidate
        <3>2. r.count \in Votes BY <3>1 DEF doVoteCandidate
        <3>3. Votes \subseteq Nat BY SerialAssumption
        <3>4. PICK c : c = r.count OBVIOUS
        <3>5. c \in Nat BY <3>2, <3>3, <3>4
        <3> QED BY <3>4, <3>5
    <2>6. MayPut(K, k, v) BY <2>1, <2>2, <2>4, <2>5 DEF MayPut, IsMoney, Number
    <2>7. Moves(ledger, ApplyWrites(ledger, out.writes), K, v - ledger[k])
        BY <2>4, <2>6, MovesOne
    <2>8. v - ledger[k] = r.count BY <2>2, <2>4, <2>5
    <2>9. Deposited(r) = r.count BY <1>2, <1>5 DEF Deposited
    <2> QED BY <2>7, <2>8, <2>9
<1> QED BY <1>4, <1>5 DEF CrdtWorkload, doVoteCandidate, doGetCandidate

LEMMA TransferStep ==
    ASSUME NEW K, IsFiniteSet(K), ledger \in [K -> Int], Balance(ledger) \in Int,
           NEW r \in Transfers
    PROVE  LedgerStep(r, K)
<1>1. PICK out : out = NewChaincodeByName(ledger, r) OBVIOUS
<1>2. r.cc = "transfer" BY DEF Transfers
<1>3. out = SimpleTransfer(ledger, r) BY <1>1, <1>2 DEF NewChaincodeByName
<1>4. Deposited(r) = 0 BY <1>2 DEF Deposited
<1> SUFFICES ASSUME out.ret = 0
             PROVE  Moves(ledger, ApplyWrites(ledger, out.writes), K, 0)
    BY <1>1, <1>4 DEF LedgerStep
<1>5. CASE r.from = r.to
    <2>1. out.writes = <<>> BY <1>3, <1>5 DEF SimpleTransfer, Success
    <2>2. ApplyWrites(ledger, out.writes) = ledger BY <2>1, FewPuts
    <2> QED BY <2>2 DEF Moves
<1>6. CASE r.from # r.to
    <2>1. PICK k, l : k = Number(r.from) /\ l = Number(r.to) OBVIOUS
    <2>2. PICK v, x : v = ledger[k] - 100 /\ x = ledger[l] + 100 OBVIOUS
    <2>3. out = Require(ledger, {k, l}, put(k, v) \o put(l, x))
        BY <1>3, <1>6, <2>1, <2>2 DEF SimpleTransfer
    <2>4. k \in K /\ l \in K /\ out.writes = put(k, v) \o put(l, x)
        <3>1. PICK ws : ws = put(k, v) \o put(l, x) OBVIOUS
        <3>2. out = Require(ledger, {k, l}, ws) BY <2>3, <3>1
        <3>3. k \in K /\ l \in K /\ out.writes = ws BY <3>2 DEF Require, Success, Failure, get
        <3> QED BY <3>1, <3>3
    <2>5. k # l BY <1>6, <2>1 DEF Number
    <2>6. MayPut(K, k, v) /\ MayPut(K, l, x) BY <2>1, <2>2, <2>4 DEF MayPut, IsMoney, Number
    <2>7. Moves(ledger, ApplyWrites(ledger, out.writes), K, v - ledger[k] + x - ledger[l])
        BY <2>4, <2>5, <2>6, MovesTwo
    <2>8. v - ledger[k] + x - ledger[l] = 0 BY <2>2, <2>4
    <2> QED BY <2>7, <2>8
<1> QED BY <1>5, <1>6

\* what a small bank request looks like
LEMMA BankRequests ==
    ASSUME NEW r \in SmallBankWorkload
    PROVE  /\ r.cc = "small_bank"
           /\ r.func \in {"balance", "deposit_checking", "transact_saving", "write_check", "amalgamate"}
           /\ r.func \in {"balance", "deposit_checking", "transact_saving", "write_check"} =>
                r.amount \in Nat
           /\ r.func = "amalgamate" => r.acc # r.to
<1>1. CASE r \in doAmalgamate
    <2>1. PICK p \in generateTwoAccount :
            r = [cc |-> "small_bank", func |-> "amalgamate", acc |-> p[1], to |-> p[2]]
        BY <1>1 DEF doAmalgamate
    <2>2. p[1] # p[2] BY DEF generateTwoAccount
    <2> QED BY <2>1, <2>2
<1>2. CASE r \in doBalance \cup doDepositChecking \cup doTransactSaving \cup doWriteCheck
    BY <1>2 DEF doBalance, doDepositChecking, doTransactSaving, doWriteCheck, Bank
<1> QED BY <1>1, <1>2 DEF SmallBankWorkload

LEMMA BankStep ==
    ASSUME NEW K, IsFiniteSet(K), ledger \in [K -> Int], Balance(ledger) \in Int,
           NEW r \in SmallBankWorkload,
           \A key \in K : key[1] = "savings" => ledger[key] >= 0
    PROVE  LedgerStep(r, K)
<1>1. PICK out : out = NewChaincodeByName(ledger, r) OBVIOUS
<1>2. /\ r.cc = "small_bank"
      /\ r.func \in {"balance", "deposit_checking", "transact_saving", "write_check", "amalgamate"}
    BY BankRequests
<1>3. out = SmallBank(ledger, r) BY <1>1, <1>2 DEF NewChaincodeByName
<1> SUFFICES ASSUME out.ret = 0
             PROVE  Moves(ledger, ApplyWrites(ledger, out.writes), K, Deposited(r))
    BY <1>1 DEF LedgerStep
<1>4. PICK acc, chk, sav : acc = Account(r.acc) /\ chk = Checking(r.acc) /\ sav = Savings(r.acc)
    OBVIOUS
<1>5. IsMoney(chk) /\ IsMoney(sav) /\ chk[1] # "savings" /\ sav[1] = "savings" /\ chk # sav
    BY <1>4 DEF IsMoney, Checking, Savings
<1>6. CASE r.func = "balance"
    <2>1. out = Require(ledger, {acc, sav, chk}, <<>>)
        BY <1>3, <1>4, <1>6 DEF SmallBank, balance
    <2>2. out.writes = <<>> BY <2>1, Requires
    <2>3. ApplyWrites(ledger, out.writes) = ledger BY <2>2, FewPuts
    <2>4. Deposited(r) = 0 BY <1>2, <1>6 DEF Deposited
    <2> QED BY <2>3, <2>4 DEF Moves
<1>7. CASE r.func = "deposit_checking"
    <2>1. PICK v : v = ledger[chk] + r.amount OBVIOUS
    <2>2. r.amount \in Int /\ ~ (r.amount < 0) BY <1>7, BankRequests
    <2>3. out = Require(ledger, {acc, chk}, put(chk, v))
        BY <1>3, <1>4, <1>7, <2>1, <2>2 DEF SmallBank, depositChecking
    <2>4. chk \in K /\ out.writes = put(chk, v) BY <2>3, Requires
    <2>5. MayPut(K, chk, v) BY <1>5, <2>1, <2>2, <2>4 DEF MayPut
    <2>6. Moves(ledger, ApplyWrites(ledger, out.writes), K, v - ledger[chk])
        BY <2>4, <2>5, MovesOne
    <2>7. v - ledger[chk] = r.amount BY <2>1, <2>2, <2>4
    <2>8. Deposited(r) = r.amount BY <1>2, <1>7 DEF Deposited
    <2> QED BY <2>6, <2>7, <2>8
<1>8. CASE r.func = "transact_saving"
    <2>1. PICK v : v = ledger[sav] + r.amount OBVIOUS
    <2>2. r.amount \in Int BY <1>8, BankRequests
    <2>3. out = transactSavings(ledger, r) BY <1>3, <1>8 DEF SmallBank
    <2>4. sav \in K /\ ~ (v < 0) /\ out.writes = put(sav, v)
        BY <1>4, <2>1, <2>3 DEF transactSavings, get, Success, Failure
    <2>5. MayPut(K, sav, v) BY <1>5, <2>1, <2>2, <2>4 DEF MayPut
    <2>6. Moves(ledger, ApplyWrites(ledger, out.writes), K, v - ledger[sav])
        BY <2>4, <2>5, MovesOne
    <2>7. v - ledger[sav] = r.amount BY <2>1, <2>2, <2>4
    <2>8. Deposited(r) = r.amount BY <1>2, <1>8 DEF Deposited
    <2> QED BY <2>6, <2>7, <2>8
<1>9. CASE r.func = "write_check"
    <2>1. PICK paid : paid = IF ledger[chk] + ledger[sav] < r.amount THEN r.amount + 10 ELSE r.amount
        OBVIOUS
    <2>2. PICK v : v = ledger[chk] - paid OBVIOUS
    <2>3. r.amount \in Int BY <1>9, BankRequests
    <2>4. out = Require(ledger, {acc, sav, chk}, put(chk, v))
        BY <1>3, <1>4, <1>9, <2>1, <2>2 DEF SmallBank, writeCheck, Penalty
    <2>5. chk \in K /\ sav \in K /\ out.writes = put(chk, v) BY <2>4, Requires
    <2>6. paid \in Int BY <2>1, <2>3
    <2>7. MayPut(K, chk, v) BY <1>5, <2>2, <2>5, <2>6 DEF MayPut
    <2>8. Moves(ledger, ApplyWrites(ledger, out.writes), K, v - ledger[chk])
        BY <2>5, <2>7, MovesOne
    <2>9. v - ledger[chk] = - paid BY <2>2, <2>5, <2>6
    <2>10. Deposited(r) = - paid
        <3>1. Deposited(r) = IF ledger[chk] + ledger[sav] < r.amount
                               THEN - r.amount - 10 ELSE - r.amount
            BY <1>2, <1>4, <1>9 DEF Deposited, Penalty
        <3> QED BY <2>1, <2>3, <3>1
    <2> QED BY <2>8, <2>9, <2>10
<1>10. CASE r.func = "amalgamate"
    <2>1. PICK to, other : to = Checking(r.to) /\ other = Account(r.to) OBVIOUS
    <2>2. PICK v : v = ledger[to] + ledger[sav] + ledger[chk] OBVIOUS
    <2>3. PICK ws : ws = put(sav, 0) \o put(chk, 0) \o put(to, v) OBVIOUS
    <2>a. out = Require(ledger, {acc, other, sav, chk, to}, ws)
        BY <1>3, <1>4, <1>10, <2>1, <2>2, <2>3 DEF SmallBank, amalgamate
    <2>4. sav \in K /\ chk \in K /\ to \in K /\ out.writes = ws BY <2>a, Requires
    <2>5. to # chk /\ to # sav /\ IsMoney(to) /\ to[1] # "savings"
        BY <1>4, <1>10, <2>1, BankRequests DEF IsMoney, Checking, Savings
    <2>6. ledger[to] \in Int /\ ledger[sav] \in Int /\ ledger[chk] \in Int BY <2>4
    <2>7. MayPut(K, sav, 0) /\ MayPut(K, chk, 0) /\ MayPut(K, to, v)
        BY <1>5, <2>2, <2>4, <2>5, <2>6 DEF MayPut
    <2>8. Moves(ledger, ApplyWrites(ledger, out.writes), K,
                0 - ledger[sav] + 0 - ledger[chk] + v - ledger[to])
        BY <1>5, <2>3, <2>4, <2>5, <2>7, MovesThree
    <2>9. 0 - ledger[sav] + 0 - ledger[chk] + v - ledger[to] = 0 BY <2>2, <2>6
    <2>10. Deposited(r) = 0 BY <1>2, <1>10 DEF Deposited
    <2> QED BY <2>8, <2>9, <2>10
<1> QED BY <1>2, <1>6, <1>7, <1>8, <1>9, <1>10

LEMMA LedgerInit == ASSUME SerialInit PROVE LedgerInv
<1> SUFFICES ASSUME workload \in {"small_bank", "voting", "transfer"}
             PROVE  /\ ledger \in [LedgerKeys -> Int]
                    /\ Balance(ledger) = net
                    /\ workload = "small_bank" =>
                         \A key \in LedgerKeys : key[1] = "savings" => ledger[key] >= 0
    BY DEF LedgerInv
<1>1. ledger \in InitDatabase(workload) /\ Balance(ledger) = net BY DEF SerialInit
<1>2. CASE workload = "small_bank"
    <2>1. PICK b \in Balances : ledger = SmallBankInit(b) BY <1>1, <1>2 DEF InitDatabase
    <2>2. b \in Nat BY SerialAssumption
    <2>3. ledger = [key \in LedgerKeys |-> IF key[1] = "account" THEN 0 ELSE b]
        BY <1>2, <2>1 DEF SmallBankInit, LedgerKeys, Ids
    <2> QED BY <1>1, <2>2, <2>3
<1>3. CASE workload = "voting"
    <2>1. ledger = [key \in LedgerKeys |-> 0]
        BY <1>1, <1>3 DEF InitDatabase, VoteInit, LedgerKeys, Ids
    <2> QED BY <1>1, <1>3, <2>1
<1>4. CASE workload = "transfer"
    <2>1. ledger = [key \in LedgerKeys |-> 0]
        BY <1>1, <1>4 DEF InitDatabase, initDatabase, LedgerKeys, Ids
    <2> QED BY <1>1, <1>4, <2>1
<1> QED BY <1>2, <1>3, <1>4

LEMMA LedgerNext == ASSUME LedgerInv, [SerialNext]_serialVars PROVE LedgerInv'
<1>1. CASE UNCHANGED serialVars
    <2>1. UNCHANGED <<workload, ledger, net>> BY <1>1 DEF serialVars
    <2>2. Balance(ledger)' = Balance(ledger')
        BY DEF Balance, MapThenSumSet, MapThenFoldSet
    <2>3. LedgerKeys' = LedgerKeys BY <2>1 DEF LedgerKeys
    <2> QED BY <2>1, <2>2, <2>3 DEF LedgerInv
<1>2. ASSUME NEW r \in Requests, ExecuteTransaction(r) PROVE LedgerInv'
    <2> SUFFICES ASSUME workload \in {"small_bank", "voting", "transfer"}
                 PROVE  LedgerInv'
        BY <1>2 DEF LedgerInv, ExecuteTransaction
    <2>1. PICK K : K = LedgerKeys OBVIOUS
    <2>2. /\ IsFiniteSet(K) /\ ledger \in [K -> Int] /\ Balance(ledger) = net
          /\ workload = "small_bank" => \A key \in K : key[1] = "savings" => ledger[key] >= 0
        BY <2>1, LedgerFinite DEF LedgerInv
    <2>3. Balance(ledger) \in Int
        <3>1. MoneyKeys(ledger) \subseteq K BY <2>2 DEF MoneyKeys
        <3>2. PICK M : M = MoneyKeys(ledger) OBVIOUS
        <3>3. IsFiniteSet(M) /\ \A x \in M : ledger[x] \in Int BY <2>2, <3>1, <3>2, FS_Subset
        <3> QED BY <3>2, <3>3, SumIsInt, BalanceRead
    <2>4. LedgerStep(r, K)
        <3>1. CASE workload = "small_bank"
            <4>1. r \in SmallBankWorkload BY <1>2, <3>1 DEF Requests
            <4> QED BY <2>2, <2>3, <3>1, <4>1, BankStep
        <3>2. CASE workload = "voting"
            <4>1. r \in CrdtWorkload BY <1>2, <3>2 DEF Requests
            <4> QED BY <2>2, <2>3, <4>1, VoteStep
        <3>3. CASE workload = "transfer"
            <4>1. r \in Transfers BY <1>2, <3>3 DEF Requests
            <4> QED BY <2>2, <2>3, <4>1, TransferStep
        <3> QED BY <3>1, <3>2, <3>3
    <2>5. PICK out : out = NewChaincodeByName(ledger, r) OBVIOUS
    <2>6. PICK e : e = ApplyWrites(ledger, out.writes) OBVIOUS
    <2>7. /\ workload' = workload
          /\ out.ret = 0 => ledger' = e /\ net' = net + Deposited(r)
          /\ out.ret # 0 => ledger' = ledger /\ net' = net
        BY <1>2, <2>5, <2>6 DEF ExecuteTransaction
    <2>8. LedgerKeys' = K BY <2>1, <2>7 DEF LedgerKeys
    <2>9. Balance(ledger)' = Balance(ledger')
        BY DEF Balance, MapThenSumSet, MapThenFoldSet
    <2>10. CASE out.ret = 0
        <3>1. Moves(ledger, e, K, Deposited(r)) BY <2>4, <2>5, <2>6, <2>10 DEF LedgerStep
        <3>2. ledger' \in [K -> Int] /\ Balance(ledger') = net' BY <2>2, <2>7, <2>10, <3>1 DEF Moves
        <3>3. workload = "small_bank" => \A key \in K : key[1] = "savings" => ledger'[key] >= 0
            BY <2>2, <2>7, <2>10, <3>1 DEF Moves
        <3> QED BY <2>7, <2>8, <2>9, <3>2, <3>3 DEF LedgerInv
    <2>11. CASE out.ret # 0
        <3>1. ledger' = ledger /\ net' = net BY <2>7, <2>11
        <3> QED BY <2>2, <2>7, <2>8, <2>9, <3>1 DEF LedgerInv
    <2> QED BY <2>10, <2>11
<1>3. CASE Done BY <1>1, <1>3 DEF Done
<1> QED BY <1>1, <1>2, <1>3 DEF SerialNext

\* For any number of accounts, candidates and transactions, the chaincodes of the
\* small bank, of voting and of transfer neither make nor lose money or votes:
\* the rows sum up to what was loaded and what clients put in, amalgamations
\* between two accounts and transfers included, and no savings account is
\* overdrawn.
THEOREM LedgerAlwaysBalanced == SerialSpec => []LedgerBalanced
<1>1. SerialInit => LedgerInv BY LedgerInit
<1>2. LedgerInv /\ [SerialNext]_serialVars => LedgerInv' BY LedgerNext
<1>3. LedgerInv => LedgerBalanced BY DEF LedgerInv, LedgerBalanced
<1> QED BY <1>1, <1>2, <1>3, PTL DEF SerialSpec

-----------------------------------------------------------------------------
(* More about sums.                                                          *)

\* sums of the same values over a set and a larger one agree
LEMMA SumsAgree ==
    ASSUME NEW P, NEW Q, IsFiniteSet(Q), P \subseteq Q, NEW d, NEW e, \A x \in P : d[x] = e[x],
           NEW t, NEW u, Sums(t, d, P), Sums(u, e, Q)
    PROVE  \A s \in SUBSET P : t[s] = u[s]
<1> DEFINE Wrong == {s \in SUBSET P : t[s] # u[s]}
<1> SUFFICES ASSUME Wrong # {} PROVE FALSE OBVIOUS
<1>1. IsFiniteSet(P) BY FS_Subset
<1>2. PICK s \in Wrong : \A x \in s : s \ {x} \notin Wrong
    <2>1. Wrong \subseteq SUBSET P OBVIOUS
    <2> HIDE DEF Wrong
    <2> QED BY <1>1, <2>1, SmallestSet
<1>3. s # {} BY <1>2 DEF Sums
<1>4. PICK a : a = SomeOf(s) OBVIOUS
<1>5. a \in s /\ t[s] = d[a] + t[s \ {a}] /\ u[s] = e[a] + u[s \ {a}]
    BY <1>2, <1>3, <1>4 DEF Sums
<1>6. t[s \ {a}] = u[s \ {a}] BY <1>2, <1>5
<1> QED BY <1>2, <1>5, <1>6

\* the order of the elements does not matter
LEMMA AnyOrder ==
    ASSUME NEW P, IsFiniteSet(P), NEW d, \A x \in P : d[x] \in Int, NEW t, Sums(t, d, P)
    PROVE  \A s \in SUBSET P : t[s] \in Int /\ \A x \in s : t[s] = d[x] + t[s \ {x}]
<1>1. \A s \in SUBSET P : t[s] \in Int
    <2> DEFINE Wrong == {s \in SUBSET P : t[s] \notin Int}
    <2> SUFFICES ASSUME Wrong # {} PROVE FALSE OBVIOUS
    <2>1. PICK s \in Wrong : \A x \in s : s \ {x} \notin Wrong
        <3>1. Wrong \subseteq SUBSET P OBVIOUS
        <3> HIDE DEF Wrong
        <3> QED BY <3>1, SmallestSet
    <2>2. s # {} BY <2>1 DEF Sums
    <2>3. PICK a : a = SomeOf(s) OBVIOUS
    <2>4. a \in s /\ a \in P /\ t[s] = d[a] + t[s \ {a}] BY <2>1, <2>2, <2>3 DEF Sums
    <2>5. t[s \ {a}] \in Int BY <2>1, <2>4
    <2> QED BY <2>1, <2>4, <2>5
<1>2. \A s \in SUBSET P : \A x \in s : t[s] = d[x] + t[s \ {x}]
    <2> DEFINE Right(s) == \A x \in s : t[s] = d[x] + t[s \ {x}]
               Wrong == {s \in SUBSET P : ~ Right(s)}
    <2> SUFFICES ASSUME Wrong # {} PROVE FALSE OBVIOUS
    <2>1. PICK s \in Wrong : \A x \in s : s \ {x} \notin Wrong
        <3>1. Wrong \subseteq SUBSET P OBVIOUS
        <3> HIDE DEF Wrong
        <3> QED BY <3>1, SmallestSet
    <2>2. PICK x \in s : t[s] # d[x] + t[s \ {x}] BY <2>1
    <2>3. PICK a : a = SomeOf(s) OBVIOUS
    <2>4. a \in s /\ a \in P /\ t[s] = d[a] + t[s \ {a}] BY <2>1, <2>2, <2>3 DEF Sums
    <2>5. x # a BY <2>2, <2>4
    <2>6. PICK p, q, b : p = s \ {a} /\ q = s \ {x} /\ b = (s \ {a}) \ {x} OBVIOUS
    <2>7. x \in p /\ a \in q /\ p \ {x} = b /\ q \ {a} = b /\ b \in SUBSET P BY <2>1, <2>4, <2>5, <2>6
    <2>8. Right(p) /\ Right(q) BY <2>1, <2>2, <2>4, <2>6
    <2>9. t[p] = d[x] + t[b] /\ t[q] = d[a] + t[b] BY <2>7, <2>8
    <2>10. t[b] \in Int /\ d[x] \in Int /\ d[a] \in Int /\ t[s] = d[a] + t[p] /\ t[s] # d[x] + t[q]
        BY <1>1, <2>1, <2>2, <2>4, <2>6, <2>7
    <2> QED BY <2>9, <2>10
<1> QED BY <1>1, <1>2

\* one more number
LEMMA SumAdds ==
    ASSUME NEW P, IsFiniteSet(P), NEW k, k \notin P, NEW Q, Q = P \cup {k}, NEW d, NEW e,
           \A x \in P : d[x] \in Int /\ e[x] = d[x], NEW n \in Int, e[k] = n
    PROVE  SumOf(d, P) \in Int /\ SumOf(e, Q) = SumOf(d, P) + n
<1>1. Q = P \cup {k} OBVIOUS
<1>2. IsFiniteSet(Q) /\ P \subseteq Q /\ k \in Q /\ Q \ {k} = P BY <1>1, FS_AddElement
<1>3. PICK t : Sums(t, d, P) BY SumTable
<1>4. PICK u : Sums(u, e, Q) BY <1>2, SumTable
<1>5. \A x \in Q : e[x] \in Int BY <1>1
<1>6. u[Q] = e[k] + u[P] /\ u[P] \in Int
    <2>1. \A s \in SUBSET Q : u[s] \in Int /\ \A x \in s : u[s] = e[x] + u[s \ {x}]
        BY <1>2, <1>4, <1>5, AnyOrder
    <2>2. Q \in SUBSET Q /\ P \in SUBSET Q BY <1>2
    <2>3. u[Q] = e[k] + u[Q \ {k}] BY <1>2, <2>1, <2>2
    <2>4. u[P] \in Int BY <2>1, <2>2
    <2>5. u[Q \ {k}] = u[P] BY <1>2
    <2> QED BY <2>3, <2>4, <2>5
<1>7. t[P] = u[P]
    <2>1. \A x \in P : d[x] = e[x] OBVIOUS
    <2>2. \A s \in SUBSET P : t[s] = u[s] BY <1>2, <1>3, <1>4, <2>1, SumsAgree
    <2> QED BY <2>2
<1>8. SumOf(d, P) = t[P] /\ SumOf(e, Q) = u[Q] BY <1>3, <1>4 DEF Sums
<1> QED BY <1>6, <1>7, <1>8

\* the same numbers, or only zeros
LEMMA SumSame ==
    ASSUME NEW P, IsFiniteSet(P), NEW d, NEW e, \A x \in P : d[x] \in Int /\ e[x] = d[x]
    PROVE  SumOf(d, P) = SumOf(e, P)
<1>1. CASE P = {}
    <2>1. PICK t : Sums(t, d, P) BY SumTable
    <2>2. PICK u : Sums(u, e, P) BY SumTable
    <2> QED BY <1>1, <2>1, <2>2 DEF Sums
<1>2. CASE P # {}
    <2>1. PICK k : k \in P BY <1>2
    <2>2. SumOf(d, P) \in Int /\ SumOf(e, P) = SumOf(d, P) + e[k] - d[k] BY <2>1, SumChanges
    <2> QED BY <2>1, <2>2
<1> QED BY <1>1, <1>2

LEMMA SumZero ==
    ASSUME NEW P, IsFiniteSet(P), NEW d, \A x \in P : d[x] = 0
    PROVE  SumOf(d, P) = 0
<1>1. PICK t : Sums(t, d, P) BY SumTable
<1> DEFINE Wrong == {s \in SUBSET P : t[s] # 0}
<1>2. Wrong = {}
    <2> SUFFICES ASSUME Wrong # {} PROVE FALSE OBVIOUS
    <2>1. PICK s \in Wrong : \A x \in s : s \ {x} \notin Wrong
        <3>1. Wrong \subseteq SUBSET P OBVIOUS
        <3> HIDE DEF Wrong
        <3> QED BY <3>1, SmallestSet
    <2>2. s # {} BY <1>1, <2>1 DEF Sums
    <2>3. PICK a : a = SomeOf(s) OBVIOUS
    <2>4. a \in s /\ a \in P /\ t[s] = d[a] + t[s \ {a}] BY <1>1, <2>1, <2>2, <2>3 DEF Sums
    <2>5. t[s \ {a}] = 0 /\ d[a] = 0 BY <2>1, <2>4
    <2> QED BY <2>1, <2>4, <2>5
<1> QED BY <1>1, <1>2 DEF Sums

-----------------------------------------------------------------------------
(* The writes of one transaction, when a key determines the write to it.     *)

Keyed(W) == \A v, w \in W : v.empty \in BOOLEAN /\ (v.key = w.key => v = w)

\* e is d after the writes W
HasWritten(d, e, W) ==
    /\ \A k : k \in DOMAIN e <=> \/ k \in DOMAIN d /\ \A w \in W : w.key = k => ~ w.empty
                                 \/ \E w \in W : w.key = k /\ ~ w.empty
    /\ \A w \in W : ~ w.empty => e[w.key] = w.value
    /\ \A k \in DOMAIN d : (\A w \in W : w.key # k) => e[k] = d[k]

LEMMA WriteOne ==
    ASSUME NEW d, NEW e, NEW f, NEW W, NEW w, HasWritten(d, e, W), f = ApplyOne(e, w), Keyed(W \cup {w})
    PROVE  HasWritten(d, f, W \cup {w})
<1>1. CASE w.empty
    <2>1. f = [k \in (DOMAIN e) \ {w.key} |-> e[k]]
        BY <1>1 DEF ApplyOne, Restrict
    <2>2. \A k : k \in DOMAIN f <=> k \in DOMAIN e /\ k # w.key BY <2>1
    <2>3. \A k \in DOMAIN e : k # w.key => f[k] = e[k] BY <2>1
    <2> HIDE <2>1
    <2>4. ASSUME NEW k
          PROVE  k \in DOMAIN f <=> \/ k \in DOMAIN d /\ \A x \in W \cup {w} : x.key = k => ~ x.empty
                                    \/ \E x \in W \cup {w} : x.key = k /\ ~ x.empty
        BY <1>1, <2>2 DEF HasWritten, Keyed
    <2>5. ASSUME NEW x \in W \cup {w}, ~ x.empty PROVE f[x.key] = x.value
        <3>1. x \in W /\ x.key # w.key BY <1>1, <2>5 DEF Keyed
        <3>2. x.key \in DOMAIN e BY <2>5, <3>1 DEF HasWritten
        <3> QED BY <2>3, <2>5, <3>1, <3>2 DEF HasWritten
    <2>6. ASSUME NEW k \in DOMAIN d, \A x \in W \cup {w} : x.key # k PROVE f[k] = d[k]
        BY <2>3, <2>6 DEF HasWritten
    <2> QED BY <2>4, <2>5, <2>6 DEF HasWritten
<1>2. CASE ~ w.empty
    <2>1. f = [k \in DOMAIN e \cup {w.key} |-> IF k = w.key THEN w.value ELSE e[k]]
        BY <1>2 DEF ApplyOne
    <2>2. \A k : k \in DOMAIN f <=> k \in DOMAIN e \/ k = w.key BY <2>1
    <2>3. f[w.key] = w.value /\ \A k \in DOMAIN e : k # w.key => f[k] = e[k] BY <2>1
    <2> HIDE <2>1
    <2>4. ASSUME NEW k
          PROVE  k \in DOMAIN f <=> \/ k \in DOMAIN d /\ \A x \in W \cup {w} : x.key = k => ~ x.empty
                                    \/ \E x \in W \cup {w} : x.key = k /\ ~ x.empty
        BY <1>2, <2>2 DEF HasWritten, Keyed
    <2>5. ASSUME NEW x \in W \cup {w}, ~ x.empty PROVE f[x.key] = x.value
        <3>1. CASE x.key = w.key BY <2>3, <2>5, <3>1 DEF Keyed
        <3>2. CASE x.key # w.key
            <4>1. x \in W BY <3>2
            <4>2. x.key \in DOMAIN e BY <2>5, <4>1 DEF HasWritten
            <4> QED BY <2>3, <2>5, <3>2, <4>1, <4>2 DEF HasWritten
        <3> QED BY <3>1, <3>2
    <2>6. ASSUME NEW k \in DOMAIN d, \A x \in W \cup {w} : x.key # k PROVE f[k] = d[k]
        BY <2>3, <2>6 DEF HasWritten
    <2> QED BY <2>4, <2>5, <2>6 DEF HasWritten
<1>3. w.empty \in BOOLEAN BY DEF Keyed
<1> QED BY <1>1, <1>2, <1>3

LEMMA KeyedWrites ==
    ASSUME NEW d, NEW ws, NEW len \in Nat, DOMAIN ws = 1 .. len, NEW W, W = {ws[i] : i \in 1 .. len}, Keyed(W)
    PROVE  HasWritten(d, ApplyWrites(d, ws), W)
<1>1. PICK a : Stages(a, d, ws, len) BY WritesApplied
<1> DEFINE First(n) == {ws[i] : i \in 1 .. n}
           Wrong == {n \in 0 .. len : ~ HasWritten(d, a[n], First(n))}
<1>2. Wrong = {}
    <2> SUFFICES ASSUME Wrong # {} PROVE FALSE OBVIOUS
    <2>1. PICK n \in Wrong : \A m \in Wrong : n <= m
        <3>1. Wrong \subseteq Nat OBVIOUS
        <3> HIDE DEF Wrong
        <3> QED BY <3>1, LeastNatural
    <2>2. n # 0
        <3>1. a[0] = d BY <1>1 DEF Stages
        <3>2. First(0) = {} OBVIOUS
        <3>3. HasWritten(d, d, {}) BY DEF HasWritten
        <3> QED BY <2>1, <3>1, <3>2, <3>3
    <2>3. n \in 1 .. len /\ n - 1 \in 0 .. len /\ n - 1 \notin Wrong
        <3>1. n \in 0 .. len OBVIOUS
        <3>2. n \in 1 .. len /\ n - 1 \in 0 .. len /\ ~ (n <= n - 1) BY <2>2, <3>1
        <3> HIDE DEF Wrong
        <3> QED BY <2>1, <3>2
    <2>4. HasWritten(d, a[n - 1], First(n - 1)) BY <2>3
    <2>5. a[n] = ApplyOne(a[n - 1], ws[n]) BY <1>1, <2>3 DEF Stages
    <2>6. First(n) = First(n - 1) \cup {ws[n]}
        <3>1. 1 .. n = (1 .. (n - 1)) \cup {n} BY <2>3
        <3> QED BY <3>1
    <2>7. First(n) \subseteq W BY <2>3
    <2>8. Keyed(First(n)) BY <2>7 DEF Keyed
    <2>9. HasWritten(d, a[n], First(n))
        <3> HIDE DEF First
        <3> QED BY <2>4, <2>5, <2>6, <2>8, WriteOne
    <2> QED BY <2>1, <2>9
<1>3. HasWritten(d, a[len], First(len))
    <2>1. len \in 0 .. len OBVIOUS
    <2> HIDE DEF First
    <2> QED BY <1>2, <2>1
<1> QED BY <1>1, <1>3 DEF Stages

-----------------------------------------------------------------------------
(* The rows of YCSB.                                                         *)

LEMMA FieldsSet ==
    ASSUME NEW row, DOMAIN row \subseteq FieldNames, NEW fields, DOMAIN fields \subseteq FieldNames,
           DOMAIN row = FieldNames \/ DOMAIN fields = FieldNames
    PROVE  DOMAIN SetFields(row, fields) = FieldNames
BY DEF SetFields

\* what a request does: nothing, or it writes one complete row
YcsbRuns(d, r) ==
    LET ran == YCSBRowLevel(d, r)
    IN  \/ ran = Failure
        \/ ran = Success(<<>>)
        \/ \E k, row : DOMAIN row = FieldNames /\ ran = Success(put(User(k), row))

LEMMA YcsbFields ==
    /\ \A f \in NewValues : DOMAIN f \subseteq FieldNames
    /\ \A f \in buildValues : DOMAIN f = FieldNames
BY DEF NewValues, buildValues, buildSingleValue

LEMMA YcsbStep ==
    ASSUME NEW d, \A key \in DOMAIN d : key[1] = "user" => DOMAIN d[key] = FieldNames,
           NEW known, NEW n, NEW r \in CoreWorkload(known, n)
    PROVE  r.cc = "ycsb" /\ YcsbRuns(d, r)
<1>1. \A k : User(k)[1] = "user" BY DEF User
<1>2. \A k : User(k) \in DOMAIN d => DOMAIN d[User(k)] = FieldNames BY <1>1
<1>3. CASE r \in doTransactionInsert(n)
    <2>1. r.cc = "ycsb" /\ r.func = "insert" /\ r.fields \in buildValues BY <1>3 DEF doTransactionInsert
    <2>2. DOMAIN r.fields = FieldNames BY <2>1, YcsbFields
    <2>3. YCSBRowLevel(d, r) = insertValue(d, r) BY <2>1 DEF YCSBRowLevel
    <2>4. PICK old : old = IF get(d, User(r.key)) THEN d[User(r.key)] ELSE <<>> OBVIOUS
    <2>5. DOMAIN old \subseteq FieldNames BY <1>2, <2>4 DEF get
    <2>6. DOMAIN SetFields(old, r.fields) = FieldNames BY <2>2, <2>5, FieldsSet
    <2>7. insertValue(d, r) = Failure \/ insertValue(d, r) = Success(put(User(r.key), SetFields(old, r.fields)))
        BY <2>4 DEF insertValue
    <2> QED BY <2>1, <2>3, <2>6, <2>7 DEF YcsbRuns
<1>4. ASSUME NEW k, r \in doTransactionRead(k) \/ r \in doTransactionScan(k)
      PROVE  r.cc = "ycsb" /\ YcsbRuns(d, r)
    BY <1>4 DEF doTransactionRead, doTransactionScan, YcsbRuns, YCSBRowLevel, read, Require
<1>5. ASSUME NEW k, r \in doTransactionUpdate(k) PROVE r.cc = "ycsb" /\ YcsbRuns(d, r)
    <2>1. r.cc = "ycsb" /\ r.func = "update" /\ r.fields \in NewValues BY <1>5 DEF doTransactionUpdate
    <2>2. DOMAIN r.fields \subseteq FieldNames BY <2>1, YcsbFields
    <2>3. YCSBRowLevel(d, r) = updateValue(d, r) BY <2>1 DEF YCSBRowLevel
    <2>4. CASE User(r.key) \in DOMAIN d
        <3>1. PICK row : row = SetFields(d[User(r.key)], r.fields) OBVIOUS
        <3>2. DOMAIN row = FieldNames BY <1>2, <2>2, <2>4, <3>1, FieldsSet
        <3>3. updateValue(d, r) = Success(put(User(r.key), row)) BY <2>4, <3>1 DEF updateValue, Require, get
        <3> QED BY <2>1, <2>3, <3>2, <3>3 DEF YcsbRuns
    <2>5. CASE User(r.key) \notin DOMAIN d BY <2>1, <2>3, <2>5 DEF YcsbRuns, updateValue, Require, get
    <2> QED BY <2>4, <2>5
<1>6. ASSUME NEW k, r \in doTransactionReadModifyWrite(k) PROVE r.cc = "ycsb" /\ YcsbRuns(d, r)
    <2>1. r.cc = "ycsb" /\ r.func = "read_modify_write" /\ r.fields \in NewValues
        BY <1>6 DEF doTransactionReadModifyWrite
    <2>2. DOMAIN r.fields \subseteq FieldNames BY <2>1, YcsbFields
    <2>3. YCSBRowLevel(d, r) = modifyValue(d, r) BY <2>1 DEF YCSBRowLevel
    <2>4. CASE User(r.key) \in DOMAIN d
        <3>1. PICK row : row = SetFields(d[User(r.key)], r.fields) OBVIOUS
        <3>2. DOMAIN row = FieldNames BY <1>2, <2>2, <2>4, <3>1, FieldsSet
        <3>3. modifyValue(d, r) = Success(put(User(r.key), row)) \/ modifyValue(d, r) = Failure
            BY <3>1 DEF modifyValue
        <3> QED BY <2>1, <2>3, <3>2, <3>3 DEF YcsbRuns
    <2>5. CASE User(r.key) \notin DOMAIN d BY <2>1, <2>3, <2>5 DEF YcsbRuns, modifyValue, get
    <2> QED BY <2>4, <2>5
<1> QED BY <1>3, <1>4, <1>5, <1>6 DEF CoreWorkload

\* the rows of the database after a request
LEMMA RowsKept ==
    ASSUME workload = "ycsb", RowsComplete, NEW r \in Requests, ExecuteTransaction(r)
    PROVE  RowsComplete'
<1>1. /\ \A key \in DOMAIN ledger : key[1] = "user" => DOMAIN ledger[key] = FieldNames
      /\ {User(k) : k \in 0 .. (RecordCount - 1)} \subseteq DOMAIN ledger
    BY DEF RowsComplete, Rows
<1>2. r.cc = "ycsb" /\ YcsbRuns(ledger, r) BY <1>1, YcsbStep DEF Requests
<1>3. NewChaincodeByName(ledger, r) = YCSBRowLevel(ledger, r) BY <1>2 DEF NewChaincodeByName
<1>4. PICK ran : ran = YCSBRowLevel(ledger, r) OBVIOUS
<1>5. ledger' = IF ran.ret = 0 THEN ApplyWrites(ledger, ran.writes) ELSE ledger
    BY <1>3, <1>4 DEF ExecuteTransaction
<1>6. CASE ledger' = ledger BY <1>6 DEF RowsComplete, Rows, ExecuteTransaction
<1>7. CASE \E k, row : DOMAIN row = FieldNames /\ ran = Success(put(User(k), row))
    <2>1. PICK k, row : DOMAIN row = FieldNames /\ ran = Success(put(User(k), row)) BY <1>7
    <2>2. ran.ret = 0 /\ ran.writes = put(User(k), row) BY <2>1 DEF Success
    <2>3. ledger' = ApplyOne(ledger, Write(User(k), row)) BY <1>5, <2>2, FewPuts
    <2>4. ledger' = [x \in DOMAIN ledger \cup {User(k)} |-> IF x = User(k) THEN row ELSE ledger[x]]
        BY <2>3 DEF ApplyOne, Write
    <2>5. \A key \in DOMAIN ledger' : key[1] = "user" => DOMAIN ledger'[key] = FieldNames
        BY <1>1, <2>1, <2>4
    <2>6. {User(x) : x \in 0 .. (RecordCount - 1)} \subseteq DOMAIN ledger' BY <1>1, <2>4
    <2> QED BY <2>5, <2>6 DEF RowsComplete, Rows
<1>8. CASE ran = Success(<<>>)
    <2>1. ran.ret = 0 /\ ran.writes = <<>> BY <1>8 DEF Success
    <2>2. ledger' = ledger BY <1>5, <2>1, FewPuts
    <2> QED BY <1>6, <2>2
<1>9. CASE ran = Failure
    <2>1. ran.ret # 0 BY <1>9 DEF Failure
    <2> QED BY <1>5, <1>6, <2>1
<1> QED BY <1>2, <1>4, <1>7, <1>8, <1>9 DEF YcsbRuns

-----------------------------------------------------------------------------
(* The tables of TPC-C.                                                      *)

\* the rows that are always there, and the only ones of their tables
TableKeys(d) ==
    /\ \A w \in Warehouses : Warehouse(w) \in DOMAIN d
    /\ \A w \in Warehouses, dd \in Districts : District(w, dd) \in DOMAIN d
    /\ \A w \in Warehouses, dd \in Districts, c \in Customers : Customer(w, dd, c) \in DOMAIN d
    /\ \A key \in DOMAIN d :
          /\ key[1] = "w" => \E w \in Warehouses : key = Warehouse(w)
          /\ key[1] = "d" => \E w \in Warehouses, dd \in Districts : key = District(w, dd)
          /\ key[1] = "c" => \E w \in Warehouses, dd \in Districts, c \in Customers : key = Customer(w, dd, c)

DistrictRows == [d_ytd : Int, d_next_o_id : Nat \ {0}]
CustomerRows == [c_balance : Int, c_ytd_payment : Int, c_payment_cnt : Int, c_last : Int]
StockRows == [s_quantity : 10..100, s_ytd : Int, s_order_cnt : Int, s_remote_cnt : Int]

TableRows(d) ==
    /\ \A w \in Warehouses : d[Warehouse(w)] \in [w_ytd : Int]
    /\ \A w \in Warehouses, dd \in Districts : d[District(w, dd)] \in DistrictRows
    /\ \A w \in Warehouses, dd \in Districts, c \in Customers : d[Customer(w, dd, c)] \in CustomerRows
    /\ \A key \in DOMAIN d : key[1] = "h" => d[key] \in Int

StockKept(d) ==
    \A key \in DOMAIN d : key[1] = "s" =>
        /\ d[key] \in StockRows
        /\ d[key].s_remote_cnt <= d[key].s_order_cnt /\ d[key].s_order_cnt <= d[key].s_ytd

Taken(d, w) == [dd \in Districts |-> d[District(w, dd)].d_ytd - LoadedYtd]
TakenRight(d) == \A w \in Warehouses : d[Warehouse(w)].w_ytd - LoadedYtd = SumOf(Taken(d, w), Districts)

\* the numbers of the orders of a district
Numbers(d, table, w, dd) == {key[4] : key \in {k \in DOMAIN d : k[1] = table /\ k[2] = w /\ k[3] = dd}}
OrdersNumbered(d) ==
    \A w \in Warehouses, dd \in Districts :
        LET top == d[District(w, dd)].d_next_o_id - 1
        IN  /\ Numbers(d, "o", w, dd) = 1..top
            /\ top \in Numbers(d, "n", w, dd)
            /\ \A x \in Numbers(d, "n", w, dd) : x \in Int /\ x <= top

\* what a customer has paid; time passes with the transactions
Paid(d, w, dd, c) == {key \in DOMAIN d : key[1] = "h" /\ key[2] = c /\ key[3] = dd /\ key[4] = w /\ key[7] > 0}
PaidBefore(d, time) == \A key \in DOMAIN d : key[1] = "h" => key[7] \in Int /\ key[7] < time
PaidRight(d) ==
    \A w \in Warehouses, dd \in Districts, c \in Customers :
        /\ IsFiniteSet(Paid(d, w, dd, c))
        /\ d[Customer(w, dd, c)].c_ytd_payment - 1 = SumOf(d, Paid(d, w, dd, c))
        /\ d[Customer(w, dd, c)].c_payment_cnt = Cardinality(Paid(d, w, dd, c))
        /\ d[Customer(w, dd, c)].c_balance + d[Customer(w, dd, c)].c_ytd_payment = -9

Tables(d, time) ==
    /\ TableKeys(d) /\ TableRows(d) /\ StockKept(d) /\ TakenRight(d) /\ OrdersNumbered(d)
    /\ PaidBefore(d, time) /\ PaidRight(d)

\* an order: the district's next number, its rows, and some stock
OrderEffect(d, e, w, dd, o) ==
    /\ \A k : k[1] \in {"w", "d", "c", "h", "s"} => (k \in DOMAIN e <=> k \in DOMAIN d)
    /\ \A k : k[1] = "o" => (k \in DOMAIN e <=> k \in DOMAIN d \/ k = Order(w, dd, o))
    /\ \A k : k[1] = "n" => (k \in DOMAIN e <=> k \in DOMAIN d \/ k = NewOrder(w, dd, o))
    /\ \A k \in DOMAIN d : k[1] \in {"w", "c", "h"} => e[k] = d[k]
    /\ \A k \in DOMAIN d : k[1] = "d" /\ k # District(w, dd) => e[k] = d[k]
    /\ e[District(w, dd)] = [d[District(w, dd)] EXCEPT !.d_next_o_id = @ + 1]
    /\ \A k \in DOMAIN d : k[1] = "s" =>
          e[k] = d[k] \/ \E line, home : line.qty \in 1..10 /\ e[k] = StockAfter(d[k], line, home)

LEMMA KeyTables ==
    /\ \A w : Warehouse(w)[1] = "w"
    /\ \A w, d : District(w, d)[1] = "d"
    /\ \A w, d, c : Customer(w, d, c)[1] = "c"
BY DEF Warehouse, District, Customer

LEMMA StockStays ==
    ASSUME NEW row \in StockRows, row.s_remote_cnt <= row.s_order_cnt, row.s_order_cnt <= row.s_ytd,
           NEW line, NEW home, line.qty \in 1..10, NEW after, after = StockAfter(row, line, home)
    PROVE  after \in StockRows /\ after.s_remote_cnt <= after.s_order_cnt /\ after.s_order_cnt <= after.s_ytd
<1>1. PICK n \in 1..10 : n = line.qty OBVIOUS
<1>2. PICK q \in 10..100, y \in Int, o \in Int, m \in Int :
        row = [s_quantity |-> q, s_ytd |-> y, s_order_cnt |-> o, s_remote_cnt |-> m]
    BY DEF StockRows
<1>3. m <= o /\ o <= y BY <1>2
<1>4. PICK q2, m2 : q2 = (IF q >= n + 10 THEN q - n ELSE q + 91 - n) /\ m2 = (IF line.supply # home THEN m + 1 ELSE m)
    OBVIOUS
<1>5. after = [s_quantity |-> q2, s_ytd |-> y + n, s_order_cnt |-> o + 1, s_remote_cnt |-> m2]
    BY <1>1, <1>2, <1>4 DEF StockAfter
<1>6. q2 \in 10..100 /\ m2 \in Int /\ m2 <= o + 1 /\ o + 1 <= y + n BY <1>1, <1>2, <1>3, <1>4
<1> QED BY <1>2, <1>5, <1>6 DEF StockRows

\* an order keeps the tables right
LEMMA OrderKeeps ==
    ASSUME NEW d, NEW e, NEW time \in Int, Tables(d, time), NEW w \in Warehouses, NEW dd \in Districts, NEW o,
           o = d[District(w, dd)].d_next_o_id, OrderEffect(d, e, w, dd, o)
    PROVE  Tables(e, time + 1)
<1> USE DEF Tables
<1>1. TableKeys(e)
    <2>0. \A key \in DOMAIN d : key[1] = "w" \/ key[1] = "d" \/ key[1] = "c" => key \in DOMAIN e BY DEF OrderEffect
    <2>1. ASSUME NEW x \in Warehouses PROVE Warehouse(x) \in DOMAIN e
        BY <2>0, KeyTables DEF TableKeys
    <2>2. ASSUME NEW x \in Warehouses, NEW y \in Districts PROVE District(x, y) \in DOMAIN e
        BY <2>0, KeyTables DEF TableKeys
    <2>3. ASSUME NEW x \in Warehouses, NEW y \in Districts, NEW z \in Customers PROVE Customer(x, y, z) \in DOMAIN e
        <3>1. Customer(x, y, z) \in DOMAIN d BY DEF TableKeys
        <3>2. Customer(x, y, z)[1] = "c" BY KeyTables
        <3> QED BY <2>0, <3>1, <3>2
    <2>4. \A key \in DOMAIN e : key[1] \in {"w", "d", "c"} => key \in DOMAIN d BY DEF OrderEffect
    <2> QED BY <2>1, <2>2, <2>3, <2>4 DEF TableKeys
<1> DEFINE Fixed == \A key \in DOMAIN d : key[1] = "w" \/ key[1] = "c" => e[key] = d[key]
<1>0. Fixed BY DEF OrderEffect
<1> HIDE DEF Fixed
<1>2. ASSUME NEW x \in Warehouses PROVE e[Warehouse(x)] = d[Warehouse(x)]
    BY <1>0, KeyTables DEF TableKeys, Fixed
<1>3. ASSUME NEW x \in Warehouses, NEW y \in Districts, NEW z \in Customers PROVE e[Customer(x, y, z)] = d[Customer(x, y, z)]
    <2>1. Customer(x, y, z) \in DOMAIN d BY DEF TableKeys
    <2>2. Customer(x, y, z)[1] = "c" BY KeyTables
    <2> QED BY <1>0, <2>1, <2>2 DEF Fixed
<1>4. PICK row \in DistrictRows : row = d[District(w, dd)] BY DEF TableRows
<1>5. /\ e[District(w, dd)] \in DistrictRows /\ e[District(w, dd)].d_ytd = row.d_ytd
      /\ e[District(w, dd)].d_next_o_id = o + 1 /\ o \in Nat \ {0}
    BY <1>4 DEF OrderEffect, DistrictRows
<1>6. ASSUME NEW x \in Warehouses, NEW y \in Districts, ~ (x = w /\ y = dd)
      PROVE  e[District(x, y)] = d[District(x, y)]
    <2>1. District(x, y) # District(w, dd) BY <1>6 DEF District
    <2>2. District(x, y) \in DOMAIN d /\ District(x, y)[1] = "d" BY KeyTables DEF TableKeys
    <2> QED BY <2>1, <2>2 DEF OrderEffect
<1>7. TableRows(e)
    <2>1. ASSUME NEW x \in Warehouses, NEW y \in Districts PROVE e[District(x, y)] \in DistrictRows
        BY <1>5, <1>6 DEF TableRows
    <2>2. \A key \in DOMAIN e : key[1] = "h" => e[key] \in Int BY DEF OrderEffect, TableRows
    <2> QED BY <1>2, <1>3, <2>1, <2>2 DEF TableRows
<1>8. StockKept(e)
    <2> SUFFICES ASSUME NEW key \in DOMAIN e, key[1] = "s"
                 PROVE  /\ e[key] \in StockRows
                        /\ e[key].s_remote_cnt <= e[key].s_order_cnt /\ e[key].s_order_cnt <= e[key].s_ytd
        BY DEF StockKept
    <2>1. key \in DOMAIN d BY DEF OrderEffect
    <2>2. /\ d[key] \in StockRows
          /\ d[key].s_remote_cnt <= d[key].s_order_cnt /\ d[key].s_order_cnt <= d[key].s_ytd
        BY <2>1 DEF StockKept
    <2>3. CASE e[key] = d[key] BY <2>2, <2>3
    <2>4. ASSUME NEW line, NEW home, line.qty \in 1..10, e[key] = StockAfter(d[key], line, home)
          PROVE  /\ e[key] \in StockRows
                 /\ e[key].s_remote_cnt <= e[key].s_order_cnt /\ e[key].s_order_cnt <= e[key].s_ytd
        <3>1. PICK r, a : r = d[key] /\ a = e[key] OBVIOUS
        <3>2. a \in StockRows /\ a.s_remote_cnt <= a.s_order_cnt /\ a.s_order_cnt <= a.s_ytd
            BY <2>2, <2>4, <3>1, StockStays
        <3> QED BY <3>1, <3>2
    <2> QED BY <2>1, <2>3, <2>4 DEF OrderEffect
<1>9. TakenRight(e)
    <2> SUFFICES ASSUME NEW x \in Warehouses
                 PROVE  e[Warehouse(x)].w_ytd - LoadedYtd = SumOf(Taken(e, x), Districts)
        BY DEF TakenRight
    <2>1. \A y \in Districts : e[District(x, y)].d_ytd = d[District(x, y)].d_ytd BY <1>4, <1>5, <1>6
    <2>2. Taken(e, x) = Taken(d, x) BY <2>1 DEF Taken
    <2> QED BY <1>2, <2>2 DEF TakenRight
<1>10. OrdersNumbered(e)
    <2> SUFFICES ASSUME NEW x \in Warehouses, NEW y \in Districts, NEW top, top = e[District(x, y)].d_next_o_id - 1
                 PROVE  /\ Numbers(e, "o", x, y) = 1..top
                        /\ top \in Numbers(e, "n", x, y)
                        /\ \A z \in Numbers(e, "n", x, y) : z \in Int /\ z <= top
        BY DEF OrdersNumbered
    <2>1. PICK old : old = d[District(x, y)].d_next_o_id - 1 OBVIOUS
    <2>2. /\ Numbers(d, "o", x, y) = 1..old /\ old \in Numbers(d, "n", x, y)
          /\ \A z \in Numbers(d, "n", x, y) : z \in Int /\ z <= old
        BY <2>1 DEF OrdersNumbered
    <2>3. CASE x = w /\ y = dd
        <3>1. old = o - 1 /\ top = o /\ o \in Nat \ {0} BY <1>5, <2>1, <2>3
        <3>2. Numbers(e, "o", x, y) = Numbers(d, "o", x, y) \cup {o}
            <4>1. Order(w, dd, o)[1] = "o" /\ Order(w, dd, o)[2] = w /\ Order(w, dd, o)[3] = dd /\ Order(w, dd, o)[4] = o
                BY DEF Order
            <4>2. {k \in DOMAIN e : k[1] = "o" /\ k[2] = x /\ k[3] = y}
                    = {k \in DOMAIN d : k[1] = "o" /\ k[2] = x /\ k[3] = y} \cup {Order(w, dd, o)}
                BY <2>3, <4>1 DEF OrderEffect
            <4> QED BY <4>1, <4>2 DEF Numbers
        <3>3. Numbers(e, "n", x, y) = Numbers(d, "n", x, y) \cup {o}
            <4>1. NewOrder(w, dd, o)[1] = "n" /\ NewOrder(w, dd, o)[2] = w /\ NewOrder(w, dd, o)[3] = dd
                  /\ NewOrder(w, dd, o)[4] = o
                BY DEF NewOrder
            <4>2. {k \in DOMAIN e : k[1] = "n" /\ k[2] = x /\ k[3] = y}
                    = {k \in DOMAIN d : k[1] = "n" /\ k[2] = x /\ k[3] = y} \cup {NewOrder(w, dd, o)}
                BY <2>3, <4>1 DEF OrderEffect
            <4> QED BY <4>1, <4>2 DEF Numbers
        <3>4. (1 .. old) \cup {o} = 1 .. o BY <3>1
        <3>5. Numbers(e, "o", x, y) = 1 .. top BY <2>2, <3>1, <3>2, <3>4
        <3>6. top \in Numbers(e, "n", x, y) BY <3>1, <3>3
        <3>7. ASSUME NEW z \in Numbers(e, "n", x, y) PROVE z \in Int /\ z <= top
            <4>1. CASE z = o BY <3>1, <4>1
            <4>2. CASE z # o
                <5>1. z \in Int /\ z <= old BY <2>2, <3>3, <4>2
                <5> QED BY <3>1, <5>1
            <4> QED BY <4>1, <4>2
        <3> QED BY <3>5, <3>6, <3>7
    <2>4. CASE ~ (x = w /\ y = dd)
        <3>1. top = old BY <1>6, <2>1, <2>4
        <3>2. Order(w, dd, o)[2] = w /\ Order(w, dd, o)[3] = dd /\ NewOrder(w, dd, o)[2] = w /\ NewOrder(w, dd, o)[3] = dd
            BY DEF Order, NewOrder
        <3>3. ASSUME NEW table \in {"o", "n"} PROVE Numbers(e, table, x, y) = Numbers(d, table, x, y)
            <4>1. {k \in DOMAIN e : k[1] = table /\ k[2] = x /\ k[3] = y}
                    = {k \in DOMAIN d : k[1] = table /\ k[2] = x /\ k[3] = y}
                BY <2>4, <3>2 DEF OrderEffect
            <4> QED BY <4>1 DEF Numbers
        <3> QED BY <2>2, <3>1, <3>3
    <2> QED BY <2>3, <2>4
<1>11. PaidBefore(e, time + 1)
    <2>1. \A key \in DOMAIN e : key[1] = "h" => key \in DOMAIN d BY DEF OrderEffect
    <2> QED BY <2>1 DEF PaidBefore
<1>12. PaidRight(e)
    <2> SUFFICES ASSUME NEW x \in Warehouses, NEW y \in Districts, NEW z \in Customers, NEW P, P = Paid(e, x, y, z)
                 PROVE  /\ IsFiniteSet(P)
                        /\ e[Customer(x, y, z)].c_ytd_payment - 1 = SumOf(e, P)
                        /\ e[Customer(x, y, z)].c_payment_cnt = Cardinality(P)
                        /\ e[Customer(x, y, z)].c_balance + e[Customer(x, y, z)].c_ytd_payment = -9
        BY DEF PaidRight
    <2>1. P = Paid(d, x, y, z) BY DEF Paid, OrderEffect
    <2>2. /\ IsFiniteSet(P)
          /\ d[Customer(x, y, z)].c_ytd_payment - 1 = SumOf(d, P)
          /\ d[Customer(x, y, z)].c_payment_cnt = Cardinality(P)
          /\ d[Customer(x, y, z)].c_balance + d[Customer(x, y, z)].c_ytd_payment = -9
        BY <2>1 DEF PaidRight
    <2>3. \A key \in P : d[key] \in Int /\ e[key] = d[key] BY <2>1 DEF Paid, TableRows, OrderEffect
    <2>4. SumOf(d, P) = SumOf(e, P) BY <2>2, <2>3, SumSame
    <2> QED BY <1>3, <2>2, <2>4
<1> QED BY <1>1, <1>7, <1>8, <1>9, <1>10, <1>11, <1>12

\* a payment: a warehouse, a district, a customer and a row of the history
PayEffect(d, e, w, dd, cw, cd, c, time, amount) ==
    /\ \A k : k[1] \in {"w", "d", "c", "s", "o", "n"} => (k \in DOMAIN e <=> k \in DOMAIN d)
    /\ \A k : k[1] = "h" => (k \in DOMAIN e <=> k \in DOMAIN d \/ k = History(c, cd, cw, dd, w, time))
    /\ \A k \in DOMAIN d : k[1] = "s" => e[k] = d[k]
    /\ \A k \in DOMAIN d : k[1] = "w" /\ k # Warehouse(w) => e[k] = d[k]
    /\ \A k \in DOMAIN d : k[1] = "d" /\ k # District(w, dd) => e[k] = d[k]
    /\ \A k \in DOMAIN d : k[1] = "c" /\ k # Customer(cw, cd, c) => e[k] = d[k]
    /\ \A k \in DOMAIN d : k[1] = "h" /\ k # History(c, cd, cw, dd, w, time) => e[k] = d[k]
    /\ e[Warehouse(w)] = [d[Warehouse(w)] EXCEPT !.w_ytd = @ + amount]
    /\ e[District(w, dd)] = [d[District(w, dd)] EXCEPT !.d_ytd = @ + amount]
    /\ e[Customer(cw, cd, c)] = [d[Customer(cw, cd, c)] EXCEPT !.c_balance = @ - amount,
                                                               !.c_ytd_payment = @ + amount,
                                                               !.c_payment_cnt = @ + 1]
    /\ e[History(c, cd, cw, dd, w, time)] = amount

\* the rows a payment changes
LEMMA PaidDistrict ==
    ASSUME NEW amount \in Int, NEW row \in DistrictRows, NEW after, after = [row EXCEPT !.d_ytd = @ + amount]
    PROVE  /\ after \in DistrictRows /\ after.d_ytd = row.d_ytd + amount
           /\ after.d_next_o_id = row.d_next_o_id
BY DEF DistrictRows

CustomerAfter(row, amount) ==
    [row EXCEPT !.c_balance = @ - amount, !.c_ytd_payment = @ + amount, !.c_payment_cnt = @ + 1]
CustomerPaid(row, after, amount) ==
    /\ after \in CustomerRows /\ after.c_ytd_payment = row.c_ytd_payment + amount
    /\ after.c_payment_cnt = row.c_payment_cnt + 1
    /\ after.c_balance + after.c_ytd_payment = row.c_balance + row.c_ytd_payment

LEMMA PaidCustomer ==
    ASSUME NEW amount \in Int, NEW row \in CustomerRows, NEW after, after = CustomerAfter(row, amount)
    PROVE  CustomerPaid(row, after, amount)
<1>1. PICK b \in Int, y \in Int, n \in Int, l \in Int :
        row = [c_balance |-> b, c_ytd_payment |-> y, c_payment_cnt |-> n, c_last |-> l]
    BY DEF CustomerRows
<1>2. after = [c_balance |-> b - amount, c_ytd_payment |-> y + amount, c_payment_cnt |-> n + 1, c_last |-> l]
    BY <1>1 DEF CustomerAfter
<1>3. (b - amount) + (y + amount) = b + y OBVIOUS
<1>4. /\ row.c_balance = b /\ row.c_ytd_payment = y /\ row.c_payment_cnt = n
      /\ after.c_balance = b - amount /\ after.c_ytd_payment = y + amount /\ after.c_payment_cnt = n + 1
    BY <1>1, <1>2
<1>5. after \in CustomerRows BY <1>2 DEF CustomerRows
<1> QED BY <1>3, <1>4, <1>5 DEF CustomerPaid

\* a payment keeps the tables right
LEMMA PayKeeps ==
    ASSUME NEW d, NEW e, NEW time \in Nat \ {0}, Tables(d, time), NEW amount \in Int,
           NEW w \in Warehouses, NEW dd \in Districts,
           NEW cw \in Warehouses, NEW cd \in Districts, NEW c \in Customers,
           PayEffect(d, e, w, dd, cw, cd, c, time, amount)
    PROVE  Tables(e, time + 1)
<1> USE DEF Tables
<1>h. PICK h : h = History(c, cd, cw, dd, w, time) OBVIOUS
<1>f. h[1] = "h" /\ h[2] = c /\ h[3] = cd /\ h[4] = cw /\ h[7] = time BY <1>h DEF History
<1>n. h \notin DOMAIN d BY <1>f DEF PaidBefore
<1>1. /\ \A key \in DOMAIN d : key[1] = "w" \/ key[1] = "d" \/ key[1] = "c" => key \in DOMAIN e
      /\ \A key \in DOMAIN e : key[1] = "w" \/ key[1] = "d" \/ key[1] = "c" => key \in DOMAIN d
    BY DEF PayEffect
<1>2. TableKeys(e)
    <2>1. ASSUME NEW x \in Warehouses PROVE Warehouse(x) \in DOMAIN e
        BY <1>1, KeyTables DEF TableKeys
    <2>2. ASSUME NEW x \in Warehouses, NEW y \in Districts PROVE District(x, y) \in DOMAIN e
        BY <1>1, KeyTables DEF TableKeys
    <2>3. ASSUME NEW x \in Warehouses, NEW y \in Districts, NEW z \in Customers PROVE Customer(x, y, z) \in DOMAIN e
        <3>1. Customer(x, y, z) \in DOMAIN d BY DEF TableKeys
        <3>2. Customer(x, y, z)[1] = "c" BY KeyTables
        <3> QED BY <1>1, <3>1, <3>2
    <2> QED BY <1>1, <2>1, <2>2, <2>3 DEF TableKeys
<1>3. ASSUME NEW x \in Warehouses
      PROVE  /\ d[Warehouse(x)] \in [w_ytd : Int] /\ e[Warehouse(x)] \in [w_ytd : Int]
             /\ e[Warehouse(x)].w_ytd = IF x = w THEN d[Warehouse(x)].w_ytd + amount ELSE d[Warehouse(x)].w_ytd
    <2>1. Warehouse(x) \in DOMAIN d /\ Warehouse(x)[1] = "w" BY KeyTables DEF TableKeys
    <2>2. PICK row \in [w_ytd : Int] : row = d[Warehouse(x)] BY DEF TableRows
    <2>3. CASE x = w
        <3>1. e[Warehouse(x)] = [row EXCEPT !.w_ytd = @ + amount] BY <2>2, <2>3 DEF PayEffect
        <3> QED BY <2>2, <2>3, <3>1
    <2>4. CASE x # w
        <3>1. Warehouse(x) # Warehouse(w) BY <2>4 DEF Warehouse
        <3>2. e[Warehouse(x)] = row BY <2>1, <2>2, <3>1 DEF PayEffect
        <3> QED BY <2>2, <2>4, <3>2
    <2> QED BY <2>3, <2>4
<1>4. ASSUME NEW x \in Warehouses, NEW y \in Districts
      PROVE  /\ d[District(x, y)] \in DistrictRows /\ e[District(x, y)] \in DistrictRows
             /\ e[District(x, y)].d_next_o_id = d[District(x, y)].d_next_o_id
             /\ e[District(x, y)].d_ytd = IF x = w /\ y = dd THEN d[District(x, y)].d_ytd + amount ELSE d[District(x, y)].d_ytd
    <2>1. District(x, y) \in DOMAIN d /\ District(x, y)[1] = "d" BY KeyTables DEF TableKeys
    <2>2. PICK row \in DistrictRows : row = d[District(x, y)] BY DEF TableRows
    <2>3. CASE x = w /\ y = dd
        <3>1. e[District(x, y)] = [row EXCEPT !.d_ytd = @ + amount] BY <2>2, <2>3 DEF PayEffect
        <3>2. PICK new : new = e[District(x, y)] OBVIOUS
        <3>3. new \in DistrictRows /\ new.d_ytd = row.d_ytd + amount /\ new.d_next_o_id = row.d_next_o_id
            BY <3>1, <3>2, PaidDistrict
        <3> QED BY <2>2, <2>3, <3>2, <3>3
    <2>4. CASE ~ (x = w /\ y = dd)
        <3>1. District(x, y) # District(w, dd) BY <2>4 DEF District
        <3>2. e[District(x, y)] = row BY <2>1, <2>2, <3>1 DEF PayEffect
        <3> QED BY <2>2, <2>4, <3>2
    <2> QED BY <2>3, <2>4
<1>5. ASSUME NEW x \in Warehouses, NEW y \in Districts, NEW z \in Customers, ~ (x = cw /\ y = cd /\ z = c)
      PROVE  e[Customer(x, y, z)] = d[Customer(x, y, z)]
    <2>1. Customer(x, y, z) \in DOMAIN d BY DEF TableKeys
    <2>2. Customer(x, y, z)[1] = "c" BY KeyTables
    <2>3. Customer(x, y, z) # Customer(cw, cd, c) BY <1>5 DEF Customer
    <2> QED BY <2>1, <2>2, <2>3 DEF PayEffect
<1>6. PICK row \in CustomerRows : row = d[Customer(cw, cd, c)] BY DEF TableRows
<1>7. PICK after : after = e[Customer(cw, cd, c)] OBVIOUS
<1>8. CustomerPaid(row, after, amount)
    <2>1. after = CustomerAfter(row, amount) BY <1>6, <1>7 DEF PayEffect, CustomerAfter
    <2> QED BY <2>1, PaidCustomer
<1>9. \A key \in DOMAIN e : key[1] = "h" => (key = h /\ e[key] = amount) \/ (key \in DOMAIN d /\ e[key] = d[key])
    BY <1>h DEF PayEffect
<1>10. TableRows(e)
    <2>1. ASSUME NEW x \in Warehouses, NEW y \in Districts, NEW z \in Customers PROVE e[Customer(x, y, z)] \in CustomerRows
        BY <1>5, <1>7, <1>8 DEF TableRows, CustomerPaid
    <2>2. \A key \in DOMAIN e : key[1] = "h" => e[key] \in Int BY <1>9 DEF TableRows
    <2> QED BY <1>3, <1>4, <2>1, <2>2 DEF TableRows
<1>11. StockKept(e)
    <2>1. \A key \in DOMAIN e : key[1] = "s" => key \in DOMAIN d /\ e[key] = d[key] BY DEF PayEffect
    <2> QED BY <2>1 DEF StockKept
<1>12. TakenRight(e)
    <2> SUFFICES ASSUME NEW x \in Warehouses
                 PROVE  e[Warehouse(x)].w_ytd - LoadedYtd = SumOf(Taken(e, x), Districts)
        BY DEF TakenRight
    <2>1. IsFiniteSet(Districts) BY FS_Interval, SerialAssumption DEF Districts
    <2>2. PICK t, u : t = Taken(d, x) /\ u = Taken(e, x) OBVIOUS
    <2>3. d[Warehouse(x)].w_ytd - LoadedYtd = SumOf(t, Districts) /\ d[Warehouse(x)].w_ytd \in Int
        BY <1>3, <2>2 DEF TakenRight
    <2>4. ASSUME NEW y \in Districts
          PROVE  t[y] \in Int /\ u[y] \in Int /\ u[y] = IF x = w /\ y = dd THEN t[y] + amount ELSE t[y]
        <3>1. PICK a \in Int, b \in Int : a = d[District(x, y)].d_ytd /\ b = e[District(x, y)].d_ytd
            BY <1>4 DEF DistrictRows
        <3>2. t[y] = a - 3000000 /\ u[y] = b - 3000000 BY <2>2, <3>1 DEF Taken, LoadedYtd
        <3>3. b = IF x = w /\ y = dd THEN a + amount ELSE a BY <1>4, <3>1
        <3> QED BY <3>1, <3>2, <3>3
    <2>5. CASE x = w
        <3>1. SumOf(t, Districts) \in Int /\ SumOf(u, Districts) = SumOf(t, Districts) + u[dd] - t[dd]
            <4>1. \A y \in Districts : t[y] \in Int /\ u[y] \in Int BY <2>4
            <4>2. \A y \in Districts : y # dd => u[y] = t[y] BY <2>4
            <4> QED BY <2>1, <4>1, <4>2, SumChanges
        <3>2. u[dd] = t[dd] + amount /\ t[dd] \in Int BY <2>4, <2>5
        <3>3. SumOf(u, Districts) = SumOf(t, Districts) + amount BY <3>1, <3>2
        <3>4. e[Warehouse(x)].w_ytd = d[Warehouse(x)].w_ytd + amount BY <1>3, <2>5
        <3> QED BY <2>2, <2>3, <3>3, <3>4 DEF LoadedYtd
    <2>6. CASE x # w
        <3>1. \A y \in Districts : t[y] \in Int /\ u[y] = t[y] BY <2>4, <2>6
        <3>2. SumOf(t, Districts) = SumOf(u, Districts) BY <2>1, <3>1, SumSame
        <3>3. e[Warehouse(x)].w_ytd = d[Warehouse(x)].w_ytd BY <1>3, <2>6
        <3> QED BY <2>2, <2>3, <3>2, <3>3
    <2> QED BY <2>5, <2>6
<1>13. OrdersNumbered(e)
    <2> SUFFICES ASSUME NEW x \in Warehouses, NEW y \in Districts, NEW top, top = e[District(x, y)].d_next_o_id - 1
                 PROVE  /\ Numbers(e, "o", x, y) = 1..top
                        /\ top \in Numbers(e, "n", x, y)
                        /\ \A z \in Numbers(e, "n", x, y) : z \in Int /\ z <= top
        BY DEF OrdersNumbered
    <2>1. top = d[District(x, y)].d_next_o_id - 1 BY <1>4
    <2>2. ASSUME NEW table \in {"o", "n"} PROVE Numbers(e, table, x, y) = Numbers(d, table, x, y)
        <3>1. {k \in DOMAIN e : k[1] = table /\ k[2] = x /\ k[3] = y}
                = {k \in DOMAIN d : k[1] = table /\ k[2] = x /\ k[3] = y}
            BY DEF PayEffect
        <3> QED BY <3>1 DEF Numbers
    <2> QED BY <2>1, <2>2 DEF OrdersNumbered
<1>14. PaidBefore(e, time + 1)
    <2>1. \A key \in DOMAIN e : key[1] = "h" => key = h \/ key \in DOMAIN d BY <1>9
    <2> QED BY <1>f, <2>1 DEF PaidBefore
<1>15. PaidRight(e)
    <2> SUFFICES ASSUME NEW x \in Warehouses, NEW y \in Districts, NEW z \in Customers, NEW Q, Q = Paid(e, x, y, z)
                 PROVE  /\ IsFiniteSet(Q)
                        /\ e[Customer(x, y, z)].c_ytd_payment - 1 = SumOf(e, Q)
                        /\ e[Customer(x, y, z)].c_payment_cnt = Cardinality(Q)
                        /\ e[Customer(x, y, z)].c_balance + e[Customer(x, y, z)].c_ytd_payment = -9
        BY DEF PaidRight
    <2>1. PICK P : P = Paid(d, x, y, z) OBVIOUS
    <2>2. /\ IsFiniteSet(P)
          /\ d[Customer(x, y, z)].c_ytd_payment - 1 = SumOf(d, P)
          /\ d[Customer(x, y, z)].c_payment_cnt = Cardinality(P)
          /\ d[Customer(x, y, z)].c_balance + d[Customer(x, y, z)].c_ytd_payment = -9
        BY <2>1 DEF PaidRight
    <2>3. \A key \in P : d[key] \in Int /\ e[key] = d[key] /\ key # h
        BY <1>h, <1>n, <2>1 DEF Paid, TableRows, PayEffect
    <2>4. \A key : key \in Q <=> key \in P \/ (key = h /\ x = cw /\ y = cd /\ z = c)
        BY <1>h, <1>f, <2>1 DEF Paid, PayEffect
    <2>5. CASE x = cw /\ y = cd /\ z = c
        <3>1. Q = P \cup {h} /\ h \notin P BY <2>3, <2>4, <2>5
        <3>2. e[h] = amount BY <1>h DEF PayEffect
        <3>3. SumOf(d, P) \in Int /\ SumOf(e, Q) = SumOf(d, P) + amount
            <4>1. \A key \in P : d[key] \in Int /\ e[key] = d[key] BY <2>3
            <4> QED BY <2>2, <3>1, <3>2, <4>1, SumAdds
        <3>4. IsFiniteSet(Q) /\ Cardinality(Q) = Cardinality(P) + 1 BY <2>2, <3>1, FS_AddElement
        <3>5. row.c_ytd_payment \in Int BY DEF CustomerRows
        <3>6. /\ row.c_ytd_payment - 1 = SumOf(d, P) /\ row.c_payment_cnt = Cardinality(P)
              /\ row.c_balance + row.c_ytd_payment = -9
            BY <1>6, <2>2, <2>5
        <3>7. after.c_ytd_payment - 1 = SumOf(e, Q) BY <1>8, <3>3, <3>5, <3>6 DEF CustomerPaid
        <3>8. e[Customer(x, y, z)] = after BY <1>7, <2>5
        <3> QED BY <1>8, <3>4, <3>6, <3>7, <3>8 DEF CustomerPaid
    <2>6. CASE ~ (x = cw /\ y = cd /\ z = c)
        <3>1. Q = P BY <2>4, <2>6
        <3>2. SumOf(d, P) = SumOf(e, P) BY <2>2, <2>3, SumSame
        <3>3. e[Customer(x, y, z)] = d[Customer(x, y, z)] BY <1>5, <2>6
        <3> QED BY <2>2, <3>1, <3>2, <3>3
    <2> QED BY <2>5, <2>6
<1> QED BY <1>2, <1>10, <1>11, <1>12, <1>13, <1>14, <1>15

\* four writes, and four writes with more after them
Extends(ws, y, x, S) ==
    /\ ws \in Seq(S) /\ Len(ws) = Len(y) + 1 /\ Len(y) \in Nat
    /\ \A i \in 1 .. Len(y) : ws[i] = y[i]
    /\ ws[Len(y) + 1] = x

LEMMA OneMore ==
    ASSUME NEW S, NEW y, y \in Seq(S), NEW x \in S, NEW z, z = <<x>>, NEW ws, ws = y \o z
    PROVE  Extends(ws, y, x, S)
<1>1. z \in Seq(S) /\ Len(z) = 1 /\ z[1] = x OBVIOUS
<1>2. Len(y) \in Nat BY LenProperties
<1>3. /\ y \o z \in Seq(S) /\ Len(y \o z) = Len(y) + Len(z)
      /\ \A i \in 1 .. (Len(y) + Len(z)) : (y \o z)[i] = IF i <= Len(y) THEN y[i] ELSE z[i - Len(y)]
    BY <1>1, ConcatProperties
<1>4. /\ ws \in Seq(S) /\ Len(ws) = Len(y) + 1
      /\ \A i \in 1 .. (Len(y) + 1) : ws[i] = IF i <= Len(y) THEN y[i] ELSE z[i - Len(y)]
    BY <1>1, <1>3
<1>5. PICK n \in Nat : n = Len(y) BY <1>2
<1>6. \A i \in 1 .. n : ws[i] = y[i] BY <1>4, <1>5
<1>7. ws[n + 1] = z[1] BY <1>4, <1>5
<1> QED BY <1>1, <1>4, <1>5, <1>6, <1>7 DEF Extends

FourOf(ws, S, a, b, c, x) ==
    ws \in Seq(S) /\ Len(ws) = 4 /\ ws[1] = a /\ ws[2] = b /\ ws[3] = c /\ ws[4] = x

LEMMA FourWrites ==
    ASSUME NEW S, NEW a \in S, NEW b \in S, NEW c \in S, NEW x \in S
    PROVE  FourOf(<<a>> \o <<b>> \o <<c>> \o <<x>>, S, a, b, c, x)
<1>1. PICK s1, s2, s3, s4 : s1 = <<a>> /\ s2 = <<b>> /\ s3 = <<c>> /\ s4 = <<x>> OBVIOUS
<1>2. s1 \in Seq(S) /\ Len(s1) = 1 /\ s1[1] = a BY <1>1
<1>3. PICK u : u = s1 \o s2 OBVIOUS
<1>4. PICK v : v = u \o s3 OBVIOUS
<1>5. PICK ws : ws = v \o s4 OBVIOUS
<1>6. u \in Seq(S) /\ Len(u) = 2 /\ u[1] = a /\ u[2] = b
    <2>0. s1 \in Seq(S) BY <1>2
    <2>1. Extends(u, s1, b, S) BY <1>1, <1>3, <2>0, OneMore
    <2> QED BY <1>2, <2>1 DEF Extends
<1>7. v \in Seq(S) /\ Len(v) = 3 /\ v[1] = a /\ v[2] = b /\ v[3] = c
    <2>0. u \in Seq(S) BY <1>6
    <2>1. Extends(v, u, c, S) BY <1>1, <1>4, <2>0, OneMore
    <2> QED BY <1>6, <2>1 DEF Extends
<1>8. ws \in Seq(S) /\ Len(ws) = 4 /\ ws[1] = a /\ ws[2] = b /\ ws[3] = c /\ ws[4] = x
    <2>0. v \in Seq(S) BY <1>7
    <2>1. Extends(ws, v, x, S) BY <1>1, <1>5, <2>0, OneMore
    <2> QED BY <1>7, <2>1 DEF Extends
<1>9. <<a>> \o <<b>> \o <<c>> \o <<x>> = ws BY Zenon, <1>1, <1>3, <1>4, <1>5
<1>10. FourOf(ws, S, a, b, c, x) BY <1>8 DEF FourOf
<1> QED BY Zenon, <1>9, <1>10

WritesAre(ws, n, a, b, c, x, tail) ==
    /\ DOMAIN ws = 1 .. (n + 4)
    /\ {ws[i] : i \in 1 .. (n + 4)} \subseteq {a, b, c, x} \cup {tail[i] : i \in 1 .. n}
    /\ {a, b, c, x} \subseteq {ws[i] : i \in 1 .. (n + 4)}

LEMMA MoreWrites ==
    ASSUME NEW S, NEW a \in S, NEW b \in S, NEW c \in S, NEW x \in S, NEW u, FourOf(u, S, a, b, c, x),
           NEW n \in Nat, NEW tail \in [1 .. n -> S], NEW ws, ws = u \o tail
    PROVE  WritesAre(ws, n, a, b, c, x, tail)
<1>1. u \in Seq(S) /\ Len(u) = 4 /\ u[1] = a /\ u[2] = b /\ u[3] = c /\ u[4] = x BY DEF FourOf
<1>2. tail \in Seq(S) /\ Len(tail) = n OBVIOUS
<1>3. /\ ws \in Seq(S) /\ Len(ws) = Len(u) + Len(tail)
      /\ \A i \in 1 .. (Len(u) + Len(tail)) : ws[i] = IF i <= Len(u) THEN u[i] ELSE tail[i - Len(u)]
    BY <1>1, <1>2, ConcatProperties
<1>4. DOMAIN ws = 1 .. (n + 4)
    <2>1. DOMAIN ws = 1 .. Len(ws) BY <1>3, LenProperties
    <2>2. Len(ws) = n + 4 BY <1>1, <1>2, <1>3
    <2> QED BY <2>1, <2>2
<1>5. ws[1] = a /\ ws[2] = b /\ ws[3] = c /\ ws[4] = x BY <1>1, <1>2, <1>3
<1>6. ASSUME NEW i \in 1 .. (n + 4) PROVE ws[i] \in {a, b, c, x} \cup {tail[j] : j \in 1 .. n}
    <2>1. CASE i \in {1, 2, 3, 4} BY <1>5, <2>1
    <2>2. CASE i \notin {1, 2, 3, 4}
        <3>1. i - 4 \in 1 .. n /\ ~ (i <= 4) BY <2>2
        <3>2. ws[i] = tail[i - 4] BY <1>1, <1>2, <1>3, <3>1
        <3> QED BY <3>1, <3>2
    <2> QED BY <2>1, <2>2
<1>7. {1, 2, 3, 4} \subseteq 1 .. (n + 4) OBVIOUS
<1> QED BY <1>4, <1>5, <1>6, <1>7 DEF WritesAre

-----------------------------------------------------------------------------
(* A payment.                                                                *)

LEMMA PaymentAsked ==
    ASSUME NEW time, NEW home, NEW r \in doPaymentRand(home, time)
    PROVE  r.cc = "tpcc" /\ r.func = "payment" /\ r.amount \in Int /\ r.time = time /\ r.d \in Districts
<1> DEFINE away == UniformLongExcept(1, WarehouseCount, home) \X Districts
           byId(d1, at) ==
             [cc : {"tpcc"}, func : {"payment"}, w : {home}, d : {d1}, amount : Amounts, time : {time},
              cw : {at[1]}, cd : {at[2]}, byId : {TRUE}, c : getCustomerID]
           byName(d1, at) ==
             [cc : {"tpcc"}, func : {"payment"}, w : {home}, d : {d1}, amount : Amounts, time : {time},
              cw : {at[1]}, cd : {at[2]}, byId : {FALSE}, last : IF PaymentLookup THEN LastNames ELSE {}]
           OfDistrict(d1) == UNION {byId(d1, at) \cup byName(d1, at) : at \in {<<home, d1>>} \cup away}
<1>0. r \in UNION {OfDistrict(d1) : d1 \in Districts} BY DEF doPaymentRand
<1>a. ASSUME NEW d1 \in Districts, NEW at, r \in byId(d1, at) \/ r \in byName(d1, at)
      PROVE  r.cc = "tpcc" /\ r.func = "payment" /\ r.amount \in Amounts /\ r.time = time /\ r.d \in Districts
    BY <1>a
<1> HIDE DEF byId, byName, away
<1>1. PICK dd \in Districts : r \in OfDistrict(dd)
    <2> HIDE DEF OfDistrict
    <2> QED BY <1>0
<1>b. PICK at : r \in byId(dd, at) \/ r \in byName(dd, at) BY <1>1
<1>2. r.cc = "tpcc" /\ r.func = "payment" /\ r.amount \in Amounts /\ r.time = time /\ r.d \in Districts BY <1>a, <1>b
<1>3. Amounts \subseteq Nat BY SerialAssumption
<1>4. r.amount \in Nat BY <1>2, <1>3
<1>5. \A n \in Nat : n \in Int OBVIOUS
<1> QED BY Zenon, <1>2, <1>4, <1>5

LEMMA PaymentStep ==
    ASSUME NEW d, NEW time \in Nat \ {0}, Tables(d, time), NEW home, NEW r \in doPaymentRand(home, time),
           NEW ran, ran = executePayment(d, r), ran.ret = 0
    PROVE  Tables(ApplyWrites(d, ran.writes), time + 1)
<1>1. r.amount \in Int /\ r.time = time /\ r.d \in Districts BY PaymentAsked
<1>2. PICK c, w, dd, cw, cd, amount :
        c = PayingCustomer(d, r) /\ w = r.w /\ dd = r.d /\ cw = r.cw /\ cd = r.cd /\ amount = r.amount
    OBVIOUS
<1>3. /\ Warehouse(w) \in DOMAIN d /\ District(w, dd) \in DOMAIN d /\ Customer(cw, cd, c) \in DOMAIN d
      /\ ran.writes = PaymentWrites(d, r)
    BY <1>2 DEF executePayment, Require, Success, Failure, get
<1>4. w \in Warehouses /\ dd \in Districts /\ cw \in Warehouses /\ cd \in Districts /\ c \in Customers
    <2>1. PICK x \in Warehouses : Warehouse(w) = Warehouse(x) BY <1>3, KeyTables DEF Tables, TableKeys
    <2>2. PICK x1 \in Warehouses, y1 \in Districts, z1 \in Customers : Customer(cw, cd, c) = Customer(x1, y1, z1)
        <3>1. Customer(cw, cd, c)[1] = "c" BY KeyTables
        <3> QED BY <1>3, <3>1 DEF Tables, TableKeys
    <2>3. w = x BY <2>1 DEF Warehouse
    <2>4. cw = x1 /\ cd = y1 /\ c = z1 BY <2>2 DEF Customer
    <2> QED BY <1>1, <1>2, <2>3, <2>4
<1> DEFINE wk == Warehouse(w)
           dk == District(w, dd)
           ck == Customer(cw, cd, c)
           hk == History(c, cd, cw, dd, w, time)
<1>5. PICK p, q, s, t :
        /\ p = Write(wk, [d[wk] EXCEPT !.w_ytd = @ + amount])
        /\ q = Write(dk, [d[dk] EXCEPT !.d_ytd = @ + amount])
        /\ s = Write(ck, CustomerAfter(d[ck], amount))
        /\ t = Write(hk, amount)
    OBVIOUS
<1>6. ran.writes = <<p>> \o <<q>> \o <<s>> \o <<t>>
    BY <1>1, <1>2, <1>3, <1>5 DEF PaymentWrites, put, Write, CustomerAfter
<1>7. PICK ws : ws = ran.writes OBVIOUS
<1>8. DOMAIN ws = 1 .. 4 /\ {ws[i] : i \in 1 .. 4} = {p, q, s, t}
    <2>1. /\ ws \in Seq({p, q, s, t}) /\ Len(ws) = 4
          /\ ws[1] = p /\ ws[2] = q /\ ws[3] = s /\ ws[4] = t
        <3>1. PICK S : S = {p, q, s, t} OBVIOUS
        <3>2. p \in S /\ q \in S /\ s \in S /\ t \in S BY <3>1
        <3>3. FourOf(<<p>> \o <<q>> \o <<s>> \o <<t>>, S, p, q, s, t) BY <3>2, FourWrites
        <3>4. FourOf(ws, S, p, q, s, t) BY Zenon, <1>6, <1>7, <3>3
        <3> QED BY <3>1, <3>4 DEF FourOf
    <2>2. DOMAIN ws = 1 .. 4 BY <2>1, LenProperties
    <2>3. 1 .. 4 = {1, 2, 3, 4} OBVIOUS
    <2> QED BY <2>1, <2>2, <2>3
<1>9. wk[1] = "w" /\ dk[1] = "d" /\ ck[1] = "c" /\ hk[1] = "h" BY DEF Warehouse, District, Customer, History
<1>10. /\ p.key = wk /\ p.empty = FALSE /\ p.value = [d[wk] EXCEPT !.w_ytd = @ + amount]
       /\ q.key = dk /\ q.empty = FALSE /\ q.value = [d[dk] EXCEPT !.d_ytd = @ + amount]
       /\ s.key = ck /\ s.empty = FALSE /\ s.value = CustomerAfter(d[ck], amount)
       /\ t.key = hk /\ t.empty = FALSE /\ t.value = amount
    BY <1>5 DEF Write
<1> HIDE DEF wk, dk, ck, hk
<1>11. Keyed({p, q, s, t})
    <2>1. wk # dk /\ wk # ck /\ wk # hk /\ dk # ck /\ dk # hk /\ ck # hk BY <1>9
    <2> QED BY Zenon, <1>10, <2>1 DEF Keyed
<1>12. PICK e : e = ApplyWrites(d, ws) OBVIOUS
<1>13. HasWritten(d, e, {p, q, s, t}) BY <1>8, <1>11, <1>12, KeyedWrites
<1>14. wk \in DOMAIN d /\ dk \in DOMAIN d /\ ck \in DOMAIN d BY <1>3 DEF wk, dk, ck
<1>15. PayEffect(d, e, w, dd, cw, cd, c, time, amount)
    <2>1. ASSUME NEW k PROVE k \in DOMAIN e <=> k \in DOMAIN d \/ k = hk
        BY <1>10, <1>13, <1>14 DEF HasWritten
    <2>2. \A k \in DOMAIN d : k # wk /\ k # dk /\ k # ck /\ k # hk => e[k] = d[k]
        BY <1>10, <1>13 DEF HasWritten
    <2>3. /\ e[wk] = [d[wk] EXCEPT !.w_ytd = @ + amount]
          /\ e[dk] = [d[dk] EXCEPT !.d_ytd = @ + amount]
          /\ e[ck] = CustomerAfter(d[ck], amount) /\ e[hk] = amount
        BY <1>10, <1>13 DEF HasWritten
    <2>4. \A k \in DOMAIN d : k[1] = "s" => e[k] = d[k] BY <1>9, <2>2
    <2>5. \A k : k[1] \in {"w", "d", "c", "s", "o", "n"} => (k \in DOMAIN e <=> k \in DOMAIN d) BY <1>9, <2>1
    <2>6. \A k \in DOMAIN d : k[1] = "w" /\ k # wk => e[k] = d[k] BY <1>9, <2>2
    <2>7. \A k \in DOMAIN d : k[1] = "d" /\ k # dk => e[k] = d[k] BY <1>9, <2>2
    <2>8. \A k \in DOMAIN d : k[1] = "c" /\ k # ck => e[k] = d[k] BY <1>9, <2>2
    <2>9. \A k \in DOMAIN d : k[1] = "h" /\ k # hk => e[k] = d[k] BY <1>9, <2>2
    <2> QED BY <2>1, <2>3, <2>4, <2>5, <2>6, <2>7, <2>8, <2>9 DEF PayEffect, CustomerAfter, wk, dk, ck, hk
<1>16. Tables(e, time + 1) BY <1>1, <1>2, <1>4, <1>15, PayKeeps
<1> QED BY <1>7, <1>12, <1>16

-----------------------------------------------------------------------------
(* A new order.                                                              *)

\* the two writes of a line
StockWrite(d, r, n) ==
    Write(Stock(r.lines[n].supply, r.lines[n].item),
          StockAfter(d[Stock(r.lines[n].supply, r.lines[n].item)], r.lines[n], r.w))
LineWrite(r, n) ==
    Write(OrderLine(r.w, r.d, r.d, n),
          [ol_i_id |-> r.lines[n].item, ol_supply_w_id |-> r.lines[n].supply, ol_quantity |-> r.lines[n].qty])

LEMMA LineWritten ==
    ASSUME NEW d, NEW r, NEW n
    PROVE  LineWrites(d, r, n)[1] = StockWrite(d, r, n) /\ LineWrites(d, r, n)[2] = LineWrite(r, n)
<1>1. PICK a, b : a = StockWrite(d, r, n) /\ b = LineWrite(r, n) OBVIOUS
<1>2. LineWrites(d, r, n) = <<a>> \o <<b>> BY <1>1 DEF LineWrites, StockWrite, LineWrite, put, Write
<1>3. (<<a>> \o <<b>>)[1] = a /\ (<<a>> \o <<b>>)[2] = b OBVIOUS
<1> QED BY <1>1, <1>2, <1>3

\* what an order asks for
OrderAsked(r, len) ==
    /\ r.d \in Districts /\ len \in Nat
    /\ Len(r.lines) = len /\ DOMAIN r.lines = 1 .. len
    /\ \A n \in 1 .. len : r.lines[n].qty \in 1 .. 10
    /\ \A m, n \in 1 .. len : r.lines[m].item = r.lines[n].item => m = n

LEMMA OrderRequest ==
    ASSUME NEW home, NEW r \in doNewOrderRand(home)
    PROVE  \E len : OrderAsked(r, len)
<1> DEFINE line == [item : getItemID, supply : {home} \cup UniformLongExcept(1, WarehouseCount, home), qty : Quantities]
<1>1. r.d \in Districts /\ r.lines \in NewOrderLines(home) BY DEF doNewOrderRand
<1>2. PICK lines : lines = r.lines OBVIOUS
<1>3. /\ lines \in UNION {[1 .. n -> line] : n \in OrderLineCounts}
      /\ \A i, j \in DOMAIN lines : i # j => lines[i].item # lines[j].item
    BY <1>1, <1>2 DEF NewOrderLines
<1>4. \A x \in line : x.qty \in Quantities OBVIOUS
<1> HIDE DEF line
<1>5. PICK len \in OrderLineCounts : lines \in [1 .. len -> line] BY <1>3
<1>6. len \in Nat /\ Quantities \subseteq 1 .. 10 BY SerialAssumption
<1>7. DOMAIN lines = 1 .. len /\ \A n \in 1 .. len : lines[n] \in line BY <1>5
<1>8. Len(lines) = len
    <2>1. lines \in Seq(line) BY <1>5, <1>6
    <2>2. Len(lines) \in Nat /\ DOMAIN lines = 1 .. Len(lines) BY <2>1, LenProperties
    <2> QED BY <1>6, <1>7, <2>2
<1>9. \A n \in 1 .. len : lines[n].qty \in 1 .. 10 BY <1>4, <1>6, <1>7
<1>10. \A m, n \in 1 .. len : lines[m].item = lines[n].item => m = n BY <1>3, <1>7
<1> QED BY <1>1, <1>2, <1>6, <1>7, <1>8, <1>9, <1>10 DEF OrderAsked

Erased(k) == [key |-> k, empty |-> TRUE]

\* the writes of an order: a, b, c and x of the order, and those of its lines
IsOrderWrite(v, len, a, b, c, x, sw, lw) ==
    \/ v = a \/ v = b \/ v = c \/ v = x
    \/ \E n \in 1 .. len : v = sw[n]
    \/ \E n \in 1 .. len : v = lw[n]

LineTail(d, r, len) == [k \in 1 .. 2 * len |-> LineWrites(d, r, (k + 1) \div 2)[2 - (k % 2)]]

LEMMA LineSet ==
    ASSUME NEW d, NEW r, NEW len \in Nat, NEW tail, NEW sw, NEW lw,
           tail = LineTail(d, r, len),
           \A n \in 1 .. len : sw[n] = StockWrite(d, r, n) /\ lw[n] = LineWrite(r, n)
    PROVE  \A k \in 1 .. 2 * len : \E n \in 1 .. len : tail[k] = sw[n] \/ tail[k] = lw[n]
<1> SUFFICES ASSUME NEW k \in 1 .. 2 * len
             PROVE  \E n \in 1 .. len : tail[k] = sw[n] \/ tail[k] = lw[n]
    OBVIOUS
<1>1. PICK n : n = (k + 1) \div 2 OBVIOUS
<1>2. PICK i : i = 2 - (k % 2) OBVIOUS
<1>3. n \in 1 .. len BY <1>1
<1>4. i = 1 \/ i = 2 BY <1>2
<1>5. tail[k] = LineWrites(d, r, n)[i] BY <1>1, <1>2 DEF LineTail
<1>6. tail[k] = StockWrite(d, r, n) \/ tail[k] = LineWrite(r, n) BY <1>4, <1>5, LineWritten
<1> QED BY <1>3, <1>6

LEMMA OrderStep ==
    ASSUME NEW d, NEW time \in Nat \ {0}, Tables(d, time), NEW home, NEW r \in doNewOrderRand(home),
           NEW ran, ran = executeNewOrder(d, r), ran.ret = 0
    PROVE  Tables(ApplyWrites(d, ran.writes), time + 1)
<1>1. PICK len : OrderAsked(r, len) BY OrderRequest
<1>2. PICK w, dd, o : w = r.w /\ dd = r.d /\ o = d[District(w, dd)].d_next_o_id OBVIOUS
<1>3. PICK tail : tail = [k \in 1 .. 2 * len |-> LineWrites(d, r, (k + 1) \div 2)[2 - (k % 2)]] OBVIOUS
<1>4. PICK u : u = OrderWrites(d, r) OBVIOUS
<1>5. /\ Warehouse(w) \in DOMAIN d /\ District(w, dd) \in DOMAIN d
      /\ \A n \in 1 .. len : Stock(r.lines[n].supply, r.lines[n].item) \in DOMAIN d
      /\ ran.writes = u \o tail
    <2>1. PICK keys, ws :
            /\ keys = {Warehouse(r.w), District(r.w, r.d), Customer(r.w, r.d, r.c)}
                      \cup UNION {{Item(l.item), Stock(l.supply, l.item), Stock(r.w, l.item)} : l \in Range(r.lines)}
            /\ ws = u \o tail
        OBVIOUS
    <2>2. ran = Require(d, keys, ws) BY <1>1, <1>3, <1>4, <2>1 DEF executeNewOrder, OrderAsked
    <2>3. keys \subseteq DOMAIN d /\ ran.writes = ws
        <3> HIDE <2>1
        <3> QED BY <2>2 DEF Require, Success, Failure, get
    <2>4. \A n \in 1 .. len : r.lines[n] \in Range(r.lines) BY <1>1 DEF OrderAsked, Range
    <2>5. \A n \in 1 .. len : Stock(r.lines[n].supply, r.lines[n].item) \in keys BY <2>1, <2>4
    <2>6. Warehouse(w) \in keys /\ District(w, dd) \in keys BY <1>2, <2>1
    <2> QED BY <2>1, <2>3, <2>5, <2>6
<1>6. w \in Warehouses /\ dd \in Districts
    <2>1. PICK y \in Warehouses : Warehouse(w) = Warehouse(y) BY <1>5, KeyTables DEF Tables, TableKeys
    <2>2. w = y BY <2>1 DEF Warehouse
    <2> QED BY <1>1, <1>2, <2>2 DEF OrderAsked
<1> DEFINE dk == District(w, dd)
           ok == Order(w, dd, o)
           ik == OrderWdc(w, dd, r.c, o)
           nk == NewOrder(w, dd, o)
           row == [o_c_id |-> r.c, o_ol_cnt |-> Len(r.lines),
                   o_all_local |-> \A n \in DOMAIN r.lines : r.lines[n].supply = r.w, o_carrier_id |-> 0]
<1>7. PICK a, b, c, x :
        /\ a = Write(dk, [d[dk] EXCEPT !.d_next_o_id = @ + 1])
        /\ b = Write(ok, row) /\ c = Erased(ik) /\ x = Write(nk, 0)
    OBVIOUS
<1>8. u = <<a>> \o <<b>> \o <<c>> \o <<x>>
    BY <1>2, <1>4, <1>7 DEF OrderWrites, put, putEmpty, Write, Erased
<1>9. dk[1] = "d" /\ ok[1] = "o" /\ ik[1] = "wdc" /\ nk[1] = "n" BY DEF District, Order, OrderWdc, NewOrder
<1>10. /\ a.key = dk /\ a.empty = FALSE /\ a.value = [d[dk] EXCEPT !.d_next_o_id = @ + 1]
       /\ b.key = ok /\ b.empty = FALSE /\ c.key = ik /\ c.empty = TRUE /\ x.key = nk /\ x.empty = FALSE
    BY <1>7 DEF Write, Erased
<1>11. PICK sw, lw, sk :
        /\ sw = [n \in 1 .. len |-> StockWrite(d, r, n)]
        /\ lw = [n \in 1 .. len |-> LineWrite(r, n)]
        /\ sk = [n \in 1 .. len |-> Stock(r.lines[n].supply, r.lines[n].item)]
    OBVIOUS
<1>l. /\ \A n \in 1 .. len : /\ sw[n].key = sk[n] /\ sk[n][1] = "s" /\ sw[n].empty = FALSE
                              /\ sw[n].value = StockAfter(d[sk[n]], r.lines[n], r.w)
                              /\ sk[n] \in DOMAIN d
                              /\ lw[n].key[1] = "ol" /\ lw[n].key[5] = n /\ lw[n].empty = FALSE
      /\ \A m, n \in 1 .. len : sk[m] = sk[n] => m = n
    <2>1. ASSUME NEW n \in 1 .. len
          PROVE  /\ sw[n].key = sk[n] /\ sw[n].empty = FALSE
                 /\ sw[n].value = StockAfter(d[sk[n]], r.lines[n], r.w)
        <3>1. PICK v : v = StockAfter(d[sk[n]], r.lines[n], r.w) OBVIOUS
        <3>2. sw[n] = Write(sk[n], v) BY <1>11, <3>1 DEF StockWrite
        <3>3. sw[n].key = sk[n] /\ sw[n].empty = FALSE /\ sw[n].value = v BY <3>2 DEF Write
        <3> QED BY <3>1, <3>3
    <2>2. ASSUME NEW n \in 1 .. len PROVE sk[n][1] = "s" /\ sk[n][3] = r.lines[n].item BY <1>11 DEF Stock
    <2>3. ASSUME NEW n \in 1 .. len
          PROVE  lw[n].key[1] = "ol" /\ lw[n].key[5] = n /\ lw[n].empty = FALSE
        <3>1. PICK v : lw[n] = Write(OrderLine(r.w, r.d, r.d, n), v) BY <1>11 DEF LineWrite
        <3>2. PICK k : k = OrderLine(r.w, r.d, r.d, n) OBVIOUS
        <3>3. lw[n].key = k /\ lw[n].empty = FALSE BY <3>1, <3>2 DEF Write
        <3>4. k[1] = "ol" /\ k[5] = n BY <3>2 DEF OrderLine
        <3> QED BY <3>3, <3>4
    <2>4. \A n \in 1 .. len : sk[n] \in DOMAIN d BY <1>5, <1>11
    <2>5. ASSUME NEW m \in 1 .. len, NEW n \in 1 .. len, sk[m] = sk[n] PROVE m = n
        <3>1. r.lines[m].item = r.lines[n].item BY <2>2, <2>5
        <3> QED BY <1>1, <3>1 DEF OrderAsked
    <2>6. \A n \in 1 .. len : /\ sw[n].key = sk[n] /\ sk[n][1] = "s" /\ sw[n].empty = FALSE
                              /\ sw[n].value = StockAfter(d[sk[n]], r.lines[n], r.w)
                              /\ sk[n] \in DOMAIN d
                              /\ lw[n].key[1] = "ol" /\ lw[n].key[5] = n /\ lw[n].empty = FALSE
        BY <2>1, <2>2, <2>3, <2>4
    <2>7. \A m, n \in 1 .. len : sk[m] = sk[n] => m = n BY <2>5
    <2> QED BY <2>6, <2>7
<1> HIDE DEF dk, ok, ik, nk, row
<1>12. PICK ws : ws = ran.writes OBVIOUS
<1>13. PICK W : W = {ws[i] : i \in 1 .. (2 * len + 4)} OBVIOUS
<1>14. /\ DOMAIN ws = 1 .. (2 * len + 4)
       /\ \A v \in W : IsOrderWrite(v, len, a, b, c, x, sw, lw)
       /\ a \in W /\ b \in W /\ c \in W /\ x \in W
    <2>1. PICK S : S = {a, b, c, x} \cup {tail[i] : i \in 1 .. 2 * len} OBVIOUS
    <2>2. a \in S /\ b \in S /\ c \in S /\ x \in S BY <2>1
    <2>3. tail \in [1 .. 2 * len -> S] BY <1>3, <2>1
    <2>4. FourOf(u, S, a, b, c, x)
        <3>1. FourOf(<<a>> \o <<b>> \o <<c>> \o <<x>>, S, a, b, c, x) BY <2>2, FourWrites
        <3> QED BY Zenon, <1>8, <3>1
    <2>5. len \in Nat /\ 2 * len \in Nat BY <1>1 DEF OrderAsked
    <2>6. PICK m \in Nat : m = 2 * len BY <2>5
    <2>7. ws = u \o tail BY <1>5, <1>12
    <2>8. WritesAre(ws, m, a, b, c, x, tail)
        <3>1. tail \in [1 .. m -> S] BY <2>3, <2>6
        <3> QED BY <2>2, <2>4, <2>7, <3>1, MoreWrites
    <2>9. \A k \in 1 .. m : \E n \in 1 .. len : tail[k] = sw[n] \/ tail[k] = lw[n]
        <3>1. \A n \in 1 .. len : sw[n] = StockWrite(d, r, n) /\ lw[n] = LineWrite(r, n) BY <1>11
        <3>2. \A k \in 1 .. 2 * len : \E n \in 1 .. len : tail[k] = sw[n] \/ tail[k] = lw[n]
            <4>1. tail = LineTail(d, r, len) BY Zenon, <1>3 DEF LineTail
            <4> QED BY <2>5, <3>1, <4>1, LineSet
        <3> QED BY <2>6, <3>2
    <2>10. DOMAIN ws = 1 .. (2 * len + 4) /\ W = {ws[i] : i \in 1 .. (m + 4)} BY <1>13, <2>6, <2>8 DEF WritesAre
    <2>11. W \subseteq {a, b, c, x} \cup {tail[i] : i \in 1 .. m} /\ {a, b, c, x} \subseteq W
        BY <2>8, <2>10 DEF WritesAre
    <2>12. ASSUME NEW v \in W PROVE IsOrderWrite(v, len, a, b, c, x, sw, lw)
        <3>1. CASE v \in {a, b, c, x} BY <3>1 DEF IsOrderWrite
        <3>2. CASE v \notin {a, b, c, x}
            <4>1. PICK i \in 1 .. m : v = tail[i] BY <2>11, <3>2
            <4> QED BY <2>9, <4>1 DEF IsOrderWrite
        <3> QED BY <3>1, <3>2
    <2> QED BY <2>10, <2>11, <2>12
<1>15. Keyed(W)
    <2> SUFFICES ASSUME NEW v \in W, NEW y \in W PROVE v.empty \in BOOLEAN /\ (v.key = y.key => v = y)
        BY DEF Keyed
    <2>1. v.empty \in BOOLEAN
        <3>1. v.empty = TRUE \/ v.empty = FALSE BY <1>10, <1>l, <1>14 DEF IsOrderWrite
        <3> QED BY <3>1
    <2>2. ASSUME v.key = y.key PROVE v = y
        BY <1>9, <1>10, <1>l, <1>14, <2>2 DEF IsOrderWrite
    <2> QED BY <2>1, <2>2
<1>16. PICK e : e = ApplyWrites(d, ws) OBVIOUS
<1>17. HasWritten(d, e, W)
    <2>1. 2 * len + 4 \in Nat BY <1>1 DEF OrderAsked
    <2> QED BY <1>13, <1>14, <1>15, <1>16, <2>1, KeyedWrites
<1>18. OrderEffect(d, e, w, dd, o)
    <2>1. \A k : k[1] \in {"w", "c", "h"} => \A v \in W : v.key # k BY <1>9, <1>10, <1>l, <1>14 DEF IsOrderWrite
    <2>2. \A k : k[1] = "d" => \A v \in W : v.key = k => v = a /\ k = dk
        BY <1>9, <1>10, <1>l, <1>14 DEF IsOrderWrite
    <2>3. \A k : k[1] = "o" => \A v \in W : v.key = k => v = b /\ k = ok
        BY <1>9, <1>10, <1>l, <1>14 DEF IsOrderWrite
    <2>4. \A k : k[1] = "n" => \A v \in W : v.key = k => v = x /\ k = nk
        BY <1>9, <1>10, <1>l, <1>14 DEF IsOrderWrite
    <2>5. \A k : k[1] = "s" => \A v \in W : v.key = k => \E n \in 1 .. len : v = sw[n]
        BY <1>9, <1>10, <1>l, <1>14 DEF IsOrderWrite
    <2>6. dk \in DOMAIN d BY <1>5 DEF dk
    <2>7. ASSUME NEW k, k[1] \in {"w", "c", "h"}
          PROVE  (k \in DOMAIN e <=> k \in DOMAIN d) /\ (k \in DOMAIN d => e[k] = d[k])
        <3>1. \A v \in W : v.key # k BY <2>1, <2>7
        <3> QED BY <1>17, <3>1 DEF HasWritten
    <2>8. ASSUME NEW k, k[1] = "d"
          PROVE  (k \in DOMAIN e <=> k \in DOMAIN d) /\ (k \in DOMAIN d /\ k # dk => e[k] = d[k])
        <3>1. \A v \in W : v.key = k => v = a /\ k = dk BY <2>2, <2>8
        <3> QED BY <1>10, <1>14, <1>17, <2>6, <3>1 DEF HasWritten
    <2>9. ASSUME NEW k, k[1] = "o" PROVE k \in DOMAIN e <=> k \in DOMAIN d \/ k = ok
        <3>1. \A v \in W : v.key = k => v = b /\ k = ok BY <2>3, <2>9
        <3> QED BY <1>10, <1>14, <1>17, <3>1 DEF HasWritten
    <2>10. ASSUME NEW k, k[1] = "n" PROVE k \in DOMAIN e <=> k \in DOMAIN d \/ k = nk
        <3>1. \A v \in W : v.key = k => v = x /\ k = nk BY <2>4, <2>10
        <3> QED BY <1>10, <1>14, <1>17, <3>1 DEF HasWritten
    <2>11. ASSUME NEW k, k[1] = "s"
           PROVE  /\ k \in DOMAIN e <=> k \in DOMAIN d
                  /\ k \in DOMAIN d =>
                        e[k] = d[k] \/ \E line, h : line.qty \in 1 .. 10 /\ e[k] = StockAfter(d[k], line, h)
        <3>1. CASE \A v \in W : v.key # k BY <1>17, <3>1 DEF HasWritten
        <3>2. ASSUME NEW v \in W, v.key = k
              PROVE  /\ k \in DOMAIN e <=> k \in DOMAIN d
                     /\ \E line, h : line.qty \in 1 .. 10 /\ e[k] = StockAfter(d[k], line, h)
            <4>1. PICK n \in 1 .. len : v = sw[n] BY <2>5, <2>11, <3>2
            <4>2. k = sk[n] /\ v.empty = FALSE BY <1>l, <3>2, <4>1
            <4>3. k \in DOMAIN d BY <1>l, <4>2
            <4>4. e[k] = v.value /\ k \in DOMAIN e BY <1>17, <3>2, <4>2 DEF HasWritten
            <4>5. v.value = StockAfter(d[k], r.lines[n], r.w) BY <1>l, <4>1, <4>2
            <4>6. r.lines[n].qty \in 1 .. 10 BY <1>1 DEF OrderAsked
            <4> QED BY <4>3, <4>4, <4>5, <4>6
        <3> QED BY <3>1, <3>2
    <2>12. e[dk] = [d[dk] EXCEPT !.d_next_o_id = @ + 1] BY <1>10, <1>14, <1>17 DEF HasWritten
    <2> DEFINE Changed(k) == e[k] = d[k] \/ \E line, h : line.qty \in 1 .. 10 /\ e[k] = StockAfter(d[k], line, h)
    <2>13. \A k \in DOMAIN d : k[1] = "s" => Changed(k) BY <2>11
    <2>14. \A k : k[1] \in {"w", "d", "c", "h", "s"} => (k \in DOMAIN e <=> k \in DOMAIN d)
        BY <2>7, <2>8, <2>11
    <2>15. \A k : k[1] = "o" => (k \in DOMAIN e <=> k \in DOMAIN d \/ k = ok) BY <2>9
    <2>16. \A k : k[1] = "n" => (k \in DOMAIN e <=> k \in DOMAIN d \/ k = nk) BY <2>10
    <2>17. \A k \in DOMAIN d : k[1] \in {"w", "c", "h"} => e[k] = d[k] BY <2>7
    <2>18. \A k \in DOMAIN d : k[1] = "d" /\ k # dk => e[k] = d[k] BY <2>8
    <2> QED BY Zenon, <2>12, <2>13, <2>14, <2>15, <2>16, <2>17, <2>18 DEF OrderEffect, dk, ok, nk
<1>19. time \in Int OBVIOUS
<1>20. Tables(e, time + 1) BY <1>2, <1>6, <1>18, <1>19, OrderKeeps
<1> QED BY <1>12, <1>16, <1>20

-----------------------------------------------------------------------------
(* The tables as the loader leaves them.                                     *)

LoadedTables(q, last) ==
    {initItem, initWarehouse}
    \cup UNION {{initStock(w, q), initDistrict(w)} \cup initCustomer(w, last) \cup initOrder(w) : w \in Warehouses}

\* a row of the loader
LoadedRow(key, v, q, last) ==
    /\ key[1] = "w" => (\E w \in Warehouses : key = Warehouse(w)) /\ v = [w_ytd |-> LoadedYtd]
    /\ key[1] = "d" => /\ \E w \in Warehouses, dd \in Districts : key = District(w, dd)
                       /\ v = [d_ytd |-> LoadedYtd, d_next_o_id |-> CustomerCount + 1]
    /\ key[1] = "c" => /\ \E w \in Warehouses, dd \in Districts, c \in Customers : key = Customer(w, dd, c)
                       /\ v = [c_balance |-> -10, c_ytd_payment |-> 1, c_payment_cnt |-> 0,
                               c_last |-> last[key[3]][key[4]]]
    /\ key[1] = "h" => key[7] = 0 /\ v = 10
    /\ key[1] = "s" => v = [s_quantity |-> q, s_ytd |-> 0, s_order_cnt |-> 0, s_remote_cnt |-> 0]
    /\ key[1] = "o" => key[4] \in Customers
    /\ key[1] = "n" => key[4] \in Customers

LEMMA LoadedShared ==
    ASSUME NEW q, NEW last, NEW t \in {initItem, initWarehouse}, NEW key \in DOMAIN t
    PROVE  LoadedRow(key, t[key], q, last)
<1>1. CASE t = initItem
    <2>1. PICK i \in Items : key = Item(i) BY <1>1 DEF initItem
    <2>2. key[1] = "i" BY <2>1 DEF Item
    <2> QED BY <2>2 DEF LoadedRow
<1>2. CASE t = initWarehouse
    <2>1. PICK w \in Warehouses : key = Warehouse(w) BY <1>2 DEF initWarehouse
    <2>2. key[1] = "w" BY <2>1 DEF Warehouse
    <2>3. t[key] = [w_ytd |-> LoadedYtd] BY <1>2 DEF initWarehouse
    <2> QED BY <2>1, <2>2, <2>3 DEF LoadedRow
<1> QED BY <1>1, <1>2

LEMMA LoadedStock ==
    ASSUME NEW q, NEW last, NEW w \in Warehouses, NEW t \in {initStock(w, q), initDistrict(w)}, NEW key \in DOMAIN t
    PROVE  LoadedRow(key, t[key], q, last)
<1>1. CASE t = initStock(w, q)
    <2>1. PICK i \in Items : key = Stock(w, i) BY <1>1 DEF initStock
    <2>2. key[1] = "s" BY <2>1 DEF Stock
    <2>3. t[key] = [s_quantity |-> q, s_ytd |-> 0, s_order_cnt |-> 0, s_remote_cnt |-> 0] BY <1>1 DEF initStock
    <2> QED BY <2>2, <2>3 DEF LoadedRow
<1>2. CASE t = initDistrict(w)
    <2>1. PICK dd \in Districts : key = District(w, dd) BY <1>2 DEF initDistrict
    <2>2. key[1] = "d" BY <2>1 DEF District
    <2>3. t[key] = [d_ytd |-> LoadedYtd, d_next_o_id |-> CustomerCount + 1] BY <1>2 DEF initDistrict
    <2> QED BY <2>1, <2>2, <2>3 DEF LoadedRow
<1> QED BY <1>1, <1>2

LEMMA LoadedCustomer ==
    ASSUME NEW q, NEW last, NEW w \in Warehouses, NEW t \in initCustomer(w, last), NEW key \in DOMAIN t
    PROVE  LoadedRow(key, t[key], q, last)
<1> DEFINE rows == {Customer(w, d, c) : d \in Districts, c \in Customers}
           hist == {History(c, d, w, d, w, 0) : d \in Districts, c \in Customers}
           idx == UNION {{ByLastName(w, d, n) : n \in {last[e][c] : e \in 1..d, c \in Customers}} : d \in Districts}
           f == [k \in rows |-> [c_balance |-> -10, c_ytd_payment |-> 1, c_payment_cnt |-> 0,
                                 c_last |-> last[k[3]][k[4]]]]
           g == [k \in hist |-> 10]
<1>1. t = f \/ t = g \/ DOMAIN t = idx BY DEF initCustomer
<1>2. CASE t = f
    <2>1. PICK dd \in Districts, c \in Customers : key = Customer(w, dd, c) BY <1>2
    <2>2. key[1] = "c" BY <2>1 DEF Customer
    <2>3. t[key] = [c_balance |-> -10, c_ytd_payment |-> 1, c_payment_cnt |-> 0, c_last |-> last[key[3]][key[4]]]
        BY <1>2
    <2> QED BY <2>1, <2>2, <2>3 DEF LoadedRow
<1>3. CASE t = g
    <2>1. PICK dd \in Districts, c \in Customers : key = History(c, dd, w, dd, w, 0) BY <1>3
    <2>2. key[1] = "h" /\ key[7] = 0 BY <2>1 DEF History
    <2>3. t[key] = 10 BY <1>3
    <2> QED BY <2>2, <2>3 DEF LoadedRow
<1>4. CASE DOMAIN t = idx
    <2>1. PICK dd, n : key = ByLastName(w, dd, n) BY <1>4
    <2>2. key[1] = "wdl" BY <2>1 DEF ByLastName
    <2> QED BY <2>2 DEF LoadedRow
<1> QED BY <1>1, <1>2, <1>3, <1>4

LEMMA LoadedOrders ==
    ASSUME NEW q, NEW last, NEW w \in Warehouses, NEW t \in initOrder(w), NEW key \in DOMAIN t
    PROVE  LoadedRow(key, t[key], q, last)
<1> DEFINE orders == {Order(w, d, o) : d \in Districts, o \in Customers}
           fresh == {NewOrder(w, d, o) : d \in Districts, o \in (FirstUndelivered - 1)..CustomerCount}
                    \ {NewOrder(w, d, 0) : d \in Districts}
<1>1. DOMAIN t = orders \/ DOMAIN t = fresh BY DEF initOrder
<1>2. CASE DOMAIN t = orders
    <2>1. PICK dd \in Districts, o \in Customers : key = Order(w, dd, o) BY <1>2
    <2>2. key[1] = "o" /\ key[4] = o BY <2>1 DEF Order
    <2> QED BY <2>2 DEF LoadedRow
<1>3. CASE DOMAIN t = fresh
    <2>1. PICK dd \in Districts, o \in (FirstUndelivered - 1)..CustomerCount : key = NewOrder(w, dd, o) /\ o # 0
        BY <1>3
    <2>2. key[1] = "n" /\ key[4] = o BY <2>1 DEF NewOrder
    <2>3. FirstUndelivered \in Nat \ {0} /\ CustomerCount \in Nat BY SerialAssumption DEF FirstUndelivered
    <2>4. o \in Customers BY <2>1, <2>3 DEF Customers
    <2> QED BY <2>2, <2>4 DEF LoadedRow
<1> QED BY <1>1, <1>2, <1>3

LEMMA LoadedRows ==
    ASSUME NEW q, NEW last, NEW d, d = TPCCInit(q, last)
    PROVE  /\ \A key \in DOMAIN d : LoadedRow(key, d[key], q, last)
           /\ \A t \in LoadedTables(q, last) : DOMAIN t \subseteq DOMAIN d
<1> DEFINE T == LoadedTables(q, last)
<1>1. T = LoadedTables(q, last) OBVIOUS
<1>2. d = [key \in UNION {DOMAIN t : t \in T} |-> (CHOOSE t \in T : key \in DOMAIN t)[key]]
    BY DEF TPCCInit, LoadedTables
<1> HIDE DEF T
<1>3. ASSUME NEW t \in T, NEW key \in DOMAIN t PROVE LoadedRow(key, t[key], q, last)
    <2>1. CASE t \in {initItem, initWarehouse} BY <2>1, LoadedShared
    <2>2. CASE t \notin {initItem, initWarehouse}
        <3>1. PICK w \in Warehouses :
                t \in {initStock(w, q), initDistrict(w)} \/ t \in initCustomer(w, last) \/ t \in initOrder(w)
            BY <1>1, <2>2 DEF LoadedTables
        <3> QED BY <3>1, LoadedStock, LoadedCustomer, LoadedOrders
    <2> QED BY <2>1, <2>2
<1>4. ASSUME NEW key \in DOMAIN d PROVE LoadedRow(key, d[key], q, last)
    <2>1. PICK t : t = CHOOSE t1 \in T : key \in DOMAIN t1 OBVIOUS
    <2>2. \E t1 \in T : key \in DOMAIN t1 BY <1>2
    <2>3. t \in T /\ key \in DOMAIN t BY <2>1, <2>2
    <2>4. d[key] = t[key] BY <1>2, <2>1
    <2> QED BY <1>3, <2>3, <2>4
<1>5. \A t \in T : DOMAIN t \subseteq DOMAIN d BY <1>2
<1> QED BY <1>1, <1>4, <1>5

LEMMA LoadedKeys ==
    ASSUME NEW q, NEW last, NEW d, d = TPCCInit(q, last), NEW w \in Warehouses
    PROVE  /\ Warehouse(w) \in DOMAIN d
           /\ \A dd \in Districts : District(w, dd) \in DOMAIN d
           /\ \A dd \in Districts, c \in Customers : Customer(w, dd, c) \in DOMAIN d /\ Order(w, dd, c) \in DOMAIN d
           /\ \A dd \in Districts : NewOrder(w, dd, CustomerCount) \in DOMAIN d
<1>1. \A t \in LoadedTables(q, last) : DOMAIN t \subseteq DOMAIN d BY LoadedRows
<1>2. Warehouse(w) \in DOMAIN d
    <2>1. initWarehouse \in LoadedTables(q, last) BY DEF LoadedTables
    <2>2. Warehouse(w) \in DOMAIN initWarehouse BY DEF initWarehouse
    <2> QED BY <1>1, <2>1, <2>2
<1>3. ASSUME NEW dd \in Districts PROVE District(w, dd) \in DOMAIN d
    <2>1. initDistrict(w) \in LoadedTables(q, last) BY DEF LoadedTables
    <2>2. District(w, dd) \in DOMAIN initDistrict(w) BY DEF initDistrict
    <2> QED BY <1>1, <2>1, <2>2
<1>4. ASSUME NEW dd \in Districts, NEW c \in Customers PROVE Customer(w, dd, c) \in DOMAIN d
    <2>1. PICK t \in initCustomer(w, last) : DOMAIN t = {Customer(w, e, x) : e \in Districts, x \in Customers}
        BY DEF initCustomer
    <2>2. t \in LoadedTables(q, last) BY <2>1 DEF LoadedTables
    <2> QED BY <1>1, <2>1, <2>2
<1>5. ASSUME NEW dd \in Districts, NEW c \in Customers PROVE Order(w, dd, c) \in DOMAIN d
    <2>1. PICK t \in initOrder(w) : DOMAIN t = {Order(w, e, x) : e \in Districts, x \in Customers} BY DEF initOrder
    <2>2. t \in LoadedTables(q, last) BY <2>1 DEF LoadedTables
    <2> QED BY <1>1, <2>1, <2>2
<1>6. ASSUME NEW dd \in Districts PROVE NewOrder(w, dd, CustomerCount) \in DOMAIN d
    <2>1. PICK t \in initOrder(w) :
            DOMAIN t = {NewOrder(w, e, o) : e \in Districts, o \in (FirstUndelivered - 1)..CustomerCount}
                       \ {NewOrder(w, e, 0) : e \in Districts}
        BY DEF initOrder
    <2>2. t \in LoadedTables(q, last) BY <2>1 DEF LoadedTables
    <2>3. CustomerCount \in (FirstUndelivered - 1)..CustomerCount /\ CustomerCount # 0
        BY SerialAssumption DEF FirstUndelivered
    <2>4. \A e : NewOrder(w, e, 0) # NewOrder(w, dd, CustomerCount) BY <2>3 DEF NewOrder
    <2>5. NewOrder(w, dd, CustomerCount) \in DOMAIN t BY <2>1, <2>3, <2>4
    <2> QED BY <1>1, <2>2, <2>5
<1> QED BY <1>2, <1>3, <1>4, <1>5, <1>6

LEMMA LoadedRight ==
    ASSUME NEW q \in 10 .. 100, NEW last, \A dd \in Districts, c \in Customers : last[dd][c] \in Int,
           NEW d, d = TPCCInit(q, last)
    PROVE  Tables(d, 1)
<1>1. \A key \in DOMAIN d : LoadedRow(key, d[key], q, last) BY LoadedRows
<1>2. ASSUME NEW w \in Warehouses
      PROVE  /\ Warehouse(w) \in DOMAIN d
             /\ \A dd \in Districts : District(w, dd) \in DOMAIN d
             /\ \A dd \in Districts, c \in Customers : Customer(w, dd, c) \in DOMAIN d /\ Order(w, dd, c) \in DOMAIN d
             /\ \A dd \in Districts : NewOrder(w, dd, CustomerCount) \in DOMAIN d
    BY LoadedKeys
<1>3. TableKeys(d)
    <2>1. ASSUME NEW key \in DOMAIN d
          PROVE  /\ key[1] = "w" => \E w \in Warehouses : key = Warehouse(w)
                 /\ key[1] = "d" => \E w \in Warehouses, dd \in Districts : key = District(w, dd)
                 /\ key[1] = "c" => \E w \in Warehouses, dd \in Districts, c \in Customers : key = Customer(w, dd, c)
        BY <1>1 DEF LoadedRow
    <2> QED BY <1>2, <2>1 DEF TableKeys
<1>4. ASSUME NEW w \in Warehouses PROVE d[Warehouse(w)] = [w_ytd |-> LoadedYtd]
    <2>1. Warehouse(w)[1] = "w" /\ Warehouse(w) \in DOMAIN d BY <1>2, KeyTables
    <2> QED BY <1>1, <2>1 DEF LoadedRow
<1>5. ASSUME NEW w \in Warehouses, NEW dd \in Districts
      PROVE  d[District(w, dd)] = [d_ytd |-> LoadedYtd, d_next_o_id |-> CustomerCount + 1]
    <2>1. District(w, dd)[1] = "d" /\ District(w, dd) \in DOMAIN d BY <1>2, KeyTables
    <2> QED BY <1>1, <2>1 DEF LoadedRow
<1>6. ASSUME NEW w \in Warehouses, NEW dd \in Districts, NEW c \in Customers
      PROVE  d[Customer(w, dd, c)] = [c_balance |-> -10, c_ytd_payment |-> 1, c_payment_cnt |-> 0, c_last |-> last[dd][c]]
    <2>1. PICK key : key = Customer(w, dd, c) OBVIOUS
    <2>2. key[1] = "c" /\ key[3] = dd /\ key[4] = c /\ key \in DOMAIN d BY <1>2, <2>1 DEF Customer
    <2>3. d[key] = [c_balance |-> -10, c_ytd_payment |-> 1, c_payment_cnt |-> 0, c_last |-> last[key[3]][key[4]]]
        BY <1>1, <2>2 DEF LoadedRow
    <2> QED BY <2>1, <2>2, <2>3
<1>7. \A key \in DOMAIN d : key[1] = "h" => key[7] = 0 /\ d[key] = 10 BY <1>1 DEF LoadedRow
<1>c. CustomerCount \in Nat \ {0} /\ LoadedYtd \in Int BY SerialAssumption DEF LoadedYtd
<1>8. TableRows(d)
    <2>1. ASSUME NEW w \in Warehouses PROVE d[Warehouse(w)] \in [w_ytd : Int] BY <1>4, <1>c
    <2>2. ASSUME NEW w \in Warehouses, NEW dd \in Districts PROVE d[District(w, dd)] \in DistrictRows
        BY <1>5, <1>c DEF DistrictRows
    <2>3. ASSUME NEW w \in Warehouses, NEW dd \in Districts, NEW c \in Customers PROVE d[Customer(w, dd, c)] \in CustomerRows
        <3>1. PICK b \in Int, l \in Int : b = -10 /\ l = last[dd][c] OBVIOUS
        <3>2. d[Customer(w, dd, c)] = [c_balance |-> b, c_ytd_payment |-> 1, c_payment_cnt |-> 0, c_last |-> l]
            BY <1>6, <3>1
        <3> QED BY <3>2 DEF CustomerRows
    <2>4. \A key \in DOMAIN d : key[1] = "h" => d[key] \in Int BY <1>7
    <2> QED BY <2>1, <2>2, <2>3, <2>4 DEF TableRows
<1>9. StockKept(d)
    <2> SUFFICES ASSUME NEW key \in DOMAIN d, key[1] = "s"
                 PROVE  /\ d[key] \in StockRows
                        /\ d[key].s_remote_cnt <= d[key].s_order_cnt /\ d[key].s_order_cnt <= d[key].s_ytd
        BY DEF StockKept
    <2>1. d[key] = [s_quantity |-> q, s_ytd |-> 0, s_order_cnt |-> 0, s_remote_cnt |-> 0] BY <1>1 DEF LoadedRow
    <2> QED BY <2>1 DEF StockRows
<1>10. TakenRight(d)
    <2> SUFFICES ASSUME NEW w \in Warehouses
                 PROVE  d[Warehouse(w)].w_ytd - LoadedYtd = SumOf(Taken(d, w), Districts)
        BY DEF TakenRight
    <2>1. IsFiniteSet(Districts) BY FS_Interval, SerialAssumption DEF Districts
    <2>2. PICK t : t = Taken(d, w) OBVIOUS
    <2>3. \A y \in Districts : t[y] = 0
        <3> SUFFICES ASSUME NEW y \in Districts PROVE t[y] = 0 OBVIOUS
        <3>1. d[District(w, y)].d_ytd = LoadedYtd BY <1>5
        <3>2. t[y] = LoadedYtd - LoadedYtd BY <2>2, <3>1 DEF Taken
        <3> QED BY <1>c, <3>2
    <2>4. SumOf(t, Districts) = 0 BY <2>1, <2>3, SumZero
    <2>5. d[Warehouse(w)].w_ytd - LoadedYtd = 0 BY <1>4, <1>c
    <2> QED BY <2>2, <2>4, <2>5
<1>11. OrdersNumbered(d)
    <2> SUFFICES ASSUME NEW w \in Warehouses, NEW dd \in Districts, NEW top, top = d[District(w, dd)].d_next_o_id - 1
                 PROVE  /\ Numbers(d, "o", w, dd) = 1..top
                        /\ top \in Numbers(d, "n", w, dd)
                        /\ \A z \in Numbers(d, "n", w, dd) : z \in Int /\ z <= top
        BY DEF OrdersNumbered
    <2>1. top = CustomerCount BY <1>5, <1>c
    <2>2. ASSUME NEW o \in Customers PROVE o \in Numbers(d, "o", w, dd)
        <3>1. PICK k : k = Order(w, dd, o) OBVIOUS
        <3>2. k \in DOMAIN d /\ k[1] = "o" /\ k[2] = w /\ k[3] = dd /\ k[4] = o BY <1>2, <3>1 DEF Order
        <3> QED BY <3>2 DEF Numbers
    <2>3. \A o \in Numbers(d, "o", w, dd) : o \in Customers BY <1>1 DEF Numbers, LoadedRow
    <2>4. CustomerCount \in Numbers(d, "n", w, dd)
        <3>1. PICK k : k = NewOrder(w, dd, CustomerCount) OBVIOUS
        <3>2. k \in DOMAIN d /\ k[1] = "n" /\ k[2] = w /\ k[3] = dd /\ k[4] = CustomerCount
            BY <1>2, <3>1 DEF NewOrder
        <3> QED BY <3>2 DEF Numbers
    <2>5. \A o \in Numbers(d, "n", w, dd) : o \in Customers BY <1>1 DEF Numbers, LoadedRow
    <2>6. Numbers(d, "o", w, dd) = Customers BY <2>2, <2>3
    <2> QED BY <1>c, <2>1, <2>4, <2>5, <2>6 DEF Customers
<1>12. PaidBefore(d, 1) BY <1>7 DEF PaidBefore
<1>13. PaidRight(d)
    <2> SUFFICES ASSUME NEW w \in Warehouses, NEW dd \in Districts, NEW c \in Customers, NEW P, P = Paid(d, w, dd, c)
                 PROVE  /\ IsFiniteSet(P)
                        /\ d[Customer(w, dd, c)].c_ytd_payment - 1 = SumOf(d, P)
                        /\ d[Customer(w, dd, c)].c_payment_cnt = Cardinality(P)
                        /\ d[Customer(w, dd, c)].c_balance + d[Customer(w, dd, c)].c_ytd_payment = -9
        BY DEF PaidRight
    <2>1. P = {} BY <1>7 DEF Paid
    <2>2. IsFiniteSet(P) /\ Cardinality(P) = 0 BY <2>1, FS_EmptySet
    <2>3. SumOf(d, P) = 0 BY <2>1, <2>2, SumZero
    <2>4. PICK b \in Int : b = -10 OBVIOUS
    <2>5. d[Customer(w, dd, c)] = [c_balance |-> b, c_ytd_payment |-> 1, c_payment_cnt |-> 0, c_last |-> last[dd][c]]
        BY <1>6, <2>4
    <2>6. d[Customer(w, dd, c)].c_balance = b /\ d[Customer(w, dd, c)].c_ytd_payment = 1
          /\ d[Customer(w, dd, c)].c_payment_cnt = 0
        BY <2>5
    <2> QED BY <2>2, <2>3, <2>4, <2>6
<1> QED BY <1>3, <1>8, <1>9, <1>10, <1>11, <1>12, <1>13 DEF Tables

\* the tables are right when the transaction with number next starts
TablesRight == workload = "tpcc" => Tables(ledger, next)
RowsInv == next \in Nat \ {0} /\ TablesRight /\ RowsComplete

\* one transaction, and one that fails
LEMMA TpccRequest ==
    ASSUME NEW d, NEW time \in Nat \ {0}, Tables(d, time), NEW r \in TPCCWorkload(time),
           NEW ran, ran = NewChaincodeByName(d, r), ran.ret = 0
    PROVE  Tables(ApplyWrites(d, ran.writes), time + 1)
<1>1. PICK home : r \in doNewOrderRand(home) \/ r \in doPaymentRand(home, time) BY DEF TPCCWorkload
<1>2. CASE r \in doNewOrderRand(home)
    <2>1. r.cc = "tpcc" /\ r.func = "new_order" BY <1>2 DEF doNewOrderRand
    <2>2. ran = executeNewOrder(d, r) BY <2>1 DEF NewChaincodeByName, TPCC
    <2> QED BY <1>2, <2>2, OrderStep
<1>3. CASE r \in doPaymentRand(home, time)
    <2>1. r.cc = "tpcc" /\ r.func = "payment" BY <1>3, PaymentAsked
    <2>2. ran = executePayment(d, r) BY <2>1 DEF NewChaincodeByName, TPCC
    <2> QED BY <1>3, <2>2, PaymentStep
<1> QED BY <1>1, <1>2, <1>3

LEMMA TimePasses ==
    ASSUME NEW d, NEW time \in Nat, Tables(d, time)
    PROVE  Tables(d, time + 1)
<1>1. PaidBefore(d, time + 1) BY DEF Tables, PaidBefore
<1> QED BY <1>1 DEF Tables

LEMMA PrimedTables == Tables(ledger, next)' <=> Tables(ledger', next')
BY DEF Tables, TableKeys, TableRows, StockKept, TakenRight, OrdersNumbered, PaidBefore, PaidRight,
       Paid, Numbers, Taken, SumOf, IsSum, SomeOf

LEMMA RowsInit == ASSUME SerialInit PROVE RowsInv
<1>1. next = 1 /\ ledger \in InitDatabase(workload) BY DEF SerialInit
<1>2. ASSUME workload = "tpcc" PROVE Tables(ledger, next)
    <2> DEFINE last == [d \in Districts |-> [c \in Customers |-> c % 2]]
    <2>1. ledger \in {TPCCInit(q, last) : q \in StockQuantities} BY <1>1, <1>2 DEF InitDatabase
    <2>2. \A dd \in Districts, c \in Customers : last[dd][c] \in Int BY DEF Customers
    <2> HIDE DEF last
    <2>3. PICK q \in StockQuantities : ledger = TPCCInit(q, last) BY <2>1
    <2>4. StockQuantities \subseteq 10 .. 100 BY SerialAssumption
    <2>5. q \in 10 .. 100 BY <2>4
    <2> QED BY <1>1, <2>2, <2>3, <2>5, LoadedRight
<1>3. ASSUME workload = "ycsb" PROVE RowsComplete
    <2>1. ledger = YCSBInit BY <1>1, <1>3 DEF InitDatabase
    <2> QED BY <2>1 DEF YCSBInit, RowsComplete, Rows
<1>4. RowsComplete BY <1>3 DEF RowsComplete
<1> QED BY <1>1, <1>2, <1>4 DEF RowsInv, TablesRight

LEMMA RowsNext == ASSUME RowsInv, [SerialNext]_serialVars PROVE RowsInv'
<1>1. CASE UNCHANGED serialVars
    <2>1. UNCHANGED <<workload, ledger, next>> BY <1>1 DEF serialVars
    <2>2. TablesRight' BY <2>1, PrimedTables DEF RowsInv, TablesRight
    <2> QED BY <2>1, <2>2 DEF RowsInv, RowsComplete, Rows
<1>2. ASSUME NEW r \in Requests, ExecuteTransaction(r) PROVE RowsInv'
    <2>1. next \in Nat \ {0} /\ next' = next + 1 /\ workload' = workload BY <1>2 DEF RowsInv, ExecuteTransaction
    <2>2. RowsComplete'
        <3>1. CASE workload = "ycsb" BY <1>2, <3>1, RowsKept DEF RowsInv
        <3>2. CASE workload # "ycsb" BY <2>1, <3>2 DEF RowsComplete
        <3> QED BY <3>1, <3>2
    <2>3. ASSUME workload = "tpcc" PROVE Tables(ledger', next')
        <3>1. Tables(ledger, next) BY <2>3 DEF RowsInv, TablesRight
        <3>2. r \in TPCCWorkload(next) BY <1>2, <2>3 DEF Requests
        <3>3. PICK ran : ran = NewChaincodeByName(ledger, r) OBVIOUS
        <3>4. ledger' = IF ran.ret = 0 THEN ApplyWrites(ledger, ran.writes) ELSE ledger
            BY <1>2, <3>3 DEF ExecuteTransaction
        <3>5. CASE ran.ret = 0
            <4>1. Tables(ApplyWrites(ledger, ran.writes), next + 1) BY <2>1, <3>1, <3>2, <3>3, <3>5, TpccRequest
            <4> QED BY <2>1, <3>4, <3>5, <4>1
        <3>6. CASE ran.ret # 0
            <4>1. Tables(ledger, next + 1) BY <2>1, <3>1, TimePasses
            <4> QED BY <2>1, <3>4, <3>6, <4>1
        <3> QED BY <3>5, <3>6
    <2>4. TablesRight' BY <2>1, <2>3, PrimedTables DEF TablesRight
    <2> QED BY <2>1, <2>2, <2>4 DEF RowsInv
<1>3. CASE Done BY <1>1, <1>3 DEF Done
<1> QED BY <1>1, <1>2, <1>3 DEF SerialNext

\* the tables are what TpccConsistent asks for
LEMMA TablesConsistent == ASSUME RowsInv PROVE TpccConsistent
<1> SUFFICES ASSUME workload = "tpcc" PROVE TpccConsistent BY DEF TpccConsistent
<1> DEFINE numbers(table, w, d) == {key[4] : key \in {k \in Rows(table) : k[2] = w /\ k[3] = d}}
           paid(w, d, c) == {key \in Rows("h") : key[2] = c /\ key[3] = d /\ key[4] = w /\ key[7] > 0}
<1>1. Tables(ledger, next) BY DEF RowsInv, TablesRight
<1>2. ASSUME NEW key \in Rows("s")
      PROVE  /\ ledger[key].s_quantity \in 10..100
             /\ ledger[key].s_remote_cnt <= ledger[key].s_order_cnt
             /\ ledger[key].s_order_cnt <= ledger[key].s_ytd
    <2>1. key \in DOMAIN ledger /\ key[1] = "s" BY DEF Rows
    <2>2. /\ ledger[key] \in StockRows
          /\ ledger[key].s_remote_cnt <= ledger[key].s_order_cnt
          /\ ledger[key].s_order_cnt <= ledger[key].s_ytd
        BY <1>1, <2>1 DEF Tables, StockKept
    <2>3. ledger[key].s_quantity \in 10..100 BY <2>2 DEF StockRows
    <2> QED BY <2>2, <2>3
<1>3. ASSUME NEW w \in Warehouses
      PROVE  ledger[Warehouse(w)].w_ytd - LoadedYtd
               = Sum([d \in Districts |-> ledger[District(w, d)].d_ytd - LoadedYtd], Districts)
    <2>1. ledger[Warehouse(w)].w_ytd - LoadedYtd = SumOf(Taken(ledger, w), Districts)
        BY <1>1 DEF Tables, TakenRight
    <2> QED BY Zenon, <2>1, SumRead DEF Taken
<1>4. ASSUME NEW w \in Warehouses, NEW d \in Districts, NEW top, top = ledger[District(w, d)].d_next_o_id - 1
      PROVE  numbers("o", w, d) = 1..top /\ Max(numbers("n", w, d)) = top
    <2>1. ASSUME NEW table PROVE numbers(table, w, d) = Numbers(ledger, table, w, d)
        <3>1. {k \in Rows(table) : k[2] = w /\ k[3] = d} = {k \in DOMAIN ledger : k[1] = table /\ k[2] = w /\ k[3] = d}
            BY DEF Rows
        <3> QED BY <3>1 DEF Numbers
    <2> HIDE DEF numbers
    <2>2. PICK N : N = numbers("n", w, d) OBVIOUS
    <2>3. numbers("o", w, d) = 1..top /\ top \in N /\ \A x \in N : x \in Int /\ x <= top
        BY <1>1, <1>4, <2>1, <2>2 DEF Tables, OrdersNumbered
    <2>4. Max(N) \in N /\ \A y \in N : Max(N) >= y
        <3>1. \E x \in N : \A y \in N : x >= y BY <2>3
        <3> QED BY <3>1 DEF Max
    <2>5. PICK m : m = Max(N) OBVIOUS
    <2>6. m \in Int /\ top \in Int /\ m <= top /\ m >= top BY <2>3, <2>4, <2>5
    <2>7. m = top BY <2>6
    <2> QED BY <2>2, <2>3, <2>5, <2>7
<1>5. ASSUME NEW w \in Warehouses, NEW d \in Districts, NEW c \in Customers, NEW row, row = ledger[Customer(w, d, c)]
      PROVE  /\ row.c_ytd_payment - 1 = Sum(ledger, paid(w, d, c))
             /\ row.c_payment_cnt = Cardinality(paid(w, d, c))
             /\ row.c_balance + row.c_ytd_payment = -9
    <2>1. paid(w, d, c) = Paid(ledger, w, d, c) BY DEF Rows, Paid
    <2> HIDE DEF paid
    <2>2. /\ row.c_ytd_payment - 1 = SumOf(ledger, Paid(ledger, w, d, c))
          /\ row.c_payment_cnt = Cardinality(Paid(ledger, w, d, c))
          /\ row.c_balance + row.c_ytd_payment = -9
        BY <1>1, <1>5 DEF Tables, PaidRight
    <2> QED BY <2>1, <2>2, SumRead
<1> QED BY <1>2, <1>3, <1>4, <1>5 DEF TpccConsistent

\* For any number of warehouses, districts, customers, items, records and
\* transactions, executed one by one and whichever of them fail: after every one
\* of them the rows are as the chaincodes rely on them.
THEOREM RowsAlwaysConsistent == SerialSpec => []RowsConsistent
<1>1. SerialInit => RowsInv BY RowsInit
<1>2. RowsInv /\ [SerialNext]_serialVars => RowsInv' BY RowsNext
<1>3. RowsInv => RowsConsistent BY TablesConsistent DEF RowsConsistent, RowsInv
<1> QED BY <1>1, <1>2, <1>3, PTL DEF SerialSpec
=============================================================================
