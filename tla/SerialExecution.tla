--------------------------- MODULE SerialExecution --------------------------
(***************************************************************************)
(* A peer with the serial coordinator executes the transactions of its     *)
(* blocks one by one, each against the database as its predecessor left    *)
(* it.  The workload, and the random choices of the loader that fills the  *)
(* database, are picked in the initial state.                              *)
(***************************************************************************)
EXTENDS Workloads

CONSTANTS Workload,          \* the workloads that may be running
          MaxTxns,           \* bound: transactions executed
          Balances,          \* initial balances of an account
          StockQuantities    \* initial quantities of a stock row

(* The loader gives no account a debt, and no vote takes votes away.  The   *)
(* benchmark orders 1 to 10 of an item and loads 10 to 100 of it.           *)
ASSUME SerialAssumption ==
    /\ {AccountsCount, RecordCount, CandidateCount} \subseteq Nat
    /\ Balances \subseteq Nat /\ Votes \subseteq Nat
    /\ {WarehouseCount, DistrictCount} \subseteq Nat /\ CustomerCount \in Nat \ {0}
    /\ OrderLineCounts \subseteq Nat
    /\ Quantities \subseteq 1..10 /\ StockQuantities \subseteq 10..100 /\ Amounts \subseteq Nat

VARIABLES workload,    \* the workload of this behaviour
          ledger,      \* the database
          next,        \* the number of the next transaction (and its time)
          outcome,     \* what the last transaction returned to its client
          net          \* the money, or the votes, that clients have put in

serialVars == <<workload, ledger, next, outcome, net>>

Sum(f, keys) == MapThenSumSet(LAMBDA key : f[key], keys)

Balance(d) == Sum(d, {key \in DOMAIN d : key[1] \in {"checking", "savings", "number"}})

(* The database that the loader leaves. *)
InitDatabase(w) ==
    CASE w = "small_bank" -> {SmallBankInit(b) : b \in Balances}
      [] w = "tpcc"       -> {TPCCInit(q, [d \in Districts |-> [c \in Customers |-> c % 2]]) : q \in StockQuantities}
      [] w = "ycsb"       -> {YCSBInit}
      [] w = "voting"     -> {VoteInit}
      [] OTHER            -> {initDatabase}

(* What clients may ask for; a YCSB client knows the rows it was told of. *)
Requests ==
    CASE workload = "small_bank" -> SmallBankWorkload
      [] workload = "tpcc"       -> TPCCWorkload(next)
      [] workload = "ycsb"       -> CoreWorkload(0 .. RecordCount + next - 2, RecordCount + next - 1)
      [] workload = "voting"     -> CrdtWorkload
      [] workload = "transfer"   -> Transfers
      [] workload = "session_store"  -> Sessions
      [] workload = "hash_chaincode" -> Hashes

SerialInit ==
    /\ workload \in Workload
    /\ ledger \in InitDatabase(workload)
    /\ next = 1
    /\ outcome = "none"
    /\ net = Balance(ledger)

(* What a committed request adds to the money (or votes) in the database. *)
Deposited(r) ==
    CASE r.cc = "small_bank" /\ r.func \in {"deposit_checking", "transact_saving"} -> r.amount
      [] r.cc = "small_bank" /\ r.func = "write_check" ->
            IF ledger[Checking(r.acc)] + ledger[Savings(r.acc)] < r.amount THEN - r.amount - Penalty ELSE - r.amount
      [] r.cc = "voting" /\ r.func = "vote" -> r.count
      [] OTHER -> 0

(* The next transaction.  One that fails writes nothing. *)
ExecuteTransaction(r) ==
    /\ next <= MaxTxns
    /\ LET ran == NewChaincodeByName(ledger, r)
           commits == ran.ret = 0
       IN  /\ ledger' = IF commits THEN ApplyWrites(ledger, ran.writes) ELSE ledger
           /\ outcome' = IF commits THEN "commit" ELSE "abort_no_retry"
           /\ net' = IF commits THEN net + Deposited(r) ELSE net
    /\ next' = next + 1
    /\ UNCHANGED workload

Done == next > MaxTxns /\ UNCHANGED serialVars

SerialNext == (\E r \in Requests : ExecuteTransaction(r)) \/ Done
SerialSpec == SerialInit /\ [][SerialNext]_serialVars

-----------------------------------------------------------------------------
(***************************************************************************)
(* LedgerBalanced: whatever transactions ran, and however many of them     *)
(* failed, the accounts together hold what was loaded and what clients     *)
(* paid in or out; a vote is neither lost nor counted twice; transfers and *)
(* amalgamations move money and make none.  No savings account is          *)
(* overdrawn.                                                              *)
(***************************************************************************)
LedgerBalanced ==
    /\ workload \in {"small_bank", "voting", "transfer"} => Balance(ledger) = net
    /\ workload = "small_bank" => \A key \in DOMAIN ledger : key[1] = "savings" => ledger[key] >= 0

Rows(table) == {key \in DOMAIN ledger : key[1] = table}

(***************************************************************************)
(* TpccConsistent: the consistency conditions of the benchmark.  What a    *)
(* warehouse has taken is what its districts have taken; the orders of a   *)
(* district are numbered without a gap up to its next number, and the last *)
(* of them is also the last new order; what a customer has paid is in the  *)
(* history, and is what the balance fell by.  Refilling keeps the quantity *)
(* of every stock row between 10 and 100, by home and by remote orders.    *)
(***************************************************************************)
TpccConsistent ==
    workload = "tpcc" =>
      /\ \A key \in Rows("s") :
            /\ ledger[key].s_quantity \in 10..100
            /\ ledger[key].s_remote_cnt <= ledger[key].s_order_cnt
            /\ ledger[key].s_order_cnt <= ledger[key].s_ytd
      /\ \A w \in Warehouses :
            ledger[Warehouse(w)].w_ytd - LoadedYtd
              = Sum([d \in Districts |-> ledger[District(w, d)].d_ytd - LoadedYtd], Districts)
      /\ \A w \in Warehouses, d \in Districts :
            LET numbers(table) == {key[4] : key \in {k \in Rows(table) : k[2] = w /\ k[3] = d}}
                top == ledger[District(w, d)].d_next_o_id - 1
            IN  numbers("o") = 1..top /\ Max(numbers("n")) = top
      /\ \A w \in Warehouses, d \in Districts, c \in Customers :
            LET row == ledger[Customer(w, d, c)]
                paid == {key \in Rows("h") : key[2] = c /\ key[3] = d /\ key[4] = w /\ key[7] > 0}
            IN  /\ row.c_ytd_payment - 1 = Sum(ledger, paid)
                /\ row.c_payment_cnt = Cardinality(paid)
                /\ row.c_balance + row.c_ytd_payment = -9

(***************************************************************************)
(* RowsComplete: every YCSB row has all its fields, so that no read fails  *)
(* for a field: an insert writes them all or fails, and an update merges   *)
(* into the row that is there.  The rows are those loaded and inserted.    *)
(***************************************************************************)
RowsComplete ==
    workload = "ycsb" =>
      /\ \A key \in Rows("user") : DOMAIN ledger[key] = FieldNames
      /\ {User(k) : k \in 0..(RecordCount - 1)} \subseteq DOMAIN ledger

(***************************************************************************)
(* RowsConsistent: the rows of both benchmarks with tables stay as their   *)
(* chaincodes rely on them, TpccConsistent and RowsComplete.               *)
(***************************************************************************)
RowsConsistent == TpccConsistent /\ RowsComplete
=============================================================================
