----------------------------- MODULE Workloads ------------------------------
(***************************************************************************)
(* The requests that the benchmark clients generate: each operator is the  *)
(* set of requests that one call of the generator of that name can send,   *)
(* whatever its random numbers are.  What a distribution prefers is left   *)
(* out, the range it draws from is not.                                    *)
(***************************************************************************)
EXTENDS Chaincodes

CONSTANTS HotspotSize,         \* accounts in the hot spot, 0: no hot spot
          OrderLineCounts,     \* how many lines a new order may have
          Quantities,          \* how many of an item a line may order
          Amounts,             \* what a payment may pay
          Votes,               \* how many votes one request may add
          FieldValues,         \* what a YCSB field may be set to
          LastNames,           \* the last names of the run
          PaymentLookup,       \* payments may name the customer by last name
          WriteAllFields       \* an update writes all the fields of a row

-----------------------------------------------------------------------------
(***************************************************************************)
(* Generators.  Both bounds are included.                                  *)
(***************************************************************************)
RandomUINT64(lb, ub) == lb..ub

(* Every number of lb..ub but v, unless there is only one number. *)
UniformLongExcept(lb, ub, v) ==
    LET skip == IF lb = ub THEN ub + 1 ELSE v
        top == IF lb < ub - 1 THEN ub - 1 ELSE lb
    IN  {IF r >= skip THEN r + 1 ELSE r : r \in lb..top}

(* ((a | b) + C) % (y - x + 1) + x, whatever a | b is. *)
NonUniform(x, y, C) == {((n + C) % (y - x + 1)) + x : n \in x..y}

-----------------------------------------------------------------------------
(***************************************************************************)
(* Small bank.                                                             *)
(***************************************************************************)
LastAccount == AccountsCount - 1
AtMostLast(n) == IF n < LastAccount THEN n ELSE LastAccount

(* The two ranges that accounts are drawn from. *)
hotSpotTxnChooser    == IF HotspotSize = 0 THEN {} ELSE RandomUINT64(0, AtMostLast(HotspotSize))
nonHotSpotTxnChooser == IF HotspotSize = 0 THEN RandomUINT64(0, LastAccount)
                        ELSE RandomUINT64(AtMostLast(HotspotSize + 1), LastAccount)

(* The checks of init: both ranges hold two different accounts. *)
ASSUME HotspotAssumption ==
    IF HotspotSize = 0 THEN LastAccount > 0
    ELSE AtMostLast(HotspotSize) > 0 /\ AtMostLast(HotspotSize + 1) < LastAccount

generateOneAccount == hotSpotTxnChooser \cup nonHotSpotTxnChooser
generateTwoAccount ==
    UNION {{p \in range \X range : p[1] # p[2]} : range \in {hotSpotTxnChooser, nonHotSpotTxnChooser}}

Bank(func, acc, amount) == [cc |-> "small_bank", func |-> func, acc |-> acc, amount |-> amount]

doBalance         == {Bank("balance", a, 0) : a \in generateOneAccount}
doDepositChecking == {Bank("deposit_checking", a, 13) : a \in generateOneAccount}
doTransactSaving  == {Bank("transact_saving", a, 202) : a \in generateOneAccount}
doWriteCheck      == {Bank("write_check", a, 50) : a \in generateOneAccount}
doAmalgamate      == {[cc |-> "small_bank", func |-> "amalgamate", acc |-> p[1], to |-> p[2]] :
                      p \in generateTwoAccount}

SmallBankWorkload == doBalance \cup doDepositChecking \cup doTransactSaving
                     \cup doWriteCheck \cup doAmalgamate

-----------------------------------------------------------------------------
(***************************************************************************)
(* TPC-C.  The items of an order are all different; a line is usually      *)
(* supplied by the home warehouse, seldom by another.                      *)
(***************************************************************************)
getItemID     == NonUniform(1, ItemsCount, 7911)
getCustomerID == NonUniform(1, CustomerCount, 259)

(* The warehouses of one client: partition of client id out of nodes. *)
CalculatePartition(id, nodes) ==
    LET size == WarehouseCount \div nodes
    IN  (id * size) .. ((IF id = nodes - 1 THEN WarehouseCount ELSE (id + 1) * size) - 1)

warehouseChooser == {p + 1 : p \in CalculatePartition(0, 1)}

NewOrderLines(w) ==
    LET supplier == {w} \cup UniformLongExcept(1, WarehouseCount, w)
        line == [item : getItemID, supply : supplier, qty : Quantities]
    IN  {lines \in UNION {[1..n -> line] : n \in OrderLineCounts} :
            \A i, j \in DOMAIN lines : i # j => lines[i].item # lines[j].item}

doNewOrderRand(w) ==
    [cc : {"tpcc"}, func : {"new_order"}, w : {w}, d : Districts, c : getCustomerID,
     lines : NewOrderLines(w)]

(* The customer of a payment belongs to the district that is paid, or to any
   district of another warehouse. *)
doPaymentRand(w, time) ==
    LET away == UniformLongExcept(1, WarehouseCount, w) \X Districts
        byId(d, at) ==
            [cc : {"tpcc"}, func : {"payment"}, w : {w}, d : {d}, amount : Amounts, time : {time},
             cw : {at[1]}, cd : {at[2]}, byId : {TRUE}, c : getCustomerID]
        byName(d, at) ==
            [cc : {"tpcc"}, func : {"payment"}, w : {w}, d : {d}, amount : Amounts, time : {time},
             cw : {at[1]}, cd : {at[2]}, byId : {FALSE}, last : IF PaymentLookup THEN LastNames ELSE {}]
    IN  UNION {UNION {byId(d, at) \cup byName(d, at) : at \in {<<w, d>>} \cup away} : d \in Districts}

TPCCWorkload(time) == UNION {doNewOrderRand(w) \cup doPaymentRand(w, time) : w \in warehouseChooser}

-----------------------------------------------------------------------------
(***************************************************************************)
(* YCSB, for a key number that the caller has chosen.                      *)
(***************************************************************************)
buildSingleValue == UNION {[{f} -> FieldValues] : f \in FieldNames}
buildValues == [FieldNames -> FieldValues]
NewValues == IF WriteAllFields THEN buildValues ELSE buildSingleValue

doTransactionRead(k)   == {[cc |-> "ycsb", func |-> "read", key |-> k]}
doTransactionScan(k)   == {[cc |-> "ycsb", func |-> "scan", key |-> k]}
doTransactionUpdate(k) == [cc : {"ycsb"}, func : {"update"}, key : {k}, fields : NewValues]
doTransactionInsert(k) == [cc : {"ycsb"}, func : {"insert"}, key : {k}, fields : buildValues]
doTransactionReadModifyWrite(k) ==
    [cc : {"ycsb"}, func : {"read_modify_write"}, key : {k}, fields : NewValues,
     reads : {{f} : f \in FieldNames}]

CoreWorkload(known, next) ==
    doTransactionInsert(next)
    \cup UNION {doTransactionRead(k) \cup doTransactionScan(k) \cup doTransactionUpdate(k)
                \cup doTransactionReadModifyWrite(k) : k \in known}

-----------------------------------------------------------------------------
(***************************************************************************)
(* Voting, the mixed workload, and the requests that the small chaincodes' *)
(* tests send.                                                             *)
(***************************************************************************)
doVoteCandidate ==
    [cc : {"voting"}, func : {"vote"}, key : RandomUINT64(0, CandidateCount - 1), count : Votes]
doGetCandidate == [cc : {"voting"}, func : {"get"}, key : RandomUINT64(0, CandidateCount - 1)]

CrdtWorkload == doVoteCandidate \cup doGetCandidate

Transfers == [cc : {"transfer"}, from : 0..RecordCount, to : 0..(RecordCount - 1)]
Sessions  == [cc : {"session_store"}, key : 0..RecordCount, value : 1..2]
Hashes    == [cc : {"hash_chaincode"}, func : {"get"}, key : 0..RecordCount]
             \cup [cc : {"hash_chaincode"}, func : {"set"}, key : 0..RecordCount, value : FieldValues]
=============================================================================
