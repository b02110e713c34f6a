----------------------------- MODULE Chaincodes -----------------------------
(***************************************************************************)
(* The chaincodes a peer can be asked to run, each as a function of the    *)
(* database it reads and the request it is given, and the ORM they read    *)
(* and write through.                                                      *)
(*                                                                         *)
(* A database maps the keys that are present to their values.  A key is a  *)
(* tuple of its table prefix and its identifiers; a row is a record of the *)
(* fields that a transaction reads or changes (names, addresses and other  *)
(* random strings are left out).  Money is counted in tenths.              *)
(***************************************************************************)
EXTENDS Integers, Sequences, FiniteSets, SequencesExt, FiniteSetsExt, Functions

CONSTANTS WarehouseCount, DistrictCount, CustomerCount, ItemsCount,
          AccountsCount,       \* rows of the small bank tables
          RecordCount,         \* rows of the YCSB, transfer and session tables
          CandidateCount,      \* rows of the voting table
          FieldNames           \* fields of a YCSB row

Warehouses == 1..WarehouseCount
Districts  == 1..DistrictCount
Customers  == 1..CustomerCount
Items      == 1..ItemsCount

(***************************************************************************)
(* The ORM.  A get goes to the database only: a transaction does not see   *)
(* what it has itself written.  Writes are kept in order, and a key may be *)
(* in them twice.  A row that serializes to nothing is an empty value, and *)
(* an empty value is a deletion when the writes reach the database.        *)
(***************************************************************************)
get(db, key) == key \in DOMAIN db
put(key, value) == <<[key |-> key, value |-> value, empty |-> FALSE]>>
putEmpty(key) == <<[key |-> key, empty |-> TRUE]>>

Failure == [ret |-> -1, writes |-> <<>>]
Success(writes) == [ret |-> 0, writes |-> writes]
Require(db, keys, writes) == IF \A key \in keys : get(db, key) THEN Success(writes) ELSE Failure

ApplyWrites(db, writes) ==
    FoldLeft(LAMBDA d, w : IF w.empty
                           THEN Restrict(d, DOMAIN d \ {w.key})
                           ELSE [k \in DOMAIN d \cup {w.key} |-> IF k = w.key THEN w.value ELSE d[k]],
             db, writes)

-----------------------------------------------------------------------------
(***************************************************************************)
(* Small bank.                                                             *)
(***************************************************************************)
Account(a)  == <<"account", a>>
Checking(a) == <<"checking", a>>
Savings(a)  == <<"savings", a>>

SmallBankInit(balance) ==
    LET ids == 0 .. AccountsCount - 1
    IN  [key \in UNION {{Account(a), Checking(a), Savings(a)} : a \in ids} |->
            IF key[1] = "account" THEN 0 ELSE balance]

balance(db, r) == Require(db, {Account(r.acc), Savings(r.acc), Checking(r.acc)}, <<>>)

depositChecking(db, r) ==
    IF r.amount < 0 THEN Failure
    ELSE Require(db, {Account(r.acc), Checking(r.acc)},
                 put(Checking(r.acc), db[Checking(r.acc)] + r.amount))

transactSavings(db, r) ==
    LET after == db[Savings(r.acc)] + r.amount
    IN  IF ~ get(db, Account(r.acc)) \/ ~ get(db, Savings(r.acc)) \/ after < 0 THEN Failure
        ELSE Success(put(Savings(r.acc), after))

amalgamateKeepsChecking(db, r) ==
    Require(db, {Account(r.acc), Account(r.to), Savings(r.acc), Checking(r.acc), Checking(r.to)},
            put(Savings(r.acc), 0)
            \o put(Checking(r.to), db[Checking(r.to)] + db[Savings(r.acc)] + db[Checking(r.acc)]))
amalgamate(db, r) ==
    Require(db, {Account(r.acc), Account(r.to), Savings(r.acc), Checking(r.acc), Checking(r.to)},
            put(Savings(r.acc), 0) \o put(Checking(r.acc), 0)
            \o put(Checking(r.to), db[Checking(r.to)] + db[Savings(r.acc)] + db[Checking(r.acc)]))

(* An overdraft costs a penalty of one. *)
Penalty == 10
writeCheck(db, r) ==
    LET overdrawn == db[Checking(r.acc)] + db[Savings(r.acc)] < r.amount
        paid == IF overdrawn THEN r.amount + Penalty ELSE r.amount
    IN  Require(db, {Account(r.acc), Savings(r.acc), Checking(r.acc)},
                put(Checking(r.acc), db[Checking(r.acc)] - paid))

SmallBank(db, r) ==
    CASE r.func = "balance"          -> balance(db, r)
      [] r.func = "deposit_checking" -> depositChecking(db, r)
      [] r.func = "transact_saving"  -> transactSavings(db, r)
      [] r.func = "amalgamate"       -> amalgamate(db, r)
      [] r.func = "write_check"      -> writeCheck(db, r)
      [] OTHER                       -> Failure

-----------------------------------------------------------------------------
(***************************************************************************)
(* TPC-C: tables.                                                          *)
(***************************************************************************)
Warehouse(w)       == <<"w", w>>
District(w, d)     == <<"d", w, d>>
Customer(w, d, c)  == <<"c", w, d, c>>
ByLastName(w, d, n) == <<"wdl", w, d, n>>
History(c, cd, cw, d, w, t) == <<"h", c, cd, cw, d, w, t>>
Order(w, d, o)     == <<"o", w, d, o>>
OrderWdc(w, d, c, o) == <<"wdc", w, d, c, o>>
NewOrder(w, d, o)  == <<"n", w, d, o>>
OrderLine(w, d, o, n) == <<"ol", w, d, o, n>>
Item(i)            == <<"i", i>>
Stock(w, i)        == <<"s", w, i>>

(* Year-to-date amounts that the loader gives warehouses and districts. *)
LoadedYtd == 3000000
(* The loader makes one order per customer, the last of them undelivered. *)
FirstUndelivered == (7 * CustomerCount) \div 10 + 1

(***************************************************************************)
(* The loader.  The quantity q of every stock row, and the last names, are *)
(* the random choices that later transactions can tell apart.              *)
(***************************************************************************)
initItem == [key \in {Item(i) : i \in Items} |-> [i_price |-> 1]]

initWarehouse == [key \in {Warehouse(w) : w \in Warehouses} |-> [w_ytd |-> LoadedYtd]]

initStock(w, q) ==
    [key \in {Stock(w, i) : i \in Items} |->
        [s_quantity |-> q, s_ytd |-> 0, s_order_cnt |-> 0, s_remote_cnt |-> 0]]

initDistrict(w) ==
    [key \in {District(w, d) : d \in Districts} |->
        [d_ytd |-> LoadedYtd, d_next_o_id |-> CustomerCount + 1]]

(* Customers of one last name, in the order of their first names.  The map
   that collects them is not emptied between districts, so the index of a
   district lists the customers of the districts before it too. *)
NameSakes(last, d, name) ==
    LET all == SetToSeq({p \in (1..d) \X Customers : last[p[1]][p[2]] = name})
    IN  SortSeq(all, LAMBDA a, b : a[2] < b[2] \/ (a[2] = b[2] /\ a[1] < b[1]))

initCustomer(w, last) ==
    LET middle(list) == list[(Len(list) - 1) \div 2 + 1][2]
        names(d) == {last[e][c] : e \in 1..d, c \in Customers}
        rows == {Customer(w, d, c) : d \in Districts, c \in Customers}
        hist == {History(c, d, w, d, w, 0) : d \in Districts, c \in Customers}
        idx  == UNION {{ByLastName(w, d, n) : n \in names(d)} : d \in Districts}
    IN  {[key \in rows |-> [c_balance |-> -10, c_ytd_payment |-> 1, c_payment_cnt |-> 0,
                            c_last |-> last[key[3]][key[4]]]],
         [key \in hist |-> 10],
         [key \in idx |-> middle(NameSakes(last, key[3], key[4]))]}

initOrder(w) ==
    LET orders == {Order(w, d, o) : d \in Districts, o \in Customers}
        fresh  == {NewOrder(w, d, o) : d \in Districts, o \in (FirstUndelivered - 1)..CustomerCount}
    IN  {[key \in orders |-> [o_c_id |-> key[4], o_ol_cnt |-> 5, o_all_local |-> TRUE,
                              o_carrier_id |-> IF key[4] < FirstUndelivered THEN 1 ELSE 0]],
         [key \in fresh \ {NewOrder(w, d, 0) : d \in Districts} |-> 0]}

(* No two tables have a key in common. *)
TPCCInit(q, last) ==
    LET tables == {initItem, initWarehouse}
                  \cup UNION {{initStock(w, q), initDistrict(w)} \cup initCustomer(w, last) \cup initOrder(w) : w \in Warehouses}
    IN  [key \in UNION {DOMAIN t : t \in tables} |-> (CHOOSE t \in tables : key \in DOMAIN t)[key]]

-----------------------------------------------------------------------------
(***************************************************************************)
(* TPC-C: transactions.  A line of a new order is [item, supply, qty].     *)
(***************************************************************************)
StockAfter(stock, line, home) ==
    [stock EXCEPT !.s_quantity = IF @ >= line.qty + 10 THEN @ - line.qty ELSE @ + 91 - line.qty,
                  !.s_remote_cnt = IF line.supply # home THEN @ + 1 ELSE @,
                  !.s_order_cnt = @ + 1,
                  !.s_ytd = @ + line.qty]

(* The two writes of a line, its stock row and the line itself.  The key of
   an order line is built with the district in the place of the order's
   number. *)
LineWrites(db, r, n) ==
    LET line == r.lines[n]
        key == Stock(line.supply, line.item)
    IN  put(key, StockAfter(db[key], line, r.w))
        \o put(OrderLine(r.w, r.d, r.d, n),
               [ol_i_id |-> line.item, ol_supply_w_id |-> line.supply, ol_quantity |-> line.qty])

(* The row of the customer's order index has no field: it is an empty value. *)
OrderWrites(db, r) ==
    LET district == District(r.w, r.d)
        o_id == db[district].d_next_o_id
        all_local == \A n \in DOMAIN r.lines : r.lines[n].supply = r.w
    IN  put(district, [db[district] EXCEPT !.d_next_o_id = @ + 1])
        \o put(Order(r.w, r.d, o_id), [o_c_id |-> r.c, o_ol_cnt |-> Len(r.lines),
                                       o_all_local |-> all_local, o_carrier_id |-> 0])
        \o putEmpty(OrderWdc(r.w, r.d, r.c, o_id))
        \o put(NewOrder(r.w, r.d, o_id), 0)

executeNewOrder(db, r) ==
    Require(db,
            {Warehouse(r.w), District(r.w, r.d), Customer(r.w, r.d, r.c)}
            \cup UNION {{Item(l.item), Stock(l.supply, l.item), Stock(r.w, l.item)} : l \in Range(r.lines)},
            OrderWrites(db, r)
            \o [k \in 1 .. 2 * Len(r.lines) |-> LineWrites(db, r, (k + 1) \div 2)[2 - (k % 2)]])

(* The customer is named by number or, if by last name, found in the index. *)
PayingCustomer(db, r) == IF r.byId THEN r.c ELSE db[ByLastName(r.cw, r.cd, r.last)]

PaymentWritesHomeCustomer(db, r) ==
    LET c == PayingCustomer(db, r)
        customer == Customer(r.w, r.d, c)
    IN  put(Warehouse(r.w), [db[Warehouse(r.w)] EXCEPT !.w_ytd = @ + r.amount])
        \o put(District(r.w, r.d), [db[District(r.w, r.d)] EXCEPT !.d_ytd = @ + r.amount])
        \o put(customer, [db[customer] EXCEPT !.c_balance = @ - r.amount,
                                              !.c_ytd_payment = @ + r.amount,
                                              !.c_payment_cnt = @ + 1])
        \o put(History(c, r.cd, r.cw, r.d, r.w, r.time), r.amount)
PaymentWrites(db, r) ==
    LET c == PayingCustomer(db, r)
        customer == Customer(r.cw, r.cd, c)
    IN  put(Warehouse(r.w), [db[Warehouse(r.w)] EXCEPT !.w_ytd = @ + r.amount])
        \o put(District(r.w, r.d), [db[District(r.w, r.d)] EXCEPT !.d_ytd = @ + r.amount])
        \o put(customer, [db[customer] EXCEPT !.c_balance = @ - r.amount,
                                              !.c_ytd_payment = @ + r.amount,
                                              !.c_payment_cnt = @ + 1])
        \o put(History(c, r.cd, r.cw, r.d, r.w, r.time), r.amount)

executePayment(db, r) ==
    LET found == {Warehouse(r.w), District(r.w, r.d)}
                 \cup (IF r.byId THEN {} ELSE {ByLastName(r.cw, r.cd, r.last)})
    IN  IF \E key \in found : ~ get(db, key) THEN Failure
        ELSE Require(db, {Customer(r.cw, r.cd, PayingCustomer(db, r))}, PaymentWrites(db, r))

TPCC(db, r) ==
    CASE r.func = "new_order" -> executeNewOrder(db, r)
      [] r.func = "payment"   -> executePayment(db, r)
      [] OTHER                -> Failure

-----------------------------------------------------------------------------
(***************************************************************************)
(* YCSB with one value per row: a row maps fields to values.               *)
(***************************************************************************)
User(k) == <<"user", k>>

YCSBInit == [key \in {User(k) : k \in 0..(RecordCount - 1)} |-> [f \in FieldNames |-> 0]]

(* The fields of a row with some of them set. *)
SetFields(row, fields) ==
    [f \in DOMAIN fields \cup DOMAIN row |-> IF f \in DOMAIN fields THEN fields[f] ELSE row[f]]

updateValue(db, r) == Require(db, {User(r.key)}, put(User(r.key), SetFields(db[User(r.key)], r.fields)))

read(db, r) == Require(db, {User(r.key)}, <<>>)

(* Only a row that has every field asked for is modified. *)
modifyValue(db, r) ==
    IF get(db, User(r.key)) /\ r.reads \subseteq DOMAIN db[User(r.key)]
    THEN Success(put(User(r.key), SetFields(db[User(r.key)], r.fields)))
    ELSE Failure

insertValue(db, r) ==
    LET old == IF get(db, User(r.key)) THEN db[User(r.key)] ELSE <<>>
    IN  IF DOMAIN r.fields \cap DOMAIN old # {} THEN Failure
        ELSE Success(put(User(r.key), SetFields(old, r.fields)))

YCSBRowLevel(db, r) ==
    CASE r.func = "update" -> updateValue(db, r)
      [] r.func = "insert" -> insertValue(db, r)
      [] r.func = "read"   -> read(db, r)
      [] r.func = "read_modify_write" -> modifyValue(db, r)
      [] OTHER -> Failure        \* remove and scan are not implemented

-----------------------------------------------------------------------------
(***************************************************************************)
(* The small chaincodes: voting, transfer, session store and hash.  They   *)
(* share one key space, the decimal numbers.                               *)
(***************************************************************************)
Number(k) == <<"number", k>>

VoteInit == [key \in {Number(k) : k \in 0..(CandidateCount - 1)} |-> 0]
Vote(db, r) == Require(db, {Number(r.key)}, put(Number(r.key), db[Number(r.key)] + r.count))
Get(db, r) == Require(db, {Number(r.key)}, <<>>)

SimpleVote(db, r) ==
    CASE r.func = "get"  -> Get(db, r)
      [] r.func = "vote" -> Vote(db, r)
      [] OTHER           -> Failure

initDatabase == [key \in {Number(k) : k \in 0..(RecordCount - 1)} |-> 0]

(* A transfer to oneself does nothing at all. *)
SimpleTransfer(db, r) ==
    IF r.from = r.to THEN Success(<<>>)
    ELSE Require(db, {Number(r.from), Number(r.to)},
                 put(Number(r.from), db[Number(r.from)] - 100)
                 \o put(Number(r.to), db[Number(r.to)] + 100))

(* An even value asks for the key, an odd one is stored in it. *)
SimpleSessionStore(db, r) ==
    IF r.value % 2 = 0 THEN Get(db, r) ELSE Success(put(Number(r.key), r.value))

HashChaincode(db, r) ==
    CASE r.func = "get" -> Get(db, r)
      [] r.func = "set" -> Success(put(Number(r.key), r.value))
      [] OTHER          -> Failure

(* The chaincode of a request, by its name. *)
NewChaincodeByName(db, r) ==
    CASE r.cc = "ycsb"           -> YCSBRowLevel(db, r)
      [] r.cc = "tpcc"           -> TPCC(db, r)
      [] r.cc = "small_bank"     -> SmallBank(db, r)
      [] r.cc = "voting"         -> SimpleVote(db, r)
      [] r.cc = "transfer"       -> SimpleTransfer(db, r)
      [] r.cc = "session_store"  -> SimpleSessionStore(db, r)
      [] r.cc = "hash_chaincode" -> HashChaincode(db, r)
=============================================================================
