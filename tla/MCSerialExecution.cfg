SPECIFICATION SerialSpec
CONSTANTS
    WarehouseCount = 2
    DistrictCount = 2
    CustomerCount = 1
    ItemsCount = 2
    AccountsCount = 4
    RecordCount = 2
    CandidateCount = 2
    FieldNames = {f1, f2}
    HotspotSize = 1
    OrderLineCounts = {1, 2}
    Quantities = {10}
    Amounts = {7}
    Votes = {0, 3}
    FieldValues = {0, 1}
    LastNames = {1, 2}
    PaymentLookup = TRUE
    WriteAllFields = FALSE
    Workload = {"small_bank", "tpcc", "ycsb", "voting", "transfer", "session_store", "hash_chaincode"}
    MaxTxns = 3
    Balances = {0, 300}
    StockQuantities = {19, 20}
INVARIANTS LedgerBalanced RowsConsistent
