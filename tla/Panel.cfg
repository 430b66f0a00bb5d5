SPECIFICATION Spec
CONSTANTS
    Steps = {1, 2, 3, 4}
    MaxReceipts = 3
    MaxRun = 2
    Configured = {"on-device", "local"}
    MaxUpsets = 1
INVARIANTS
    ReceiptOfOneStep SaysWhatHappened ShieldAgreesWithReceipt PlanOnlyHolds
CHECK_DEADLOCK FALSE
