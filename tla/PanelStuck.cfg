SPECIFICATION Spec
CONSTANTS
    Steps = {1, 2}
    MaxReceipts = 2
    MaxRun = 2
    Configured = {"on-device", "local"}
    MaxUpsets = 1
INVARIANTS
    ShownWhileRunning
CHECK_DEADLOCK FALSE
