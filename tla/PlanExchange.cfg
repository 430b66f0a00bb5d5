SPECIFICATION ExchangeSpec
CONSTANTS
    Asks = {1, 2}
    Environments <- SomeEnvironments
    Providers <- SomeProviders
    MaxRestarts = 1
INVARIANTS
    MissingIsMissing NoPlanLostToReasoning
PROPERTIES
    AsksSettle
CHECK_DEADLOCK FALSE
