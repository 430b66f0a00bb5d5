SPECIFICATION Spec
CONSTANTS
    Steps = {"s1", "s2"}
    Loader = "loader"
    MaxRetained = 1
    MaxHeld = 1
    MaxStops = 1
    MaxRestarts = 1
INVARIANTS
    FramesOwned HeldStays OneModelAsShown
PROPERTY LoadSettles
CHECK_DEADLOCK FALSE
