SPECIFICATION Spec
CONSTANTS
    OffDevice = {"local", "cloud"}
    Hosts = {"l", "r"}
    NoHost = "-"
    Loopback = {"l"}
    BakedOrigin = "-"
    LegacyOrigin = "l"
    MaxCommands = 4
    MaxRestarts = 1
    MaxPlans = 1
INVARIANTS
    TokenToItsHost RunOnOneHost ServersRemembered
CHECK_DEADLOCK FALSE
