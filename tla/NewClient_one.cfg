SPECIFICATION Spec
CONSTANTS
    Clients = {c1}
    Keys <- MCKeys
    Experimental = 2
    Gated <- MCGated
    Configs <- AllConfigs
INVARIANTS
    TypeOK
    SeenFailureLeavesNothing
    ClientOwnsItsParts
    SettingsInForce
CHECK_DEADLOCK FALSE
