SPECIFICATION Spec
CONSTANTS
    Client <- Clients
    Key <- Keys
    null = null
    Faults = {"link", "error"}
    MaxCommands <- CommandsOf
    MaxWire = 2
    Percent = {50}
    Hash = 49
    MaxVersion = 1
INVARIANT ProxyInv
INVARIANT KillSwitch
INVARIANT FreshHit
PROPERTY CommandsInOrder
