\* An uninstall on Entware, where only the watchdog starts the daemon.
SPECIFICATION LifeSpec
CONSTANTS
    None = none
    Nets = {n1}
    Kinds = {"linux-edge"}
    Faults <- LifeFaults
    Offered <- TwoForWG
    Learnable <- OneLearnable
    Installs <- OnlyEntware
INVARIANTS Uninstalled
CHECK_DEADLOCK FALSE
