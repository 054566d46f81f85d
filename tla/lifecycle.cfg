\* Every driver where it is used, one network, two of wg-route.
SPECIFICATION LifeFairSpec
CONSTANTS
    None = none
    Nets = {n1, n2}
    Kinds = {"linux-edge", "linux-exit", "nft-exit", "wg-route", "openwrt-pbr"}
    Faults <- LifeFaults
    Offered <- TwoForWG
    Learnable <- OneLearnable
    Installs <- Everywhere
INVARIANTS LifeTypeOK CleanupUndoes UninstallIsFinal
PROPERTIES CleanupFailsClosed UninstallRepeatable CleanupIsRepaired

\* Once it is uninstalled nothing happens any more.
CHECK_DEADLOCK FALSE
