\* Every driver.  Commands fail, except those of openwrt-pbr; the daemon stops
\* and policy is removed at any time.
SPECIFICATION FairSpec
CONSTANTS
    None = none
    Nets = {n1, n2}
    Kinds = {"linux-edge", "linux-exit", "nft-exit", "wg-route", "openwrt-pbr"}
    Faults <- OpenWrtSound
INVARIANTS TypeOK SuccessInstalls FailClosed
PROPERTIES NeverInterrupts MarksAfterRoute StaysInstalled
