----------------------------- MODULE MCDrivers -----------------------------
(* Instances of Drivers for TLC.                                            *)
EXTENDS Drivers

AllFaults == {"command", "crash", "drift"}

\* Commands of openwrt-pbr do not fail (the run openwrt_reload lets them).
OpenWrtSound ==
    [d \in Kinds |-> IF d = "openwrt-pbr" THEN {"crash", "drift"} ELSE AllFaults]
RulesFlushed == [d \in Kinds |-> {"command", "drift", "flush"}]
=============================================================================
