---------------------------- MODULE MCLifecycle ----------------------------
(* Instances of Lifecycle for TLC.                                          *)
EXTENDS Lifecycle

\* Each driver where it is used.
Everywhere ==
    {<<"systemd", d>> : d \in {"linux-edge", "linux-exit", "nft-exit", "wg-route"}}
    \cup {<<"openwrt", "openwrt-pbr">>, <<"entware", "linux-edge">>}
OnlyEntware == {<<"entware", "linux-edge">>}

\* Policy of linux-exit and nft-exit is also removed by others than the tool;
\* commands of openwrt-pbr do not fail.
LifeFaults ==
    [d \in Kinds |-> CASE d \in {"linux-edge", "wg-route"} -> {"command", "crash"}
                       [] d = "openwrt-pbr" -> {"crash"}
                       [] OTHER -> {"command", "crash", "drift"}]

\* wg-route may keep routes of networks that it no longer wants, and of a seed
\* or a learned host that was never saved.
TwoForWG == [d \in Kinds |-> IF d = "wg-route" THEN Nets ELSE {CHOOSE n \in Nets : TRUE}]
OneLearnable ==
    [d \in Kinds |-> IF d \in {"nft-exit", "wg-route"} THEN {CHOOSE n \in Nets : TRUE}
                     ELSE {}]
=============================================================================
