\* Commands of openwrt-pbr fail, its lists or services are removed, and the
\* rules that its services have loaded are flushed.
SPECIFICATION FairSpec
CONSTANTS
    None = none
    Nets = {n1}
    Kinds = {"openwrt-pbr"}
    Faults <- RulesFlushed
PROPERTIES StaysInstalled
