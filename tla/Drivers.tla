------------------------------ MODULE Drivers ------------------------------
(* The apply drivers of src/internal/pbr/drivers.go, command by command,    *)
(* each over the part of the kernel's or UCI's state that it owns.  Runtime *)
(* takes a driver for its contract; this module checks the contract.        *)
(*                                                                          *)
(* A step is one external command, merged with the probe that decides on    *)
(* it when nothing is done in between.  Any command may fail, the process   *)
(* may stop between two, and other software may remove what is installed,   *)
(* also between two.  A rule of somebody else at the priority that          *)
(* linux-edge uses, or a missing iptables-restore, is a failing command.    *)
(* A probe answers right; a policy consists of networks and no ports.       *)
EXTENDS Naturals, FiniteSets

CONSTANTS
    Nets,       \* the canonical networks
    None,       \* for a chain or a table that does not exist
    Kinds,      \* the drivers under consideration
    Faults      \* what can happen to each: "command", "crash", "drift", "flush"

ASSUME KindsAssumption ==
    Kinds \subseteq {"linux-edge", "linux-exit", "nft-exit", "wg-route",
                     "openwrt-pbr"}
ASSUME NoneAssumption == \A S \in SUBSET Nets : None # S
ASSUME FaultsAssumption ==
    Faults \in [Kinds -> SUBSET {"command", "crash", "drift", "flush"}]

VARIABLES
    kind,       \* the driver
    k,          \* what it owns
    desired,    \* the networks it is called with
    applied,    \* those of its last success, None after a start
    step,       \* the next command of the call in progress
    left,       \* what the last probe has counted
    disturbed   \* history: policy was removed during the call

vars == <<kind, k, desired, applied, step, left, disturbed>>

Chain == {None} \cup SUBSET Nets
Lists == [pbr : SUBSET Nets, firewall : SUBSET Nets]

\* The state each driver owns.  A chain of linux-exit that its driver has
\* filled ends by dropping the rest; one just created does not.
Owned == [
    edge |-> [route : BOOLEAN, rules : 0..2, chain : Chain, hook : BOOLEAN],
    exit |-> [chain : Chain, drops : BOOLEAN, hook : BOOLEAN,
              nat : Chain, natHook : BOOLEAN, legacy : BOOLEAN],
    nft  |-> [table : Chain],
    wg   |-> [all : BOOLEAN, allowed : SUBSET Nets, routes : SUBSET Nets],
    uci  |-> [staged : Lists, saved : Lists, live : Lists,
              up : [pbr : BOOLEAN, firewall : BOOLEAN]]]

Steps == {"idle", "done", "route", "inspect rule", "replace rule",
          "mark chain", "marks", "mark hook", "filter chain", "nat chain",
          "legacy", "filter", "nat", "filter hook", "nat hook", "probe table",
          "table", "peer", "routes", "compare", "pbr list", "drop list",
          "firewall list", "commit pbr", "commit firewall", "reload firewall",
          "reload pbr", "firewall status", "pbr status"}

TypeOK ==
    /\ kind \in Kinds
    /\ k \in CASE kind = "linux-edge" -> Owned.edge
               [] kind = "linux-exit" -> Owned.exit
               [] kind = "nft-exit" -> Owned.nft
               [] kind = "wg-route" -> Owned.wg
               [] kind = "openwrt-pbr" -> Owned.uci
    /\ desired \in SUBSET Nets
    /\ applied \in Chain
    /\ step \in Steps
    /\ left \in 0..2
    /\ disturbed \in BOOLEAN

Content(chain) == IF chain = None THEN {} ELSE chain

\* The networks that the driver's policy routes, or lets out, as a whole.
Covered(x) ==
    CASE kind = "linux-edge" ->
            IF x.route /\ x.rules > 0 /\ x.hook THEN Content(x.chain) ELSE {}
      [] kind = "linux-exit" ->      \* without the hook the base firewall forwards
            (IF x.hook THEN Content(x.chain) ELSE Nets) \cap
            ((IF x.natHook THEN Content(x.nat) ELSE {}) \cup
             (IF x.legacy THEN Nets ELSE {}))
      [] kind = "nft-exit" -> Content(x.table)
      [] kind = "wg-route" -> x.routes \cap (IF x.all THEN Nets ELSE x.allowed)
      [] kind = "openwrt-pbr" -> x.live.pbr \cap x.live.firewall

-----------------------------------------------------------------------------
(* One command: it succeeds, leaves the state new and is followed by next.  *)
Command(label, next, new) ==
    /\ step = label
    /\ k' = new
    /\ step' = next
    /\ UNCHANGED <<kind, desired, applied, left, disturbed>>

Created(chain) == IF chain = None THEN {} ELSE chain

(* linux-edge *)

\* Mutation: a rule that is missing is not added.
InspectRuleOnly ==
    /\ step = "inspect rule"
    /\ step' = "mark chain"
    /\ UNCHANGED <<kind, k, desired, applied, left, disturbed>>

\* ensureIPRule counts the exact rules: one is right.
InspectRule ==
    /\ step = "inspect rule"
    /\ left' = k.rules
    /\ step' = IF k.rules = 1 THEN "mark chain" ELSE "replace rule"
    /\ UNCHANGED <<kind, k, desired, applied, disturbed>>

\* Mutation: the duplicates are kept.
ReplaceRuleAddsOnly ==
    /\ step = "replace rule"
    /\ k' = [k EXCEPT !.rules = @ + 1]
    /\ step' = "mark chain"
    /\ left' = 0
    /\ UNCHANGED <<kind, desired, applied, disturbed>>

\* It deletes as many as it has counted, one by one, then adds one.
ReplaceRule ==
    /\ step = "replace rule"
    /\ IF left = 0
         THEN /\ k' = [k EXCEPT !.rules = @ + 1]
              /\ step' = "mark chain"
              /\ left' = 0
         ELSE /\ k.rules > 0
              /\ k' = [k EXCEPT !.rules = @ - 1]
              /\ left' = left - 1
              /\ UNCHANGED step
    /\ UNCHANGED <<kind, desired, applied, disturbed>>

ApplyEdge ==
    \/ Command("route", "inspect rule", [k EXCEPT !.route = TRUE])
    \/ InspectRule
    \/ ReplaceRule
    \/ Command("mark chain", "marks", [k EXCEPT !.chain = Created(@)])
    \/ step = "marks" /\ k.chain # None
       /\ Command("marks", "mark hook", [k EXCEPT !.chain = desired])
    \/ step = "mark hook" /\ k.chain # None
       /\ Command("mark hook", "done", [k EXCEPT !.hook = TRUE])

(* linux-exit: iptables-restore commits one table after the other. *)

\* Mutation: the chain is hooked in before it is filled.
ApplyExitHookFirst ==
    \/ Command("filter chain", "nat chain", [k EXCEPT !.chain = Created(@), !.hook = TRUE])
    \/ Command("nat chain", "legacy", [k EXCEPT !.nat = Created(@)])
    \/ Command("legacy", "filter", [k EXCEPT !.legacy = FALSE])
    \/ Command("filter", "nat", [k EXCEPT !.chain = desired, !.drops = TRUE])
    \/ Command("nat", "nat hook", [k EXCEPT !.nat = desired])
    \/ Command("nat hook", "done", [k EXCEPT !.natHook = TRUE])

ApplyExit ==
    \/ Command("filter chain", "nat chain", [k EXCEPT !.chain = Created(@)])
    \/ Command("nat chain", "legacy", [k EXCEPT !.nat = Created(@)])
    \/ Command("legacy", "filter", [k EXCEPT !.legacy = FALSE])
    \/ step = "filter" /\ k.chain # None
       /\ Command("filter", "nat", [k EXCEPT !.chain = desired, !.drops = TRUE])
    \/ step = "nat" /\ k.nat # None
       /\ Command("nat", "filter hook", [k EXCEPT !.nat = desired])
    \/ step = "filter hook" /\ k.chain # None
       /\ Command("filter hook", "nat hook", [k EXCEPT !.hook = TRUE])
    \/ step = "nat hook" /\ k.nat # None
       /\ Command("nat hook", "done", [k EXCEPT !.natHook = TRUE])

(* nft-exit: the table is replaced in one transaction, which first deletes  *)
(* the one that was there when it was looked for.                           *)
ProbeTable ==
    /\ step = "probe table"
    /\ left' = IF k.table = None THEN 0 ELSE 1
    /\ step' = "table"
    /\ UNCHANGED <<kind, k, desired, applied, disturbed>>

\* Mutation: the old table is deleted by a command of its own.
ApplyNFTDeleteFirst ==
    \/ Command("probe table", "table", [k EXCEPT !.table = None])
    \/ Command("table", "done", [k EXCEPT !.table = desired])

ApplyNFT ==
    \/ ProbeTable
    \/ step = "table" /\ (left = 1 => k.table # None)
       /\ Command("table", "done", [k EXCEPT !.table = desired])

(* wg-route: allowed-ips is replaced, routes are only added. *)
ApplyWG ==
    \/ Command("peer", "routes", [k EXCEPT !.allowed = desired])
    \/ Command("routes", "done", [k EXCEPT !.routes = @ \cup desired])

(* openwrt-pbr.  "uci get" shows what is staged, a reload loads what is     *)
(* committed; an error of the list's deletion, which there is when it has   *)
(* no entries, is ignored.                                                  *)
DropList ==
    \/ Command("drop list", "firewall list", [k EXCEPT !.staged.firewall = {}])
    \/ /\ step = "drop list"
       /\ "command" \in Faults[kind] \/ k.staged.firewall = {}
       /\ Command("drop list", "firewall list", k)

\* One entry after the other is added.  Of a list that others empty meanwhile
\* the entries added before are missing at the end.
AddToList ==
    /\ step = "firewall list"
    /\ \/ \E n \in desired \ k.staged.firewall :
              Command("firewall list", "firewall list",
                      [k EXCEPT !.staged.firewall = @ \cup {n}])
       \/ /\ \/ desired \subseteq k.staged.firewall
             \/ disturbed /\ k.live.firewall = {}
          /\ Command("firewall list", "commit pbr", k)

Loaded(service) == [k EXCEPT !.live[service] = k.saved[service], !.up[service] = TRUE]

ApplyOpenWrt ==
    \/ Command("pbr list", "drop list", [k EXCEPT !.staged.pbr = desired])
    \/ DropList
    \/ AddToList
    \/ Command("commit pbr", "commit firewall", [k EXCEPT !.saved.pbr = k.staged.pbr])
    \/ Command("commit firewall", "reload firewall", [k EXCEPT !.saved.firewall = k.staged.firewall])
    \/ Command("reload firewall", "reload pbr", Loaded("firewall"))
    \/ Command("reload pbr", "done", Loaded("pbr"))

\* Mutation: the services are not looked at.
ReconcileOpenWrtListsOnly ==
    /\ step = "compare"
    /\ Command("compare", IF k.staged = [pbr |-> desired, firewall |-> desired]
                          THEN "done" ELSE "pbr list", k)

\* reconcileOpenWrt: lists that read as wanted are not written again, nor a
\* service reloaded that says it is running.
ReconcileOpenWrt ==
    \/ step = "compare"
       /\ Command("compare", IF k.staged = [pbr |-> desired, firewall |-> desired]
                             THEN "firewall status" ELSE "pbr list", k)
    \/ step = "firewall status"
       /\ Command("firewall status", "pbr status",
                  IF k.up.firewall THEN k ELSE Loaded("firewall"))
    \/ step = "pbr status"
       /\ Command("pbr status", "done", IF k.up.pbr THEN k ELSE Loaded("pbr"))

-----------------------------------------------------------------------------
(* The caller, reconcileLocked *)

FirstStep(periodic) ==
    CASE kind = "linux-edge" -> "route"
      [] kind = "linux-exit" -> "filter chain"
      [] kind = "nft-exit" -> "probe table"
      [] kind = "wg-route" -> "peer"
      [] kind = "openwrt-pbr" -> IF periodic THEN "compare" ELSE "pbr list"

\* Another set is wanted: more is learned, or a controller that has lost its
\* state returns less.  Calls do not overlap.
Want ==
    /\ step = "idle"
    /\ desired' \in (SUBSET Nets) \ {desired}
    /\ UNCHANGED <<kind, k, applied, step, left, disturbed>>

\* applyNetworks when the set has changed, reapplyNetworks periodically.
Start ==
    /\ step = "idle"
    /\ step' = FirstStep(applied = desired)
    /\ left' = 0
    /\ disturbed' = FALSE
    /\ UNCHANGED <<kind, k, desired, applied>>

Success ==
    /\ step = "done"
    /\ step' = "idle"
    /\ applied' = desired
    /\ left' = 0
    /\ disturbed' = FALSE
    /\ UNCHANGED <<kind, k, desired>>

\* A service whose reload fails is left as it was, or stopped.
Stopped(service) == [k EXCEPT !.live[service] = {}, !.up[service] = FALSE]

\* What a failing command leaves: "ip -force" goes on after an error, and so
\* some of the routes are there.
LeftBy ==
    CASE step = "routes" -> {[k EXCEPT !.routes = @ \cup S] : S \in SUBSET desired}
      [] step \in {"reload firewall", "firewall status"} -> {k, Stopped("firewall")}
      [] step \in {"reload pbr", "pbr status"} -> {k, Stopped("pbr")}
      [] OTHER -> {k}

\* A command can fail because what it needs is gone.  An error of the deletion
\* of a list is ignored, and where only a probe is made nothing fails.
MayFail ==
    /\ step \notin {"idle", "done", "drop list", "compare", "probe table"}
    /\ step = "firewall status" => ~k.up.firewall
    /\ step = "pbr status" => ~k.up.pbr
    /\ "command" \in Faults[kind] \/ (disturbed /\ kind # "openwrt-pbr")

\* Mutation: the error of a failing command is dropped.
CommandFailsDone ==
    /\ MayFail
    /\ k' \in LeftBy
    /\ step' = "done"
    /\ UNCHANGED <<kind, desired, applied, left, disturbed>>

CommandFails ==
    /\ MayFail
    /\ k' \in LeftBy
    /\ step' = "idle"
    /\ UNCHANGED <<kind, desired, applied, left, disturbed>>

\* The daemon stops.  The next one takes nothing for applied, and wants what
\* its state files hold: they may have been removed or extended.
Crash ==
    /\ "crash" \in Faults[kind]
    /\ desired' \in SUBSET Nets
    /\ step' = "idle"
    /\ applied' = None
    /\ left' = 0
    /\ disturbed' = FALSE
    /\ UNCHANGED <<kind, k>>

\* A list of UCI that is emptied, committed and loaded.
Emptied(service) == [k EXCEPT !.staged[service] = {}, !.saved[service] = {},
                              !.live[service] = {}]

\* What other software leaves when it removes policy: a flushed table, a
\* restarted tunnel, a stopped service, an emptied list; with "flush" also the
\* rules that a service of OpenWrt has loaded, of which the service knows
\* nothing.  A chain in use is not removed.
Flushed(service) == [k EXCEPT !.live[service] = {}]

Removed ==
    CASE kind = "linux-edge" ->
            {[k EXCEPT !.route = FALSE], [k EXCEPT !.rules = 0],
             [k EXCEPT !.hook = FALSE],
             [k EXCEPT !.hook = FALSE, !.chain = None]}
      [] kind = "linux-exit" ->
            {[k EXCEPT !.hook = FALSE], [k EXCEPT !.natHook = FALSE],
             [k EXCEPT !.hook = FALSE, !.chain = None, !.drops = FALSE],
             [k EXCEPT !.natHook = FALSE, !.nat = None]}
      [] kind = "nft-exit" -> {[k EXCEPT !.table = None]}
      [] kind = "wg-route" -> {[k EXCEPT !.routes = {}], [k EXCEPT !.allowed = {}]}
      [] kind = "openwrt-pbr" -> {Stopped("pbr"), Stopped("firewall"),
                            Emptied("pbr"), Emptied("firewall")}

Drift ==
    /\ \/ "drift" \in Faults[kind] /\ k' \in Removed
       \/ /\ "flush" \in Faults[kind] /\ kind = "openwrt-pbr"
          /\ k' \in {Flushed("pbr"), Flushed("firewall")}
    /\ k' # k
    /\ disturbed' = (step # "idle")
    /\ UNCHANGED <<kind, desired, applied, step, left>>

-----------------------------------------------------------------------------
Off == [pbr |-> {}, firewall |-> {}]

\* Nothing is installed but rules, or a legacy NAT rule, of an older version.
Fresh ==
    CASE kind = "linux-edge" ->
            [route : {FALSE}, rules : 0..2, chain : {None}, hook : {FALSE}]
      [] kind = "linux-exit" ->
            [chain : {None}, drops : {FALSE}, hook : {FALSE}, nat : {None},
             natHook : {FALSE}, legacy : BOOLEAN]
      [] kind = "nft-exit" -> [table : {None}]
      [] kind = "wg-route" -> [all : BOOLEAN, allowed : {{}}, routes : {{}}]
      [] kind = "openwrt-pbr" ->
            [staged : {Off}, saved : {Off}, live : {Off},
             up : {[pbr |-> TRUE, firewall |-> TRUE]}]

Init ==
    /\ kind \in Kinds
    /\ k \in Fresh
    /\ desired = {}
    /\ applied = None
    /\ step = "idle"
    /\ left = 0
    /\ disturbed = FALSE

DriverStep == ApplyEdge \/ ApplyExit \/ ApplyNFT \/ ApplyWG \/ ApplyOpenWrt
              \/ ReconcileOpenWrt
Environment == Want \/ Crash \/ Drift

Next == DriverStep \/ Start \/ Success \/ CommandFails \/ Environment

Spec == Init /\ [][Next]_vars

\* The ticker calls again and again, and every command ends.
FairSpec ==
    /\ Spec
    /\ WF_vars(Start)
    /\ WF_vars(DriverStep \/ CommandFails \/ Success)

-----------------------------------------------------------------------------
(* What Runtime assumes *)

\* A call that succeeds has installed what was wanted and nothing else, but
\* for a wg-route whose peer is allowed everything: its old routes stay.
\* (Unless others removed policy while the call ran.  For openwrt-pbr it needs
\* besides that no command fails and no loaded rules are flushed, which
\* reconcileOpenWrt would not notice.)
SuccessInstalls ==
    step = "done" /\ ~disturbed =>
        /\ desired \subseteq Covered(k)
        /\ Covered(k) \subseteq desired \/ (kind = "wg-route" /\ k.all)

\* A call that fails or is cut short at any command has not interrupted the
\* networks that were covered and still are wanted.  There are three
\* exceptions: rules that occur twice, the NAT rule of an older version, and on
\* OpenWrt a reload that fails, which may have stopped the service.
ReloadFails == CommandFails /\ step \in {"reload firewall", "reload pbr"}
NeverInterrupts ==
    [][/\ DriverStep \/ CommandFails \/ Crash
       /\ step \notin {"replace rule", "legacy"} /\ ~ReloadFails
       => Covered(k) \cap desired \subseteq Covered(k)']_vars

\* "This fail-closed behavior": whenever forwarding passes through the chain
\* of linux-exit, that chain ends by dropping what is not wanted.
FailClosed == kind = "linux-exit" /\ k.hook => k.drops

\* linux-edge never begins to mark packets for which there is no rule and no
\* route, so that none of them leaves by the default route; not, though, in a
\* call during which others remove policy, which may take the route again.
Marked(x) == IF x.hook THEN Content(x.chain) ELSE {}
MarksAfterRoute ==
    [][kind = "linux-edge" /\ ~disturbed /\ ~(Marked(k)' \subseteq Marked(k))
       => k.route /\ k.rules > 0]_vars

\* Policy that was removed, or never completely installed, is in the end
\* installed for good, once the wanted set and the daemon stay, and neither
\* removals nor failures go on.  Of openwrt-pbr this is true as long as no
\* command has failed and nobody has flushed what its services have loaded.
Settled == <>[][~(Environment \/ CommandFails)]_vars
StaysInstalled == Settled => <>[](desired \subseteq Covered(k))
=============================================================================
