--------------------------- MODULE DriversProofs ---------------------------
(* Theorems about Drivers, for any networks and any faults.                 *)
EXTENDS Drivers, TLAPS

ExitSteps == {"idle", "done", "filter chain", "nat chain", "legacy", "filter",
              "nat", "filter hook", "nat hook"}

\* FailClosed is not inductive: the chain may be removed between its filling
\* and its hooking in, and one created later would be empty.  But it is not
\* created again before the filling, and a missing chain cannot be hooked in.
FilledBeforeHook ==
    step \in {"nat", "filter hook", "nat hook"} /\ k.chain # None => k.drops

ExitInv ==
    /\ desired \in SUBSET Nets
    /\ kind = "linux-exit" =>
        /\ k \in Owned.exit
        /\ step \in ExitSteps
        /\ k.hook => k.drops
        /\ FilledBeforeHook

\* While linux-exit is called, no other driver's step is possible.
LEMMA ExitOnly ==
    ASSUME ExitInv, kind = "linux-exit", DriverStep
    PROVE  ApplyExit
    BY DEF ExitInv, ExitSteps, DriverStep, ApplyEdge, InspectRule, ReplaceRule,
           ApplyNFT, ProbeTable, ApplyWG, ApplyOpenWrt, DropList, AddToList,
           ReconcileOpenWrt, Command

\* Each command of linux-exit keeps the invariant.
LEMMA ExitCommand ==
    ASSUME ExitInv, kind = "linux-exit", ApplyExit
    PROVE  ExitInv'
<1> USE NoneAssumption
        DEF ExitInv, ExitSteps, FilledBeforeHook, Owned, Chain, Command, Created
<1>1. CASE Command("filter chain", "nat chain", [k EXCEPT !.chain = Created(@)])
  BY <1>1
<1>2. CASE Command("nat chain", "legacy", [k EXCEPT !.nat = Created(@)])
  BY <1>2
<1>3. CASE Command("legacy", "filter", [k EXCEPT !.legacy = FALSE])
  BY <1>3
<1>4. CASE Command("filter", "nat", [k EXCEPT !.chain = desired, !.drops = TRUE])
  BY <1>4
<1>5. CASE Command("nat", "filter hook", [k EXCEPT !.nat = desired])
  BY <1>5
<1>6. CASE /\ k.chain # None
           /\ Command("filter hook", "nat hook", [k EXCEPT !.hook = TRUE])
  BY <1>6
<1>7. CASE Command("nat hook", "done", [k EXCEPT !.natHook = TRUE])
  BY <1>7
<1> QED BY <1>1, <1>2, <1>3, <1>4, <1>5, <1>6, <1>7 DEF ApplyExit

\* So does everything else that can happen.
LEMMA ExitStep ==
    ASSUME ExitInv, [Next]_vars
    PROVE  ExitInv'
<1> USE DEF ExitInv, ExitSteps, FilledBeforeHook
<1>1. CASE DriverStep
  <2>1. kind' = kind /\ desired' = desired
    BY <1>1 DEF DriverStep, ApplyEdge, InspectRule, ReplaceRule, ApplyExit,
         ApplyNFT, ProbeTable, ApplyWG, ApplyOpenWrt, DropList, AddToList,
         ReconcileOpenWrt, Command
  <2>2. CASE kind = "linux-exit"
    BY <1>1, <2>2, ExitOnly, ExitCommand
  <2> QED BY <2>1, <2>2
<1>2. CASE Start
  BY <1>2 DEF Start, FirstStep
<1>3. CASE Success
  BY <1>3 DEF Success
<1>4. CASE CommandFails
  BY <1>4 DEF CommandFails, LeftBy
<1>5. CASE Want
  BY <1>5 DEF Want
<1>6. CASE Crash
  BY <1>6 DEF Crash
<1>7. CASE Drift
  <2>1. CASE kind = "linux-exit"
    BY <1>7, <2>1 DEF Drift, Removed, Owned, Chain
  <2> QED BY <1>7, <2>1 DEF Drift
<1>8. CASE UNCHANGED vars
  BY <1>8 DEF vars
<1> QED
  BY <1>1, <1>2, <1>3, <1>4, <1>5, <1>6, <1>7, <1>8 DEF Next, Environment

\* "This fail-closed behavior": whatever commands fail, whenever the daemon
\* stops and whatever others remove, forwarding never passes through a chain
\* of linux-exit that does not end in DROP, for any set of networks.
THEOREM FailClosedHolds == Spec => []FailClosed
<1>1. Init => ExitInv
  BY DEF Init, Fresh, ExitInv, ExitSteps, FilledBeforeHook, Owned, Chain
<1>2. ExitInv /\ [Next]_vars => ExitInv'
  BY ExitStep
<1>3. ExitInv => FailClosed
  BY DEF ExitInv, FailClosed
<1> QED BY <1>1, <1>2, <1>3, PTL DEF Spec

-----------------------------------------------------------------------------
(* linux-edge marks nothing that has nowhere to go.                         *)

EdgeSteps == {"idle", "done", "route", "inspect rule", "replace rule",
              "mark chain", "marks", "mark hook"}
EdgeOwned == [route : BOOLEAN, rules : Nat, chain : Chain, hook : BOOLEAN]

\* What a call that nobody has disturbed has set up by the time it marks.
RouteBeforeMarks ==
    ~disturbed =>
        /\ step \in EdgeSteps \ {"idle", "done", "route"} => k.route
        /\ step \in {"mark chain", "marks", "mark hook"} => k.rules > 0

EdgeInv ==
    /\ desired \in SUBSET Nets
    /\ disturbed \in BOOLEAN
    /\ kind = "linux-edge" =>
        /\ left \in Nat
        /\ k \in EdgeOwned
        /\ step \in EdgeSteps
        /\ RouteBeforeMarks

\* While linux-edge is called, no other driver's step is possible.
LEMMA EdgeOnly ==
    ASSUME EdgeInv, kind = "linux-edge", DriverStep
    PROVE  ApplyEdge
    BY DEF EdgeInv, EdgeSteps, DriverStep, ApplyExit, ApplyNFT, ProbeTable,
           ApplyWG, ApplyOpenWrt, DropList, AddToList, ReconcileOpenWrt, Command

\* What commands and removals do to what linux-edge owns.
LEMMA EdgeRecord ==
    ASSUME NEW e \in EdgeOwned
    PROVE  /\ e.rules \in Nat
           /\ e.rules = 1 => e.rules > 0
           /\ [e EXCEPT !.rules = @ + 1] \in EdgeOwned
           /\ [e EXCEPT !.rules = @ + 1].rules > 0
           /\ [e EXCEPT !.rules = @ + 1].route = e.route
           /\ e.rules > 0 => [e EXCEPT !.rules = @ - 1] \in EdgeOwned
           /\ [e EXCEPT !.rules = @ - 1].route = e.route
           /\ [e EXCEPT !.rules = 0] \in EdgeOwned
           /\ [e EXCEPT !.route = FALSE] \in EdgeOwned
           /\ [e EXCEPT !.hook = FALSE] \in EdgeOwned
           /\ [e EXCEPT !.hook = FALSE, !.chain = None] \in EdgeOwned
<1>1. e.rules \in Nat /\ (e.rules = 1 => e.rules > 0)
  BY DEF EdgeOwned
<1>2. [e EXCEPT !.rules = @ + 1] \in EdgeOwned
  BY DEF EdgeOwned
<1>3. [e EXCEPT !.rules = @ + 1].rules > 0
  BY DEF EdgeOwned
<1>4. /\ [e EXCEPT !.rules = @ + 1].route = e.route
      /\ [e EXCEPT !.rules = @ - 1].route = e.route
  BY DEF EdgeOwned
<1>5. e.rules > 0 => [e EXCEPT !.rules = @ - 1] \in EdgeOwned
  BY DEF EdgeOwned
<1>6. /\ [e EXCEPT !.rules = 0] \in EdgeOwned
      /\ [e EXCEPT !.route = FALSE] \in EdgeOwned
      /\ [e EXCEPT !.hook = FALSE] \in EdgeOwned
  BY DEF EdgeOwned
<1>7. [e EXCEPT !.hook = FALSE, !.chain = None] \in EdgeOwned
  <2>1. None \in Chain
    BY DEF Chain
  <2> QED BY <2>1 DEF EdgeOwned
<1> QED BY <1>1, <1>2, <1>3, <1>4, <1>5, <1>6, <1>7

\* Each command of linux-edge keeps the invariant.
LEMMA EdgeCommand ==
    ASSUME EdgeInv, kind = "linux-edge", ApplyEdge
    PROVE  EdgeInv'
<1> USE DEF EdgeInv, EdgeSteps, RouteBeforeMarks, Command
<1>1. CASE Command("route", "inspect rule", [k EXCEPT !.route = TRUE])
  BY <1>1 DEF EdgeOwned
<1>2. CASE InspectRule
  <2>1. k.rules \in Nat /\ k' = k /\ left' = k.rules
    BY <1>2, EdgeRecord DEF InspectRule
  <2>2. step' = IF k.rules = 1 THEN "mark chain" ELSE "replace rule"
    BY <1>2 DEF InspectRule
  <2>3. UNCHANGED <<kind, desired, disturbed>> /\ step = "inspect rule"
    BY <1>2 DEF InspectRule
  <2>4. k.rules = 1 => k.rules > 0
    BY EdgeRecord
  <2>5. /\ step' \in {"mark chain", "replace rule"}
        /\ step' = "mark chain" => k.rules > 0
    BY <2>2, <2>4
  <2> QED BY <2>1, <2>3, <2>5
<1>3. CASE ReplaceRule
  <2>1. k.rules \in Nat /\ step = "replace rule"
    BY <1>3, EdgeRecord DEF ReplaceRule
  <2>2. UNCHANGED <<kind, desired, disturbed>>
    BY <1>3 DEF ReplaceRule
  <2>3. CASE left = 0
    <3>1. k' = [k EXCEPT !.rules = @ + 1] /\ step' = "mark chain" /\ left' = 0
      BY <1>3, <2>3 DEF ReplaceRule
    <3>2. k' \in EdgeOwned /\ k'.rules > 0 /\ k'.route = k.route
      BY <3>1, EdgeRecord
    <3> QED BY <2>1, <2>2, <3>1, <3>2
  <2>4. CASE left # 0
    <3>1. /\ k.rules > 0 /\ k' = [k EXCEPT !.rules = @ - 1]
          /\ step' = step /\ left' = left - 1
      BY <1>3, <2>4 DEF ReplaceRule
    <3>2. k' \in EdgeOwned /\ k'.route = k.route
      BY <3>1, EdgeRecord
    <3>3. left' \in Nat
      <4>1. left \in Nat
        OBVIOUS
      <4> HIDE DEF EdgeInv, EdgeSteps, RouteBeforeMarks, Command
      <4> QED BY <2>4, <3>1, <4>1
    <3> QED BY <2>1, <2>2, <3>1, <3>2, <3>3
  <2> QED BY <2>3, <2>4
<1>4. CASE Command("mark chain", "marks", [k EXCEPT !.chain = Created(@)])
  BY <1>4 DEF EdgeOwned, Created, Chain
<1>5. CASE Command("marks", "mark hook", [k EXCEPT !.chain = desired])
  BY <1>5 DEF EdgeOwned, Chain
<1>6. CASE Command("mark hook", "done", [k EXCEPT !.hook = TRUE])
  BY <1>6 DEF EdgeOwned
<1> QED BY <1>1, <1>2, <1>3, <1>4, <1>5, <1>6 DEF ApplyEdge

\* So does everything else that can happen.
LEMMA EdgeStep ==
    ASSUME EdgeInv, [Next]_vars
    PROVE  EdgeInv'
<1> USE DEF EdgeInv, EdgeSteps, RouteBeforeMarks
<1>1. CASE DriverStep
  <2>1. CASE kind = "linux-edge"
    BY <1>1, <2>1, EdgeOnly, EdgeCommand
  <2>2. UNCHANGED <<kind, desired, disturbed>>
    BY <1>1 DEF DriverStep, ApplyEdge, InspectRule, ReplaceRule, ApplyExit,
         ApplyNFT, ProbeTable, ApplyWG, ApplyOpenWrt, DropList, AddToList,
         ReconcileOpenWrt, Command
  <2> QED BY <2>1, <2>2
<1>2. CASE Start
  BY <1>2 DEF Start, FirstStep
<1>3. CASE Success
  BY <1>3 DEF Success
<1>4. CASE CommandFails
  BY <1>4 DEF CommandFails, LeftBy
<1>5. CASE Want
  BY <1>5 DEF Want
<1>6. CASE Crash
  BY <1>6 DEF Crash
<1>7. CASE Drift
  <2>1. CASE kind = "linux-edge"
    <3>1. k' \in EdgeOwned
      <4>1. \/ k' = [k EXCEPT !.route = FALSE]
            \/ k' = [k EXCEPT !.rules = 0]
            \/ k' = [k EXCEPT !.hook = FALSE]
            \/ k' = [k EXCEPT !.hook = FALSE, !.chain = None]
        BY <1>7, <2>1 DEF Drift, Removed
      <4> QED BY <2>1, <4>1, EdgeRecord
    <3>2. ~disturbed' => step' = "idle"
      BY <1>7 DEF Drift
    <3> QED BY <1>7, <2>1, <3>1, <3>2 DEF Drift
  <2> QED BY <1>7, <2>1 DEF Drift
<1>8. CASE UNCHANGED vars
  BY <1>8 DEF vars
<1> QED
  BY <1>1, <1>2, <1>3, <1>4, <1>5, <1>6, <1>7, <1>8 DEF Next, Environment

\* Packets begin to be marked only by the two commands that fill and hook in
\* the chain.
LEMMA MarksStep ==
    ASSUME EdgeInv, [Next]_vars
    PROVE  (kind = "linux-edge" /\ ~disturbed /\ ~(Marked(k)' \subseteq Marked(k)))
              => (k.route /\ k.rules > 0)
<1> SUFFICES ASSUME kind = "linux-edge", ~disturbed,
                    ~(Marked(k)' \subseteq Marked(k))
             PROVE  k.route /\ k.rules > 0
  OBVIOUS
<1> USE DEF EdgeInv, EdgeSteps, RouteBeforeMarks, EdgeOwned, Chain, Marked, Content
<1>1. CASE DriverStep
  <2>1. ApplyEdge
    BY <1>1, EdgeOnly
  <2>2. CASE step \in {"marks", "mark hook"}
    BY <2>2
  <2>3. CASE step \notin {"marks", "mark hook"}
    <3>1. k'.hook = k.hook /\ Content(k'.chain) = Content(k.chain)
      BY <2>1, <2>3 DEF ApplyEdge, InspectRule, ReplaceRule, Command, Created
    <3> QED BY <3>1
  <2> QED BY <2>2, <2>3
<1>2. CASE Drift
  BY <1>2 DEF Drift, Removed
<1>3. CASE CommandFails
  BY <1>3 DEF CommandFails, LeftBy
<1>4. CASE Start \/ Success \/ Want \/ Crash \/ UNCHANGED vars
  BY <1>4 DEF Start, Success, Want, Crash, vars
<1> QED BY <1>1, <1>2, <1>3, <1>4 DEF Next, Environment

\* linux-edge never begins to mark packets without a rule and a route for
\* them, from whatever policy it starts and however its earlier calls ended.
THEOREM MarksAfterRouteHolds == Spec => MarksAfterRoute
<1>1. Init => EdgeInv
  <2> SUFFICES ASSUME Init PROVE EdgeInv
    OBVIOUS
  <2>1. CASE kind = "linux-edge"
    <3>1. k \in [route : {FALSE}, rules : 0..2, chain : {None}, hook : {FALSE}]
      BY <2>1 DEF Init, Fresh
    <3>2. \A i \in 0..2 : i \in Nat
      OBVIOUS
    <3>3. None \in Chain
      BY DEF Chain
    <3>4. k \in EdgeOwned
      BY <3>1, <3>2, <3>3 DEF EdgeOwned
    <3> QED BY <3>4 DEF Init, EdgeInv, EdgeSteps, RouteBeforeMarks
  <2> QED BY <2>1 DEF Init, EdgeInv
<1>2. EdgeInv /\ [Next]_vars => EdgeInv'
  BY EdgeStep
<1>3. EdgeInv /\ [Next]_vars
        => [kind = "linux-edge" /\ ~disturbed /\ ~(Marked(k)' \subseteq Marked(k))
            => k.route /\ k.rules > 0]_vars
  BY MarksStep
<1> QED BY <1>1, <1>2, <1>3, PTL DEF Spec, MarksAfterRoute

-----------------------------------------------------------------------------
(* What each driver has done by each of its steps: with it a call that      *)
(* succeeds has installed what was wanted, and none interrupts it.          *)

NFTSteps == {"idle", "done", "probe table", "table"}
WGSteps == {"idle", "done", "peer", "routes"}
UciSteps == {"idle", "done", "compare", "pbr list", "drop list",
             "firewall list", "commit pbr", "commit firewall",
             "reload firewall", "reload pbr", "firewall status", "pbr status"}

\* The driver's own state and commands.  ensureIPRule has counted at least the
\* rules that are there, also when others delete some meanwhile.
OwnInv ==
    /\ kind \in Kinds
    /\ desired \in SUBSET Nets
    /\ applied \in Chain
    /\ left \in 0..2
    /\ disturbed \in BOOLEAN
    /\ kind = "linux-edge" =>
          /\ k \in Owned.edge /\ step \in EdgeSteps
          /\ step = "replace rule" => k.rules <= left
    /\ kind = "linux-exit" => k \in Owned.exit /\ step \in ExitSteps
    /\ kind = "nft-exit" => k \in Owned.nft /\ step \in NFTSteps
    /\ kind = "wg-route" => k \in Owned.wg /\ step \in WGSteps
    /\ kind = "openwrt-pbr" => k \in Owned.uci /\ step \in UciSteps

\* What linux-edge has done by each step, unless others disturbed it.
EdgeCall ==
    /\ k \in Owned.edge
    /\ step \in EdgeSteps
    /\ step = "replace rule" => k.rules <= left
    /\ ~disturbed =>
        /\ step \notin {"idle", "route"} => k.route
        /\ step \in {"mark chain", "marks", "mark hook", "done"} => k.rules > 0
        /\ step \in {"mark hook", "done"} => k.chain = desired
        /\ step = "done" => k.hook

\* A chain that is missing where it is filled is not created again.
ExitCall ==
    /\ k \in Owned.exit
    /\ step \in ExitSteps
    /\ (step \in {"nat", "filter hook", "nat hook"} /\ k.chain # None) =>
          k.chain = desired
    /\ (step \in {"filter hook", "nat hook"} /\ k.nat # None) => k.nat = desired
    /\ ~disturbed =>
        /\ step \in {"filter", "nat", "filter hook", "nat hook", "done"} => ~k.legacy
        /\ step \in {"nat", "filter hook", "nat hook", "done"} => k.chain = desired
        /\ step \in {"filter hook", "nat hook", "done"} => k.nat = desired
        /\ step \in {"nat hook", "done"} => k.hook
        /\ step = "done" => k.natHook

NFTCall ==
    /\ k \in Owned.nft
    /\ step \in NFTSteps
    /\ step = "done" /\ ~disturbed => k.table = desired

WGCall ==
    /\ k \in Owned.wg
    /\ step \in WGSteps
    /\ step \in {"routes", "done"} /\ ~disturbed => k.allowed = desired
    /\ step = "done" /\ ~disturbed => desired \subseteq k.routes

\* A service that runs has loaded what is committed.
Loads(service) == k.up[service] => k.live[service] = k.saved[service]

\* Whatever fails or is removed: a service that is down has loaded nothing, and
\* what a reload will load is what is wanted, or the service has nothing loaded.
UciSafe ==
    /\ ~k.up["pbr"] => k.live["pbr"] = {}
    /\ ~k.up["firewall"] => k.live["firewall"] = {}
    /\ step \in {"drop list", "firewall list", "commit pbr"} =>
          desired \subseteq k.staged["pbr"] \/ k.live["pbr"] = {}
    /\ step \in {"commit firewall", "reload firewall", "reload pbr"} =>
          desired \subseteq k.saved["pbr"] \/ k.live["pbr"] = {}
    /\ step \in {"commit pbr", "commit firewall"} =>
          desired \subseteq k.staged["firewall"] \/ k.live["firewall"] = {}
    /\ step = "reload firewall" =>
          desired \subseteq k.saved["firewall"] \/ k.live["firewall"] = {}

\* A process that has applied something, where no command fails and nobody
\* flushes what is loaded, finds the lists as "uci get" shows them committed
\* and loaded.
UciInStep ==
    /\ \/ step = "idle" /\ applied # None
       \/ step \in {"compare", "firewall status", "pbr status"}
       => k.staged = k.saved /\ Loads("pbr") /\ Loads("firewall")
    /\ step \in {"commit firewall", "reload firewall", "reload pbr", "done"} =>
          k.saved["pbr"] = k.staged["pbr"]
    /\ step \in {"reload firewall", "reload pbr", "done"} =>
          k.saved["firewall"] = k.staged["firewall"]
    /\ step \in {"reload pbr", "done"} => Loads("firewall")
    /\ step = "done" => Loads("pbr")

\* By then, in a call that nobody has disturbed, the lists are as wanted.
UciWritten ==
    ~disturbed =>
        /\ step \in UciSteps \ {"idle", "compare", "pbr list"} =>
              k.staged["pbr"] = desired
        /\ step \in UciSteps \ {"idle", "compare", "pbr list", "drop list",
                                "firewall list"} =>
              desired \subseteq k.staged["firewall"]
        /\ step \in {"reload pbr", "pbr status", "done"} => k.up["firewall"]
        /\ step = "done" => k.up["pbr"]

\* No command of the driver fails and nobody flushes what it has loaded.
Undeceived == Faults[kind] \cap {"command", "flush"} = {}

UciCall ==
    /\ k \in Owned.uci
    /\ step \in UciSteps
    /\ UciSafe
    /\ Undeceived => UciInStep /\ UciWritten

CallInv ==
    /\ kind \in Kinds
    /\ desired \in SUBSET Nets
    /\ applied \in Chain
    /\ left \in 0..2
    /\ disturbed \in BOOLEAN
    /\ kind = "linux-edge" => EdgeCall
    /\ kind = "linux-exit" => ExitCall
    /\ kind = "nft-exit" => NFTCall
    /\ kind = "wg-route" => WGCall
    /\ kind = "openwrt-pbr" => UciCall

\* It is part of what each driver has done.
LEMMA CallOwn == CallInv => OwnInv
  BY DEF CallInv, OwnInv, EdgeCall, ExitCall, NFTCall, WGCall, UciCall

\* Each driver's call is made of its own commands.
LEMMA OwnCommands ==
    ASSUME OwnInv, DriverStep
    PROVE  /\ kind = "linux-edge" => ApplyEdge
           /\ kind = "linux-exit" => ApplyExit
           /\ kind = "nft-exit" => ApplyNFT
           /\ kind = "wg-route" => ApplyWG
           /\ kind = "openwrt-pbr" => ApplyOpenWrt \/ ReconcileOpenWrt
<1> USE DEF DriverStep, ApplyEdge, InspectRule, ReplaceRule, ApplyExit, ApplyNFT,
            ProbeTable, ApplyWG, ApplyOpenWrt, DropList, AddToList, ReconcileOpenWrt, Command
<1>1. CASE kind = "linux-edge"
  BY <1>1 DEF OwnInv, EdgeSteps
<1>2. CASE kind = "linux-exit"
  BY <1>2 DEF OwnInv, ExitSteps
<1>3. CASE kind = "nft-exit"
  BY <1>3 DEF OwnInv, NFTSteps
<1>4. CASE kind = "wg-route"
  BY <1>4 DEF OwnInv, WGSteps
<1>5. CASE kind = "openwrt-pbr"
  BY <1>5 DEF OwnInv, UciSteps
<1> QED BY <1>1, <1>2, <1>3, <1>4, <1>5

\* A command changes neither what is wanted nor what was applied.
LEMMA CommandFrame ==
    ASSUME OwnInv, DriverStep
    PROVE  /\ UNCHANGED <<kind, desired, applied, disturbed>>
           /\ kind # "linux-edge" => left' \in {left, 0, 1}
<1> USE DEF ApplyEdge, InspectRule, ReplaceRule, ApplyExit, ApplyNFT, ProbeTable,
            ApplyWG, ApplyOpenWrt, DropList, AddToList, ReconcileOpenWrt, Command
<1>1. UNCHANGED <<kind, desired, applied, disturbed>>
  BY DEF DriverStep
<1>2. CASE kind = "linux-exit"
  BY <1>2, OwnCommands
<1>3. CASE kind = "nft-exit"
  BY <1>3, OwnCommands
<1>4. CASE kind = "wg-route"
  BY <1>4, OwnCommands
<1>5. CASE kind = "openwrt-pbr"
  BY <1>5, OwnCommands
<1> QED
  BY <1>1, <1>2, <1>3, <1>4, <1>5, KindsAssumption DEF OwnInv

\* The commands of linux-exit, one by one.
LEMMA ExitCallStep ==
    ASSUME CallInv, kind = "linux-exit", ApplyExit
    PROVE  ExitCall'
<1>a. k \in Owned.exit /\ desired \in SUBSET Nets /\ ExitCall
  BY DEF CallInv, ExitCall
<1> USE NoneAssumption, <1>a
        DEF ExitCall, ExitSteps, Owned, Chain, Command, Created
<1>1. CASE Command("filter chain", "nat chain", [k EXCEPT !.chain = Created(@)])
  BY <1>1
<1>2. CASE Command("nat chain", "legacy", [k EXCEPT !.nat = Created(@)])
  BY <1>2
<1>3. CASE Command("legacy", "filter", [k EXCEPT !.legacy = FALSE])
  BY <1>3
<1>4. CASE Command("filter", "nat", [k EXCEPT !.chain = desired, !.drops = TRUE])
  BY <1>4
<1>5. CASE Command("nat", "filter hook", [k EXCEPT !.nat = desired])
  BY <1>5
<1>6. CASE /\ k.chain # None
           /\ Command("filter hook", "nat hook", [k EXCEPT !.hook = TRUE])
  BY <1>6
<1>7. CASE /\ k.nat # None
           /\ Command("nat hook", "done", [k EXCEPT !.natHook = TRUE])
  BY <1>7
<1> QED BY <1>1, <1>2, <1>3, <1>4, <1>5, <1>6, <1>7 DEF ApplyExit

\* The two of nft-exit.
LEMMA NFTCallStep ==
    ASSUME CallInv, kind = "nft-exit", ApplyNFT
    PROVE  NFTCall'
    BY DEF CallInv, NFTCall, NFTSteps, ApplyNFT, ProbeTable, Command, Owned, Chain

\* The two of wg-route.
LEMMA WGCallStep ==
    ASSUME CallInv, kind = "wg-route", ApplyWG
    PROVE  WGCall'
    BY DEF CallInv, WGCall, WGSteps, ApplyWG, Command, Owned

\* What commands do to the rules that linux-edge owns.
LEMMA EdgeFields ==
    ASSUME NEW e \in Owned.edge
    PROVE  /\ e.rules \in 0..2
           /\ e.rules <= 0 =>
                /\ [e EXCEPT !.rules = @ + 1] \in Owned.edge
                /\ [e EXCEPT !.rules = @ + 1].rules > 0
           /\ [e EXCEPT !.rules = @ + 1].route = e.route
           /\ e.rules > 0 =>
                /\ [e EXCEPT !.rules = @ - 1] \in Owned.edge
                /\ [e EXCEPT !.rules = @ - 1].rules = e.rules - 1
           /\ [e EXCEPT !.rules = @ - 1].route = e.route
<1> USE DEF Owned
<1>1. e.rules \in 0..2
  OBVIOUS
<1>2. e.rules <= 0 => e.rules + 1 \in 0..2 /\ e.rules + 1 > 0
  BY <1>1
<1>3. e.rules > 0 => e.rules - 1 \in 0..2
  BY <1>1
<1>4. \A i \in 0..2 : [e EXCEPT !.rules = i] \in Owned.edge
  OBVIOUS
<1>5. /\ [e EXCEPT !.rules = @ + 1].rules = e.rules + 1
      /\ [e EXCEPT !.rules = @ + 1].route = e.route
      /\ [e EXCEPT !.rules = @ - 1].rules = e.rules - 1
      /\ [e EXCEPT !.rules = @ - 1].route = e.route
  OBVIOUS
<1> QED BY <1>1, <1>2, <1>3, <1>4, <1>5

\* Each command of linux-edge keeps its state what it is.
LEMMA EdgeOwnStep ==
    ASSUME OwnInv, kind = "linux-edge", ApplyEdge
    PROVE  /\ k' \in Owned.edge /\ step' \in EdgeSteps /\ left' \in 0..2
           /\ step' = "replace rule" => k'.rules <= left'
<1>a. /\ k \in Owned.edge /\ desired \in SUBSET Nets /\ left \in 0..2
      /\ step = "replace rule" => k.rules <= left
  BY DEF OwnInv
<1>1. CASE InspectRule
  <2>1. k.rules \in 0..2 /\ k' = k /\ left' = k.rules
    BY <1>1, <1>a, EdgeFields DEF InspectRule
  <2>2. step' \in {"mark chain", "replace rule"}
    BY <1>1 DEF InspectRule
  <2>3. k.rules <= k.rules
    BY <2>1
  <2> QED BY <2>1, <2>2, <2>3, <1>a DEF EdgeSteps
<1>2. CASE ReplaceRule
  <2>1. k.rules \in 0..2 /\ step = "replace rule" /\ k.rules <= left
    BY <1>2, <1>a, EdgeFields DEF ReplaceRule
  <2>2. CASE left = 0
    <3>1. k' = [k EXCEPT !.rules = @ + 1] /\ step' = "mark chain" /\ left' = 0
      BY <1>2, <2>2 DEF ReplaceRule
    <3>2. k.rules <= 0
      BY <2>1, <2>2
    <3>3. k' \in Owned.edge
      BY <1>a, <3>1, <3>2, EdgeFields
    <3>4. step' \in EdgeSteps /\ step' # "replace rule"
      BY <3>1 DEF EdgeSteps
    <3>5. left' \in 0..2
      <4>1. 0 \in 0..2
        OBVIOUS
      <4> QED BY <3>1, <4>1
    <3> QED BY <3>3, <3>4, <3>5
  <2>3. CASE left # 0
    <3>1. /\ k.rules > 0 /\ k' = [k EXCEPT !.rules = @ - 1]
          /\ step' = step /\ left' = left - 1
      BY <1>2, <2>3 DEF ReplaceRule
    <3>2. k' \in Owned.edge /\ k'.rules = k.rules - 1
      BY <1>a, <3>1, EdgeFields
    <3>3. \A l \in 0..2 : l # 0 => l - 1 \in 0..2
      OBVIOUS
    <3>4. \A l, r \in 0..2 : r <= l => r - 1 <= l - 1
      OBVIOUS
    <3>5. left' \in 0..2 /\ k'.rules <= left'
      BY <1>a, <2>1, <2>3, <3>1, <3>2, <3>3, <3>4
    <3>6. step' \in EdgeSteps
      BY <2>1, <3>1 DEF EdgeSteps
    <3> QED BY <3>2, <3>5, <3>6
  <2> QED BY <2>2, <2>3
<1>3. CASE ~InspectRule /\ ~ReplaceRule
  <2>1. left' = left /\ step' \in EdgeSteps \ {"replace rule"}
    BY <1>3 DEF ApplyEdge, Command, EdgeSteps
  <2>2. k' \in Owned.edge
    BY <1>3, <1>a DEF ApplyEdge, Command, Created, Owned, Chain
  <2> QED BY <2>1, <2>2, <1>a
<1> QED BY <1>1, <1>2, <1>3

\* The commands of linux-edge, one by one.
LEMMA EdgeCallStep ==
    ASSUME CallInv, kind = "linux-edge", ApplyEdge
    PROVE  EdgeCall' /\ left' \in 0..2
<1>a. k \in Owned.edge /\ desired \in SUBSET Nets /\ EdgeCall
  BY DEF CallInv, EdgeCall
<1>b. /\ k' \in Owned.edge /\ step' \in EdgeSteps /\ left' \in 0..2
      /\ step' = "replace rule" => k'.rules <= left'
  BY CallOwn, EdgeOwnStep
<1>c. UNCHANGED <<kind, desired, disturbed>>
  BY DEF ApplyEdge, InspectRule, ReplaceRule, Command
<1>1. CASE InspectRule
  <2>1. k.rules \in 0..2 /\ k' = k
    BY <1>1, <1>a, EdgeFields DEF InspectRule
  <2>2. /\ step' = IF k.rules = 1 THEN "mark chain" ELSE "replace rule"
        /\ step = "inspect rule"
    BY <1>1 DEF InspectRule
  <2>3. k.rules = 1 => k.rules > 0
    BY <2>1
  <2>4. /\ step' \in {"mark chain", "replace rule"}
        /\ step' = "mark chain" => k.rules > 0
    BY <2>2, <2>3
  <2> QED BY <1>b, <1>c, <2>1, <2>2, <2>4, <1>a DEF EdgeCall, EdgeSteps
<1>2. CASE ReplaceRule
  <2>1. k.rules \in 0..2 /\ step = "replace rule" /\ k.rules <= left
    BY <1>2, <1>a, EdgeFields DEF ReplaceRule, EdgeCall
  <2>2. CASE left = 0
    <3>1. k' = [k EXCEPT !.rules = @ + 1] /\ step' = "mark chain"
      BY <1>2, <2>2 DEF ReplaceRule
    <3>2. k.rules <= 0
      BY <2>1, <2>2
    <3>3. k'.rules > 0 /\ k'.route = k.route
      BY <1>a, <3>1, <3>2, EdgeFields
    <3> QED BY <1>b, <1>c, <2>1, <3>1, <3>3, <1>a DEF EdgeCall
  <2>3. CASE left # 0
    <3>1. k' = [k EXCEPT !.rules = @ - 1] /\ step' = step
      BY <1>2, <2>3 DEF ReplaceRule
    <3>2. k'.route = k.route
      BY <1>a, <3>1, EdgeFields
    <3> QED BY <1>b, <1>c, <2>1, <3>1, <3>2, <1>a DEF EdgeCall
  <2> QED BY <2>2, <2>3
<1>3. CASE ~InspectRule /\ ~ReplaceRule
  <2> USE <1>a, <1>b DEF EdgeCall, Owned, Command
  <2>1. CASE Command("route", "inspect rule", [k EXCEPT !.route = TRUE])
    BY <2>1
  <2>2. CASE Command("mark chain", "marks", [k EXCEPT !.chain = Created(@)])
    BY <2>2
  <2>3. CASE Command("marks", "mark hook", [k EXCEPT !.chain = desired])
    BY <2>3
  <2>4. CASE Command("mark hook", "done", [k EXCEPT !.hook = TRUE])
    BY <2>4
  <2> QED BY <1>3, <2>1, <2>2, <2>3, <2>4 DEF ApplyEdge
<1> QED BY <1>1, <1>2, <1>3

\* What the commands of openwrt-pbr do, list by list and service by service.
UciMove ==
    \/ /\ step = "pbr list" /\ step' = "drop list"
       /\ k'.staged["pbr"] = desired
       /\ UNCHANGED <<k.saved, k.live, k.up>>
    \/ /\ step = "drop list" /\ step' = "firewall list"
       /\ UNCHANGED <<k.staged["pbr"], k.saved, k.live, k.up>>
    \/ /\ step = "firewall list" /\ step' = "firewall list"
       /\ UNCHANGED <<k.staged["pbr"], k.saved, k.live, k.up>>
    \/ /\ step = "firewall list" /\ step' = "commit pbr"
       /\ \/ desired \subseteq k.staged["firewall"]
          \/ disturbed /\ k.live["firewall"] = {}
       /\ UNCHANGED k
    \/ /\ step = "commit pbr" /\ step' = "commit firewall"
       /\ k'.saved["pbr"] = k.staged["pbr"]
       /\ UNCHANGED <<k.staged, k.saved["firewall"], k.live, k.up>>
    \/ /\ step = "commit firewall" /\ step' = "reload firewall"
       /\ k'.saved["firewall"] = k.staged["firewall"]
       /\ UNCHANGED <<k.staged, k.saved["pbr"], k.live, k.up>>
    \/ /\ \/ step = "reload firewall" /\ step' = "reload pbr"
          \/ step = "firewall status" /\ step' = "pbr status" /\ ~k.up["firewall"]
       /\ k'.live["firewall"] = k.saved["firewall"] /\ k'.up["firewall"]
       /\ UNCHANGED <<k.staged, k.saved, k.live["pbr"], k.up["pbr"]>>
    \/ /\ \/ step = "reload pbr" /\ step' = "done"
          \/ step = "pbr status" /\ step' = "done" /\ ~k.up["pbr"]
       /\ k'.live["pbr"] = k.saved["pbr"] /\ k'.up["pbr"]
       /\ UNCHANGED <<k.staged, k.saved, k.live["firewall"], k.up["firewall"]>>
    \/ /\ step = "compare" /\ step' = "pbr list"
       /\ UNCHANGED k
    \/ /\ step = "compare" /\ step' = "firewall status"
       /\ k.staged["pbr"] = desired /\ k.staged["firewall"] = desired
       /\ UNCHANGED k
    \/ /\ step = "firewall status" /\ step' = "pbr status" /\ k.up["firewall"]
       /\ UNCHANGED k
    \/ /\ step = "pbr status" /\ step' = "done" /\ k.up["pbr"]
       /\ UNCHANGED k

\* A service that loads what is committed.
LEMMA LoadedFields ==
    ASSUME k \in Owned.uci, NEW s \in {"pbr", "firewall"},
           NEW t \in {"pbr", "firewall"} \ {s}
    PROVE  LET v == Loaded(s)
           IN  /\ v \in Owned.uci
               /\ v.staged = k.staged /\ v.saved = k.saved
               /\ v.live[s] = k.saved[s] /\ v.up[s]
               /\ v.live[t] = k.live[t] /\ v.up[t] = k.up[t]
<1> DEFINE v == Loaded(s)
<1> USE DEF Loaded, Owned, Lists
<1>1. v \in Owned.uci
  OBVIOUS
<1>2. v.staged = k.staged /\ v.saved = k.saved
  OBVIOUS
<1>3. v.live[s] = k.saved[s] /\ v.live[t] = k.live[t]
  OBVIOUS
<1>4. v.up[s] /\ v.up[t] = k.up[t]
  OBVIOUS
<1> QED BY <1>1, <1>2, <1>3, <1>4

\* The commands are of that kind.
LEMMA UciCommand ==
    ASSUME k \in Owned.uci, desired \in SUBSET Nets,
           ApplyOpenWrt \/ ReconcileOpenWrt
    PROVE  /\ k' \in Owned.uci
           /\ UNCHANGED <<kind, desired, applied, disturbed>>
           /\ UciMove
<1>1. UNCHANGED <<kind, desired, applied, disturbed>>
  BY DEF ApplyOpenWrt, DropList, AddToList, ReconcileOpenWrt, Command
<1>2. /\ k.staged \in Lists /\ k.saved \in Lists /\ k.live \in Lists
      /\ k.up \in [pbr : BOOLEAN, firewall : BOOLEAN]
      /\ k.staged["pbr"] \in SUBSET Nets /\ k.staged["firewall"] \in SUBSET Nets
  BY DEF Owned, Lists
<1>3. CASE Command("pbr list", "drop list", [k EXCEPT !.staged.pbr = desired])
  <2>1. k' = [k EXCEPT !.staged["pbr"] = desired]
    BY <1>3 DEF Command
  <2>2. k' \in Owned.uci
    BY <1>2, <2>1 DEF Owned, Lists
  <2>3. UNCHANGED <<k.saved, k.live, k.up>> /\ k'.staged["pbr"] = desired
    BY <1>2, <2>1 DEF Owned, Lists
  <2> QED BY <1>1, <1>3, <2>2, <2>3 DEF Command, UciMove
<1>4. CASE DropList
  <2>1. \/ k' = k
        \/ k' = [k EXCEPT !.staged["firewall"] = {}]
    BY <1>4 DEF DropList, Command
  <2>2. k' \in Owned.uci
    BY <1>2, <2>1 DEF Owned, Lists
  <2>3. UNCHANGED <<k.staged["pbr"], k.saved, k.live, k.up>>
    BY <1>2, <2>1 DEF Owned, Lists
  <2> QED BY <1>1, <1>4, <2>2, <2>3 DEF DropList, Command, UciMove
<1>5. CASE AddToList
  <2>1. CASE \E n \in desired \ k.staged.firewall :
               Command("firewall list", "firewall list",
                       [k EXCEPT !.staged.firewall = @ \cup {n}])
    <3>1. PICK n \in desired : k' = [k EXCEPT !.staged["firewall"] =
                                                k.staged["firewall"] \cup {n}]
      BY <2>1 DEF Command
    <3>2. k' \in Owned.uci
      BY <1>2, <3>1 DEF Owned, Lists
    <3>3. UNCHANGED <<k.staged["pbr"], k.saved, k.live, k.up>>
      BY <1>2, <3>1 DEF Owned, Lists
    <3>4. step = "firewall list" /\ step' = "firewall list"
      BY <2>1 DEF Command
    <3> QED BY <1>1, <3>2, <3>3, <3>4 DEF UciMove
  <2>2. CASE /\ \/ desired \subseteq k.staged.firewall
                \/ disturbed /\ k.live.firewall = {}
             /\ Command("firewall list", "commit pbr", k)
    BY <1>1, <2>2 DEF Command, UciMove
  <2> QED BY <1>5, <2>1, <2>2 DEF AddToList
<1>6. CASE Command("commit pbr", "commit firewall",
                   [k EXCEPT !.saved.pbr = k.staged.pbr])
  <2>1. k' = [k EXCEPT !.saved["pbr"] = k.staged["pbr"]]
    BY <1>6 DEF Command
  <2>2. k' \in Owned.uci
    BY <1>2, <2>1 DEF Owned, Lists
  <2>3. /\ UNCHANGED <<k.staged, k.saved["firewall"], k.live, k.up>>
        /\ k'.saved["pbr"] = k.staged["pbr"]
    BY <1>2, <2>1 DEF Owned, Lists
  <2> QED BY <1>1, <1>6, <2>2, <2>3 DEF Command, UciMove
<1>7. CASE Command("commit firewall", "reload firewall",
                   [k EXCEPT !.saved.firewall = k.staged.firewall])
  <2>1. k' = [k EXCEPT !.saved["firewall"] = k.staged["firewall"]]
    BY <1>7 DEF Command
  <2>2. k' \in Owned.uci
    BY <1>2, <2>1 DEF Owned, Lists
  <2>3. /\ UNCHANGED <<k.staged, k.saved["pbr"], k.live, k.up>>
        /\ k'.saved["firewall"] = k.staged["firewall"]
    BY <1>2, <2>1 DEF Owned, Lists
  <2> QED BY <1>1, <1>7, <2>2, <2>3 DEF Command, UciMove
<1>8. /\ Loaded("firewall") \in Owned.uci
      /\ Loaded("firewall").staged = k.staged
      /\ Loaded("firewall").saved = k.saved
      /\ Loaded("firewall").live["firewall"] = k.saved["firewall"]
      /\ Loaded("firewall").up["firewall"]
      /\ Loaded("firewall").live["pbr"] = k.live["pbr"]
      /\ Loaded("firewall").up["pbr"] = k.up["pbr"]
  BY LoadedFields
<1>9. /\ Loaded("pbr") \in Owned.uci
      /\ Loaded("pbr").staged = k.staged
      /\ Loaded("pbr").saved = k.saved
      /\ Loaded("pbr").live["pbr"] = k.saved["pbr"]
      /\ Loaded("pbr").up["pbr"]
      /\ Loaded("pbr").live["firewall"] = k.live["firewall"]
      /\ Loaded("pbr").up["firewall"] = k.up["firewall"]
  BY LoadedFields
<1>10. CASE Command("reload firewall", "reload pbr", Loaded("firewall"))
  BY <1>1, <1>8, <1>10 DEF Command, UciMove
<1>11. CASE Command("reload pbr", "done", Loaded("pbr"))
  BY <1>1, <1>9, <1>11 DEF Command, UciMove
<1>12. CASE ReconcileOpenWrt
  <2>1. CASE step = "compare"
    <3>1. /\ k' = k
          /\ step' = IF k.staged = [pbr |-> desired, firewall |-> desired]
                     THEN "firewall status" ELSE "pbr list"
      BY <1>12, <2>1 DEF ReconcileOpenWrt, Command
    <3>2. /\ [pbr |-> desired, firewall |-> desired]["pbr"] = desired
          /\ [pbr |-> desired, firewall |-> desired]["firewall"] = desired
      OBVIOUS
    <3> QED BY <1>1, <2>1, <3>1, <3>2 DEF UciMove
  <2>2. CASE step = "firewall status"
    <3>1. /\ step' = "pbr status"
          /\ k' = IF k.up["firewall"] THEN k ELSE Loaded("firewall")
      BY <1>12, <2>2 DEF ReconcileOpenWrt, Command
    <3> QED BY <1>1, <1>8, <2>2, <3>1 DEF UciMove
  <2>3. CASE step = "pbr status"
    <3>1. /\ step' = "done"
          /\ k' = IF k.up["pbr"] THEN k ELSE Loaded("pbr")
      BY <1>12, <2>3 DEF ReconcileOpenWrt, Command
    <3> QED BY <1>1, <1>9, <2>3, <3>1 DEF UciMove
  <2> QED BY <1>12, <2>1, <2>2, <2>3 DEF ReconcileOpenWrt
<1> QED
  BY <1>3, <1>4, <1>5, <1>6, <1>7, <1>10, <1>11, <1>12 DEF ApplyOpenWrt

\* They keep what openwrt-pbr has done by each of them.
LEMMA UciCommandStep ==
    ASSUME CallInv, kind = "openwrt-pbr", ApplyOpenWrt \/ ReconcileOpenWrt
    PROVE  UciCall'
<1>1. k \in Owned.uci /\ UciCall /\ desired \in SUBSET Nets
  BY DEF CallInv, UciCall
<1>2. /\ k' \in Owned.uci
      /\ UNCHANGED <<kind, desired, applied, disturbed>>
      /\ UciMove
  BY <1>1, UciCommand
<1>3. step' \in UciSteps
  BY <1>2 DEF UciMove, UciSteps
<1>4. UciSafe'
  BY <1>1, <1>2 DEF UciCall, UciMove, UciSafe
<1>5. ASSUME Undeceived
      PROVE  UciInStep' /\ UciWritten'
  <2>1. UciInStep /\ UciWritten
    BY <1>1, <1>5 DEF UciCall
  <2>2. UciWritten'
    BY <1>2, <2>1 DEF UciMove, UciWritten, UciSteps
  <2>3. step \in {"compare", "firewall status", "pbr status"} => UciInStep'
    BY <1>2, <2>1 DEF UciMove, UciInStep, Loads
  <2>4. step \notin {"compare", "firewall status", "pbr status"} => UciInStep'
    BY <1>2, <2>1 DEF UciMove, UciInStep, Loads
  <2> QED BY <2>2, <2>3, <2>4
<1>6. Undeceived' = Undeceived
  BY <1>2 DEF Undeceived
<1> QED BY <1>2, <1>3, <1>4, <1>5, <1>6 DEF UciCall

\* A service that loads what is committed, or stops.
LEMMA LoadedOwned ==
    ASSUME NEW u \in Owned.uci, NEW s \in {"pbr", "firewall"}
    PROVE  /\ [u EXCEPT !.live[s] = u.saved[s], !.up[s] = TRUE] \in Owned.uci
           /\ [u EXCEPT !.live[s] = {}, !.up[s] = FALSE] \in Owned.uci
<1> USE DEF Owned, Lists
<1>1. [u EXCEPT !.live[s] = u.saved[s], !.up[s] = TRUE] \in Owned.uci
  OBVIOUS
<1>2. [u EXCEPT !.live[s] = {}, !.up[s] = FALSE] \in Owned.uci
  OBVIOUS
<1> QED BY <1>1, <1>2

\* The daemon starts a call, or takes one for done.
LEMMA CallerStep ==
    ASSUME CallInv, Start \/ Success
    PROVE  CallInv'
<1>1. /\ UNCHANGED <<kind, k, desired>>
      /\ left' = 0 /\ disturbed' = FALSE
      /\ applied' = applied \/ (step' = "idle" /\ applied' = desired /\ step = "done")
      /\ step' \in {FirstStep(TRUE), FirstStep(FALSE), "idle"}
  BY DEF Start, Success
<1>2. applied' \in Chain /\ left' \in 0..2 /\ disturbed' \in BOOLEAN
  <2>1. 0 \in 0..2
    OBVIOUS
  <2>2. applied' \in Chain
    BY <1>1 DEF CallInv, Chain
  <2> QED BY <1>1, <2>1, <2>2
<1>3. CASE kind = "linux-edge"
  BY <1>1, <1>2, <1>3 DEF CallInv, EdgeCall, EdgeSteps, FirstStep
<1>4. CASE kind = "linux-exit"
  BY <1>1, <1>2, <1>4 DEF CallInv, ExitCall, ExitSteps, FirstStep
<1>5. CASE kind = "nft-exit"
  BY <1>1, <1>2, <1>5 DEF CallInv, NFTCall, NFTSteps, FirstStep
<1>6. CASE kind = "wg-route"
  BY <1>1, <1>2, <1>6 DEF CallInv, WGCall, WGSteps, FirstStep
<1>7. CASE kind = "openwrt-pbr"
  <2>1. step' \in {"idle", "compare", "pbr list"}
    BY <1>1, <1>7 DEF FirstStep
  <2>2. k \in Owned.uci /\ UciCall
    BY <1>7 DEF CallInv, UciCall
  <2>3. ASSUME Undeceived
        PROVE  UciInStep'
    <3>1. UciInStep
      BY <2>2, <2>3 DEF UciCall
    <3>2. CASE Start
      <4>1. step = "idle" /\ (step' = "compare" => applied = desired)
        BY <1>7, <3>2 DEF Start, FirstStep
      <4>2. step' # "idle" /\ (step' = "compare" => applied # None)
        BY <1>7, <3>2, <4>1, NoneAssumption DEF Start, FirstStep, CallInv
      <4> QED BY <1>1, <2>1, <3>1, <4>1, <4>2 DEF UciInStep, Loads
    <3>3. CASE Success
      <4>1. step = "done" /\ step' = "idle"
        BY <3>3 DEF Success
      <4>2. /\ k.saved["pbr"] = k.staged["pbr"]
            /\ k.saved["firewall"] = k.staged["firewall"]
            /\ Loads("pbr") /\ Loads("firewall")
        BY <3>1, <4>1 DEF UciInStep
      <4>3. k.staged = k.saved
        BY <2>2, <4>2 DEF Owned, Lists
      <4> QED BY <1>1, <4>1, <4>2, <4>3 DEF UciInStep, Loads
    <3> QED BY <3>2, <3>3
  <2>4. UciWritten' /\ Undeceived' = Undeceived
    BY <1>1, <2>1 DEF UciWritten, Undeceived
  <2>5. UciSafe'
    BY <1>1, <2>1, <2>2 DEF UciSafe, UciCall
  <2>6. UciCall'
    <3>1. Undeceived => UciInStep'
      BY <2>3
    <3> QED BY <1>1, <2>1, <2>2, <2>4, <2>5, <3>1 DEF UciCall, UciSteps
  <2> QED BY <1>1, <1>2, <1>7, <2>6 DEF CallInv
<1> QED BY <1>3, <1>4, <1>5, <1>6, <1>7, KindsAssumption DEF CallInv

\* Another set is wanted, or the daemon starts again.
LEMMA WantOrCrashStep ==
    ASSUME CallInv, Want \/ Crash
    PROVE  CallInv'
<1>1. /\ UNCHANGED <<kind, k>> /\ step' = "idle"
      /\ desired' \in SUBSET Nets
      /\ left' \in {left, 0}
      /\ disturbed' \in {disturbed, FALSE}
      /\ applied' = None \/ (applied' = applied /\ step = "idle")
  BY DEF Want, Crash
<1>2. /\ applied' \in Chain /\ left' \in 0..2 /\ disturbed' \in BOOLEAN
      /\ kind' \in Kinds
  <2>1. 0 \in 0..2
    OBVIOUS
  <2>2. applied' \in Chain
    BY <1>1 DEF CallInv, Chain
  <2> QED BY <1>1, <2>1, <2>2 DEF CallInv
<1>3. CASE kind = "linux-edge"
  BY <1>1, <1>2, <1>3 DEF CallInv, EdgeCall, EdgeSteps
<1>4. CASE kind = "linux-exit"
  BY <1>1, <1>2, <1>4 DEF CallInv, ExitCall, ExitSteps
<1>5. CASE kind = "nft-exit"
  BY <1>1, <1>2, <1>5 DEF CallInv, NFTCall, NFTSteps
<1>6. CASE kind = "wg-route"
  BY <1>1, <1>2, <1>6 DEF CallInv, WGCall, WGSteps
<1>7. CASE kind = "openwrt-pbr"
  <2>1. k \in Owned.uci /\ UciCall
    BY <1>7 DEF CallInv, UciCall
  <2>2. Undeceived => UciInStep'
    BY <1>1, <2>1 DEF UciCall, UciInStep, Loads
  <2>3. UciWritten' /\ Undeceived' = Undeceived
    BY <1>1 DEF UciWritten, Undeceived
  <2>4. UciSafe'
    BY <1>1, <2>1 DEF UciCall, UciSafe
  <2> QED
    BY <1>1, <1>2, <1>7, <2>1, <2>2, <2>3, <2>4 DEF CallInv, UciCall, UciSteps
<1> QED BY <1>3, <1>4, <1>5, <1>6, <1>7, KindsAssumption DEF CallInv

\* A service of OpenWrt that has stopped.
LEMMA StoppedFields ==
    ASSUME k \in Owned.uci, NEW s \in {"pbr", "firewall"},
           NEW t \in {"pbr", "firewall"} \ {s}
    PROVE  LET v == Stopped(s)
           IN  /\ v \in Owned.uci
               /\ v.staged = k.staged /\ v.saved = k.saved
               /\ v.live[s] = {} /\ ~v.up[s]
               /\ v.live[t] = k.live[t] /\ v.up[t] = k.up[t]
<1> DEFINE v == Stopped(s)
<1> USE DEF Stopped, Owned, Lists
<1>1. v \in Owned.uci
  OBVIOUS
<1>2. v.staged = k.staged /\ v.saved = k.saved
  OBVIOUS
<1>3. v.live[s] = {} /\ v.live[t] = k.live[t]
  OBVIOUS
<1>4. ~v.up[s] /\ v.up[t] = k.up[t]
  OBVIOUS
<1> QED BY <1>1, <1>2, <1>3, <1>4

\* A command fails, and with it the call.
LEMMA FailureStep ==
    ASSUME CallInv, CommandFails
    PROVE  CallInv'
<1>1. /\ UNCHANGED <<kind, desired, applied, left, disturbed>>
      /\ step' = "idle"
      /\ MayFail /\ k' \in LeftBy
  BY DEF CommandFails
<1>2. CASE kind = "linux-edge"
  <2>1. k' = k
    BY <1>1, <1>2 DEF CallInv, EdgeCall, EdgeSteps, LeftBy
  <2> QED BY <1>1, <1>2, <2>1 DEF CallInv, EdgeCall, EdgeSteps
<1>3. CASE kind = "linux-exit"
  <2>1. k' = k
    BY <1>1, <1>3 DEF CallInv, ExitCall, ExitSteps, LeftBy
  <2> QED BY <1>1, <1>3, <2>1 DEF CallInv, ExitCall, ExitSteps
<1>4. CASE kind = "nft-exit"
  <2>1. k' = k
    BY <1>1, <1>4 DEF CallInv, NFTCall, NFTSteps, LeftBy
  <2> QED BY <1>1, <1>4, <2>1 DEF CallInv, NFTCall, NFTSteps
<1>5. CASE kind = "wg-route"
  <2>1. k' \in Owned.wg
    <3>1. \/ k' = k
          \/ \E S \in SUBSET desired : k' = [k EXCEPT !.routes = @ \cup S]
      BY <1>1, <1>5 DEF CallInv, WGCall, WGSteps, LeftBy
    <3> QED BY <1>5, <3>1 DEF CallInv, WGCall, Owned
  <2> QED BY <1>1, <1>5, <2>1 DEF CallInv, WGCall, WGSteps
<1>6. CASE kind = "openwrt-pbr"
  <2>1. ~Undeceived /\ Undeceived' = Undeceived
    BY <1>1, <1>6 DEF MayFail, Undeceived
  <2>2. k \in Owned.uci /\ UciSafe
    BY <1>6 DEF CallInv, UciCall
  <2>3. k' \in {k, Stopped("firewall"), Stopped("pbr")}
    BY <1>1, <1>6 DEF CallInv, UciCall, UciSteps, LeftBy
  <2>4. /\ k' \in Owned.uci
        /\ ~k'.up["pbr"] => k'.live["pbr"] = {}
        /\ ~k'.up["firewall"] => k'.live["firewall"] = {}
    <3>1. CASE k' = k
      BY <2>2, <3>1 DEF UciSafe
    <3>2. CASE k' = Stopped("firewall")
      <4>1. /\ Stopped("firewall") \in Owned.uci
            /\ Stopped("firewall").live["firewall"] = {}
            /\ Stopped("firewall").live["pbr"] = k.live["pbr"]
            /\ Stopped("firewall").up["pbr"] = k.up["pbr"]
        BY <2>2, StoppedFields
      <4> QED BY <2>2, <3>2, <4>1 DEF UciSafe
    <3>3. CASE k' = Stopped("pbr")
      <4>1. /\ Stopped("pbr") \in Owned.uci
            /\ Stopped("pbr").live["pbr"] = {}
            /\ Stopped("pbr").live["firewall"] = k.live["firewall"]
            /\ Stopped("pbr").up["firewall"] = k.up["firewall"]
        BY <2>2, StoppedFields
      <4> QED BY <2>2, <3>3, <4>1 DEF UciSafe
    <3> QED BY <2>3, <3>1, <3>2, <3>3
  <2>5. UciSafe'
    BY <1>1, <2>4 DEF UciSafe
  <2> QED BY <1>1, <1>6, <2>1, <2>4, <2>5 DEF CallInv, UciCall, UciSteps
<1> QED BY <1>2, <1>3, <1>4, <1>5, <1>6, KindsAssumption DEF CallInv

\* A list that others have emptied, committed and loaded.
LEMMA EmptiedFields ==
    ASSUME k \in Owned.uci, NEW s \in {"pbr", "firewall"},
           NEW t \in {"pbr", "firewall"} \ {s}
    PROVE  LET v == Emptied(s)
           IN  /\ v \in Owned.uci /\ v.up = k.up
               /\ v.staged = [k.staged EXCEPT ![s] = {}]
               /\ v.saved = [k.saved EXCEPT ![s] = {}]
               /\ v.staged[s] = {} /\ v.saved[s] = {} /\ v.live[s] = {}
               /\ v.staged[t] = k.staged[t] /\ v.saved[t] = k.saved[t]
               /\ v.live[t] = k.live[t]
<1> DEFINE v == Emptied(s)
<1> USE DEF Emptied, Owned, Lists
<1>1. v \in Owned.uci
  OBVIOUS
<1>2. v.up = k.up
  OBVIOUS
<1>3. v.staged = [k.staged EXCEPT ![s] = {}]
  OBVIOUS
<1>4. v.saved = [k.saved EXCEPT ![s] = {}]
  OBVIOUS
<1>5. v.live = [k.live EXCEPT ![s] = {}]
  OBVIOUS
<1>6. /\ k.staged \in Lists /\ k.saved \in Lists /\ k.live \in Lists
  OBVIOUS
<1>7. \A l \in Lists : [l EXCEPT ![s] = {}][s] = {} /\ [l EXCEPT ![s] = {}][t] = l[t]
  OBVIOUS
<1> HIDE DEF v, Emptied, Owned, Lists
<1> QED BY <1>1, <1>2, <1>3, <1>4, <1>5, <1>6, <1>7 DEF v

\* Rules that others have flushed.
LEMMA FlushedFields ==
    ASSUME k \in Owned.uci, NEW s \in {"pbr", "firewall"},
           NEW t \in {"pbr", "firewall"} \ {s}
    PROVE  LET v == Flushed(s)
           IN  /\ v \in Owned.uci /\ v.up = k.up
               /\ v.staged = k.staged /\ v.saved = k.saved
               /\ v.live[s] = {} /\ v.live[t] = k.live[t]
<1> DEFINE v == Flushed(s)
<1> USE DEF Flushed, Owned, Lists
<1>1. v \in Owned.uci
  OBVIOUS
<1>2. v.up = k.up /\ v.staged = k.staged /\ v.saved = k.saved
  OBVIOUS
<1>3. v.live[s] = {} /\ v.live[t] = k.live[t]
  OBVIOUS
<1> QED BY <1>1, <1>2, <1>3

\* Others stop a service, empty a list or flush what is loaded.
LEMMA UciDriftStep ==
    ASSUME CallInv, kind = "openwrt-pbr", Drift
    PROVE  UciCall'
<1>1. k \in Owned.uci /\ UciCall
  BY DEF CallInv, UciCall
<1>2. /\ UNCHANGED <<kind, desired, applied, step, left>>
      /\ disturbed' = (step # "idle")
      /\ \/ k' \in {Stopped("pbr"), Stopped("firewall"), Emptied("pbr"), Emptied("firewall")}
         \/ k' \in {Flushed("pbr"), Flushed("firewall")} /\ ~Undeceived
  BY DEF Drift, Removed, Undeceived
<1>3. PICK s \in {"pbr", "firewall"} :
          k' \in {Stopped(s), Emptied(s)} \/ (k' = Flushed(s) /\ ~Undeceived)
  BY <1>2
<1>4. PICK t \in {"pbr", "firewall"} \ {s} : TRUE
  OBVIOUS
<1>5. \A r \in {"pbr", "firewall"} : r = s \/ r = t
  BY <1>4
<1>6. /\ k' \in Owned.uci
      /\ k'.live[s] = {} /\ k'.live[t] = k.live[t] /\ k'.up[t] = k.up[t]
      /\ k'.staged[t] = k.staged[t] /\ k'.saved[t] = k.saved[t]
      /\ Undeceived => \/ /\ ~k'.up[s]
                          /\ k'.staged = k.staged /\ k'.saved = k.saved
                       \/ /\ k'.staged[s] = {} /\ k'.saved[s] = {}
                          /\ k'.staged = [k.staged EXCEPT ![s] = {}]
                          /\ k'.saved = [k.saved EXCEPT ![s] = {}]
  <2>1. CASE k' = Stopped(s)
    <3>1. /\ Stopped(s) \in Owned.uci
          /\ Stopped(s).staged = k.staged /\ Stopped(s).saved = k.saved
          /\ Stopped(s).live[s] = {} /\ ~Stopped(s).up[s]
          /\ Stopped(s).live[t] = k.live[t] /\ Stopped(s).up[t] = k.up[t]
      BY <1>1, StoppedFields
    <3> QED BY <2>1, <3>1
  <2>2. CASE k' = Emptied(s)
    <3>1. /\ Emptied(s) \in Owned.uci /\ Emptied(s).up = k.up
          /\ Emptied(s).staged = [k.staged EXCEPT ![s] = {}]
          /\ Emptied(s).saved = [k.saved EXCEPT ![s] = {}]
          /\ Emptied(s).staged[s] = {} /\ Emptied(s).saved[s] = {}
          /\ Emptied(s).live[s] = {} /\ Emptied(s).live[t] = k.live[t]
          /\ Emptied(s).staged[t] = k.staged[t] /\ Emptied(s).saved[t] = k.saved[t]
      BY <1>1, EmptiedFields
    <3> QED BY <2>2, <3>1
  <2>3. CASE k' = Flushed(s) /\ ~Undeceived
    <3>1. /\ Flushed(s) \in Owned.uci /\ Flushed(s).up = k.up
          /\ Flushed(s).staged = k.staged /\ Flushed(s).saved = k.saved
          /\ Flushed(s).live[s] = {} /\ Flushed(s).live[t] = k.live[t]
      BY <1>1, FlushedFields
    <3> QED BY <2>3, <3>1
  <2> QED BY <1>3, <2>1, <2>2, <2>3
<1>7. \A r \in {"pbr", "firewall"} :
         \/ k'.live[r] = {}
         \/ /\ k'.live[r] = k.live[r] /\ k'.up[r] = k.up[r]
            /\ k'.staged[r] = k.staged[r] /\ k'.saved[r] = k.saved[r]
  BY <1>5, <1>6
<1>8. /\ \/ k'.live["pbr"] = {}
         \/ /\ k'.live["pbr"] = k.live["pbr"] /\ k'.up["pbr"] = k.up["pbr"]
            /\ k'.staged["pbr"] = k.staged["pbr"] /\ k'.saved["pbr"] = k.saved["pbr"]
      /\ \/ k'.live["firewall"] = {}
         \/ /\ k'.live["firewall"] = k.live["firewall"]
            /\ k'.up["firewall"] = k.up["firewall"]
            /\ k'.staged["firewall"] = k.staged["firewall"]
            /\ k'.saved["firewall"] = k.saved["firewall"]
  BY <1>7
<1>9. UciSafe'
  BY <1>1, <1>2, <1>8 DEF UciCall, UciSafe
<1>10. Undeceived' = Undeceived
  BY <1>2 DEF Undeceived
<1>11. ASSUME Undeceived
       PROVE  UciInStep'
  <2>1. UciInStep
    BY <1>1, <1>11 DEF UciCall
  <2>2. k.staged = k.saved => k'.staged = k'.saved
    BY <1>6, <1>11
  <2>3. \A r \in {"pbr", "firewall"} :
          /\ k.saved[r] = k.staged[r] => k'.saved[r] = k'.staged[r]
          /\ (k.up[r] => k.live[r] = k.saved[r]) => (k'.up[r] => k'.live[r] = k'.saved[r])
    BY <1>5, <1>6, <1>11
  <2>4. /\ k.saved["pbr"] = k.staged["pbr"] => k'.saved["pbr"] = k'.staged["pbr"]
        /\ k.saved["firewall"] = k.staged["firewall"]
              => k'.saved["firewall"] = k'.staged["firewall"]
        /\ Loads("pbr") => Loads("pbr")'
        /\ Loads("firewall") => Loads("firewall")'
    <3>1. "pbr" \in {"pbr", "firewall"} /\ "firewall" \in {"pbr", "firewall"}
      OBVIOUS
    <3> QED BY <2>3, <3>1 DEF Loads
  <2> QED BY <1>2, <2>1, <2>2, <2>4 DEF UciInStep
<1>12. UciWritten'
  BY <1>2 DEF UciWritten
<1> QED BY <1>1, <1>2, <1>6, <1>9, <1>10, <1>11, <1>12 DEF UciCall

\* Others remove policy, between two calls or during one.
LEMMA DriftStep ==
    ASSUME CallInv, Drift
    PROVE  CallInv'
<1>1. /\ UNCHANGED <<kind, desired, applied, step, left>>
      /\ disturbed' = (step # "idle")
      /\ kind # "openwrt-pbr" => k' \in Removed
  BY DEF Drift
<1>2. disturbed' \in BOOLEAN
  BY <1>1
<1>3. CASE kind = "linux-edge"
  <2>1. k \in Owned.edge /\ EdgeCall /\ left \in 0..2
    BY <1>3 DEF CallInv, EdgeCall
  <2>2. \/ k' = [k EXCEPT !.route = FALSE]
        \/ k' = [k EXCEPT !.rules = 0]
        \/ k' = [k EXCEPT !.hook = FALSE]
        \/ k' = [k EXCEPT !.hook = FALSE, !.chain = None]
    BY <1>1, <1>3 DEF Removed
  <2>3. k' \in Owned.edge /\ k'.rules \in {k.rules, 0}
    <3>1. 0 \in 0..2
      OBVIOUS
    <3> QED BY <2>1, <2>2, <3>1 DEF Owned, Chain
  <2>4. 0 <= left
    BY <2>1
  <2>5. step = "replace rule" => k'.rules <= left'
    BY <1>1, <2>1, <2>3, <2>4 DEF EdgeCall
  <2>6. EdgeCall'
    BY <1>1, <2>1, <2>3, <2>5 DEF EdgeCall
  <2> QED BY <1>1, <1>2, <1>3, <2>6 DEF CallInv
<1>4. CASE kind = "linux-exit"
  <2>1. k \in Owned.exit /\ ExitCall
    BY <1>4 DEF CallInv, ExitCall
  <2>2. \/ k' = [k EXCEPT !.hook = FALSE]
        \/ k' = [k EXCEPT !.natHook = FALSE]
        \/ k' = [k EXCEPT !.hook = FALSE, !.chain = None, !.drops = FALSE]
        \/ k' = [k EXCEPT !.natHook = FALSE, !.nat = None]
    BY <1>1, <1>4 DEF Removed
  <2>3. k' \in Owned.exit /\ k'.chain \in {k.chain, None} /\ k'.nat \in {k.nat, None}
    BY <2>1, <2>2 DEF Owned, Chain
  <2>4. ExitCall'
    BY <1>1, <2>1, <2>3 DEF ExitCall
  <2> QED BY <1>1, <1>2, <1>4, <2>4 DEF CallInv
<1>5. CASE kind = "nft-exit"
  <2>1. NFTCall'
    BY <1>1, <1>5 DEF CallInv, NFTCall, NFTSteps, Owned, Chain, Removed
  <2> QED BY <1>1, <1>2, <1>5, <2>1 DEF CallInv
<1>6. CASE kind = "wg-route"
  <2>1. WGCall'
    BY <1>1, <1>6 DEF CallInv, WGCall, WGSteps, Owned, Removed
  <2> QED BY <1>1, <1>2, <1>6, <2>1 DEF CallInv
<1>7. CASE kind = "openwrt-pbr"
  <2>1. UciCall'
    BY <1>7, UciDriftStep
  <2> QED BY <1>1, <1>2, <1>7, <2>1 DEF CallInv
<1> QED BY <1>3, <1>4, <1>5, <1>6, <1>7, KindsAssumption DEF CallInv

\* So does a command that succeeds.
LEMMA CommandStep ==
    ASSUME CallInv, DriverStep
    PROVE  CallInv'
<1>1. /\ UNCHANGED <<kind, desired, applied, disturbed>>
      /\ kind # "linux-edge" => left' \in 0..2
  <2>1. 0 \in 0..2 /\ 1 \in 0..2
    OBVIOUS
  <2> QED BY <2>1, CallOwn, CommandFrame DEF CallInv
<1>2. CASE kind = "linux-edge"
  <2>1. EdgeCall' /\ left' \in 0..2
    BY <1>2, CallOwn, OwnCommands, EdgeCallStep
  <2> QED BY <1>1, <1>2, <2>1 DEF CallInv
<1>3. CASE kind = "linux-exit"
  <2>1. ExitCall'
    BY <1>3, CallOwn, OwnCommands, ExitCallStep
  <2> QED BY <1>1, <1>3, <2>1 DEF CallInv
<1>4. CASE kind = "nft-exit"
  <2>1. NFTCall'
    BY <1>4, CallOwn, OwnCommands, NFTCallStep
  <2> QED BY <1>1, <1>4, <2>1 DEF CallInv
<1>5. CASE kind = "wg-route"
  <2>1. WGCall'
    BY <1>5, CallOwn, OwnCommands, WGCallStep
  <2> QED BY <1>1, <1>5, <2>1 DEF CallInv
<1>6. CASE kind = "openwrt-pbr"
  <2>1. UciCall'
    BY <1>6, CallOwn, OwnCommands, UciCommandStep
  <2> QED BY <1>1, <1>6, <2>1 DEF CallInv
<1> QED BY <1>2, <1>3, <1>4, <1>5, <1>6, KindsAssumption DEF CallInv

\* So it is at the start, also with rules of an older version.
LEMMA InitCalls == Init => CallInv
<1> SUFFICES ASSUME Init PROVE CallInv
  OBVIOUS
<1>1. /\ kind \in Kinds /\ desired = {} /\ applied = None /\ step = "idle"
      /\ left = 0 /\ disturbed = FALSE /\ k \in Fresh
  BY DEF Init
<1>2. 0 \in 0..2
  OBVIOUS
<1>3. desired \in SUBSET Nets /\ applied \in Chain /\ left \in 0..2
      /\ disturbed \in BOOLEAN
  BY <1>1, <1>2 DEF Chain
<1>4. CASE kind = "linux-edge"
  BY <1>1, <1>3, <1>4 DEF CallInv, EdgeCall, EdgeSteps, Owned, Chain, Fresh
<1>5. CASE kind = "linux-exit"
  BY <1>1, <1>3, <1>5 DEF CallInv, ExitCall, ExitSteps, Owned, Chain, Fresh
<1>6. CASE kind = "nft-exit"
  BY <1>1, <1>3, <1>6 DEF CallInv, NFTCall, NFTSteps, Owned, Chain, Fresh
<1>7. CASE kind = "wg-route"
  BY <1>1, <1>3, <1>7 DEF CallInv, WGCall, WGSteps, Owned, Fresh
<1>8. CASE kind = "openwrt-pbr"
  <2>1. k \in Owned.uci
    <3>1. Off \in Lists
      BY DEF Off, Lists
    <3>2. [pbr |-> TRUE, firewall |-> TRUE] \in [pbr : BOOLEAN, firewall : BOOLEAN]
      OBVIOUS
    <3>3. k \in [staged : {Off}, saved : {Off}, live : {Off},
                 up : {[pbr |-> TRUE, firewall |-> TRUE]}]
      BY <1>1, <1>8 DEF Fresh
    <3> QED BY <3>1, <3>2, <3>3 DEF Owned
  <2>2. k.up["pbr"] /\ k.up["firewall"]
    BY <1>1, <1>8 DEF Fresh
  <2> QED BY <1>1, <1>3, <1>8, <2>1, <2>2
          DEF CallInv, UciCall, UciSteps, UciSafe, UciInStep, UciWritten
<1> QED BY <1>1, <1>4, <1>5, <1>6, <1>7, <1>8, KindsAssumption

\* What the drivers have done by each step, always.
THEOREM CallCorrect == Spec => []CallInv
<1>1. CallInv /\ [Next]_vars => CallInv'
  <2> SUFFICES ASSUME CallInv, [Next]_vars PROVE CallInv'
    OBVIOUS
  <2>1. CASE UNCHANGED vars
    <3>1. UNCHANGED <<kind, k, desired, applied, step, left, disturbed>>
      BY <2>1 DEF vars
    <3>2. /\ EdgeCall' = EdgeCall /\ ExitCall' = ExitCall
          /\ NFTCall' = NFTCall /\ WGCall' = WGCall
      BY <3>1 DEF EdgeCall, ExitCall, NFTCall, WGCall
    <3>3. /\ UciInStep' = UciInStep /\ UciWritten' = UciWritten
          /\ UciSafe' = UciSafe /\ Undeceived' = Undeceived
      BY <3>1 DEF UciInStep, UciWritten, UciSafe, Undeceived, Loads
    <3>4. UciCall' = UciCall
      BY <3>1, <3>3 DEF UciCall
    <3> QED BY <3>1, <3>2, <3>4 DEF CallInv
  <2> QED
    BY <2>1, CommandStep, CallerStep, FailureStep, WantOrCrashStep, DriftStep
       DEF Next, Environment
<1> QED BY <1>1, InitCalls, PTL DEF Spec

\* The driver's own state and commands are those of the model.
LEMMA OwnTypes == OwnInv => TypeOK
<1> SUFFICES ASSUME OwnInv PROVE TypeOK
  OBVIOUS
<1>1. CASE kind = "linux-edge"
  BY <1>1 DEF OwnInv, EdgeSteps, TypeOK, Steps
<1>2. CASE kind = "linux-exit"
  BY <1>2 DEF OwnInv, ExitSteps, TypeOK, Steps
<1>3. CASE kind = "nft-exit"
  BY <1>3 DEF OwnInv, NFTSteps, TypeOK, Steps
<1>4. CASE kind = "wg-route"
  BY <1>4 DEF OwnInv, WGSteps, TypeOK, Steps
<1>5. CASE kind = "openwrt-pbr"
  BY <1>5 DEF OwnInv, UciSteps, TypeOK, Steps
<1> QED BY <1>1, <1>2, <1>3, <1>4, <1>5, KindsAssumption DEF OwnInv

\* What the model's state is made of.
THEOREM DriversTypeCorrect == Spec => []TypeOK
  BY OwnTypes, CallOwn, CallCorrect, PTL

\* A call that succeeds has installed what was wanted and nothing else.  Where
\* a command of openwrt-pbr can fail, or its rules be flushed, this is false:
\* the lists are as wanted, and the next call takes them for loaded.
THEOREM SuccessInstallsHolds ==
    ASSUME "openwrt-pbr" \in Kinds =>
               Faults["openwrt-pbr"] \cap {"command", "flush"} = {}
    PROVE  Spec => []SuccessInstalls
<1>1. CallInv => SuccessInstalls
  <2> SUFFICES ASSUME CallInv, step = "done", ~disturbed
               PROVE  /\ desired \subseteq Covered(k)
                      /\ Covered(k) \subseteq desired \/ (kind = "wg-route" /\ k.all)
    BY DEF SuccessInstalls
  <2>1. desired \in SUBSET Nets /\ desired # None
    BY NoneAssumption DEF CallInv
  <2>2. CASE kind = "linux-edge"
    BY <2>1, <2>2 DEF CallInv, EdgeCall, Covered, Content
  <2>3. CASE kind = "linux-exit"
    BY <2>1, <2>3 DEF CallInv, ExitCall, Covered, Content
  <2>4. CASE kind = "nft-exit"
    BY <2>1, <2>4 DEF CallInv, NFTCall, Covered, Content
  <2>5. CASE kind = "wg-route"
    <3>1. k.allowed = desired /\ desired \subseteq k.routes
      BY <2>5 DEF CallInv, WGCall
    <3>2. Covered(k) = k.routes \cap (IF k.all THEN Nets ELSE k.allowed)
      BY <2>5 DEF Covered
    <3> QED BY <2>1, <2>5, <3>1, <3>2
  <2>6. CASE kind = "openwrt-pbr"
    <3>1. UciInStep /\ UciWritten
      BY <2>6 DEF CallInv, UciCall, Undeceived
    <3>2. /\ k.saved["pbr"] = k.staged["pbr"]
          /\ k.saved["firewall"] = k.staged["firewall"]
          /\ Loads("pbr") /\ Loads("firewall")
      BY <3>1 DEF UciInStep
    <3>3. /\ k.staged["pbr"] = desired /\ desired \subseteq k.staged["firewall"]
          /\ k.up["pbr"] /\ k.up["firewall"]
      BY <3>1 DEF UciWritten, UciSteps
    <3>4. Covered(k) = k.live["pbr"] \cap k.live["firewall"]
      BY <2>6 DEF Covered
    <3> QED BY <3>2, <3>3, <3>4 DEF Loads
  <2> QED BY <2>2, <2>3, <2>4, <2>5, <2>6, KindsAssumption DEF CallInv
<1> QED BY <1>1, CallCorrect, PTL

\* No command of a call takes from what is covered and wanted: openwrt-pbr.
LEMMA UciKeepsCovered ==
    ASSUME CallInv, kind = "openwrt-pbr", ApplyOpenWrt \/ ReconcileOpenWrt
    PROVE  Covered(k) \cap desired \subseteq Covered(k)'
<1>1. k \in Owned.uci /\ UciSafe /\ desired \in SUBSET Nets
  BY DEF CallInv, UciCall
<1>2. kind' = kind /\ UciMove
  BY <1>1, UciCommand
<1>3. /\ Covered(k) = k.live["pbr"] \cap k.live["firewall"]
      /\ Covered(k)' = k'.live["pbr"] \cap k'.live["firewall"]
  BY <1>2 DEF Covered
<1>4. CASE k'.live = k.live
  BY <1>3, <1>4
<1>5. CASE /\ k'.live["firewall"] = k.saved["firewall"]
           /\ k'.live["pbr"] = k.live["pbr"]
           /\ step = "reload firewall" \/ ~k.up["firewall"]
  BY <1>1, <1>3, <1>5 DEF UciSafe
<1>6. CASE /\ k'.live["pbr"] = k.saved["pbr"]
           /\ k'.live["firewall"] = k.live["firewall"]
           /\ step = "reload pbr" \/ ~k.up["pbr"]
  BY <1>1, <1>3, <1>6 DEF UciSafe
<1> QED BY <1>2, <1>4, <1>5, <1>6 DEF UciMove

\* The other drivers, but for a rule that occurs twice and the NAT rule of an
\* older version.
LEMMA KeepsCovered ==
    ASSUME CallInv, DriverStep, kind # "openwrt-pbr",
           step \notin {"replace rule", "legacy"}
    PROVE  Covered(k) \cap desired \subseteq Covered(k)'
<1>1. UNCHANGED <<kind, desired>> /\ desired \in SUBSET Nets /\ desired # None
  BY CallOwn, CommandFrame, NoneAssumption DEF CallInv
<1>2. CASE kind = "linux-edge"
  <2>1. k \in Owned.edge /\ ApplyEdge
    BY <1>2, CallOwn, OwnCommands DEF CallInv, EdgeCall
  <2>2. CASE InspectRule
    BY <1>1, <2>2 DEF InspectRule, Covered
  <2>3. CASE ReplaceRule
    BY <2>3 DEF ReplaceRule
  <2>4. CASE ~InspectRule /\ ~ReplaceRule
    BY <1>1, <1>2, <2>1, <2>4
       DEF ApplyEdge, Command, Created, Covered, Content, Owned, Chain
  <2> QED BY <2>2, <2>3, <2>4
<1>3. CASE kind = "linux-exit"
  <2>1. k \in Owned.exit /\ ExitCall /\ ApplyExit
    BY <1>3, CallOwn, OwnCommands DEF CallInv, ExitCall
  <2> USE <1>1, <1>3, <2>1 DEF Command, Created, Covered, Content, Owned, Chain
  <2>2. CASE Command("filter chain", "nat chain", [k EXCEPT !.chain = Created(@)])
    BY <2>2
  <2>3. CASE Command("nat chain", "legacy", [k EXCEPT !.nat = Created(@)])
    BY <2>3
  <2>4. CASE Command("filter", "nat", [k EXCEPT !.chain = desired, !.drops = TRUE])
    BY <2>4
  <2>5. CASE Command("nat", "filter hook", [k EXCEPT !.nat = desired])
    BY <2>5
  <2>6. CASE /\ k.chain # None
             /\ Command("filter hook", "nat hook", [k EXCEPT !.hook = TRUE])
    BY <2>6 DEF ExitCall
  <2>7. CASE Command("nat hook", "done", [k EXCEPT !.natHook = TRUE])
    BY <2>7
  <2> QED BY <2>2, <2>3, <2>4, <2>5, <2>6, <2>7 DEF ApplyExit
<1>4. CASE kind = "nft-exit"
  BY <1>1, <1>4, CallOwn, OwnCommands
     DEF CallInv, NFTCall, ApplyNFT, ProbeTable, Command, Covered, Content, Owned
<1>5. CASE kind = "wg-route"
  BY <1>1, <1>5, CallOwn, OwnCommands
     DEF CallInv, WGCall, ApplyWG, Command, Covered, Owned
<1> QED BY <1>2, <1>3, <1>4, <1>5, KindsAssumption DEF CallInv

\* What a failing command leaves is no less than what there was, unless it is
\* a reload on OpenWrt.  A service whose reload follows on its status had
\* loaded nothing before.
LEMMA FailureKeepsCovered ==
    ASSUME CallInv, CommandFails, step \notin {"reload firewall", "reload pbr"}
    PROVE  Covered(k) \subseteq Covered(k)'
<1>1. kind' = kind /\ MayFail /\ k' \in LeftBy
  BY DEF CommandFails
<1>2. CASE k' = k
  BY <1>1, <1>2 DEF Covered
<1>3. CASE kind = "wg-route"
  <2>1. \/ k' = k
        \/ \E S \in SUBSET desired : k' = [k EXCEPT !.routes = @ \cup S]
    BY <1>1, <1>3 DEF CallInv, WGCall, WGSteps, LeftBy
  <2>2. k' = k \/ (k.routes \subseteq k'.routes /\ k'.all = k.all
                   /\ k'.allowed = k.allowed)
    BY <1>3, <2>1 DEF CallInv, WGCall, Owned
  <2> QED BY <1>1, <1>2, <1>3, <2>2 DEF Covered
<1>4. CASE kind = "openwrt-pbr"
  <2>1. k \in Owned.uci /\ UciSafe
    BY <1>4 DEF CallInv, UciCall
  <2>2. CASE step \in {"firewall status", "pbr status"}
    <3>1. k.live["pbr"] = {} \/ k.live["firewall"] = {}
      BY <1>1, <2>1, <2>2 DEF MayFail, UciSafe
    <3> QED BY <1>4, <3>1 DEF Covered
  <2>3. CASE step \notin {"firewall status", "pbr status"}
    <3>1. k' = k
      BY <1>1, <1>4, <2>3 DEF CallInv, UciCall, UciSteps, LeftBy
    <3> QED BY <1>2, <3>1
  <2> QED BY <2>2, <2>3
<1>5. kind \notin {"wg-route", "openwrt-pbr"} => k' = k
  <2>1. CASE kind = "linux-edge"
    BY <1>1, <2>1 DEF CallInv, EdgeCall, EdgeSteps, LeftBy
  <2>2. CASE kind = "linux-exit"
    BY <1>1, <2>2 DEF CallInv, ExitCall, ExitSteps, LeftBy
  <2>3. CASE kind = "nft-exit"
    BY <1>1, <2>3 DEF CallInv, NFTCall, NFTSteps, LeftBy
  <2> QED BY <2>1, <2>2, <2>3, KindsAssumption DEF CallInv
<1> QED BY <1>2, <1>3, <1>4, <1>5

\* A call that fails, or is cut short, at any command has interrupted nothing
\* that was covered and still is wanted, whatever failed or was removed before,
\* but for the three windows that the property names.
THEOREM NeverInterruptsHolds == Spec => NeverInterrupts
<1>1. ASSUME CallInv, DriverStep \/ CommandFails \/ Crash,
             step \notin {"replace rule", "legacy"}, ~ReloadFails
      PROVE  Covered(k) \cap desired \subseteq Covered(k)'
  <2>1. CASE DriverStep
    <3>1. CASE kind = "openwrt-pbr"
      BY <1>1, <2>1, <3>1, CallOwn, OwnCommands, UciKeepsCovered
    <3> QED BY <1>1, <2>1, <3>1, KeepsCovered
  <2>2. CASE CommandFails
    BY <1>1, <2>2, FailureKeepsCovered DEF ReloadFails
  <2>3. CASE Crash
    BY <2>3 DEF Crash, Covered
  <2> QED BY <1>1, <2>1, <2>2, <2>3
<1>2. CallInv /\ [Next]_vars
        => [/\ DriverStep \/ CommandFails \/ Crash
            /\ step \notin {"replace rule", "legacy"} /\ ~ReloadFails
            => Covered(k) \cap desired \subseteq Covered(k)']_vars
  BY <1>1
<1> QED BY <1>2, CallCorrect, PTL DEF Spec, NeverInterrupts
=============================================================================
