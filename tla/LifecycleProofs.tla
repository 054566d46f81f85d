-------------------------- MODULE LifecycleProofs --------------------------
(* Theorems about Lifecycle: what cleanup and uninstall leave, for any       *)
(* networks, platforms and drivers, and whatever can fail.                   *)
EXTENDS Lifecycle, DriversProofs

-----------------------------------------------------------------------------
(* The daemon beside a tool that takes its policy away: of Drivers' proofs   *)
(* only OwnInv holds, and every step of the daemon keeps it.                 *)

\* A command of openwrt-pbr.
LEMMA UciOwnStep ==
    ASSUME OwnInv, kind = "openwrt-pbr", ApplyOpenWrt \/ ReconcileOpenWrt
    PROVE  k' \in Owned.uci /\ step' \in UciSteps
<1>1. k \in Owned.uci /\ desired \in SUBSET Nets /\ step \in UciSteps
  BY DEF OwnInv
<1>2. step' \in UciSteps
  BY DEF ApplyOpenWrt, DropList, AddToList, ReconcileOpenWrt, Command, UciSteps
<1>3. \/ k' = k
      \/ k' = [k EXCEPT !.staged.pbr = desired]
      \/ k' = [k EXCEPT !.staged.firewall = {}]
      \/ \E n \in desired : k' = [k EXCEPT !.staged.firewall = @ \cup {n}]
      \/ k' = [k EXCEPT !.saved.pbr = k.staged.pbr]
      \/ k' = [k EXCEPT !.saved.firewall = k.staged.firewall]
      \/ k' \in {Loaded("firewall"), Loaded("pbr")}
  BY DEF ApplyOpenWrt, DropList, AddToList, ReconcileOpenWrt, Command
<1>4. Loaded("firewall") \in Owned.uci /\ Loaded("pbr") \in Owned.uci
  BY <1>1, LoadedOwned DEF Loaded
<1>5. /\ [k EXCEPT !.staged.pbr = desired] \in Owned.uci
      /\ [k EXCEPT !.staged.firewall = {}] \in Owned.uci
  BY <1>1 DEF Owned, Lists
<1>6. ASSUME NEW n \in desired
      PROVE  [k EXCEPT !.staged.firewall = @ \cup {n}] \in Owned.uci
  BY <1>1 DEF Owned, Lists
<1>7. [k EXCEPT !.saved.pbr = k.staged.pbr] \in Owned.uci
  BY <1>1 DEF Owned, Lists
<1>8. [k EXCEPT !.saved.firewall = k.staged.firewall] \in Owned.uci
  BY <1>1 DEF Owned, Lists
<1> QED BY <1>1, <1>2, <1>3, <1>4, <1>5, <1>6, <1>7, <1>8

\* A command of any driver.
LEMMA CommandOwnStep ==
    ASSUME OwnInv, DriverStep
    PROVE  OwnInv'
<1>1. /\ UNCHANGED <<kind, desired, applied, disturbed>>
      /\ kind # "linux-edge" => left' \in 0..2
  <2>1. 0 \in 0..2 /\ 1 \in 0..2
    OBVIOUS
  <2> QED BY <2>1, CommandFrame DEF OwnInv
<1>2. CASE kind = "linux-edge"
  BY <1>1, <1>2, OwnCommands, EdgeOwnStep DEF OwnInv
<1>3. CASE kind = "linux-exit"
  <2>1. k' \in Owned.exit /\ step' \in ExitSteps
    BY <1>3, OwnCommands
       DEF OwnInv, ApplyExit, Command, Created, Owned, Chain, ExitSteps
  <2> QED BY <1>1, <1>3, <2>1 DEF OwnInv
<1>4. CASE kind = "nft-exit"
  <2>1. k' \in Owned.nft /\ step' \in NFTSteps
    BY <1>4, OwnCommands
       DEF OwnInv, ApplyNFT, ProbeTable, Command, Owned, Chain, NFTSteps
  <2> QED BY <1>1, <1>4, <2>1 DEF OwnInv
<1>5. CASE kind = "wg-route"
  <2>1. k' \in Owned.wg /\ step' \in WGSteps
    BY <1>5, OwnCommands DEF OwnInv, ApplyWG, Command, Owned, WGSteps
  <2> QED BY <1>1, <1>5, <2>1 DEF OwnInv
<1>6. CASE kind = "openwrt-pbr"
  <2>1. k' \in Owned.uci /\ step' \in UciSteps
    BY <1>6, OwnCommands, UciOwnStep
  <2> QED BY <1>1, <1>6, <2>1 DEF OwnInv
<1> QED BY <1>2, <1>3, <1>4, <1>5, <1>6, KindsAssumption DEF OwnInv

\* A call starts or succeeds, another set is wanted, or the process ends.
LEMMA CallerOwnStep ==
    ASSUME OwnInv, Start \/ Success \/ Want \/ ProcessEnds
    PROVE  OwnInv'
<1>1. /\ UNCHANGED <<kind, k>>
      /\ desired' \in SUBSET Nets /\ applied' \in Chain
      /\ left' \in {left, 0} /\ disturbed' \in {disturbed, FALSE}
      /\ step' \in {FirstStep(TRUE), FirstStep(FALSE), "idle"}
  BY DEF Start, Success, Want, ProcessEnds, OwnInv, Chain
<1>2. left' \in 0..2 /\ disturbed' \in BOOLEAN
  <2>1. 0 \in 0..2
    OBVIOUS
  <2> QED BY <1>1, <2>1 DEF OwnInv
<1>3. CASE kind = "linux-edge"
  BY <1>1, <1>2, <1>3 DEF OwnInv, EdgeSteps, FirstStep
<1>4. CASE kind = "linux-exit"
  BY <1>1, <1>2, <1>4 DEF OwnInv, ExitSteps, FirstStep
<1>5. CASE kind = "nft-exit"
  BY <1>1, <1>2, <1>5 DEF OwnInv, NFTSteps, FirstStep
<1>6. CASE kind = "wg-route"
  BY <1>1, <1>2, <1>6 DEF OwnInv, WGSteps, FirstStep
<1>7. CASE kind = "openwrt-pbr"
  BY <1>1, <1>2, <1>7 DEF OwnInv, UciSteps, FirstStep
<1> QED BY <1>3, <1>4, <1>5, <1>6, <1>7, KindsAssumption DEF OwnInv

\* A command of the daemon fails.
LEMMA FailureOwnStep ==
    ASSUME OwnInv, CommandFails
    PROVE  OwnInv'
<1>1. /\ UNCHANGED <<kind, desired, applied, left, disturbed>>
      /\ step' = "idle" /\ k' \in LeftBy
  BY DEF CommandFails
<1>2. CASE kind = "linux-edge"
  BY <1>1, <1>2 DEF OwnInv, EdgeSteps, LeftBy
<1>3. CASE kind = "linux-exit"
  BY <1>1, <1>3 DEF OwnInv, ExitSteps, LeftBy
<1>4. CASE kind = "nft-exit"
  BY <1>1, <1>4 DEF OwnInv, NFTSteps, LeftBy
<1>5. CASE kind = "wg-route"
  <2>1. \/ k' = k
        \/ \E S \in SUBSET desired : k' = [k EXCEPT !.routes = @ \cup S]
    BY <1>1, <1>5 DEF OwnInv, WGSteps, LeftBy
  <2>2. k' \in Owned.wg
    BY <1>5, <2>1 DEF OwnInv, Owned
  <2> QED BY <1>1, <1>5, <2>2 DEF OwnInv, WGSteps
<1>6. CASE kind = "openwrt-pbr"
  <2>1. k \in Owned.uci
    BY <1>6 DEF OwnInv
  <2>2. \/ k' = k
        \/ k' \in {Stopped("firewall"), Stopped("pbr")}
    BY <1>1, <1>6 DEF OwnInv, UciSteps, LeftBy
  <2>4. Stopped("firewall") \in Owned.uci /\ Stopped("pbr") \in Owned.uci
    BY <2>1, LoadedOwned DEF Stopped
  <2>5. k' \in Owned.uci
    BY <2>1, <2>2, <2>4
  <2> QED BY <1>1, <1>6, <2>5 DEF OwnInv, UciSteps
<1> QED BY <1>2, <1>3, <1>4, <1>5, <1>6, KindsAssumption DEF OwnInv

\* Others remove policy.
LEMMA DriftOwnStep ==
    ASSUME OwnInv, Drift
    PROVE  OwnInv'
<1>1. /\ UNCHANGED <<kind, desired, applied, step, left>>
      /\ disturbed' \in BOOLEAN
      /\ \/ k' \in Removed
         \/ kind = "openwrt-pbr" /\ k' \in {Flushed("pbr"), Flushed("firewall")}
  BY DEF Drift
<1>2. CASE kind = "linux-edge"
  <2>1. k \in Owned.edge /\ left \in 0..2
    BY <1>2 DEF OwnInv
  <2>2. \/ k' = [k EXCEPT !.route = FALSE]
        \/ k' = [k EXCEPT !.rules = 0]
        \/ k' = [k EXCEPT !.hook = FALSE]
        \/ k' = [k EXCEPT !.hook = FALSE, !.chain = None]
    BY <1>1, <1>2 DEF Removed
  <2>3. k' \in Owned.edge /\ k'.rules \in {k.rules, 0}
    <3>1. 0 \in 0..2
      OBVIOUS
    <3> QED BY <2>1, <2>2, <3>1 DEF Owned, Chain
  <2>4. 0 <= left
    BY <2>1
  <2>5. step = "replace rule" => k'.rules <= left'
    BY <1>1, <1>2, <2>3, <2>4 DEF OwnInv
  <2> QED BY <1>1, <1>2, <2>3, <2>5 DEF OwnInv
<1>3. CASE kind = "linux-exit"
  <2>1. k' \in Owned.exit
    BY <1>1, <1>3 DEF OwnInv, Owned, Chain, Removed
  <2> QED BY <1>1, <1>3, <2>1 DEF OwnInv
<1>4. CASE kind = "nft-exit"
  <2>1. k' \in Owned.nft
    BY <1>1, <1>4 DEF OwnInv, Owned, Chain, Removed
  <2> QED BY <1>1, <1>4, <2>1 DEF OwnInv
<1>5. CASE kind = "wg-route"
  <2>1. k' \in Owned.wg
    BY <1>1, <1>5 DEF OwnInv, Owned, Removed
  <2> QED BY <1>1, <1>5, <2>1 DEF OwnInv
<1>6. CASE kind = "openwrt-pbr"
  <2>1. k \in Owned.uci
    BY <1>6 DEF OwnInv
  <2>2. PICK s \in {"pbr", "firewall"} : k' \in {Stopped(s), Emptied(s), Flushed(s)}
    BY <1>1, <1>6 DEF Removed
  <2>3. PICK t \in {"pbr", "firewall"} \ {s} : TRUE
    OBVIOUS
  <2>4. /\ Stopped(s) \in Owned.uci /\ Emptied(s) \in Owned.uci
        /\ Flushed(s) \in Owned.uci
    BY <2>1, StoppedFields, EmptiedFields, FlushedFields
  <2> QED BY <1>1, <1>6, <2>2, <2>4 DEF OwnInv
<1> QED BY <1>2, <1>3, <1>4, <1>5, <1>6, KindsAssumption DEF OwnInv

-----------------------------------------------------------------------------
(* What a tool that cleans up with no daemon beside it has removed by each   *)
(* of its steps, whatever it found and whatever others remove meanwhile.     *)

\* After the commands of a cleanup.
Cleaned == {"remove service", "remove binary", "done"}

EdgeCleaned ==
    /\ tool \in {"flush", "delete chain", "inspect rule", "delete rules",
                 "delete route", "reset peer"} \cup Cleaned => ~k.hook
    /\ tool \in {"inspect rule", "delete rules", "delete route", "reset peer"}
                \cup Cleaned => k.chain = None
    /\ tool = "delete rules" => k.rules <= found
    /\ tool \in {"delete route", "reset peer"} \cup Cleaned => k.rules = 0
    /\ tool \in {"reset peer"} \cup Cleaned => ~k.route

ExitCleaned ==
    /\ tool \in {"unhook nat", "flush", "delete chain", "flush nat", "delete nat"}
                \cup Cleaned => ~k.hook
    /\ tool \in {"flush", "delete chain", "flush nat", "delete nat"}
                \cup Cleaned => ~k.natHook
    /\ tool \in {"flush nat", "delete nat"} \cup Cleaned => k.chain = None
    /\ tool \in Cleaned => k.nat = None

NFTCleaned == tool \in Cleaned => k.table = None

WGCleaned ==
    /\ tool \in {"delete routes"} \cup Cleaned => k.allowed = {}
    /\ tool \in Cleaned => k.routes \cap Content(stateFile) = {}

UciCleaned ==
    /\ tool \in {"drop firewall list", "commit pbr", "commit firewall",
                 "reload firewall", "reload pbr"} \cup Cleaned => k.staged["pbr"] = {}
    /\ tool \in {"commit pbr", "commit firewall", "reload firewall", "reload pbr"}
                \cup Cleaned => k.staged["firewall"] = {}
    /\ tool \in {"commit firewall", "reload firewall", "reload pbr"}
                \cup Cleaned => k.saved["pbr"] = {}
    /\ tool \in {"reload firewall", "reload pbr"} \cup Cleaned => k.saved["firewall"] = {}
    /\ tool \in {"reload pbr"} \cup Cleaned => k.live["firewall"] = {}
    /\ tool \in Cleaned => k.live["pbr"] = {}

AloneCleaned ==
    /\ ~daemon
    /\ kind = "wg-route" => listed = stateFile
    /\ kind = "linux-edge" => EdgeCleaned
    /\ kind = "linux-exit" => ExitCleaned
    /\ kind = "nft-exit" => NFTCleaned
    /\ kind = "wg-route" => WGCleaned
    /\ kind = "openwrt-pbr" => UciCleaned

\* The types, without those of what the driver owns.
LifeTypes ==
    /\ <<platform, kind>> \in Installs
    /\ daemon \in BOOLEAN /\ managed \in BOOLEAN
    /\ installed \in {"both", "binary", "nothing"}
    /\ tool \in ToolSteps
    /\ uninstall \in BOOLEAN /\ alone \in BOOLEAN
    /\ stateFile \in Chain /\ kept \in SUBSET Nets
    /\ listed \in Chain
    /\ found \in 0..2
    /\ ~daemon => step = "idle"

\* What the tool does, and whether it is alone.
ToolControl ==
    /\ alone => tool \notin {"idle", "stop", "install binary", "install service",
                             "enable service"}
    /\ tool \in {"idle", "install binary", "install service", "enable service"}
          => ~uninstall
    /\ tool \in {"remove service", "remove binary"} => uninstall
    /\ tool \in {"reload firewall", "reload pbr"} => kind = "openwrt-pbr"
    /\ installed = "nothing" => tool \in {"idle", "done", "install binary"}

\* systemd, which has stopped the daemon for an uninstall and waited for its
\* end, does not start it again.
StaysStopped ==
    uninstall /\ tool # "stop" /\ platform = "systemd" => ~managed /\ alone

LifeInv ==
    /\ OwnInv
    /\ LifeTypes
    /\ ToolControl
    /\ alone => AloneCleaned
    /\ StaysStopped
    /\ UninstallIsFinal

\* What is done by the end of a cleanup is all there is to do.
LEMMA CleanedUndoes ==
    ASSUME OwnInv, AloneCleaned, tool \in Cleaned
    PROVE  Undone
<1>1. CASE kind = "linux-edge"
  BY <1>1 DEF AloneCleaned, EdgeCleaned, Undone
<1>2. CASE kind = "linux-exit"
  BY <1>2 DEF AloneCleaned, ExitCleaned, Undone
<1>3. CASE kind = "nft-exit"
  BY <1>3 DEF AloneCleaned, NFTCleaned, Undone
<1>4. CASE kind = "wg-route"
  BY <1>4 DEF AloneCleaned, WGCleaned, Undone
<1>5. CASE kind = "openwrt-pbr"
  <2>1. \A l \in Lists : l["pbr"] = {} /\ l["firewall"] = {} => l = Off
    BY DEF Lists, Off
  <2>2. k.staged \in Lists /\ k.saved \in Lists /\ k.live \in Lists
    BY <1>5 DEF OwnInv, Owned
  <2>3. UciCleaned
    BY <1>5 DEF AloneCleaned
  <2>4. /\ k.staged["pbr"] = {} /\ k.staged["firewall"] = {}
        /\ k.saved["pbr"] = {} /\ k.saved["firewall"] = {}
        /\ k.live["pbr"] = {} /\ k.live["firewall"] = {}
    BY <2>3 DEF UciCleaned
  <2>5. k.staged = Off /\ k.saved = Off /\ k.live = Off
    BY <2>1, <2>2, <2>4
  <2> QED BY <1>5, <2>5 DEF Undone
<1> QED BY <1>1, <1>2, <1>3, <1>4, <1>5, KindsAssumption DEF OwnInv

\* A step that changes nothing of the driver's.
LEMMA SameDriver ==
    ASSUME UNCHANGED vars
    PROVE  /\ OwnInv' = OwnInv
           /\ UNCHANGED stateFile => Undone' = Undone
<1>1. UNCHANGED <<kind, k, desired, applied, step, left, disturbed>>
  BY DEF vars
<1> QED BY <1>1 DEF OwnInv, Undone

\* What a daemon saves, or has saved when it ends, is made of networks.
LEMMA FilesStep ==
    ASSUME OwnInv, LifeTypes, Save \/ ProcessEnds
    PROVE  stateFile' \in Chain /\ kept' \in SUBSET Nets
<1>1. /\ stateFile \in Chain /\ kept \in SUBSET Nets
      /\ kind \in Kinds /\ Learnable[kind] \in SUBSET Nets
  BY LearnableAssumption DEF OwnInv, LifeTypes
<1>2. \/ kept' = kept
      \/ \E nets, S : S \in SUBSET (nets \cap Learnable[kind]) /\ kept' = kept \cup S
  BY DEF Save, ProcessEnds, LearnsFrom
<1>3. stateFile' = stateFile \/ stateFile' = None \/ stateFile' \in SUBSET Nets
  BY DEF Save, ProcessEnds, Want
<1> QED BY <1>1, <1>2, <1>3 DEF Chain

\* The daemon and what keeps it running: while it runs nobody is alone.
LEMMA DaemonLifeStep ==
    ASSUME LifeInv, DriverWorks \/ Save \/ Dies \/ Terminates \/ WatchdogKills
    PROVE  LifeInv'
<1>1. daemon /\ ~alone
  BY DEF LifeInv, AloneCleaned, DriverWorks, Save, Dies, Terminates, WatchdogKills
<1>2. OwnInv'
  <2>1. UNCHANGED vars => OwnInv'
    BY SameDriver DEF LifeInv
  <2> QED
    BY <2>1, CommandOwnStep, CallerOwnStep, FailureOwnStep
       DEF LifeInv, DriverWorks, Save, Dies, Terminates, WatchdogKills
<1>3. /\ UNCHANGED <<kind, platform, managed, installed, tool, uninstall,
                     listed, found, alone>>
      /\ daemon' = daemon \/ (daemon' = FALSE /\ step' = "idle")
  <2>1. DriverStep => kind' = kind
    BY CommandFrame DEF LifeInv
  <2> QED
    BY <2>1 DEF DriverWorks, Save, Dies, Terminates, WatchdogKills, ProcessEnds,
                control, operator, Start, Success, CommandFails, Want, vars
<1>4. stateFile' \in Chain /\ kept' \in SUBSET Nets
  <2>1. CASE DriverWorks
    BY <2>1 DEF DriverWorks, files, LifeInv, LifeTypes
  <2>2. CASE Save \/ ProcessEnds
    BY <2>2, FilesStep DEF LifeInv
  <2> QED BY <2>1, <2>2 DEF Dies, Terminates, WatchdogKills
<1>5. LifeTypes'
  BY <1>1, <1>3, <1>4 DEF LifeInv, LifeTypes
<1>6. ToolControl' /\ StaysStopped'
  BY <1>3 DEF LifeInv, ToolControl, StaysStopped
<1>7. UninstallIsFinal'
  BY <1>1, <1>3 DEF LifeInv, UninstallIsFinal, Uninstalled
<1> QED BY <1>1, <1>2, <1>3, <1>5, <1>6, <1>7 DEF LifeInv

\* The daemon is started.
LEMMA RestartLifeStep ==
    ASSUME LifeInv, Restart
    PROVE  LifeInv'
<1> USE DEF LifeInv
<1>1. /\ ~daemon /\ ~alone' /\ alone' = FALSE /\ daemon' = TRUE
      /\ UNCHANGED <<kind, k, applied, step, left, disturbed, platform, managed,
                     installed, stateFile, kept, tool, uninstall, listed, found>>
      /\ platform # "entware" => managed /\ installed # "nothing"
      /\ desired' = stateFile \cup kept /\ stateFile # None
  BY DEF Restart, Supervised, files, operator
<1>2. desired' \in SUBSET Nets
  BY <1>1 DEF LifeTypes, Chain
<1>3. OwnInv'
  BY <1>1, <1>2 DEF OwnInv
<1>4. LifeTypes' /\ ToolControl'
  BY <1>1 DEF LifeTypes, ToolControl
<1>5. StaysStopped' /\ UninstallIsFinal'
  BY <1>1 DEF StaysStopped, UninstallIsFinal, Uninstalled
<1> QED BY <1>1, <1>3, <1>4, <1>5

\* Steps that leave the driver's state alone: the tool starts, ends or handles
\* files.
LEMMA QuietLifeStep ==
    ASSUME LifeInv,
           Cleanup \/ Uninstall \/ Install \/ InstallFiles
           \/ RemoveFiles \/ Finish
    PROVE  LifeInv'
<1>1. UNCHANGED vars /\ UNCHANGED <<kind, k, step, platform, stateFile, kept>>
  BY DEF Cleanup, Uninstall, Install, InstallFiles, RemoveFiles, Finish, vars, files
<1>2. OwnInv' /\ Undone' = Undone
  BY <1>1, SameDriver DEF LifeInv
<1>a. 0 \in 0..2
  OBVIOUS
<1> USE DEF LifeInv
<1>4. CASE Cleanup
  <2>1. /\ tool' = FirstCleanup /\ alone' = ~daemon
        /\ listed' = IF kind = "wg-route" THEN stateFile ELSE {}
        /\ uninstall' = FALSE /\ found' = found /\ installed # "nothing"
        /\ UNCHANGED <<daemon, managed, installed>>
    BY <1>4 DEF Cleanup, CleanupBegins, control
  <2>2. tool' \in {"unhook", "delete table", "reset peer", "drop pbr list"}
    BY <2>1, KindsAssumption DEF FirstCleanup, OwnInv
  <2>3. LifeTypes' /\ ToolControl' /\ StaysStopped'
    BY <1>1, <2>1, <2>2
       DEF LifeTypes, ToolControl, StaysStopped, ToolSteps, Chain
  <2>4. UninstallIsFinal'
    BY <2>1 DEF UninstallIsFinal, Uninstalled
  <2>5. alone' => AloneCleaned'
    BY <1>1, <2>1 DEF AloneCleaned, FirstCleanup, EdgeCleaned, ExitCleaned,
                      NFTCleaned, WGCleaned, UciCleaned, Cleaned
  <2> QED BY <1>2, <2>3, <2>4, <2>5
<1>5. CASE Uninstall \/ Install
  <2>1. /\ tool = "idle" /\ ~alone /\ alone' = alone
        /\ \/ tool' = "stop" /\ installed # "nothing" /\ uninstall' = TRUE
           \/ tool' = "install binary" /\ uninstall' = uninstall
        /\ UNCHANGED <<daemon, managed, installed, listed, found>>
    BY <1>5 DEF Uninstall, Install, control, ToolControl
  <2>2. uninstall' \in BOOLEAN /\ tool' \in ToolSteps
    BY <2>1 DEF LifeTypes, ToolSteps
  <2>3. ~uninstall /\ (tool' # "stop" => ~uninstall')
    <3>1. ~uninstall
      BY <2>1 DEF ToolControl
    <3>2. tool' = "stop" \/ uninstall' = uninstall
      BY <2>1
    <3> QED BY <3>1, <3>2
  <2>4. LifeTypes'
    BY <1>1, <2>1, <2>2 DEF LifeTypes
  <2>5. ToolControl'
    BY <1>1, <2>1, <2>3 DEF ToolControl
  <2>6. StaysStopped'
    BY <1>1, <2>3 DEF StaysStopped
  <2>7. UninstallIsFinal'
    BY <1>1, <1>2, <2>1 DEF UninstallIsFinal, Uninstalled
  <2> QED BY <1>2, <2>1, <2>4, <2>5, <2>6, <2>7
<1>6. CASE InstallFiles
  <2>1. /\ tool \in {"install binary", "install service"}
        /\ tool' \in {"install service", "enable service"}
        /\ installed' \in {"binary", "both"}
        /\ UNCHANGED <<daemon, managed, uninstall, listed, found, alone>>
    BY <1>6 DEF InstallFiles, LifeTypes
  <2>2. ~alone /\ ~uninstall
    BY <2>1 DEF ToolControl
  <2>3. LifeTypes' /\ ToolControl'
    BY <1>1, <2>1, <2>2 DEF LifeTypes, ToolControl, ToolSteps
  <2>4. StaysStopped' /\ UninstallIsFinal'
    BY <2>1, <2>2 DEF StaysStopped, UninstallIsFinal, Uninstalled
  <2> QED BY <1>2, <2>1, <2>2, <2>3, <2>4
<1>7. CASE RemoveFiles
  <2>1. /\ \/ tool = "remove service" /\ tool' = "remove binary" /\ installed' = "binary"
           \/ tool = "remove binary" /\ tool' = "done" /\ installed' = "nothing"
        /\ UNCHANGED <<daemon, managed, uninstall, listed, found, alone>>
    BY <1>7 DEF RemoveFiles
  <2>2. tool \in Cleaned /\ tool' \in Cleaned /\ uninstall
    BY <2>1 DEF Cleaned, ToolControl
  <2>3. LifeTypes' /\ ToolControl' /\ StaysStopped'
    BY <1>1, <2>1, <2>2 DEF LifeTypes, ToolControl, StaysStopped, ToolSteps
  <2>4. alone' => AloneCleaned'
    BY <1>1, <2>1, <2>2 DEF AloneCleaned, EdgeCleaned, ExitCleaned, NFTCleaned,
                            WGCleaned, UciCleaned, Cleaned
  <2>5. UninstallIsFinal'
    <3>1. SUFFICES ASSUME platform = "systemd" PROVE ~daemon /\ Undone
      BY <1>1, <1>2, <2>1 DEF UninstallIsFinal, Uninstalled
    <3>2. alone
      BY <2>1, <2>2, <3>1 DEF StaysStopped
    <3> QED BY <2>2, <3>2, CleanedUndoes DEF AloneCleaned
  <2> QED BY <1>2, <2>3, <2>4, <2>5
<1>8. CASE Finish
  <2>1. /\ tool' = "idle" /\ uninstall' = FALSE /\ listed' = {} /\ found' = 0
        /\ alone' = FALSE /\ UNCHANGED <<daemon, managed, installed>>
    BY <1>8 DEF Finish, ToolRests, control
  <2>2. LifeTypes' /\ ToolControl' /\ StaysStopped'
    BY <1>1, <1>a, <2>1 DEF LifeTypes, ToolControl, StaysStopped, ToolSteps, Chain
  <2>3. UninstallIsFinal'
    BY <1>1, <1>2, <2>1 DEF UninstallIsFinal, Uninstalled
  <2> QED BY <1>2, <2>1, <2>2, <2>3
<1> QED BY <1>4, <1>5, <1>6, <1>7, <1>8

\* The tool stops the daemon, or has it started.
LEMMA StopLifeStep ==
    ASSUME LifeInv, StopService \/ EnableService
    PROVE  LifeInv'
<1> USE DEF LifeInv
<1>1. /\ UNCHANGED <<kind, k, platform, installed, uninstall, found, stateFile>>
      /\ installed # "nothing"
      /\ \/ UNCHANGED vars /\ UNCHANGED <<daemon, step, kept>>
         \/ ProcessEnds /\ daemon' = FALSE /\ step' = "idle"
  BY DEF StopService, EnableService, Stops, ProcessEnds, vars, files, ToolControl
<1>2. OwnInv'
  BY <1>1, SameDriver, CallerOwnStep
<1>3. UninstallIsFinal'
  BY <1>1 DEF UninstallIsFinal, Uninstalled
<1>a. kept' \in SUBSET Nets /\ daemon' \in BOOLEAN /\ (~daemon' => step' = "idle")
  <2>1. /\ kept \in SUBSET Nets /\ daemon \in BOOLEAN
        /\ ~daemon => step = "idle"
    BY DEF LifeTypes
  <2>2. CASE UNCHANGED <<daemon, step, kept>>
    BY <2>1, <2>2
  <2>3. CASE ProcessEnds /\ daemon' = FALSE /\ step' = "idle"
    BY <2>3, FilesStep
  <2> QED BY <1>1, <2>2, <2>3
<1>4. CASE StopService
  <2>1. /\ tool = "stop" /\ tool' = FirstCleanup /\ alone' = ~daemon'
        /\ managed' = (platform = "entware") /\ platform' = platform
        /\ platform # "openwrt" => daemon' = FALSE
        /\ listed' = IF kind = "wg-route" THEN stateFile ELSE {}
    BY <1>4 DEF StopService, Stops, CleanupBegins, ProcessEnds
  <2>2. tool' \in {"unhook", "delete table", "reset peer", "drop pbr list"}
    BY <2>1, KindsAssumption DEF FirstCleanup, OwnInv
  <2>3. alone' \in BOOLEAN /\ listed' \in Chain
    BY <1>a, <2>1 DEF LifeTypes, Chain
  <2>4. LifeTypes' /\ ToolControl'
    BY <1>1, <1>a, <2>1, <2>2, <2>3 DEF LifeTypes, ToolControl, ToolSteps
  <2>5. StaysStopped'
    BY <1>1, <2>1 DEF StaysStopped
  <2>6. alone' => AloneCleaned'
    BY <1>1, <2>1 DEF AloneCleaned, FirstCleanup, EdgeCleaned, ExitCleaned,
                      NFTCleaned, WGCleaned, UciCleaned, Cleaned
  <2> QED BY <1>2, <1>3, <2>4, <2>5, <2>6
<1>5. CASE EnableService
  <2>1. /\ tool = "enable service" /\ tool' = "done" /\ managed' = TRUE
        /\ UNCHANGED <<alone, listed>>
    BY <1>5 DEF EnableService
  <2>2. ~alone /\ ~uninstall
    BY <2>1 DEF ToolControl
  <2>3. tool' \in ToolSteps /\ managed' \in BOOLEAN
    BY <2>1 DEF ToolSteps
  <2>4. LifeTypes'
    BY <1>1, <1>a, <2>1, <2>3 DEF LifeTypes
  <2>5. ToolControl' /\ StaysStopped'
    BY <1>1, <2>1, <2>2 DEF ToolControl, StaysStopped
  <2> QED BY <1>2, <1>3, <2>1, <2>2, <2>4, <2>5
<1> QED BY <1>4, <1>5

\* A command of the tool fails.
LEMMA ToolFailsStep ==
    ASSUME LifeInv, ToolFails
    PROVE  LifeInv'
<1> USE DEF LifeInv
<1>1. /\ tool' = "idle" /\ uninstall' = FALSE /\ listed' = {} /\ found' = 0
      /\ alone' = FALSE
      /\ UNCHANGED <<kind, platform, installed, stateFile>>
      /\ managed' = managed \/ managed' = (platform = "entware")
      /\ \/ /\ k' \in ToolLeaves
            /\ UNCHANGED <<kind, desired, applied, step, left, disturbed, daemon, kept>>
         \/ UNCHANGED vars /\ UNCHANGED <<daemon, step, kept>> /\ daemon
         \/ ProcessEnds /\ daemon' = FALSE /\ step' = "idle" /\ daemon
      /\ tool \notin {"idle", "done"}
  BY DEF ToolFails, ToolRests, Stops, ProcessEnds, control, files, vars
<1>2. OwnInv'
  <2>1. CASE UNCHANGED vars \/ ProcessEnds
    BY <2>1, SameDriver, CallerOwnStep
  <2>2. CASE /\ k' \in ToolLeaves
             /\ UNCHANGED <<kind, desired, applied, step, left, disturbed>>
    <3>1. CASE k' = k
      BY <2>2, <3>1, SameDriver DEF vars
    <3>2. CASE k' # k
      <4>1. kind = "openwrt-pbr" /\ k' \in {Stopped("firewall"), Stopped("pbr")}
        BY <2>2, <3>2 DEF ToolLeaves, ToolControl
      <4>2. k' \in Owned.uci
        BY <4>1, LoadedOwned DEF Stopped, OwnInv
      <4> QED BY <2>2, <4>1, <4>2 DEF OwnInv
    <3> QED BY <3>1, <3>2
  <2> QED BY <1>1, <2>1, <2>2
<1>3. LifeTypes' /\ ToolControl' /\ StaysStopped'
  <2>1. 0 \in 0..2
    OBVIOUS
  <2>2. kept' \in SUBSET Nets /\ daemon' \in BOOLEAN /\ (~daemon' => step' = "idle")
    <3>1. /\ kept \in SUBSET Nets /\ daemon \in BOOLEAN
          /\ ~daemon => step = "idle"
      BY DEF LifeTypes
    <3>2. CASE UNCHANGED <<daemon, step, kept>>
      BY <3>1, <3>2
    <3>3. CASE ProcessEnds /\ daemon' = FALSE /\ step' = "idle"
      BY <3>3, FilesStep
    <3> QED BY <1>1, <3>2, <3>3
  <2>3. managed' \in BOOLEAN /\ tool' \in ToolSteps
    BY <1>1 DEF LifeTypes, ToolSteps
  <2>4. found' \in 0..2 /\ listed' \in Chain
    BY <1>1, <2>1 DEF Chain
  <2>5. LifeTypes'
    BY <1>1, <2>2, <2>3, <2>4 DEF LifeTypes
  <2> QED BY <1>1, <2>5 DEF ToolControl, StaysStopped
<1>4. UninstallIsFinal'
  <2>1. SUFFICES ASSUME platform = "systemd", installed = "nothing"
                 PROVE  ~daemon' /\ Undone'
    BY <1>1 DEF UninstallIsFinal, Uninstalled
  <2>2. ~daemon /\ Undone /\ tool = "install binary"
    BY <1>1, <2>1 DEF UninstallIsFinal, Uninstalled, ToolControl
  <2>3. k' = k /\ daemon' = daemon
    BY <1>1, <2>2 DEF ToolLeaves
  <2> QED BY <1>1, <2>2, <2>3 DEF Undone
<1> QED BY <1>1, <1>2, <1>3, <1>4

\* What others remove meanwhile leaves no more.
LEMMA DriftRemoves ==
    ASSUME OwnInv, Drift
    PROVE  /\ kind = "linux-edge" =>
                /\ k'.hook => k.hook
                /\ k'.route => k.route
                /\ k'.chain \in {k.chain, None} /\ k'.rules \in {k.rules, 0}
           /\ kind = "linux-exit" =>
                /\ k'.hook => k.hook
                /\ k'.natHook => k.natHook
                /\ k'.chain \in {k.chain, None} /\ k'.nat \in {k.nat, None}
           /\ kind = "nft-exit" => k'.table = None
           /\ kind = "wg-route" =>
                /\ k'.allowed \in {k.allowed, {}} /\ k'.routes \in {k.routes, {}}
           /\ kind = "openwrt-pbr" =>
                \A s \in {"pbr", "firewall"} :
                    /\ k'.staged[s] \in {k.staged[s], {}}
                    /\ k'.saved[s] \in {k.saved[s], {}}
                    /\ k'.live[s] \in {k.live[s], {}}
<1>1. \/ k' \in Removed
      \/ kind = "openwrt-pbr" /\ k' \in {Flushed("pbr"), Flushed("firewall")}
  BY DEF Drift
<1>2. CASE kind = "linux-edge"
  BY <1>1, <1>2 DEF Removed, OwnInv, Owned
<1>3. CASE kind = "linux-exit"
  BY <1>1, <1>3 DEF Removed, OwnInv, Owned
<1>4. CASE kind = "nft-exit"
  BY <1>1, <1>4 DEF Removed, OwnInv, Owned
<1>5. CASE kind = "wg-route"
  BY <1>1, <1>5 DEF Removed, OwnInv, Owned
<1>6. CASE kind = "openwrt-pbr"
  <2>1. k \in Owned.uci
    BY <1>6 DEF OwnInv
  <2>2. PICK s \in {"pbr", "firewall"} : k' \in {Stopped(s), Emptied(s), Flushed(s)}
    BY <1>1, <1>6 DEF Removed
  <2>3. PICK t \in {"pbr", "firewall"} \ {s} : TRUE
    OBVIOUS
  <2>4. \A r \in {"pbr", "firewall"} : r \in {s, t}
    BY <2>3
  <2>5. CASE k' = Stopped(s)
    <3>1. /\ k'.staged = k.staged /\ k'.saved = k.saved
          /\ k'.live[s] = {} /\ k'.live[t] = k.live[t]
      BY <2>1, <2>5, StoppedFields
    <3> QED BY <1>6, <2>4, <3>1
  <2>6. CASE k' = Emptied(s)
    <3>1. /\ k'.staged[s] = {} /\ k'.saved[s] = {} /\ k'.live[s] = {}
          /\ k'.staged[t] = k.staged[t] /\ k'.saved[t] = k.saved[t]
          /\ k'.live[t] = k.live[t]
      BY <2>1, <2>6, EmptiedFields
    <3> QED BY <1>6, <2>4, <3>1
  <2>7. CASE k' = Flushed(s)
    <3>1. /\ k'.staged = k.staged /\ k'.saved = k.saved
          /\ k'.live[s] = {} /\ k'.live[t] = k.live[t]
      BY <2>1, <2>7, FlushedFields
    <3> QED BY <1>6, <2>4, <3>1
  <2> QED BY <2>2, <2>5, <2>6, <2>7
<1> QED BY <1>2, <1>3, <1>4, <1>5, <1>6, KindsAssumption DEF OwnInv

\* Others remove policy, beside the tool or after it.
LEMMA DisturbStep ==
    ASSUME LifeInv, Disturb
    PROVE  LifeInv'
<1> USE DEF LifeInv
<1>1. /\ Drift
      /\ UNCHANGED <<kind, desired, step, platform, daemon, managed, installed,
                     stateFile, kept, tool, uninstall, listed, found, alone>>
  BY DEF Disturb, Drift, control, files, operator
<1>2. OwnInv'
  BY <1>1, DriftOwnStep
<1>3. LifeTypes' /\ ToolControl' /\ StaysStopped'
  BY <1>1 DEF LifeTypes, ToolControl, StaysStopped
<1>4. alone' => AloneCleaned'
  <2>1. SUFFICES ASSUME AloneCleaned PROVE AloneCleaned'
    BY <1>1
  <2>2. CASE kind = "linux-edge"
    <3>1. 0 <= found
      BY DEF LifeTypes
    <3>2. /\ k'.hook => k.hook
          /\ k'.route => k.route
          /\ k'.chain \in {k.chain, None} /\ k'.rules \in {k.rules, 0}
      BY <1>1, <2>2, DriftRemoves
    <3> QED BY <1>1, <2>1, <2>2, <3>1, <3>2 DEF AloneCleaned, EdgeCleaned
  <2>3. CASE kind = "linux-exit"
    BY <1>1, <2>1, <2>3, DriftRemoves DEF AloneCleaned, ExitCleaned
  <2>4. CASE kind = "nft-exit"
    BY <1>1, <2>1, <2>4, DriftRemoves DEF AloneCleaned, NFTCleaned
  <2>5. CASE kind = "wg-route"
    BY <1>1, <2>1, <2>5, DriftRemoves DEF AloneCleaned, WGCleaned
  <2>6. CASE kind = "openwrt-pbr"
    BY <1>1, <2>1, <2>6, DriftRemoves DEF AloneCleaned, UciCleaned
  <2> QED BY <2>2, <2>3, <2>4, <2>5, <2>6, KindsAssumption DEF OwnInv
<1>5. UninstallIsFinal'
  <2>1. SUFFICES ASSUME Undone PROVE Undone'
    BY <1>1 DEF UninstallIsFinal, Uninstalled
  <2>2. CASE kind = "linux-edge"
    BY <1>1, <2>1, <2>2, DriftRemoves DEF Undone
  <2>3. CASE kind = "linux-exit"
    BY <1>1, <2>1, <2>3, DriftRemoves DEF Undone
  <2>4. CASE kind = "nft-exit"
    BY <1>1, <2>1, <2>4, DriftRemoves DEF Undone
  <2>5. CASE kind = "wg-route"
    BY <1>1, <2>1, <2>5, DriftRemoves DEF Undone
  <2>6. CASE kind = "openwrt-pbr"
    <3>1. Off["pbr"] = {} /\ Off["firewall"] = {}
      BY DEF Off
    <3>2. /\ k'.staged["pbr"] = {} /\ k'.staged["firewall"] = {}
          /\ k'.saved["pbr"] = {} /\ k'.saved["firewall"] = {}
          /\ k'.live["pbr"] = {} /\ k'.live["firewall"] = {}
      BY <1>1, <2>1, <2>6, <3>1, DriftRemoves DEF Undone
    <3>3. k'.staged \in Lists /\ k'.saved \in Lists /\ k'.live \in Lists
      BY <1>1, <1>2, <2>6 DEF OwnInv, Owned
    <3>4. \A l \in Lists : l["pbr"] = {} /\ l["firewall"] = {} => l = Off
      BY DEF Lists, Off
    <3>5. k'.staged = Off /\ k'.saved = Off /\ k'.live = Off
      BY <3>2, <3>3, <3>4
    <3> QED BY <1>1, <2>6, <3>5 DEF Undone
  <2> QED BY <2>2, <2>3, <2>4, <2>5, <2>6, KindsAssumption DEF OwnInv
<1> QED BY <1>2, <1>3, <1>4, <1>5

-----------------------------------------------------------------------------
(* The commands of a cleanup *)

\* What a command leaves unchanged, and when there is none.
CleanupFrame ==
    /\ UNCHANGED <<kind, desired, applied, step, left, disturbed, platform,
                   daemon, managed, installed, stateFile, kept, uninstall, listed,
                   alone>>
    /\ tool \notin {"idle", "done", "stop", "install binary", "install service",
                    "enable service", "remove service", "remove binary"}

\* Each leaves the daemon, its wishes and its service alone.
LEMMA CleanupFrames ==
    ASSUME LifeInv, CleanupStep
    PROVE  CleanupFrame
<1> USE DEF CleanupFrame, Clean, control, files
<1>1. CASE CleanupEdge
  BY <1>1 DEF CleanupEdge, DeleteChain, CleanupRules, DeleteRules, ResetEdgePeer, vars
<1>2. CASE CleanupExit
  BY <1>2 DEF CleanupExit, DeleteChain, DeleteNAT
<1>3. CASE CleanupNFT \/ CleanupWG \/ CleanupOpenWrt
  BY <1>3 DEF CleanupNFT, CleanupWG, CleanupOpenWrt
<1> QED BY <1>1, <1>2, <1>3 DEF CleanupStep

\* The steps that a command of a cleanup can lead to.
CleanupSteps ==
    {"unhook nat", "flush", "delete chain", "flush nat", "delete nat",
     "inspect rule", "delete rules", "delete route", "reset peer",
     "delete routes", "drop firewall list", "commit pbr", "commit firewall",
     "reload firewall", "reload pbr", AfterCleanup}

\* linux-edge: first the hook, last the route.
LEMMA EdgeCleanupStep ==
    ASSUME LifeInv, kind = "linux-edge", CleanupEdge
    PROVE  /\ k' \in Owned.edge /\ k'.rules <= k.rules
           /\ found' \in 0..2
           /\ tool' \in CleanupSteps \ {"reload firewall", "reload pbr"}
           /\ alone => EdgeCleaned'
<1>1. k \in Owned.edge /\ found \in 0..2 /\ k.rules \in 0..2
  BY DEF LifeInv, OwnInv, LifeTypes, Owned
<1>2. k.rules <= k.rules /\ 0 <= k.rules
  BY <1>1
<1>3. alone => EdgeCleaned
  BY DEF LifeInv, AloneCleaned
<1>4. AfterCleanup \in {"remove service", "done"} /\ AfterCleanup \in Cleaned
  BY DEF AfterCleanup, Cleaned
<1> HIDE DEF AfterCleanup
<1>5. CASE Clean("unhook", "flush", [k EXCEPT !.hook = FALSE])
  BY <1>1, <1>2, <1>4, <1>5 DEF Clean, Owned, CleanupSteps, EdgeCleaned, Cleaned
<1>6. CASE DeleteChain("inspect rule")
  <2>1. CASE Clean("flush", "inspect rule", k) /\ k.chain = None
    BY <1>1, <1>2, <1>3, <1>4, <2>1 DEF Clean, CleanupSteps, EdgeCleaned, Cleaned
  <2>2. CASE Clean("flush", "delete chain", [k EXCEPT !.chain = {}])
    <3>1. {} \in Chain
      BY DEF Chain
    <3> QED BY <1>1, <1>2, <1>3, <1>4, <2>2, <3>1
            DEF Clean, Owned, CleanupSteps, EdgeCleaned, Cleaned
  <2>3. CASE Clean("delete chain", "inspect rule", [k EXCEPT !.chain = None])
    <3>1. None \in Chain
      BY DEF Chain
    <3> QED BY <1>1, <1>2, <1>3, <1>4, <2>3, <3>1
            DEF Clean, Owned, CleanupSteps, EdgeCleaned, Cleaned
  <2> QED BY <1>6, <2>1, <2>2, <2>3 DEF DeleteChain
<1>7. CASE CleanupRules
  <2>1. UNCHANGED kind
    BY <1>7 DEF CleanupRules
  <2>2. CASE /\ tool = "inspect rule" /\ found' = k.rules
             /\ tool' = "delete rules" /\ k' = k
    BY <1>1, <1>2, <1>3, <1>4, <2>1, <2>2 DEF CleanupSteps, EdgeCleaned, Cleaned
  <2>3. CASE /\ tool = "delete rules" /\ found > 0 /\ k.rules > 0
             /\ k' = [k EXCEPT !.rules = @ - 1] /\ found' = found - 1
             /\ tool' = tool
    <3>1. k' \in Owned.edge /\ k'.rules = k.rules - 1
      BY <1>1, <2>3, EdgeFields
    <3>2. k'.hook = k.hook /\ k'.chain = k.chain
      BY <1>1, <2>3 DEF Owned
    <3>3. k'.rules <= k.rules /\ found' \in 0..2 /\ (k.rules <= found => k'.rules <= found')
      <4>1. \A r, f \in 0..2 : f > 0 => /\ r - 1 <= r /\ f - 1 \in 0..2
                                        /\ r <= f => r - 1 <= f - 1
        OBVIOUS
      <4> QED BY <1>1, <2>3, <3>1, <4>1
    <3>4. alone => EdgeCleaned'
      BY <1>3, <2>3, <3>2, <3>3 DEF EdgeCleaned, Cleaned
    <3> QED BY <1>1, <2>1, <2>3, <3>1, <3>3, <3>4 DEF CleanupSteps
  <2>4. CASE /\ tool = "delete rules" /\ found = 0 /\ tool' = "delete route"
             /\ k' = k /\ found' = found
    <3>1. k.rules <= found => k.rules = 0
      <4>1. \A r \in 0..2 : r <= 0 => r = 0
        OBVIOUS
      <4> QED BY <1>1, <2>4, <4>1
    <3>2. alone => EdgeCleaned'
      BY <1>3, <2>4, <3>1 DEF EdgeCleaned, Cleaned
    <3>3. tool' \in CleanupSteps \ {"reload firewall", "reload pbr"}
      BY <2>4 DEF CleanupSteps
    <3> QED BY <1>1, <1>2, <2>1, <2>4, <3>2, <3>3
  <2> QED BY <1>7, <2>2, <2>3, <2>4 DEF CleanupRules, DeleteRules
<1>8. CASE Clean("delete route", "reset peer", [k EXCEPT !.route = FALSE])
  BY <1>1, <1>2, <1>3, <1>4, <1>8
     DEF Clean, Owned, CleanupSteps, EdgeCleaned, Cleaned
<1>9. CASE ResetEdgePeer
  <2>1. /\ tool = "reset peer" /\ tool' = AfterCleanup
        /\ k' = k /\ found' = found
    BY <1>9 DEF ResetEdgePeer, vars
  <2>2. tool' \in Cleaned \ {"reload firewall", "reload pbr"} /\ tool' \in CleanupSteps
    BY <1>4, <2>1 DEF CleanupSteps, Cleaned
  <2>3. alone => EdgeCleaned'
    BY <1>3, <2>1, <2>2 DEF EdgeCleaned, Cleaned
  <2> QED BY <1>1, <1>2, <2>1, <2>2, <2>3
<1> QED BY <1>5, <1>6, <1>7, <1>8, <1>9 DEF CleanupEdge

\* linux-exit: first the hooks, then the chains.
LEMMA ExitCleanupStep ==
    ASSUME LifeInv, kind = "linux-exit", CleanupExit
    PROVE  /\ k' \in Owned.exit /\ found' = found
           /\ tool' \in CleanupSteps \ {"reload firewall", "reload pbr"}
           /\ alone => ExitCleaned'
<1>1. k \in Owned.exit /\ None \in Chain /\ {} \in Chain
  BY DEF LifeInv, OwnInv, Chain
<1>2. alone => ExitCleaned
  BY DEF LifeInv, AloneCleaned
<1>3. AfterCleanup \in {"remove service", "done"}
  BY DEF AfterCleanup
<1> HIDE DEF AfterCleanup
<1> USE <1>1, <1>2, <1>3 DEF Clean, Owned, CleanupSteps, ExitCleaned, Cleaned
<1>4. CASE Clean("unhook", "unhook nat", [k EXCEPT !.hook = FALSE])
  BY <1>4
<1>5. CASE Clean("unhook nat", "flush", [k EXCEPT !.natHook = FALSE])
  BY <1>5
<1>6. CASE Clean("flush", "flush nat", k) /\ k.chain = None
  BY <1>6
<1>7. CASE Clean("flush", "delete chain", [k EXCEPT !.chain = {}, !.drops = FALSE])
  BY <1>7
<1>8. CASE Clean("delete chain", "flush nat", [k EXCEPT !.chain = None])
  BY <1>8
<1>9. CASE Clean("flush nat", AfterCleanup, k) /\ k.nat = None
  BY <1>9
<1>10. CASE Clean("flush nat", "delete nat", [k EXCEPT !.nat = {}])
  BY <1>10
<1>11. CASE Clean("delete nat", AfterCleanup, [k EXCEPT !.nat = None])
  BY <1>11
<1> QED
  BY <1>4, <1>5, <1>6, <1>7, <1>8, <1>9, <1>10, <1>11
     DEF CleanupExit, DeleteChain, DeleteNAT

\* nft-exit: the table.
LEMMA NFTCleanupStep ==
    ASSUME LifeInv, kind = "nft-exit", CleanupNFT
    PROVE  /\ k' \in Owned.nft /\ found' = found
           /\ tool' \in CleanupSteps \ {"reload firewall", "reload pbr"}
           /\ alone => NFTCleaned'
<1>1. k \in Owned.nft /\ None \in Chain
  BY DEF LifeInv, OwnInv, Chain
<1>2. AfterCleanup \in {"remove service", "done"}
  BY DEF AfterCleanup
<1> HIDE DEF AfterCleanup
<1> QED
  BY <1>1, <1>2 DEF CleanupNFT, Clean, Owned, CleanupSteps, NFTCleaned, Cleaned

\* wg-route: the peer's addresses, then the routes of the networks that it has
\* read from the state file, which does not change without a daemon.
LEMMA WGCleanupStep ==
    ASSUME LifeInv, kind = "wg-route", CleanupWG
    PROVE  /\ k' \in Owned.wg /\ found' = found
           /\ tool' \in CleanupSteps \ {"reload firewall", "reload pbr"}
           /\ alone => WGCleaned'
<1>1. k \in Owned.wg /\ stateFile' = stateFile
  BY DEF LifeInv, OwnInv, CleanupWG, Clean, files
<1>2. alone => WGCleaned /\ listed = stateFile
  BY DEF LifeInv, AloneCleaned
<1>3. AfterCleanup \in {"remove service", "done"}
  BY DEF AfterCleanup
<1> HIDE DEF AfterCleanup
<1> USE <1>1, <1>2, <1>3 DEF Clean, Owned, CleanupSteps, WGCleaned, Cleaned
<1>4. CASE Clean("reset peer", "delete routes", [k EXCEPT !.allowed = {}])
  BY <1>4
<1>5. ASSUME NEW n \in Content(listed) \cap k.routes,
             Clean("delete routes", "delete routes", [k EXCEPT !.routes = @ \ {n}])
      PROVE  /\ k' \in Owned.wg /\ found' = found
             /\ tool' \in CleanupSteps \ {"reload firewall", "reload pbr"}
             /\ alone => WGCleaned'
  BY <1>5
<1>6. CASE /\ listed # None /\ listed \cap k.routes = {}
           /\ Clean("delete routes", AfterCleanup, k)
  BY <1>6 DEF Content
<1> QED BY <1>4, <1>5, <1>6 DEF CleanupWG

\* openwrt-pbr: the lists, their commits, the reloads.
LEMMA UciCleanupStep ==
    ASSUME LifeInv, kind = "openwrt-pbr", CleanupOpenWrt
    PROVE  /\ k' \in Owned.uci /\ found' = found
           /\ tool' \in CleanupSteps
           /\ alone => UciCleaned'
<1>1. k \in Owned.uci
  BY DEF LifeInv, OwnInv
<1>2. alone => UciCleaned
  BY DEF LifeInv, AloneCleaned
<1>3. AfterCleanup \in {"remove service", "done"}
  BY DEF AfterCleanup
<1>4. found' = found
  BY DEF CleanupOpenWrt, Clean
<1> HIDE DEF AfterCleanup
<1>5. CASE Clean("drop pbr list", "drop firewall list", [k EXCEPT !.staged.pbr = {}])
  <2>1. tool' = "drop firewall list" /\ k' = [k EXCEPT !.staged["pbr"] = {}]
    BY <1>5 DEF Clean
  <2>2. k' \in Owned.uci
    BY <1>1, <2>1 DEF Owned, Lists
  <2>3. k'.staged["pbr"] = {}
    BY <1>1, <2>1 DEF Owned, Lists
  <2> QED BY <1>4, <2>1, <2>2, <2>3 DEF UciCleaned, Cleaned, CleanupSteps
<1>6. CASE Clean("drop firewall list", "commit pbr", [k EXCEPT !.staged.firewall = {}])
  <2>1. /\ tool = "drop firewall list" /\ tool' = "commit pbr"
        /\ k' = [k EXCEPT !.staged["firewall"] = {}]
    BY <1>6 DEF Clean
  <2>2. k' \in Owned.uci
    BY <1>1, <2>1 DEF Owned, Lists
  <2>3. k'.staged["firewall"] = {} /\ k'.staged["pbr"] = k.staged["pbr"]
    BY <1>1, <2>1 DEF Owned, Lists
  <2> QED
    BY <1>2, <1>4, <2>1, <2>2, <2>3 DEF UciCleaned, Cleaned, CleanupSteps
<1>7. CASE Clean("commit pbr", "commit firewall", [k EXCEPT !.saved.pbr = k.staged.pbr])
  <2>1. /\ tool = "commit pbr" /\ tool' = "commit firewall"
        /\ k' = [k EXCEPT !.saved["pbr"] = k.staged["pbr"]]
    BY <1>7 DEF Clean
  <2>2. k' \in Owned.uci
    BY <1>1, <2>1 DEF Owned, Lists
  <2>3. k'.saved["pbr"] = k.staged["pbr"] /\ k'.staged = k.staged
    BY <1>1, <2>1 DEF Owned, Lists
  <2> QED
    BY <1>2, <1>4, <2>1, <2>2, <2>3 DEF UciCleaned, Cleaned, CleanupSteps
<1>8. CASE Clean("commit firewall", "reload firewall",
                 [k EXCEPT !.saved.firewall = k.staged.firewall])
  <2>1. /\ tool = "commit firewall" /\ tool' = "reload firewall"
        /\ k' = [k EXCEPT !.saved["firewall"] = k.staged["firewall"]]
    BY <1>8 DEF Clean
  <2>2. k' \in Owned.uci
    BY <1>1, <2>1 DEF Owned, Lists
  <2>3. /\ k'.saved["firewall"] = k.staged["firewall"]
        /\ k'.saved["pbr"] = k.saved["pbr"] /\ k'.staged = k.staged
    BY <1>1, <2>1 DEF Owned, Lists
  <2> QED
    BY <1>2, <1>4, <2>1, <2>2, <2>3 DEF UciCleaned, Cleaned, CleanupSteps
<1>9. CASE Clean("reload firewall", "reload pbr", Loaded("firewall"))
  <2>1. /\ tool = "reload firewall" /\ tool' = "reload pbr"
        /\ k' = Loaded("firewall")
    BY <1>9 DEF Clean
  <2>2. k' \in Owned.uci
    BY <1>1, <2>1, LoadedOwned DEF Loaded
  <2>3. k'.staged = k.staged /\ k'.saved = k.saved
    BY <1>1, <2>1 DEF Loaded, Owned, Lists
  <2>4. k'.live["firewall"] = k.saved["firewall"]
    BY <1>1, <2>1 DEF Loaded, Owned, Lists
  <2> QED
    BY <1>2, <1>4, <2>1, <2>2, <2>3, <2>4 DEF UciCleaned, Cleaned, CleanupSteps
<1>10. CASE Clean("reload pbr", AfterCleanup, Loaded("pbr"))
  <2>1. /\ tool = "reload pbr" /\ tool' = AfterCleanup
        /\ k' = Loaded("pbr")
    BY <1>10 DEF Clean
  <2>2. k' \in Owned.uci
    BY <1>1, <2>1, LoadedOwned DEF Loaded
  <2>3. k'.staged = k.staged /\ k'.saved = k.saved
    BY <1>1, <2>1 DEF Loaded, Owned, Lists
  <2>4. /\ k'.live["pbr"] = k.saved["pbr"]
        /\ k'.live["firewall"] = k.live["firewall"]
    BY <1>1, <2>1 DEF Loaded, Owned, Lists
  <2> QED
    BY <1>2, <1>3, <1>4, <2>1, <2>2, <2>3, <2>4
       DEF UciCleaned, Cleaned, CleanupSteps
<1> QED BY <1>5, <1>6, <1>7, <1>8, <1>9, <1>10 DEF CleanupOpenWrt

\* A command of a cleanup keeps the invariant, also beside a running daemon.
LEMMA CleanupLifeStep ==
    ASSUME LifeInv, CleanupStep
    PROVE  LifeInv'
<1>1. CleanupFrame
  BY CleanupFrames
<1>2. /\ OwnInv'
      /\ found' \in 0..2
      /\ tool' \in CleanupSteps
      /\ tool' \in {"reload firewall", "reload pbr"} => kind = "openwrt-pbr"
      /\ alone => AloneCleaned'
  <2>1. /\ UNCHANGED <<kind, desired, applied, step, left, disturbed, daemon,
                       listed, stateFile, alone>>
        /\ OwnInv /\ found \in 0..2
        /\ alone => AloneCleaned
    BY <1>1 DEF CleanupFrame, LifeInv, LifeTypes
  <2>2. CASE kind = "linux-edge"
    <3>1. /\ k' \in Owned.edge /\ k'.rules <= k.rules
          /\ found' \in 0..2
          /\ tool' \in CleanupSteps \ {"reload firewall", "reload pbr"}
          /\ alone => EdgeCleaned'
      BY <2>2, EdgeCleanupStep DEF CleanupStep
    <3>2. step = "replace rule" => k'.rules <= left
      <4>1. k.rules \in 0..2 /\ k'.rules \in 0..2 /\ left \in 0..2
        BY <2>1, <2>2, <3>1 DEF OwnInv, Owned
      <4>2. step = "replace rule" => k.rules <= left
        BY <2>1, <2>2 DEF OwnInv
      <4>3. \A a, b, c \in 0..2 : a <= b /\ b <= c => a <= c
        OBVIOUS
      <4> QED BY <3>1, <4>1, <4>2, <4>3
    <3>3. OwnInv'
      BY <2>1, <2>2, <3>1, <3>2 DEF OwnInv
    <3> QED BY <2>1, <2>2, <3>1, <3>3 DEF AloneCleaned
  <2>3. CASE kind = "linux-exit"
    <3>1. /\ k' \in Owned.exit /\ found' = found
          /\ tool' \in CleanupSteps \ {"reload firewall", "reload pbr"}
          /\ alone => ExitCleaned'
      BY <2>3, ExitCleanupStep DEF CleanupStep
    <3>2. OwnInv'
      BY <2>1, <2>3, <3>1 DEF OwnInv
    <3> QED BY <2>1, <2>3, <3>1, <3>2 DEF AloneCleaned
  <2>4. CASE kind = "nft-exit"
    <3>1. /\ k' \in Owned.nft /\ found' = found
          /\ tool' \in CleanupSteps \ {"reload firewall", "reload pbr"}
          /\ alone => NFTCleaned'
      BY <2>4, NFTCleanupStep DEF CleanupStep
    <3>2. OwnInv'
      BY <2>1, <2>4, <3>1 DEF OwnInv
    <3> QED BY <2>1, <2>4, <3>1, <3>2 DEF AloneCleaned
  <2>5. CASE kind = "wg-route"
    <3>1. /\ k' \in Owned.wg /\ found' = found
          /\ tool' \in CleanupSteps \ {"reload firewall", "reload pbr"}
          /\ alone => WGCleaned'
      BY <2>5, WGCleanupStep DEF CleanupStep
    <3>2. OwnInv'
      BY <2>1, <2>5, <3>1 DEF OwnInv
    <3> QED BY <2>1, <2>5, <3>1, <3>2 DEF AloneCleaned
  <2>6. CASE kind = "openwrt-pbr"
    <3>1. /\ k' \in Owned.uci /\ found' = found
          /\ tool' \in CleanupSteps
          /\ alone => UciCleaned'
      BY <2>6, UciCleanupStep DEF CleanupStep
    <3>2. OwnInv'
      BY <2>1, <2>6, <3>1 DEF OwnInv
    <3> QED BY <2>1, <2>6, <3>1, <3>2 DEF AloneCleaned
  <2> QED BY <2>1, <2>2, <2>3, <2>4, <2>5, <2>6, KindsAssumption DEF OwnInv
<1>3. /\ tool' \in ToolSteps
      /\ tool' \notin {"idle", "stop", "install binary", "install service",
                       "enable service"}
      /\ tool' \in {"remove service", "remove binary"} => uninstall
  BY <1>2 DEF CleanupSteps, AfterCleanup, ToolSteps
<1>4. LifeTypes'
  BY <1>1, <1>2, <1>3 DEF LifeInv, LifeTypes, CleanupFrame
<1>5. installed # "nothing" /\ installed' = installed
  BY <1>1 DEF LifeInv, ToolControl, CleanupFrame
<1>6. ToolControl'
  BY <1>1, <1>2, <1>3, <1>5 DEF ToolControl, CleanupFrame
<1>7. StaysStopped'
  BY <1>1 DEF LifeInv, StaysStopped, CleanupFrame
<1>8. UninstallIsFinal'
  BY <1>5 DEF UninstallIsFinal, Uninstalled
<1>9. alone' => AloneCleaned'
  BY <1>1, <1>2 DEF CleanupFrame
<1> QED BY <1>2, <1>4, <1>6, <1>7, <1>8, <1>9 DEF LifeInv

-----------------------------------------------------------------------------
(* The theorems *)

\* The invariant holds initially.
LEMMA LifeStarts == LifeInit => LifeInv
<1> SUFFICES ASSUME LifeInit PROVE LifeInv
  OBVIOUS
<1>1. OwnInv
  BY InitCalls, CallOwn DEF LifeInit
<1>2. <<platform, kind>> \in Installs
  <2>1. PICK install \in Installs : platform = install[1] /\ kind = install[2]
    BY DEF LifeInit
  <2>2. install = <<install[1], install[2]>>
    BY InstallsAssumption
  <2> QED BY <2>1, <2>2
<1>3. /\ daemon = FALSE /\ managed = TRUE /\ installed = "both"
      /\ stateFile = {} /\ kept \in SUBSET Learnable[kind] /\ step = "idle"
      /\ tool = "idle" /\ uninstall = FALSE /\ listed = {} /\ found = 0
      /\ alone = FALSE
  BY DEF LifeInit, Init
<1>4. LifeTypes
  <2>1. found \in 0..2
    BY <1>3
  <2>2. kept \in SUBSET Nets
    BY <1>1, <1>3, LearnableAssumption DEF OwnInv
  <2> QED BY <1>2, <1>3, <2>1, <2>2 DEF LifeTypes, ToolSteps, Chain
<1> QED
  BY <1>1, <1>3, <1>4
     DEF LifeInv, ToolControl, StaysStopped, UninstallIsFinal, Uninstalled

\* What holds of the tool, the service and the policy always.
THEOREM LifeCorrect == LifeSpec => []LifeInv
<1>1. LifeInv /\ [LifeNext]_lifeVars => LifeInv'
  <2> SUFFICES ASSUME LifeInv, [LifeNext]_lifeVars PROVE LifeInv'
    OBVIOUS
  <2>1. CASE UNCHANGED lifeVars
    <3>1. /\ UNCHANGED vars
          /\ UNCHANGED <<kind, k, desired, step, platform, daemon, managed,
                         installed, stateFile, kept, tool, uninstall, listed,
                         found, alone>>
      BY <2>1 DEF lifeVars, vars, control, files, operator
    <3>2. OwnInv' /\ Undone' = Undone
      BY <3>1, SameDriver DEF LifeInv
    <3>3. LifeTypes' /\ ToolControl' /\ StaysStopped' /\ UninstallIsFinal'
      BY <3>1, <3>2 DEF LifeInv, LifeTypes, ToolControl, StaysStopped,
                        UninstallIsFinal, Uninstalled
    <3>4. AloneCleaned' = AloneCleaned
      BY <3>1 DEF AloneCleaned, EdgeCleaned, ExitCleaned, NFTCleaned, WGCleaned,
                  UciCleaned
    <3> QED BY <3>1, <3>2, <3>3, <3>4 DEF LifeInv
  <2> QED
    BY <2>1, DaemonLifeStep, RestartLifeStep, QuietLifeStep, StopLifeStep, ToolFailsStep,
       DisturbStep, CleanupLifeStep DEF LifeNext, ToolStep
<1> QED BY <1>1, LifeStarts, PTL DEF LifeSpec

\* What the model's state is made of, also while daemon and tool undo each
\* other's commands.
THEOREM LifeTypeCorrect == LifeSpec => []LifeTypeOK
<1>1. LifeInv => LifeTypeOK
  BY OwnTypes DEF LifeInv, LifeTypes, LifeTypeOK
<1> QED BY <1>1, LifeCorrect, PTL

\* A cleanup that reports success, with no daemon beside it, has undone the
\* policy, of wg-route the routes of the networks in the state file, whatever it
\* found and whatever is removed or fails meanwhile.
THEOREM CleanupUndoesHolds == LifeSpec => []CleanupUndoes
<1>1. LifeInv => CleanupUndoes
  BY CleanedUndoes DEF LifeInv, CleanupUndoes, Cleaned
<1> QED BY <1>1, LifeCorrect, PTL

\* After an uninstall that succeeded on systemd the policy is undone and no
\* daemon runs or will be started.
THEOREM UninstallIsFinalHolds == LifeSpec => []UninstallIsFinal
<1>1. LifeInv => UninstallIsFinal
  BY DEF LifeInv
<1> QED BY <1>1, LifeCorrect, PTL

\* A cleanup with no daemon beside it opens nothing on its way: no traffic
\* passes through a chain of linux-exit that does not drop, and linux-edge
\* takes away neither rule nor route while packets are marked.
THEOREM CleanupFailsClosedHolds == LifeSpec => CleanupFailsClosed
<1>1. ASSUME LifeInv, CleanupStep, alone
      PROVE  /\ kind = "linux-exit" /\ FailClosed => FailClosed'
             /\ kind = "linux-edge" /\ Marked(k)' # {} =>
                   k'.route = k.route /\ k'.rules = k.rules
  <2>1. CleanupFrame
    BY <1>1, CleanupFrames
  <2>2. CASE kind = "linux-exit"
    <3>1. k \in Owned.exit /\ ExitCleaned /\ CleanupExit
      BY <1>1, <2>2 DEF LifeInv, OwnInv, AloneCleaned, CleanupStep
    <3>2. ~k'.hook \/ (k'.drops = k.drops /\ k'.hook = k.hook)
      BY <3>1 DEF CleanupExit, DeleteChain, DeleteNAT, Clean, ExitCleaned, Owned
    <3> QED BY <2>1, <2>2, <3>2 DEF FailClosed, CleanupFrame
  <2>3. CASE kind = "linux-edge"
    <3>1. k \in Owned.edge /\ EdgeCleaned /\ CleanupEdge
      BY <1>1, <2>3 DEF LifeInv, OwnInv, AloneCleaned, CleanupStep
    <3>2. \/ ~k'.hook
          \/ k'.route = k.route /\ k'.rules = k.rules
      <4>1. CASE CleanupRules
        <5>1. tool \in {"inspect rule", "delete rules"} /\ k'.hook = k.hook
          BY <3>1, <4>1 DEF CleanupRules, DeleteRules, Owned
        <5> QED BY <3>1, <5>1 DEF EdgeCleaned, Cleaned
      <4>2. CASE ResetEdgePeer
        BY <4>2 DEF ResetEdgePeer, vars
      <4>3. CASE DeleteChain("inspect rule")
        BY <3>1, <4>3 DEF DeleteChain, Clean, Owned
      <4>4. CASE Clean("unhook", "flush", [k EXCEPT !.hook = FALSE])
        BY <3>1, <4>4 DEF Clean, Owned
      <4>5. CASE Clean("delete route", "reset peer", [k EXCEPT !.route = FALSE])
        BY <3>1, <4>5 DEF Clean, Owned, EdgeCleaned, Cleaned
      <4> QED BY <3>1, <4>1, <4>2, <4>3, <4>4, <4>5 DEF CleanupEdge
    <3> QED BY <2>3, <3>2 DEF Marked
  <2> QED BY <2>2, <2>3
<1>2. LifeInv /\ [LifeNext]_lifeVars
        => [CleanupStep /\ alone =>
              /\ kind = "linux-exit" /\ FailClosed => FailClosed'
              /\ kind = "linux-edge" /\ Marked(k)' # {} =>
                    k'.route = k.route /\ k'.rules = k.rules]_lifeVars
  BY <1>1
<1> QED BY <1>2, LifeCorrect, PTL DEF LifeSpec, CleanupFailsClosed
=============================================================================
