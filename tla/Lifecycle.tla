----------------------------- MODULE Lifecycle -----------------------------
(* cleanup and uninstall of src/internal/pbr/operations.go and install of   *)
(* install.go, command by command over the state that Drivers gives each    *)
(* driver, beside the daemon and whatever starts and stops it: systemd,     *)
(* procd, or on Entware the watchdog script of src/packaging.               *)
(*                                                                          *)
(* The host has one driver.  A probe is merged with the command that relies *)
(* on it when nothing lies between, and answers right.  Any command of the  *)
(* operator's tool may fail, which ends it with an error; the operator may  *)
(* start it again, or not.  SIGTERM lets the daemon finish its sync but not *)
(* a learn: it may end between any two commands or writes.  A write that    *)
(* fails in a process that goes on is Runtime's.  purge only removes files  *)
(* that nothing reads any more and is left out, as is a reboot.             *)
EXTENDS Drivers

CONSTANTS
    Installs,   \* pairs of a platform and the driver used on it
    Offered,    \* the networks that each driver may be asked to route
    Learnable   \* those of them that may be seeds or learned

ASSUME InstallsAssumption ==
    Installs \subseteq {"systemd", "openwrt", "entware"} \X Kinds
ASSUME OfferedAssumption == Offered \in [Kinds -> SUBSET Nets]
ASSUME LearnableAssumption ==
    Learnable \in [Kinds -> SUBSET Nets] /\ \A d \in Kinds : Learnable[d] \subseteq Offered[d]

VARIABLES
    platform,
    daemon,      \* whether its process runs
    managed,     \* whether the service manager starts it again
    installed,   \* what is left of it: service and binary, only that, nothing
    stateFile,   \* the state file: none and empty are {}, a blank line is None
    kept,        \* the seeds and what the file of learned hosts holds
    tool,        \* the next command of cleanup, uninstall or install
    uninstall,   \* whether it is uninstall
    listed,      \* what wg-route's cleanup has read from the state file
    found,       \* the rules that it has counted
    alone        \* history: no daemon has run since the tool began to clean up

control == <<daemon, managed, installed>>
files == <<stateFile, kept>>
operator == <<tool, uninstall, listed, found>>
lifeVars == <<vars, platform, control, files, operator, alone>>

ToolSteps == {"idle", "done", "stop", "unhook", "unhook nat", "flush",
              "delete chain", "flush nat", "delete nat", "inspect rule",
              "delete rules", "delete route", "delete table", "reset peer",
              "delete routes", "drop pbr list", "drop firewall list",
              "commit pbr", "commit firewall", "reload firewall",
              "reload pbr", "remove service", "remove binary",
              "install binary", "install service", "enable service"}

LifeTypeOK ==
    /\ TypeOK
    /\ <<platform, kind>> \in Installs
    /\ daemon \in BOOLEAN /\ managed \in BOOLEAN
    /\ installed \in {"both", "binary", "nothing"}
    /\ tool \in ToolSteps
    /\ uninstall \in BOOLEAN /\ alone \in BOOLEAN
    /\ stateFile \in Chain /\ kept \in SUBSET Nets
    /\ listed \in Chain
    /\ found \in 0..2
    /\ ~daemon => step = "idle"

-----------------------------------------------------------------------------
(* The daemon and what keeps it running *)

\* What the driver does while the daemon runs is Drivers.
DriverWorks ==
    /\ daemon
    /\ DriverStep \/ Start \/ Success \/ CommandFails
    /\ UNCHANGED <<platform, control, files, operator, alone>>

\* More is learned.
LearnsFrom(nets) == kept' \in {kept \cup S : S \in SUBSET (nets \cap Learnable[kind])}

\* A sync or a learn saves the new set, which holds the seeds and all learned
\* hosts: the empty one as a blank line.  A host that is wanted already is
\* only learned.
Save ==
    /\ daemon
    /\ \/ /\ Want
          /\ kept \subseteq desired' /\ desired' \subseteq Offered[kind]
          /\ stateFile' = IF desired' = {} THEN None ELSE desired'
          /\ \/ kept' = kept
             \/ desired \subseteq desired' /\ LearnsFrom(desired' \ desired)
       \/ /\ step = "idle"
          /\ LearnsFrom(desired) /\ kept' # kept
          /\ UNCHANGED <<vars, stateFile>>
    /\ UNCHANGED <<platform, control, operator, alone>>

\* The process ends, between two commands of a driver or at rest.  It may have
\* saved as learned what it has not yet saved as wanted.
ProcessEnds ==
    /\ daemon' = FALSE
    /\ step' = "idle"
    /\ desired' = {}
    /\ applied' = None
    /\ left' = 0
    /\ disturbed' = FALSE
    /\ kept' = kept \/ (daemon /\ step = "idle" /\ LearnsFrom(Nets))
    /\ UNCHANGED <<kind, k, stateFile>>

Dies ==
    /\ "crash" \in Faults[kind]
    /\ daemon
    /\ ProcessEnds
    /\ UNCHANGED <<platform, managed, installed, operator, alone>>

\* procd has sent SIGTERM to a daemon that it was told to stop.
Terminates ==
    /\ platform = "openwrt" /\ ~managed
    /\ daemon
    /\ ProcessEnds
    /\ UNCHANGED <<platform, managed, installed, operator, alone>>

\* systemd and procd restart what has died; every minute the watchdog runs
\* the start script, as long as there is one.
Supervised ==
    IF platform = "entware" THEN installed = "both"
    ELSE managed /\ installed # "nothing"

\* newRuntime refuses a blank line.  It wants what both files and the
\* configuration hold, and saves nothing.
Restart ==
    /\ ~daemon /\ Supervised
    /\ stateFile # None
    /\ daemon' = TRUE
    /\ desired' = stateFile \cup kept
    /\ alone' = FALSE
    /\ UNCHANGED <<kind, k, applied, step, left, disturbed, platform, managed,
                   installed, files, operator>>

\* The watchdog kills a daemon whose table has no default route; its start
\* script then runs as after any other death.
WatchdogKills ==
    /\ platform = "entware" /\ kind = "linux-edge"
    /\ daemon /\ ~k.route
    /\ ProcessEnds
    /\ UNCHANGED <<platform, managed, installed, operator, alone>>

Disturb == Drift /\ UNCHANGED <<platform, control, files, operator, alone>>

-----------------------------------------------------------------------------
(* The tool *)

FirstCleanup ==
    CASE kind = "linux-edge" -> "unhook"
      [] kind = "linux-exit" -> "unhook"
      [] kind = "nft-exit" -> "delete table"
      [] kind = "wg-route" -> "reset peer"
      [] kind = "openwrt-pbr" -> "drop pbr list"

AfterCleanup == IF uninstall THEN "remove service" ELSE "done"

\* At rest the tool knows nothing.
ToolRests ==
    /\ tool' = "idle"
    /\ uninstall' = FALSE
    /\ listed' = {}
    /\ found' = 0
    /\ alone' = FALSE

\* The state file lacks seeds and learned hosts that were never saved in it.
CleanupBegins ==
    /\ tool' = FirstCleanup
    /\ listed' = IF kind = "wg-route" THEN stateFile ELSE {}

Cleanup ==
    /\ tool = "idle" /\ installed # "nothing"
    /\ uninstall' = FALSE
    /\ alone' = ~daemon
    /\ CleanupBegins
    /\ UNCHANGED <<vars, platform, control, files, found>>

Uninstall ==
    /\ tool = "idle" /\ installed # "nothing"
    /\ uninstall' = TRUE
    /\ tool' = "stop"
    /\ UNCHANGED <<vars, platform, control, files, listed, found, alone>>

Install ==
    /\ tool = "idle"
    /\ tool' = "install binary"
    /\ UNCHANGED <<vars, platform, control, files, uninstall, listed, found, alone>>

\* installFile and writeService put a new file in place by a rename, at first
\* or instead of an old one.
InstallFiles ==
    /\ \/ /\ tool = "install binary"
          /\ tool' = "install service"
          /\ installed' = IF installed = "nothing" THEN "binary" ELSE installed
       \/ /\ tool = "install service"
          /\ tool' = "enable service"
          /\ installed' = "both"
    /\ UNCHANGED <<vars, platform, daemon, managed, files, uninstall,
                   listed, found, alone>>

\* systemd starts a service that does not run (Restart); the others stop it
\* first, procd without waiting for its end.
EnableService ==
    /\ tool = "enable service"
    /\ tool' = "done"
    /\ managed' = TRUE
    /\ \/ platform # "systemd" /\ ProcessEnds
       \/ platform # "entware" /\ UNCHANGED <<vars, daemon, files>>
    /\ UNCHANGED <<platform, installed, uninstall, listed, found, alone>>

\* What the service manager does: on OpenWrt the process goes on (Terminates),
\* on Entware nobody is told.
Stops ==
    /\ managed' = (platform = "entware")
    /\ IF platform = "openwrt" THEN UNCHANGED <<vars, daemon, files>>
       ELSE ProcessEnds

\* Mutation: the service is stopped and not disabled.
StopServiceEnabled ==
    /\ tool = "stop"
    /\ IF platform = "entware" THEN daemon ELSE installed = "both"
    /\ ProcessEnds
    /\ alone' = ~daemon'
    /\ CleanupBegins
    /\ UNCHANGED <<platform, managed, installed, uninstall, found>>

\* stopService.  On Entware it needs a running process to send SIGTERM to,
\* the one whose PID the status file holds; elsewhere the service's file.
StopService ==
    /\ tool = "stop"
    /\ IF platform = "entware" THEN daemon ELSE installed = "both"
    /\ Stops
    /\ alone' = ~daemon'
    /\ CleanupBegins
    /\ UNCHANGED <<platform, installed, uninstall, found>>

\* One command of Cleanup, as Command of Drivers is one of a driver.
Clean(label, next, new) ==
    /\ tool = label
    /\ k' = new
    /\ tool' = next
    /\ UNCHANGED <<kind, desired, applied, step, left, disturbed, platform,
                   control, files, uninstall, listed, found, alone>>

\* -F and -X, of a chain that is there.  -X fails on one that is in use or has
\* been filled again.
DeleteChain(next) ==
    \/ /\ k.chain = None
       /\ Clean("flush", next, k)
    \/ /\ k.chain # None
       /\ Clean("flush", "delete chain",
                IF kind = "linux-exit" THEN [k EXCEPT !.chain = {}, !.drops = FALSE]
                ELSE [k EXCEPT !.chain = {}])
    \/ /\ k.chain = {} /\ ~k.hook /\ (kind = "linux-exit" => ~k.drops)
       /\ Clean("delete chain", next, [k EXCEPT !.chain = None])

DeleteNAT(next) ==
    \/ /\ k.nat = None
       /\ Clean("flush nat", next, k)
    \/ /\ k.nat # None
       /\ Clean("flush nat", "delete nat", [k EXCEPT !.nat = {}])
    \/ /\ k.nat = {} /\ ~k.natHook
       /\ Clean("delete nat", next, [k EXCEPT !.nat = None])

\* deleteOwnedIPRule deletes as many rules as it has counted.
DeleteRules ==
    \/ /\ tool = "inspect rule"
       /\ found' = k.rules
       /\ tool' = "delete rules"
       /\ UNCHANGED k
    \/ /\ tool = "delete rules" /\ found > 0 /\ k.rules > 0
       /\ k' = [k EXCEPT !.rules = @ - 1]
       /\ found' = found - 1
       /\ UNCHANGED tool
    \/ /\ tool = "delete rules" /\ found = 0
       /\ tool' = "delete route"
       /\ UNCHANGED <<k, found>>

CleanupRules ==
    /\ DeleteRules
    /\ UNCHANGED <<kind, desired, applied, step, left, disturbed, platform,
                   control, files, uninstall, listed, alone>>

\* The allowed-ips of linux-edge's peer: no driver looks at them.
ResetEdgePeer ==
    /\ tool = "reset peer" /\ kind = "linux-edge"
    /\ tool' = AfterCleanup
    /\ UNCHANGED <<vars, platform, control, files, uninstall, listed, found, alone>>

\* Mutation: rule and route go before the hook.
CleanupEdgeRouteFirst ==
    \/ Clean("unhook", "flush", [k EXCEPT !.rules = 0, !.route = FALSE])
    \/ DeleteChain("delete route")
    \/ Clean("delete route", "reset peer", [k EXCEPT !.hook = FALSE])
    \/ ResetEdgePeer

CleanupEdge ==
    \/ Clean("unhook", "flush", [k EXCEPT !.hook = FALSE])
    \/ DeleteChain("inspect rule")
    \/ CleanupRules
    \/ Clean("delete route", "reset peer", [k EXCEPT !.route = FALSE])
    \/ ResetEdgePeer

\* Mutation: a hook that is not there is deleted nevertheless, which fails.
CleanupExitUnprobed ==
    \/ k.hook /\ Clean("unhook", "unhook nat", [k EXCEPT !.hook = FALSE])
    \/ Clean("unhook nat", "flush", [k EXCEPT !.natHook = FALSE])
    \/ DeleteChain("flush nat")
    \/ DeleteNAT(AfterCleanup)

CleanupExit ==
    \/ Clean("unhook", "unhook nat", [k EXCEPT !.hook = FALSE])
    \/ Clean("unhook nat", "flush", [k EXCEPT !.natHook = FALSE])
    \/ DeleteChain("flush nat")
    \/ DeleteNAT(AfterCleanup)

CleanupNFT == Clean("delete table", AfterCleanup, [k EXCEPT !.table = None])

\* The routes of the networks in the state file, one after the other.  Of a
\* blank line "ip route show" makes an error.
CleanupWG ==
    \/ Clean("reset peer", "delete routes", [k EXCEPT !.allowed = {}])
    \/ \E n \in Content(listed) \cap k.routes :
           Clean("delete routes", "delete routes", [k EXCEPT !.routes = @ \ {n}])
    \/ /\ listed # None /\ listed \cap k.routes = {}
       /\ Clean("delete routes", AfterCleanup, k)

\* Mutation: what is staged is not committed.
CleanupOpenWrtUncommitted ==
    \/ Clean("drop pbr list", "drop firewall list", [k EXCEPT !.staged.pbr = {}])
    \/ Clean("drop firewall list", "reload firewall", [k EXCEPT !.staged.firewall = {}])
    \/ Clean("reload firewall", "reload pbr", Loaded("firewall"))
    \/ Clean("reload pbr", AfterCleanup, Loaded("pbr"))

CleanupOpenWrt ==
    \/ Clean("drop pbr list", "drop firewall list", [k EXCEPT !.staged.pbr = {}])
    \/ Clean("drop firewall list", "commit pbr", [k EXCEPT !.staged.firewall = {}])
    \/ Clean("commit pbr", "commit firewall", [k EXCEPT !.saved.pbr = k.staged.pbr])
    \/ Clean("commit firewall", "reload firewall",
             [k EXCEPT !.saved.firewall = k.staged.firewall])
    \/ Clean("reload firewall", "reload pbr", Loaded("firewall"))
    \/ Clean("reload pbr", AfterCleanup, Loaded("pbr"))

CleanupStep ==
    \/ kind = "linux-edge" /\ CleanupEdge
    \/ kind = "linux-exit" /\ CleanupExit
    \/ kind = "nft-exit" /\ CleanupNFT
    \/ kind = "wg-route" /\ CleanupWG
    \/ kind = "openwrt-pbr" /\ CleanupOpenWrt

\* Uninstall removes the service file, then the binary.
RemoveFiles ==
    /\ \/ /\ tool = "remove service"
          /\ tool' = "remove binary" /\ installed' = "binary"
       \/ /\ tool = "remove binary"
          /\ tool' = "done" /\ installed' = "nothing"
    /\ UNCHANGED <<vars, platform, daemon, managed, files, uninstall,
                   listed, found, alone>>

\* What a command that fails may have done.  A failed stop or restart may have
\* stopped the daemon (the one on Entware waits 5 seconds and no longer).
ToolLeaves ==
    CASE tool = "reload firewall" -> {k, Stopped("firewall")}
      [] tool = "reload pbr" -> {k, Stopped("pbr")}
      [] OTHER -> {k}

ToolFails ==
    /\ tool \notin {"idle", "done"}
    /\ ToolRests
    /\ \/ /\ k' \in ToolLeaves
          /\ UNCHANGED <<kind, desired, applied, step, left, disturbed, control,
                         files>>
       \/ /\ daemon
          /\ tool = "stop" \/ (tool = "enable service" /\ platform # "systemd")
          /\ Stops
          /\ UNCHANGED installed
    /\ UNCHANGED platform

\* The tool has printed that the state, or the installation, is removed, or
\* that the daemon is installed.
Finish ==
    /\ tool = "done"
    /\ ToolRests
    /\ UNCHANGED <<vars, platform, control, files>>

ToolStep ==
    StopService \/ CleanupStep \/ RemoveFiles \/ InstallFiles \/ EnableService

-----------------------------------------------------------------------------
LifeInit ==
    /\ Init
    /\ stateFile = {}
    /\ kept \in SUBSET Learnable[kind]
    /\ \E install \in Installs : platform = install[1] /\ kind = install[2]
    /\ daemon = FALSE
    /\ managed = TRUE
    /\ installed = "both"
    /\ tool = "idle"
    /\ uninstall = FALSE
    /\ listed = {}
    /\ found = 0
    /\ alone = FALSE

LifeNext ==
    \/ DriverWorks \/ Save \/ Dies \/ Terminates \/ Restart
    \/ WatchdogKills \/ Disturb
    \/ Cleanup \/ Uninstall \/ Install \/ ToolStep \/ ToolFails \/ Finish

LifeSpec == LifeInit /\ [][LifeNext]_lifeVars

(* Fairness: the supervisor restarts (WF), the daemon's ticker calls and its *)
(* calls go on (WF).  On Entware it starts its first call and ends its first *)
(* command, which takes it a few seconds, before the watchdog comes round    *)
(* again (SF, each).  The tool ends (WF).                                    *)
LifeFairSpec ==
    /\ LifeSpec
    /\ WF_lifeVars(Restart)
    /\ WF_lifeVars(DriverWorks)
    /\ SF_lifeVars(platform = "entware" /\ step = "idle" /\ DriverWorks)
    /\ SF_lifeVars(platform = "entware" /\ step = "route" /\ DriverWorks /\ step' # "idle")
    /\ WF_lifeVars(ToolStep \/ ToolFails \/ Finish)

-----------------------------------------------------------------------------
(* Safety *)

\* Of what the driver owns nothing is there.  With wg-route its peer is
\* allowed nothing, and the networks in the state file have no routes; routes
\* of other networks may remain, of seeds and learned hosts that a start has
\* installed and not saved and of networks dropped since.
Undone ==
    CASE kind = "linux-edge" ->
            ~k.hook /\ k.chain = None /\ k.rules = 0 /\ ~k.route
      [] kind = "linux-exit" ->
            ~k.hook /\ ~k.natHook /\ k.chain = None /\ k.nat = None
      [] kind = "nft-exit" -> k.table = None
      [] kind = "wg-route" ->
            k.allowed = {} /\ k.routes \cap Content(stateFile) = {}
      [] kind = "openwrt-pbr" -> k.staged = Off /\ k.saved = Off /\ k.live = Off

\* A cleanup that reports success, with no daemon beside it, has undone what
\* it is responsible for, whatever it found: policy half installed, half
\* removed by others, or left over by cleanups that failed.
CleanupUndoes == tool = "done" /\ alone => Undone

\* On its way there it opens nothing: at every command linux-exit lets no
\* traffic pass through a chain that does not drop, and linux-edge takes
\* neither rule nor route away from packets that are still marked.
CleanupFailsClosed ==
    [][CleanupStep /\ alone =>
          /\ kind = "linux-exit" /\ FailClosed => FailClosed'
          /\ kind = "linux-edge" /\ Marked(k)' # {} =>
                k'.route = k.route /\ k'.rules = k.rules]_lifeVars

\* After an uninstall that succeeded the policy is undone and nothing comes
\* back, where the service manager waits for the daemon's end: procd does not,
\* and the watchdog starts it again.
Uninstalled == installed = "nothing" => ~daemon /\ Undone
UninstallIsFinal == platform = "systemd" => Uninstalled

-----------------------------------------------------------------------------
(* Liveness *)

\* An uninstall that failed at any command, short of one that has removed the
\* service's file already, can be repeated until it succeeds: once only those
\* commands fail that cannot succeed, none does.  Of a state file that holds a
\* blank line the cleanup of wg-route can make nothing.
UninstallRepeatable ==
    /\ platform # "entware"
    /\ <>[](kind = "wg-route" => stateFile # None)
    /\ []<>(tool = "stop" /\ installed = "both")
    /\ <>[][~Disturb /\ (ToolFails => ~ENABLED ToolStep)]_lifeVars
    => <>(installed = "nothing")

\* Cleanups beside a running daemon, cut short or not, and the watchdog do no
\* lasting harm: once nobody cleans up, and nothing else disturbs or fails,
\* the daemon stays up and the wanted policy is installed for good, what was
\* learned before included.  Of a blank state file no daemon can start.  The
\* watchdog goes on killing, which no other death does.
Undisturbed ==
    /\ <>[][/\ UNCHANGED files
            /\ ~(Disturb \/ CommandFails \/ Dies) \/ WatchdogKills]_lifeVars
    /\ <>[](tool = "idle" /\ Supervised /\ stateFile # None)
CleanupIsRepaired ==
    Undisturbed => <>[](daemon /\ kept \subseteq desired /\ desired \subseteq Covered(k))
=============================================================================
