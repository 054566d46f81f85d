# netflix-pbrd in TLA+

`netflix-pbrd` is a DNS proxy that learns the addresses in the answers it
relays, routes them through a tunnel before it hands the answer out, and keeps
the policy of an exit router in step. This directory holds a model of it: TLA+
modules translated from the Go source, TLC configurations that check them on
small instances, and TLAPS proofs of the results that hold for every instance.

```
tlc -workers 2 -config agent.cfg MCStatus.tla      # one run
tlapm RuntimeProofs.tla                            # one module's proofs
```

## 1. The system

### Parts, state, operations

| part | source | state | operations |
|---|---|---|---|
| runtime daemon | `internal/pbr/runtime.go` | `desired`, `learned`, `applied`, `appliedKnown`, `appliedAt`, `lastReported` in memory; `state_file` and `state_file.learned` on disk; `syncMu`, `mu`, `statusMu` | `newRuntime`, `Run`, `sync`, `learn`, `acceptReport`, `reconcile(Locked)`, `fetch`, `report` |
| controller API | `runtime.go` (`handler`, `serve`) | none of its own; one goroutine per request | GET and POST of `/v1/networks` |
| networks and state files | `networks.go` | the files | `CanonicalNetwork`, `Merge`, `ValidateNetworks`, `LoadState`, `SaveState`, `Equal` |
| DNS proxy and learner | `dns_proxy.go` | the alias table | `ServeDNS`, `exchange`, `inspect`, `startDNSProxy` |
| apply drivers | `drivers.go` | routes, ip rules, iptables, nftables, UCI | `applyNetworks`, `reapplyNetworks`, one function per driver |
| status, doctor, smoke test | `status.go`, `operations.go`, `recordStatus` | `state_file.runtime.json` | write after every operation; read by the commands |
| cleanup, uninstall | `operations.go` | the kernel state above, files | undo each driver, stop the service, remove files |
| configuration | `config.go` | none | `LoadConfig`, `PollInterval`, `ReapplyEvery` |
| installation, generation, command line, runner | `install.go`, `generate.go`, `main.go`, `runner.go` | files written once | copy, enable, print |
| supervision | `packaging/` | pid file | restart units, the Entware watchdog |

### How they interact

A client's DNS query reaches `ServeDNS`, which asks upstream, extracts the
trusted hosts with `inspect` and calls `learn`. `learn` saves the hosts, runs
the drivers and, on an agent, POSTs all learned hosts to the controller; only
if every step succeeds is the answer written, otherwise the client gets
SERVFAIL. The controller's handler checks the report, calls `acceptReport`,
which saves and applies in turn, and answers 204 or 500. A ticker runs `sync`:
an agent GETs the controller's set and replaces its own by that set, its
learned hosts and its seeds; then, and on a controller at once,
`reconcileLocked` runs the drivers if the set changed or `reapply_interval` has
passed, and reports what has not been reported.

`syncMu` is held for the whole of `sync`, `learn`, `acceptReport` and
`reconcile`, HTTP calls of 15 seconds and driver commands included. `mu` guards
single reads and writes; GET and the first check of POST use it alone.

`reconcileLocked` records the numbers of the four sets in the status file when it
succeeds, and every operation but `acceptReport` records its error after it has
freed `syncMu`. `doctor`, `status` and `smoke-test`, separate processes, read it.
`cleanup` and `uninstall` are separate processes too: they read the state file and
run commands on the same kernel and UCI state as the daemon, with nothing between
them and the daemon but the service manager.

### What is hard, and what makes each part correct

* Concurrency: operations of one node exclude each other, operations of two
  nodes wait for each other's handlers, and handlers read outside the mutex.
  Correct: a promise made under one node's mutex survives everything the other
  nodes do; nobody waits for ever.
* Crashes: every effect (a renamed file, a driver, an answer) is separated from
  the next by a point where the process can die. Correct: memory is never ahead
  of the files, nothing answered is lost, a start never fails on the files.
* Partial failure: one of two files, one of several drivers, the answer of a
  request that was carried out. Correct: it is retried until it succeeds and
  nothing depends on it before.
* Time: a client that gives up while the server goes on, the periodic reapply.
* Bounds: `max_networks` on each list and on each union of lists.
* Drivers: installing is a sequence of commands. Correct: after success the
  policy is the wanted one, after failure a later call repairs it.
* Cleanup and uninstall: sequences of commands that may fail and be repeated, also
  beside a daemon. Correct: they undo just what the drivers do, open nothing on the
  way, and what they report as removed is removed (of `wg-route`'s routes not all:
  section 5); beside a daemon they do no lasting harm.
* Learner: queries run at the same time and share the aliases. Correct: a host is
  learned only from a trusted name or a chain of aliases from one, and each such
  host is learned before it is answered, whatever the order of the records.
* Status and doctor: what they call complete is complete.
* Networks: `CanonicalNetwork` is idempotent, public and no wider than /24.

## 2. The modules

| module | role |
|---|---|
| `Runtime` | the daemon on each node: all operations of `runtime.go`, the state files, drivers by contract |
| `PbrSystem` | EXTENDS `Runtime`: agents and controllers composed through the API |
| `Promise` | what the system promises a client; `PbrSystem` is shown to implement it |
| `RuntimeProofs`, `ApplyProofs` | theorems of `Runtime`: what is saved and what is installed |
| `PbrSystemProofs` | theorems of `PbrSystem`: it implements `Runtime` and `Promise` |
| `Drivers` | the five apply drivers, command by command: the contract that `Runtime` assumes |
| `DriversProofs` | theorems of `Drivers` |
| `Status` | EXTENDS `Runtime`: the status file and what doctor concludes from it |
| `StatusProofs` | theorems of `Status` |
| `Lifecycle` | EXTENDS `Drivers`: cleanup, uninstall, install and the service managers beside the daemon |
| `LifecycleProofs` | theorems of `Lifecycle` |
| `Networks` | which networks are accepted and how they are written, over all addresses and prefixes |
| `NetworksProofs` | theorems of `Networks` |
| `DNSLearner` | EXTENDS `Networks`: `ServeDNS` and `inspect` with concurrent queries |
| `DNSLearnerProofs` | theorems of `DNSLearner` |
| `MCRuntime`, `MCStatus`, `MCSystem`, `MCDrivers`, `MCLifecycle`, `MCDNSLearner` | instances for TLC |

### Runtime

Every variable is a function of the node.

| variable | code |
|---|---|
| `desired`, `learned`, `applied`, `appliedKnown`, `lastReported` | the fields of `Runtime` of the same names, as sets |
| `due` | `time.Since(appliedAt) >= reapplyEvery` |
| `stateFile`, `learnedFile` | the lines of the two files; `Blank` is an empty line |
| `kernel[n][d]` | the destinations that the policy of driver `d` covers |
| `pc`, `op`, `arg`, `drv`, `ok` | the operation that holds `syncMu`: its point, its name, its networks, the driver it has come to, whether no error was met |
| `answered` | history: hosts in the answers given to clients |

A node is `idle` while `syncMu` is free. Each other value of `pc` is a point in
the operation that holds it, so the mutex needs no variable of its own.

| action | code |
|---|---|
| `Boot` | `newRuntime` and `Run` as far as `reconcile`; disabled when `newRuntime` would fail (`Bootable`) |
| `Tick`, `FetchOk`, `FetchFail` | `sync` up to and including the merge |
| `Learn`, `Accept` | `learn`, `acceptReport` up to the first write |
| `SaveLearned`, `SaveState`, `SaveFails` | `SaveState` of either file and the assignments to memory that follow |
| `Reconcile`, `Install`, `InstallFails`, `Applied` | `reconcileLocked`: the test, one driver, the end of the loop |
| `ReportOk`, `ReportFail` | `report` and what depends on it |
| `Return` | the deferred unlock; after `learn`, `ServeDNS` writes the answer or SERVFAIL |
| `TimePasses`, `Crash`, `Drift` | the clock; the process; other software that removes policy |

Faults are a constant: which nodes may suffer failed writes (`disk`), failed
drivers (`driver`), loss of policy (`drift`), stops (`crash`). Fetches and
reports may always fail.

Abstractions, with the reason each is sound for the properties:

* A network is a model value. `Merge` and `ValidateNetworks` make every list a
  sorted list without repetition, so sets and `=` stand for lists and `Equal`;
  `CanonicalNetwork` leaves what it has written alone (`CanonicalIdempotent`).
* An assignment to memory is part of the step before it. Memory is lost in a
  crash, and the only reader outside `syncMu`, the API handler, could have run
  immediately before that step.
* A driver is its contract. On success its policy covers the wanted set
  exactly, or, for a `wg-route` with `0.0.0.0/0` in `base_allowed`, at least
  (routes are added and never removed). On failure it still covers what the old
  set and the wanted one share. `Drivers` checks this of the commands and names
  three exceptions, which the contract leaves out: an ip rule that occurs twice and
  the NAT rule of an older version, both gone after the first call, and a failed
  reload on OpenWrt, which may have stopped the service.
* The periodic pass runs the drivers as usual. `reconcileOpenWrt`, which first
  compares and may do nothing, is in `Drivers`; `openwrt_reload` shows where that
  breaks the contract.
* The status file is only written by the daemon and is added by `Status`.
* A written file stays written: there is no power loss.

### PbrSystem

Two variables more: `gets`, the GET responses on their way, and `posts`, the
POST requests with their progress (`sent`, `checked`, `accepting`, `accepted`,
`refused`) and whether the agent still waits (`live`). `ReceiveGet` and `LoseGet` are
`FetchOk` and `FetchFail` with the network attached, `AcceptPost` is `Accept`,
`SysReturn` is `Return` with the handler's answer, `PostAccepted` and `PostFailed`
are `ReportOk` and `ReportFail`. A request that times out becomes an orphan that
the controller may still carry out, since `acceptReport` does not look at the
request's context; one whose connection a crash broke is refused. Requests
that agree in everything are one: an orphan equal to another can only repeat
its effect. Tokens and encodings are taken as right.

`Promise` has two variables, what each node routes and what each node has given
out, and two actions: a node's policy changes but keeps what is owed to the
clients of that node and of the nodes behind it, and a node gives out hosts that
it and its exit route. `KeepsPromise` is the refinement, with `routed` mapped to
the networks that all drivers of a node cover and `given` to `answered`.

### Drivers

One driver, called again and again by `reconcileLocked`. `kind` says which; `k` is
the part of the kernel's or UCI's state that it owns, a record of its own for
each kind:

| kind | `k` |
|---|---|
| `linux-edge` | the default route in its table, how many copies of the ip rule, the mangle chain's networks, whether PREROUTING jumps to it |
| `linux-exit` | the filter chain's networks and whether it ends in DROP, its hook; the NAT chain and its hook; the NAT rule of an older version |
| `nft-exit` | the table's set |
| `wg-route` | whether `base_allowed` has `0.0.0.0/0`, the peer's other allowed-ips, the routes |
| `openwrt-pbr` | the two lists as staged, as committed and as loaded, and whether each service runs |

`step` is the next command of the call in progress, `idle` or `done`; `left` is
what a probe has counted or found and a later command relies on. Each disjunct of
`ApplyEdge`, `ApplyExit`, `ApplyNFT`, `ApplyWG`, `ApplyOpenWrt` and
`ReconcileOpenWrt` is one command with the probe just before it. `Covered(k)` says
which networks the policy routes, or lets out, as a whole: an edge needs route,
rule, hook and chain; `openwrt-pbr` what both services have loaded.
Between any two commands the daemon may stop (`Crash`), others may remove policy
(`Drift`) or the command may fail (`CommandFails`), for `ip -force -batch` with part of
the effect, for a reload with the service stopped or as it was. `add_list` adds one
network at a time. `Removed` is what others leave where the driver can see it;
`Flushed`, the fault "flush", are rules of `openwrt-pbr` that are gone while the lists
are right and the service says that it runs. `Want` is what may change between two
calls.

Probes answer right, and a rule of somebody else at the same priority or a missing
`iptables-restore` is a command that fails. `iptables-restore` commits the
filter table and then the NAT table, each at once; `nft -f` commits at once. What
others add (a second hook, a foreign rule in a chain) is left out.

### Status

`shown` is the file: how many hosts are learned, applied and reported, and whether
anything was applied. `owed` holds the failed operations whose deferred
`recordStatus` has not run yet; it runs after the operation has freed `syncMu`, so
the next operation may have begun. `Record` takes its numbers from the memory after
the step it belongs to: `recordStatus` reads them under `mu` and writes under
`statusMu`, which orders all writers. `ReconcileRecorded`, `ReturnRecorded` and the
others are the steps of `Runtime` with what they record; `Silent` is the rest.
`SmokePasses` and `DoctorPasses` are the comparisons that `smoke-test` and `doctor` make
of numbers; `DoctorSound` says when that is enough, `StatusCurrent` when the numbers are those of the moment.

### Lifecycle

The host has one driver and one of the three platforms. `daemon`, `managed`,
`installed` say whether the process runs, whether its service manager starts it again,
and which files are there. `stateFile` is the state file, with a blank line told from
none; `kept` are the networks that a start merges into it (`runtime.go:74`), the seeds and
the file of learned hosts. `Save` changes both, between two calls of the driver: a failed
write in a process that goes on is `Runtime`'s matter, but a process that ends may have
written the second file and not the first (`ProcessEnds`). `Restart` wants both together,
installs them and saves nothing, and refuses a blank line. `tool` is the next command of `cleanup`, `uninstall` or
`install`, which the operator may start at any time; `listed` and `found` are what it
has read (of the state file, where `wg-route` needs it) and counted. Each disjunct of `CleanupEdge`, `CleanupExit`, `CleanupNFT`,
`CleanupWG` and `CleanupOpenWrt` is one command with the probe before it, between any
two of which the daemon's commands (`Drivers`), its death, a restart and the watchdog
may come. Any command may fail (`ToolFails`), which ends the tool; a command that
cannot succeed, such as `-X` on a chain in use, can only fail. `alone` is history: no
daemon has run since the tool began to clean up.

SIGTERM cancels the context of `Run`, which waits for the current sync, but `main`
does not wait for a `learn`: the process may end between any two commands. systemd
waits for that end, as `stopService` itself does on Entware; procd does not
(`Terminates`), so that on OpenWrt the daemon works on beside the cleanup. There is one
daemon at a time: a restart by `install` is taken to wait for the old one. systemd and procd start what has died and what is enabled; on Entware cron runs the watchdog,
which starts the daemon if there is a start script and kills one that runs without
the default route (`WatchdogKills`).

Left out: the allowed-ips of `linux-edge`'s peer, which cleanup resets and nothing else
looks at; `purge`, backups and `daemon-reload`, which no other step depends on; a
reboot; procd's limit of five respawns; several entries under `apply`, which cleanup
undoes one after the other.

### Networks

`Value` is every address, with or without a prefix length, as bytes: nothing is
scaled down. `CanonicalNetwork` gives the network, `Accepted` whether it is one;
`Merge` and `ValidateNetworks` are set operations over them, since sorting and
removal of duplicates make the lists sets. Go's parsers are taken as right.

### DNSLearner

Each member of `Queries` is a goroutine of the DNS server: `idle`, waiting for
upstream (`exchange`), in `learn`, or about to write its `answer`. `Inspect` is one
step because `inspect` holds its mutex throughout; a response is taken to repeat the
question, which is where `inspect` reads the name (`dns_proxy.go:193`); `Pass` is one iteration of its loop
over the records, `Trusted` the repetition until nothing changes. `learn` is the
interface to `Runtime`: `Learned` when it returns without an error, `LearnFails`
otherwise. `Reach`, a least set, is the reference that the passes are checked against.
A query carries as history which networks and names its client can take for
Netflix's: it asked for a Netflix name, or for a name it was given since the start.
Names are constants, `Netflix` those for which `isNetflixName` holds; records that are
neither A nor CNAME pass unseen, as in the code.

## 3. The runs

| run | instance | shows |
|---|---|---|
| `agent` | 1 agent, 2 hosts and a seed, limit 3, an exact and an additive driver, failed writes, crashes | `CrashForgetsNothing`, `AnswersKept`, `ReportedIsDurable`, `AnswerAcknowledged`, `DoctorSound` |
| `controller` | 1 controller, 3 hosts and a seed, limit 3, two drivers, failed drivers, crashes | the same for a controller where it applies, `Restartable`, `FailedApplyRetried`, `StateFilesMonotonic`; `StatusCurrent` |
| `agent_liveness` | 1 agent with its status file, 1 host and 1 other network, 1 driver, lost policy, crashes | `LearnedIsReported`, `LearnedStaysInstalled`, `OperationsEnd` |
| `system` | 1 agent and 1 controller that learn the same host, 1 seed of the exit, crashes of both, failed writes and drivers at the exit | `NoEcho`, `AcknowledgedIsKept`, `AnswerIsRouted`, `KeepsPromise` |
| `system_liveness` | 1 agent and 1 controller that learn the same host, reports and fetches that time out | `LearnedEverywhere`, `SysOperationsEnd` |
| `drivers` | each of the 5 kinds, 2 networks, failing commands (not for `openwrt-pbr`), stops, removals | the contract: `SuccessInstalls`, `NeverInterrupts`, `StaysInstalled`; `FailClosed` for `linux-exit`, `MarksAfterRoute` for `linux-edge` |
| `lifecycle` | each of the 5 kinds on its platform, `linux-edge` on two, 1 network, 2 for `wg-route`; failing commands (not of `openwrt-pbr`), removals by others (for `linux-exit` and `nft-exit`), deaths, restarts, the watchdog | `CleanupUndoes`, `CleanupFailsClosed`, `UninstallIsFinal` (on systemd), `UninstallRepeatable` (not on Entware), `CleanupIsRepaired` |
| `dns` | 2 concurrent queries, 3 names of which 1 is Netflix's, up to 2 records (of two, one an alias) or a chain of 2 aliases and an address in every order, restarts | `AnswersLearned`, `LearnsOnlyNetflix`, `LearnsValid` |

One run checks each module's type invariant. Four runs end in a counterexample. Each
states what the repository says and shows an execution of the code that does otherwise:

| run | statement | what happens |
|---|---|---|
| `emptied_state` | desired state is restored before anything else (`runtime.go:92`) | the empty set is saved as a blank line, which the next start refuses |
| `entware_uninstall` | the installation and its networking state are removed (`main.go:233`) | the watchdog starts the daemon between stop and removal; it installs its policy behind the cleanup and goes on running |
| `failed_apply` | no address is returned before its route is acknowledged (`README.md:65`) | a failed apply, then a fetch or the learn itself returns to the set applied before: the drivers are skipped and a host of that set is answered |
| `openwrt_reload` | applied state is periodically verified or reinstalled to recover from removals (`README.md:166`) | the loaded rules are flushed, or a repair of the lists fails before or at the reload; the next check compares lists as `uci get` shows them, finds the services running and succeeds, for ever |

### Bounds

Sets of networks are complete: every subset can be fetched, learned or
reported. Two hosts let a set grow, be replaced by another of the same size,
and differ between two nodes; three with a seed at limit 3 let a report fit
alone and not in the union. Two drivers are the least at which one succeeds
before another fails. `seed_networks` of the exit in `system` is what an agent
might echo. In `agent_liveness` the second network is only fetched, which is enough for the set to be
replaced by another. Nothing counts, so no run needs a constraint. One agent and one
controller suffice for the exchange itself: the controller treats all reports
alike, and a second agent's reports are what `Runtime` with an arbitrary
environment covers in `controller`.
Two networks let a driver's old and new set overlap in part; the ip rule occurs at
most twice at the start, which is enough to need the deletion loop.

`lifecycle` needs one network for most drivers: its properties ask whether policy is
there, and the wanted set still changes between empty and not. `wg-route` has two, one of
which may be a seed or learned, for routes that outlive what is wanted or saved; of the
others `nft-exit`, the smallest, has a learnable network. In it `linux-edge`,
`wg-route` and `openwrt-pbr` suffer no removals by others, and commands of the latter do not fail: they would only
add states to what `drivers` and `openwrt_reload` have covered. In `dns` a chain of two
aliases is the shortest whose order matters to the loop; two queries are enough for one
to make a name trusted that the other is asked for. One address is private.

`Runtime` with its arbitrary environment includes deadlock detection in
`agent` and `controller`, as `system`, `drivers` and `dns` do. The liveness runs may end
in a node that stays down or has nothing left to do, `lifecycle` and `entware_uninstall`
in a host from which everything is removed, so these do not.

### Fairness

* `Boot`: a supervisor restarts the process (systemd `Restart`, procd `respawn`,
  the Entware watchdog). Weak.
* `Tick`: the ticker never stops and a waiting goroutine gets a Go mutex in the
  end, however many others use it. Strong, as the mutex is taken in between.
* The steps of an operation go on. Weak. No single fetch, report, write or
  driver must succeed, but none fails for ever once repeated: strong, for
  each. `system_liveness` asks the same of GET, POST and their handlers.
* `TimePasses`: time goes on. Weak.
* `RecordError`: a deferred `recordStatus` waits only for locks held over single reads
  and writes. Weak.
* Every command ends. `runner.go` sets no time limit, so this is assumed of `ip`,
  `iptables`, `uci` and the rest, in each of the fairness conditions on calls.
* `Drivers`: the ticker calls (`Start`) and a call goes on or fails, both weak.
  `StaysInstalled` assumes that from some moment on nothing fails, stops, is
  removed or newly wanted.
* `Lifecycle`: the service manager restarts (weak); the daemon's ticker calls and its
  calls go on (weak); on Entware a daemon starts its first call and ends its first command,
  which takes it seconds, before the watchdog, which comes every minute, kills it each time
  (strong, for the call and for the command that installs the default route); the tool
  ends (weak).
  The strong condition is an assumption: it excludes that the watchdog kills every
  new daemon before that command, which the code does not rule out.
  `UninstallRepeatable` assumes that the operator tries again and that from some
  moment on only commands fail that cannot succeed; `CleanupIsRepaired` that from some
  moment on nobody cleans up, nothing more is learned and nothing else fails or is
  disturbed, the watchdog's kills excepted. Both assume that
  the state file is in the end not blank, the first for `wg-route` only (section 5).
* Nothing requires DNS answers, crashes or drift to occur. `LearnedIsReported`
  and `LearnedStaysInstalled` assume that the node is up from some moment on,
  the latter also that drift stops.

## 4. The proofs

Every safety property that a passing run checks is also a theorem: it holds for all
values of the constants that satisfy the assumptions named in the modules. The last
column says what a theorem assumes besides.

| module | theorem | states | assumes |
|---|---|---|---|
| `RuntimeProofs` | `TypeCorrect` | `[]TypeOK` | |
| | `SavedCorrect`, `BehindCorrect` | `[]SavedInv`, `[]BehindInv`, the inductive invariants | |
| | `CrashForgetsNothingHolds`, `AnswersKeptHolds`, `ReportedIsDurableHolds` | the properties of those names | |
| | `StateFilesMonotonicHolds` | `StateFilesMonotonic` | |
| | `RestartableHolds` | `[]Restartable` | no disk fails; every node is a controller or has seeds |
| `ApplyProofs` | `InstalledCorrect` | `[]InstalledInv` | |
| | `AnswerAcknowledgedHolds`, `FailedApplyRetriedHolds` | the properties of those names | `ApplyAssumption` |
| `PbrSystemProofs` | `SystemRunsRuntime` | `SysSpec => Spec` | |
| | `SysTypeCorrect`, `NoEchoHolds`, `AcknowledgedIsKeptHolds` | the invariants of those names | |
| | `ExchangeCorrect` | `[]ExchangeInv` | |
| | `AnswerIsRoutedHolds` | `[]AnswerIsRouted` | `ApplyAssumption` |
| | `KeepsPromiseHolds` | `SysSpec => KeepsPromise` | `ApplyAssumption` |
| `StatusProofs` | `StatusRunsRuntime` | `StatusSpec => Spec` | |
| | `StatusTypeCorrect`, `DoctorSoundHolds`, `StatusCurrentHolds` | the invariants of those names | |
| `DriversProofs` | `DriversTypeCorrect`, `CallCorrect` | `[]TypeOK`, `[]CallInv` | |
| | `SuccessInstallsHolds` | `[]SuccessInstalls` | commands of `openwrt-pbr` do not fail and nobody flushes its loaded rules |
| | `NeverInterruptsHolds`, `FailClosedHolds`, `MarksAfterRouteHolds` | the properties of those names | |
| `LifecycleProofs` | `LifeCorrect`, `LifeTypeCorrect` | `[]LifeInv`, `[]LifeTypeOK` | |
| | `CleanupUndoesHolds`, `UninstallIsFinalHolds`, `CleanupFailsClosedHolds` | the properties of those names | |
| `NetworksProofs` | `CanonicalIdempotent`, `AcceptedIsPublic` | below | |
| `DNSLearnerProofs` | `DNSCorrect`, `DNSTypeCorrect` | `[]DNSInv`, `[]DNSTypeOK` | |
| | `AnswersLearnedHolds`, `LearnsOnlyNetflixHolds`, `LearnsValidHolds` | the invariants of those names | |

### The assumptions

They are those of the runs, and each is needed: a run shows what happens without it.

* `ApplyAssumption`: nobody removes policy behind the daemon's back, and no driver of an
  agent fails. A controller's drivers may fail. Without the second half an agent may be
  told to return to the set it applied before, and skips the drivers (`failed_apply`);
  a controller's wanted set only grows, so it never returns to one. Removed policy comes
  back at the next periodic pass, until when an address is not routed; that it comes back
  is liveness (`LearnedStaysInstalled`).
* Commands of `openwrt-pbr`: a reload that fails, or a flush of what is loaded, leaves the
  lists as wanted, and the next call takes them for loaded (`openwrt_reload`).
  `NeverInterrupts` needs no such assumption: it holds with failing commands and flushes,
  and names its three exceptions as steps. The third, a reload that fails, is the one in
  which `Runtime`'s contract for a driver that fails is not kept.
* `RestartAssumption`: a failed write can leave the learned file ahead of memory (section
  5), and an agent without seeds may save an empty set (`emptied_state`).

### Runtime: what is saved

`TypeOK` is inductive as it stands because it says that the networks of a learn
or a report are hosts and that such an operation never fetches.

`CrashForgetsNothing`, that memory's sets are in what a boot would recover, is not
inductive. After a write of the state file that failed, the learned file holds a
host that memory lacks, and the next learn, which starts from memory, overwrites
it: a wanted host that only the learned file held would be lost. So `SavedInv`
says that what is wanted is in the state file, in memory's `learned` or a seed,
and that `learned` is in the learned file and wanted (`WantedIsSaved`). For
`AnswersKept` and `ReportedIsDurable` it adds that what was answered or reported
is in the learned file and, while the process is up, in `learned`
(`HistoryIsSaved`), and, for the answer to come, that the hosts of a learn past its
first write are in the learned file and past its second in `learned`
(`LearnIsSaved`). The proof that a step preserves it has one case per action.

`BehindInv` is the converse: a controller's state file holds no more than it wants and,
where writes succeed, the learned file no more than memory does or is about to, so that
overwriting a file only lets it grow (`StateFilesMonotonic`).

`Restartable` needs more: a boot checks the union of both files and the seeds, not
each file. `RestartSafe` says that this union lies in one set within the limit:
the wanted one or, between the two writes of a learn, the one about to be saved
(`Bound`).

### Runtime: what is installed

`InstalledInv` speaks of every `Dependable` node. In the loop over the drivers those
before the one reached cover the wanted set, the others the one applied last
(`DriversInstalled`); a controller's applied set is part of the wanted one, which is why a
driver that fails there loses nothing (`OnlyGrows`); who has passed `reconcileLocked`
without an error has everything wanted installed (`PastApply`). `FailedApplyRetried` is
its second part read at the moment where the drivers are skipped; `AnswerAcknowledged`
takes from `SavedInv` that the hosts of a learn are wanted by then, and from `ReportedInv`
that an agent's learn that has not failed has reported.

### PbrSystem

`SystemRunsRuntime` is the first step: the composed system is a refinement of `Runtime`,
each of its steps being a step of one node or of none, so that all of the above holds of
it. For it to hold a request must carry what `Accept` takes, a set of hosts that is not
empty, which `RequestInv` has; and `NoEcho` with it.

`AcknowledgedIsKept` and the rest come from `ExchangeInv`. It says of each request that the
agent which waits for it is at its report and has not learned anything since (`Waits`);
that the handler which holds the controller's mutex carries out this request (`Handled`),
and that there is one such request at a time (`OneAtATime`); and that a 204 on its way is
true (`Acknowledged`). True means `Held`: the controller would read the hosts back at a
start, wants them while it runs, and has them in its drivers, a set that no step of a
controller makes smaller. An agent's `lastReported` and what it has answered are held in
that sense (`ControllerHolds`). Held means recovered and not "in the state file": a reported
host that the controller had learned itself is in its learned file and wanted already, so
`acceptReport` writes nothing.

`KeepsPromiseHolds` proves the refinement: a step of a node leaves covered what it owes to
its clients and to the agents behind it (`GivenInv`, `OwedIsCovered`), and `Return` gives
out what `AnswerIsRouted` says; every step is therefore a step of `Promise` or a stutter.

### Status

`StatusRunsRuntime` carries the invariants over. `doctor` compares numbers, so
`CountedInv` orders the sets: on a controller what is applied is wanted, on an agent what
is reported was applied before, and it is learned by `SavedInv`. Of two finite sets, one
part of the other, equal numbers make them equal. `StatusCurrent` follows from
`RecordedInv`: the numbers are true, or somebody is still to record new ones, the
operation past its write or the deferred `recordStatus` of one that has failed.

### Drivers

`OwnInv` is the type of the one driver's state; it needs that `ensureIPRule` has counted at
least the rules that are there. `CallInv` says what each driver has done by each of its
commands, for each kind (`EdgeCall`, `ExitCall`, `NFTCall`, `WGCall`, `UciCall`), as long
as nobody disturbed the call. For `openwrt-pbr` it also says, whatever fails or is
disturbed, that a list about to be loaded holds what is wanted or nothing is loaded of it
that could be lost (`UciSafe`), and, where no command fails and nothing is flushed, that
the lists of a process which has applied them are committed and loaded (`UciInStep`).
`SuccessInstalls` is its last step; `NeverInterrupts` compares the
policy before and after each command.

`FailClosed` is not inductive: the chain of `linux-exit` may be removed after it
was filled. `ExitInv` adds that from the filling on the chain either ends in DROP
or is missing, and a missing chain cannot be hooked in (`FilledBeforeHook`).
`MarksAfterRoute` follows from `EdgeInv`: in a call nobody has disturbed, the
route is there after the first command and a rule after the replacement of rules
(`RouteBeforeMarks`), and no step but the last two commands makes a packet marked.

### Lifecycle

`LifeInv` keeps `OwnInv` through the steps of daemon and tool alike. While no daemon has
run since the tool began (`alone`), `AloneCleaned` says what the tool has undone by each of
its commands, with `listed` still what the state file holds, which only a daemon writes;
at its end the policy is `Undone`. `StaysStopped` says that after the stop of an uninstall
systemd does not start the daemon, so the tool stays alone, and `ToolControl` which steps
the tool can be at. Removals by others only take away and disturb none of it.

### Networks and DNSLearner

`CanonicalIdempotent`: an accepted value's `CanonicalNetwork` is accepted and its own
`CanonicalNetwork`. `AcceptedIsPublic`: every address between the first and the last of an
accepted network is public. It is enough that the code looks at two addresses, since every
private range that `isPublicIPv4` knows is made of whole /24s, and an accepted prefix is no
shorter.

What the recursive functions of `inspect` compute is proved for answers of every length.
`IntervalInduction` is induction over an interval, from the least number of a set;
`IteratesExist` gives the iterates of a function of a number and a value, and with them
`PassIs` and `TrustedIs` that the recursive definitions have the values they say.
`TrustedWithin`: the names the passes trust lie in every set that holds the roots and is
closed under the answer's CNAMEs. `TrustedClosed`: they are such a set. A pass that adds a
name adds the target of a record whose target was not there, so as many passes as there are
records suffice. `DNSInv` says that the aliases lie in `Reach` of what was asked and seen,
which has `LearnsOnlyNetflix` from `TrustedWithin`; and that what a client was given is an
alias or a Netflix name, so that the names it reaches are among the trusted ones, which has
`AnswersLearned` from `TrustedClosed`. `LearnsValid` rests on `CanonicalIdempotent`.

### What is only model-checked

The liveness properties, which need fairness and `ENABLED`, outside what TLAPS proves:
`LearnedIsReported`, `LearnedStaysInstalled`, `OperationsEnd`, `LearnedEverywhere`,
`SysOperationsEnd`, `StaysInstalled`, `UninstallRepeatable` and `CleanupIsRepaired`.

Each property checked by a run has a definition marked "Mutation" in the
modules: a version of an action or helper with a likely mistake, under which TLC
finds the property violated. They are not part of any specification.

## 5. What is left

Known cases in which the code does less than one might expect, described in the
modules and not stated as properties:

* After a failed write of the state file (`runtime.go:197`) the learned file may hold
  more than memory; reports accepted later can fill the limit, and the next start, which
  merges both files, fails. `Restartable` is checked and proved for a working disk.
* While the fetched set does not fit beside the learned hosts (`runtime.go:142`), `sync`
  returns before it retries a failed apply or report.
* An agent reports a host once (`runtime.go:252`): a controller whose state file was
  removed hears of it again only after the agent restarts or learns another.
* A failed `acceptReport` (`runtime.go:445`) is not in the status file until the next
  operation: the exception in `StatusCurrent`.
* Aliases are forgotten at a restart (`dns_proxy.go:213`): a client that still knows an
  alias and asks for it is answered without learning. Addresses of AAAA records are
  never learned.
* The cleanup of `wg-route` deletes the routes of the networks in the state file and no
  other (`operations.go:268`). Seeds, and hosts of the learned file, that a start has
  installed without saving them (`runtime.go:74`, `runtime.go:93`) keep their routes, and so
  do networks dropped earlier (`drivers.go:253`), while `main.go:216` and `main.go:233` print
  that the networking state is removed and `README.md:243` says that routes are. `Undone`
  asks for the routes of the state file only.
* An emptied state file is a blank line: the cleanup of `wg-route` then runs
  `ip route show` with an empty argument and returns its error (`operations.go:268-272`), so
  `cleanup` and `uninstall` fail however often they are repeated, and the daemon does not
  start (`emptied_state`). `UninstallRepeatable` and `CleanupIsRepaired` are stated for
  files that are not blank.
* On OpenWrt `uninstall` does not wait for the end of the process (`operations.go:466-469`):
  the daemon may install policy behind the cleanup, as on Entware
  (`entware_uninstall`); `UninstallIsFinal` is about systemd.
* `cleanup` sets the allowed-ips of the peer of `linux-edge` to `base_allowed`
  (`operations.go:318`, as `README.md:245` says), which the driver leaves to the operator
  (`drivers.go:262`).
* `uninstall` on Entware needs a running daemon (`operations.go:471`), and everywhere the
  service file (`operations.go:437`): after a stop by hand, or a failure after that file
  is removed, it cannot be repeated.
* `install` over a running systemd service leaves the old process running
  (`install.go:132`).

Open, in this order:

1. The contract that `Runtime` assumes of a driver as a specification of its own, which
   `Drivers` implements.
2. Two agents behind one exit with the limit, as a run; the theorems cover it for safety.

Not modelled: bundle generation, the command runner and the rest of the command line
(straight-line I/O without state that another part reads), the checks of doctor and
smoke-test that run a command or a query once, DNS transports, the relay tunnel and
static OpenWrt scripts (run once, outside the daemon), authentication.
