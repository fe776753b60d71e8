# A verification development for nasconn+

nasconn+ (`src/`) is a daemon for home servers. Every few seconds it looks at the
listening sockets of its host, opens an IPv6 relay in front of every service that
listens on IPv4 only, opens an HTTPS frontend in front of every plain HTTP service,
and closes both when the service has gone. This directory holds TLA+ models of its
stateful parts, the TLC configurations that check them and TLAPS proofs about them.

## 1. Inventory

| Component | Source | State it keeps | Operations |
|---|---|---|---|
| Poll loop | `internal/app/app.go` 252-317 | context, ticker | first pass, tick, signal, shutdown |
| Listener table | `internal/proxy/service.go` | `listeners`, `missing`, `warnedConflict`, under `mu` | `Reconcile`, `Shutdown`, `GetMetricsSnapshot` |
| Scanner | `internal/scanner/scanner.go` | inode cache | `Scan` by procfs, `ss` or `lsof` |
| Prober | `internal/scanner/prober.go` | `probeCache`, `flightWait` | `ProbeHTTP`, `ProbePorts`, `CleanProbeCache` |
| Relay listener | `internal/proxy/listener.go`, `acceptRelayLoop`, `countingConn` | semaphore, `done`, counters | accept, serve, close, stop |
| HTTPS frontend | `startHTTPServer` | counters | serve a request |
| Certificate manager | `internal/cert/cert.go` | `cur`, `certMap`, `loadedAt`, `trustedCA` | `Refresh`, `GetCertificate` |
| Local CA | `internal/cert/localca.go` | four files, the system's trust store | load or create, sign, trust |
| Configuration | `internal/config/config.go` | the file; none after start | ensure, load, validate, port lists |
| Status socket | `internal/ipc` | socket path, listener | serve, close, query |
| Process life | `internal/app/app.go` 84-284 | context, signal channel | start, stop, status query |
| Output | `internal/{logger,metrics,tui}` | counters | print |

How they interact. The main goroutine runs one pass after another: `Scan`, then
`Manager.Refresh`, then `Service.Reconcile`. `Reconcile` takes the lock to collect
candidates, drops it while `ProbePorts` fills the shared cache, and takes it again to
compute what is wanted, bind, and collect. Every listener it binds gets a goroutine
that accepts, and every connection at least one more. `GetCertificate` and
`GetMetricsSnapshot` read concurrently. Outside are the other processes of the host,
which open and close sockets at any moment; clients; tools that replace certificate
files; the operator, who edits the configuration file; and whatever ends the process.
Several processes may share one configuration file and one socket path: a daemon, a
second one started by mistake or during an upgrade, and status queries.

What is hard here: the scan is two files read at different moments and is stale when
it is used; both loops of `Reconcile` range over maps, in any order; two kinds of
listener compete for a port with each other and with the host; probe answers expire
between use and use; slots and counters are moved by several goroutines of one
connection; a bridge ends only when both of its directions have; certificate files are
replaced in two writes and may be cut short; so may the configuration file, which two
processes may find missing at once; the socket path outlives the process that made it.
`PROJECT.json` lists these places one by one under `hazards`, with the properties
that watch them.

What makes each part correct:

* table: sockets and entries agree; nothing is held that the configuration forbids;
  a relay yields to a native listener at once; a listener outlives short absences of
  its backend and does not outlive long ones; everything servable ends up served;
  shutdown leaves nothing open;
* relay listener: a slot for each connection and no other, counters that agree with
  connections, an accept loop that ends when told to, clients that are not stranded;
* configuration: whatever the file held at any moment, a daemon only goes into service
  with values in range, rules that do not clash, and the deny and allow lists its
  operator asked for; and nobody writes over the operator's text;
* status socket: the path leads to a daemon that serves or to none, a daemon on its own
  can be reached, a query is answered, and closing the server ends;
* certificates: success is only claimed with a certificate to serve, a replaced pair
  ends up served, the CA that clients trust stays, and a crash anywhere is repaired.

## 2. Modules

| Module | Models | Extends / composes |
|---|---|---|
| `Reconcile` | poll loop, scan, probe cache, listener table, shutdown, the host | |
| `ListenerLifecycle` | what the daemon promises of its listening sockets | implemented by `Reconcile` |
| `ReconcileProofs` | theorems about `Reconcile` | `Reconcile`, `TLAPS` |
| `ReconcilePassProofs` | theorems about the end of a pass, and the refinement of `ListenerLifecycle` | `ReconcileProofs` |
| `RelayListener` | `limitListener`, `acceptRelayLoop`, `countingConn`, the bridge of a connection, `stopListener` | instantiates `Admission` |
| `RelayListenerProofs` | theorems about `RelayListener`, refinement included | `RelayListener`, `TLAPS` |
| `Admission` | what a limited listener promises: bounded, leave once | |
| `CertManager` | `Refresh`, the local CA and trust, files and other programs | |
| `CertManagerProofs` | theorems about `CertManager` | `CertManager`, `TLAPS` |
| `Config` | `LoadConfig` of a text that parses, and the lookups in its result | |
| `ConfigProofs` | what every text that loads gives | `Config`, `TLAPS` |
| `Daemon` | processes that share a configuration file and a status socket | `Config` |
| `DaemonProofs` | theorems about `Daemon` | `Daemon`, `ConfigProofs`, `TLAPS` |
| `App` | the wiring of `app.Run`: poll loop and relay listeners over what was loaded | `ConfigProofs`; instantiates `ReconcileProofs`, `RelayListenerProofs` |
| `MCReconcile`, `MCRelayListener`, `MCCertManager`, `MCDaemon` | hosts, rules, texts and sets for TLC | one each |

### Reconcile

`pc` is the place of the main goroutine: `idle` between passes, `tcp6` between the two
files of a scan, `prepass`, `probe` while the lock is free, `auto` to `maintain` under
the lock, `stop` and `exited`. `listeners`, `backend` and `missing` are the maps of
`Service` by kind and port; `bound` are the sockets the process really holds, so that
an entry without its socket, or a socket without its entry, is a state of the model.
`foreign` are the sockets of other processes, each with the families it occupies;
whether a bind succeeds follows from those and from `bound`. `cache` and `probing` are
the prober's. `wants`, `res`, `autoTodo` and `todo` are locals of one pass; loops over
maps take any element of `todo` next. Each step that the host can get in front of is
an action of its own. `unseen` is a history variable: how many scans in a row did not
show the backend of a key.

Abstracted: names, log suppression (`warnedConflict`), bodies of requests. Ports are
`1..MaxPort`, where `MaxPort` plays 65535. The TTLs are one action, `CacheExpires`,
that may happen whenever the lock is free; expiry while the lock is held is the same
as expiry just before, because every entry is read once under it. `stopListener` may
take two seconds under the lock; nothing the model tells apart depends on that.
The model has procfs only, which is what `Scan` uses on Linux.

`ListenerLifecycle` says what somebody who looks at the sockets of the daemon may rely
on: they open and close one at a time, a socket that is not needed any more lasts
`GracePolls` polls unless its kind yields, none opens once the daemon is stopping, and
none is left when it is gone. `Reconcile` implements it with `sockets <- bound`,
`misses <- missing`, `phase <- Phase` and the relays as the kind that yields.

### RelayListener

One listener and its threads: the accept loop (`acc`), two closers per connection in
counting mode (`HandleConn`'s own close and `OnDialError`'s or a copying goroutine's),
the deferred calls of the handler in zero-copy mode, and `stopListener` (`stopper`).
The steps of `limitListenerConn.Close` are separate, and so are the accept, the
return of the slot after a failing accept, and the look at `done`. `zeroCopy` is chosen
in the initial state and kept, as the setting is.

tcpproxy is outside `src/` and modelled from how it is used: it dials the backend,
runs one copy for each direction, ends when both have ended, and closes the connection
it was given. `ended` are the ends that have finished sending, `told` those that were
told so of the other by `CloseWrite`. When a copy ends it tells its destination, if
what it was given for it passes `CloseWrite` on (`Forwards`): the backend's connection
always does, the client's only in zero-copy mode. When the bridge is over both sets are
emptied, so that the order in which it ended is forgotten.

`Admission` says what users of the listener may rely on. `RelayListener` implements it
with `admitted <- Holding`, `left <- released`.

### CertManager

A key pair is a number; a certificate is the number of its key with that of its
issuer's; 0 is a file that is missing or does not parse. Loading a pair is one step:
the tools write the certificate and then the key, so reading the two files at two
moments gives the pair or an error, as reading at one moment does. Fingerprints are
separate steps from loads, because their order matters. Every `writePEM` is a step
that may be done, fail, or be cut by the end of the process. The last leaves the file
truncated; a failure leaves it truncated, as it was (it could not be opened) or whole
(`Close` failed). `ToolFinishes` is the second write of a replacement. The list of
certificates has one entry, for the host, or none: such a list replaces the old map
too. ACME issuance is a library and enters only through where `Refresh` returns.

### Config and Daemon

A text of `Config` is the record that `json.Unmarshal` fills, with integers of any size
and sign; `LoadConfig` maps it to the configuration the daemon runs on, and `Refused`
says when it returns an error instead. Clamps are one operator, because each setting
has a default for what is missing or negative and then at most two bounds; a bound the
code does not test for is never reached there. Names and paths are handed on unread,
except that `..` refuses them.

`Daemon` has the configuration file (`file`: missing, torn, the default text, or one of
the operator's), the socket path (`path`: whose socket it names, if any), and for each
process where it is (`pc`). A daemon starts with `EnsureDefaultConfig` (`Stat`, then a
write in two steps, since `os.WriteFile` truncates first), goes on with `LoadConfigFile`
(`Stat`, `ReadFile`, and once more the write if the file vanished in between),
`StartServer` (`Lstat`, `Remove`, `Listen`) and the poll loop, and ends with `Shutdown`
and `Server.Close` (listener, path, wait for `serve`). Of a pass only the time in which
it holds the lock is seen, for `GetMetricsSnapshot` waits for that. A status query loads
the configuration without the first step, dials, and waits for its answer or a deadline.
A crash closes the descriptors of a daemon and leaves its path. A system call of either
part may fail for a reason of its own: loading then ends the start of a daemon
(`LoadFails`), while a `StartServer` that fails leaves it without a server
(`ServerFails`, and `serve` is `failed`); a query's deadline may pass at any moment.
`missed` and `alone` are history variables for the properties.

Two writers that overlap, or one that writes into a file the operator has replaced
meanwhile, leave any of the outcomes the kernel allows (`Written`). Closing a unix
listener removes the path in Go, whosever socket is there; `Close` removes it again.

### App

`App` has no steps of its own. `cfg` is what `LoadConfig` makes of `text`, and two
instances give the parameters of `Reconcile` and `RelayListener` the values `app.Run`
hands to `NewService`: the offset, the grace polls, the rules and lists of `cfg`, and
its ceiling of connections. The properties of `App` speak of the operator's text; they
follow from theorems about the instances, whose assumptions are theorems here.

## 3. Runs

All runs are exhaustive. "Violation" runs check one statement of the repository's own
documentation or comments which the code does not keep; the findings in
`PROJECT.json` quote it.

| Run | Instance | Shows |
|---|---|---|
| `reconcile_faults` | 3 ports, a rule against an upgrade, short lists, 4 host changes, failing scans, binds and `/proc/self/fd` | `TypeOK`, `SocketsMatchTable`, `PoliteYield`, `TableSettled`, `OnlyPermitted`, `ForwardsRight`, `NeverProbesItself`, `GraceRespected`, `ImplementsLifecycle` |
| `reconcile_live` | three HTTP services in a row, two rules for the last of which one wants an upgrade's port, 2 host changes, fairness | `ShutdownCompletes`, `DeadBackendsRecycled`, `EventuallyServed`, `SelfProxyEnds` |
| `relay` | both modes, 2 clients, 1 slot, fairness; no end need finish first | `TypeOK`, `SlotsAccounted`, `FdCeiling`, `ActiveExact`, `ActiveWithinCeiling`, `ImplementsAdmission`, `StopUnblocks`, `QueueDrains`, `HalfCloseForwarded`, `SlotReturns` |
| `cert_files` | configured pair, fallback, trust; 3 disturbances, a public tool on the fallback's files, fairness | `TypeOK`, `NilMeansServing`, `CAFilesMatch`, `MarkNotAhead`, `TrustedCAKept`, `RotationApplied`, `FallbackRecovers` |
| `daemon` | 2 daemons, 1 query, 6 ports, 2 texts of the operator, 1 fault, 1 edit, fairness | `TypeOK`, `SoleDaemonReachable`, `PathIsServed`, `LoadsSound`, `OperatorTextKept`, `ShutdownEnds`, `StatusAnswers` |

The violations, each a statement of the documentation the code does not keep:

| Run | Property | What happens |
|---|---|---|
| `reconcile_probe_lock` | `ProbesOutsideLock` | a cached answer expires after the pre-pass, or was never asked for, and `Reconcile` dials under its lock |
| `reconcile_precedence` | `ExplicitPrecedence` | an upgrade that took an https port first keeps it from the explicit rule for that port |
| `reconcile_steal` | `NeighbourReturns` | a conflict is retried while its owner restarts, and takes the port for good |
| `reconcile_probe_flap` | `GraceForUpgrades` | one probe that times out is remembered as negative for three polls, and the frontend is closed |
| `relay_half_close` | `HalfCloseKept` | in counting mode a backend that has finished is not known to its client |
| `cert_leaf_race` | `SelfPairServed` | a pair replaced between load and fingerprint is never served |
| `cert_trust_fails` | `TrustIsReal` | a copied CA whose activation failed is recorded as trusted |

More disagreements were met while modelling and have no run.

* Table. An https listener may outlive its backend in three ways, each for as long as
  what keeps it lasts. A rule is wanted while the daemon itself has an https listener
  on the rule's backend port (`service.go` 212). The other two come from one entry for
  two wishes (`service.go` 312, 401): an entry that is wanted is kept with the backend
  it was started for, whoever wants it now. So an upgrade of service 1 that took the
  port of a rule is kept by the rule when service 1 has gone, and an entry started for
  the rule is kept by the upgrade when the rule's backend has gone; in both cases the
  listener leads to the dead one. `DeadBackendsRecycled` excludes exactly these entries
  (`KeptForAnother`) and claims recycling of all others. All three occur in
  `reconcile_live`: the property fails there if any one exclusion is dropped.
  `getSelfSocketInodesWith` returns an empty set
  when `/proc/self/fd` cannot be read, and the relays then yield to themselves for one
  poll (`scanner.go` 74; the runs with `FlakySelfFds` include it). `https_exclude`
  also keeps a port from being relayed (`IsExcluded`, against `README.md` 246, which
  says "auto HTTPS upgrade"). The HSTS header is sent with the self-signed fallback
  too (`service.go` 449, against `README.md` 254).
* Relay. In zero-copy mode the slot is given back before `activeConn` is decremented
  (`service.go` 552), so the status can show more connections than
  `max_conns_per_listener` for the time between the two (against `README.md` 83,
  "strictly accurate"). `ActiveExact` says which connections are counted, and
  `ActiveWithinCeiling` claims the bound for counting mode only.
* Certificates. A pair that another tool puts at `selfsigned.crt/.key` is overwritten
  unless the local CA signed it (`localca.go` 250, against `cert.go` 207-210). And
  nobody removes the CA's files in the model: if `local-ca.crt` alone is lost and its
  regeneration is cut before the key is written, the old key stays beside the new
  certificate, `loadOrCreateLocalCA` accepts the two without comparing them
  (`localca.go` 107), and signing then fails on every `Refresh`.
* Configuration. "A status query must never create config files" (`app.go` 90), but
  `LoadConfig` creates a file that vanished between the `Stat` of `LoadConfigFile` and
  its `ReadFile`; `EnsureDefaultConfig` writes over a file that appeared after its
  `Stat`. `OperatorTextKept` states what is left: only a process that could have found
  the file missing since it started writes over it. A crash or a full disk during the
  write leaves a part of the default text, which every later start refuses until
  somebody removes it. `ResolveConfigPath` looks in `/etc/nasconnplus` first, while
  `README.md` 210 names `./config.json` first.
* Status socket. A second daemon takes the path of the first, and the one that closes
  removes the path whoever owns it; `SoleDaemonReachable` therefore speaks of daemons
  no other ran beside. `status` ends with code 0 when it could not reach the daemon
  (`app.go` 97-101), so the `HEALTHCHECK` of `deploy/Dockerfile` 31 always succeeds.
  `stopListener` may keep the lock for 2 s per listener, which is as long as an answer
  may take (`server.go` 117): such a query ends `late`.

Bounds. `MaxChurn` bounds what the host does of its own accord: four changes are enough
to take a service away, bring it back as dual stack, take that away and bring the first
back, around one pass each; two are enough, in the liveness run, to take a service away
in the middle of a pass and bring another. A scan may fail and a pass may repeat any
number of times, so there is no bound on passes. `GracePolls = 2` is the least value
that tells "at once" from "after several". Three ports suffice for an https port that is
another service's, another listener's, a rule's, or a rule's and an upgrade's at once.
Two clients on one slot make one wait, and two closers, two copies and two ends of each
connection are what the races need; the theorems hold for any number of clients and
slots. In `cert_files` `MaxFaults` counts crashes, failing calls and what others do to
the files; three let a crash fall into the repair of what a crash has left while a
rotation is half done. In `daemon` two processes are what a race for the file or the
path takes; one crash or failed call, and one edit, can fall into any step of either.
The operator's texts are one with everything out of its range and lists of its own,
which is accepted, and one with two rules for one https port, which is refused; what
`LoadConfig` makes of every other text is proved.

Fairness. `Daemon`, `AcceptLoop` and `Refresh` are weakly fair: goroutines that are
not blocked run, the ticker ticks, and dials have timeouts. `ScanTcp6` is strongly
fair: a scan that fails for ever serves nobody. `Shutdown` is strongly fair because
`select` picks at random among ready channels (`app.go` 275). `CacheExpires` is, as
time passes. A restarting neighbour retries its bind. A tool that wrote a certificate
writes its key. In `relay` goroutines run, a dial ends (it has a timeout of 10 s), and
an end that is told that the stream is over finishes too; nothing obliges an end to
finish first, so every slot may be held for ever. Only `QueueDrains` needs more, and
states it: in `Patience` clients finish and the kernel does not fail every accept. In
`daemon` `Stop` is strongly fair for the `select` of the poll loop, `Accept` because
an accept loop that wakes up again and again finds the queue non-empty and the kernel
does not fail every accept, `Answer` because Go's mutex hands itself to a waiter that
has starved for a millisecond. Starts, edits, signals and crashes are not fair. The
host is quiet after its last change, which is what "eventually" in the liveness
properties refers to.

## 4. Proofs

TLAPS checks the following for all values of the constants that satisfy the named
assumptions (`ConfigAssumption`, `HostAssumption`, `ListenerAssumption`,
`CertAssumption`, `DenyListAssumption`, `DaemonAssumption`). In `App` those of the first
three that concern the configuration are themselves proved.

**`ReconcileProofs`.** `TypeCorrect` (`TypeOK`), `NoSocketLeak` (`SocketsMatchTable`),
`ListsRespected` (`OnlyPermitted`), `GraceTheorem` (`GraceRespected`), `ForwardTheorem`
(`ForwardsRight`), `LoopTheorem` (`LoopsNeedRules`), `NoSelfForward` and `ProbeTheorem`
(`NeverProbesItself`). None of the invariants is inductive alone. `TableInv` is the
types, `SocketsMatchTable` and `StartsFresh`: the start loop only sees keys that are
wanted and have no entry, so that no bind replaces an active one. `PermitInv` carries
the lists from the moment a port is handed to the prober to the bind it leads to, so
that a conflict retried later is known to have been permitted. `CountInv` relates the
miss counter of an entry to the history of scans: a counter never runs ahead of the
scans that did not show the backend, and in the middle of a pass it stays one behind
unless the key is wanted. `GraceInv`, their conjunction, is inductive.

Where a listener leads is decided when it is wanted and bound later, in another order.
`RightInv` says that `wants` is right at every step and that so are the backends of
active entries; `StartsFresh` takes a wish to the bind it leads to. That no relay shares
its port with an https listener of the same process is not decided by the table at all:
it follows from what the kernel lets be bound together (`SoleOnPort`). `LoopTheorem`,
which follows from `ForwardsRight` and is in no run, is about any set of listeners each
of which leads to one of the set: an automatic upgrade leads to a lower port, so that
the lowest port of the set (`LeastNumber`) belongs to a listener with a rule. `ProbeInv`
follows the ports handed to the prober from the pre-pass into the lock, where those of
the relays join them; `SoleOnPort` says that these are no https listener's either.

**`ReconcilePassProofs`.** `YieldTheorem` (`PoliteYield`) and `SettledTheorem`
(`TableSettled`). `PassInv` says that a key the second loop has dealt with already
looks as the whole table is to look at the end; `WishInv`, that nothing is wanted where
a native listener was seen, without which a hand-over would lose a wanted entry.
`LifecycleTheorem` maps every step of `Reconcile` to a step of `ListenerLifecycle` or to
a stutter, from `TableInv`, which supplies that an entry to be started is not bound yet
and that a miss counter belongs to a bound key. `LifecyclePromise` is about
`ListenerLifecycle` itself: what somebody who sees only the sockets may conclude, among
it that one socket at a time opens or closes, that one of a kind which does not yield is
closed only after `GracePolls` misses or when stopping, and that none is held when off.
With the refinement it is a fact about `Reconcile`.

**`RelayListenerProofs`.** `NoSlotLost`, `ActiveCountExact`, `FdTheorem`,
`CountWithinCeiling`, `ListenerTypes`, and `Refinement` (`Spec` implements
`Admission`). Slots and counters are counts of sets of connections. `StageInv` ties
the flags of a connection (released, closed, its closers) to its stage; from it,
`SlotStep` and `CountStep` show that every step leaves a counted set alone or moves one
connection in or out of it, together with the counter. Cardinalities come from
`FiniteSetTheorems`. The refinement is the same lemma: a connection moving in is
`Admit`, one moving out is `Leave`. `AdmissionPromise` draws from `Admission` what its
users rely on: never more than `MaxConns` inside, and nobody who left is back. The state
of a bridge is not in it: what a bridge does never moves a slot or a counter by itself.

**`CertManagerProofs`.** `ManagerTypes`, `SuccessMeansServing`, `CAFilesTheorem`,
`CAKeptTheorem` and `MarkTheorem` (`MarkNotAhead`). `CAInv` says that a CA key is never
on disk without its certificate and that generation only begins when there is none;
`ServedInv` and `KeyInv` say what is known at each place `Refresh` may return from.
`MarkInv` is the reason why the fingerprint of a configured pair is taken before the
pair is loaded: pairs only get newer, so a mark taken first is of the pair then served
or of an older one, at every step between, and the early return of `Refresh` never skips
a newer pair. The fallback does it the other way round, and there the property fails
(`cert_leaf_race`). The bound `MaxFaults` is any number.

**`ConfigProofs`.** `AcceptedIsSound` is about `LoadConfig` alone: a text it does not
refuse gives a sound configuration, for every text of the type, where the run tries
two. It rests on one lemma each for clamps, numbers, rules and lists.

**`DaemonProofs`.** From `AcceptedIsSound`, `LoadsOnlySound` uses it at the one step
that puts a daemon into service. `Typing`, `PathServed`, `SoleReachable` and `TextKept`
follow from `IInv`. `FileWatched` says that a process that writes the file, or is
loading while there is none, has `missed` set, which makes `OperatorTextKept` a fact of
each step. `SoleDaemonReachable` is not inductive alone: `OthersOff` says that nobody
runs beside a daemon that is alone, and `SoleBinds` that such a daemon finds the path
empty when it binds, so that no step of another one can come between its `Lstat` and its
`Listen`. It says nothing of a daemon whose `StartServer` failed for a reason other than
what is on the path.

**`App`.** End to end, from the text the operator wrote to the sockets held. An
accepted text (`Accepted`: of the type, and not refused) and a host with the addresses
the kernel model knows (`HostSound`) are the only hypotheses; `LoopAssumptions` derives
from them all that `Reconcile` assumes. `DenyListTheorem`: unless the text overrides it,
nothing automatic is held on a port of the built-in deny list or leads to one, whatever
else the text excludes or allows. `AllowListsTheorem`: nothing automatic is held that
the text's lists and modes do not let. `UpgradesTheorem`: whatever offset is asked for,
an upgrade lies 1 to 100 ports above its service. `LoopTheorem`: listeners that answer
each other's requests include one with a rule in the text. `CeilingTheorem`: whatever
ceiling is asked for, no relay listener in counting mode counts more than 4096
connections. `LoadedSound` turns `AcceptedIsSound` into facts about `cfg`, and
`AutomaticMeans` translates the sets of `Reconcile` into the lookups of `Config`.

Only model-checked: the twelve liveness properties, for fairness and `ENABLED` are
outside the prover. Every safety property and action property of a passing run is
proved. The invariants of `App` are proved and belong to no run, since no module runs
its parts together. No module uses induction over data or a RECURSIVE operator.

## 5. Not modelled

* The `ss` and `lsof` paths of the scanner parse the output of other programs; on Linux
  procfs comes first. The inode to process cache only names listeners. The v4-mapped
  literal is a matter of parsing.
* Singleflight waiters of the prober and its bound of 16 dials. The poll loop is the
  only caller of `ProbeHTTP` and never probes a port twice at a time, so that no waiter
  exists; the bound delays a pass and changes no answer.
* The HTTPS frontends beyond their listening sockets: rewriting of headers and counting
  of responses inside net/http, which only the status table shows.
* ACME issuance (a library), the macOS keychain, the `./tls` fallback directory.
* `ResolveConfigPath` (two `Stat` calls in a fixed order), directory creation and file
  modes, and a text that does not parse other than a torn default text: it ends the
  start in the same way.
* Diagnostics, the status table, logger, metrics and terminal output: formatting and
  counters that nothing reads back.

The modules are composed through their constants and not by running them together:
`Reconcile` takes the configuration `Config` yields as CONSTANTS (`App` proves that it
may), `Daemon` sees a pass as an interval with the lock, and `CertManager.Refresh` runs
between scan and pass without sharing state with either.
