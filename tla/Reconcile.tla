---------------------------- MODULE Reconcile ----------------------------
(***************************************************************************)
(* The poll loop of the daemon (internal/app/app.go) driving the listener  *)
(* table of proxy.Service (internal/proxy/service.go), over a host whose   *)
(* other processes open and close TCP sockets at any moment.               *)
(*                                                                         *)
(* One pass of the loop is: read /proc/net/tcp, read /proc/net/tcp6, probe *)
(* candidate ports outside the lock, take the lock, compute the wanted     *)
(* listeners, bind the new ones, maintain the old ones, release the lock.  *)
(* Each of these is a step here, because the host moves between them.      *)
(* Sockets the daemon holds (bound) are kept apart from the entries it     *)
(* remembers (listeners), so that a leaked socket would be visible.        *)
(***************************************************************************)
EXTENDS Integers, FiniteSets

CONSTANTS
    MaxPort,        \* ports are 1..MaxPort; MaxPort stands for 65535
    HTTPSOffset,    \* cfg.HTTPSOffset
    GracePolls,     \* cfg.GracePolls
    HTTPSAuto,      \* cfg.HTTPSAuto
    RelayAuto,      \* cfg.Relay.Auto
    HTTPSRules,     \* cfg.HTTPS: records [http, https]
    ExcludePorts,   \* ports for which cfg.IsExcluded holds
    RelayAllow,     \* ports for which cfg.IsRelayAllowed holds
    HTTPSAllow,     \* ports for which cfg.IsHTTPSAllowed holds
    HTTPServices,   \* ports on which another process would speak HTTP
    HostSockets,    \* sockets other processes may open: records [addr, port]
    Neighbours,     \* those whose owner restarts: it closes, then rebinds
    MaxChurn,       \* bound on spontaneous changes of the host
    FlakyProbes,    \* may a probe of a live HTTP service time out?
    FlakyBinds,     \* may a bind fail for another reason than EADDRINUSE?
    FlakySelfFds    \* may listing /proc/self/fd fail?

Ports == 1..MaxPort
Kinds == {"https", "relay"}
Keys == [kind: Kinds, port: Ports]
HTTPSKey(p) == [kind |-> "https", port |-> p]
RelayKey(p) == [kind |-> "relay", port |-> p]

\* Addresses of foreign sockets: 0.0.0.0, [::] with and without v4, 127.0.0.1.
Addrs == {"v4any", "dual", "v6only", "loop4"}

ASSUME ConfigAssumption ==
    /\ MaxPort \in Nat /\ HTTPSOffset \in Nat \ {0} /\ GracePolls \in Nat \ {0}
    /\ {HTTPSAuto, RelayAuto} \subseteq BOOLEAN
    /\ HTTPSRules \subseteq [http: Ports, https: Ports]
    /\ \A r \in HTTPSRules : r.http # r.https
    /\ \A r, q \in HTTPSRules : r.https = q.https => r = q
ASSUME HostAssumption ==
    /\ HostSockets \subseteq [addr: Addrs, port: Ports]
    /\ Neighbours \subseteq HostSockets
    /\ MaxChurn \in Nat
    /\ {FlakyProbes, FlakyBinds, FlakySelfFds} \subseteq BOOLEAN

VARIABLES
    foreign,    \* sockets held by other processes
    restarting, \* neighbours that closed their socket and want it back
    churn,      \* spontaneous host changes so far
    bound,      \* keys whose listening socket this process holds
    listeners,  \* Service.listeners: "none", "active" or "conflict" per key
    backend,    \* backend port of an active listener, else 0
    missing,    \* Service.missing, 0 when there is no entry
    cache,      \* scanner.probeCache: "none", "pos" or "neg" per port
    probing,    \* ports being dialled by the prober
    pc,         \* where the poll loop is
    res,        \* scanner.Result of the current pass
    autoTodo,   \* ports the https_auto loop still has to decide
    wants,      \* backend of each wanted key, 0 when it is not wanted
    todo,       \* keys the current loop over a map has not reached yet
    cancelled,  \* the signal goroutine cancelled the context
    unseen      \* history: consecutive scans without the source of a key

host == <<foreign, restarting, churn>>
table == <<bound, listeners, backend, missing>>
prober == <<cache, probing>>
plan == <<res, autoTodo, wants, todo>>
vars == <<host, table, prober, plan, pc, cancelled, unseen>>

-----------------------------------------------------------------------------
(* The kernel: which sockets exclude each other.                           *)

AddrFamilies(addr) ==
    IF addr = "dual" THEN {4, 6} ELSE IF addr = "v6only" THEN {6} ELSE {4}
\* net.Listen("tcp", ":P") is one dual-stack socket, listenV6Only is v6 only.
KindFamilies(kind) == IF kind = "https" THEN {4, 6} ELSE {6}

TakenByHost(port, families) ==
    \E s \in foreign : s.port = port /\ AddrFamilies(s.addr) \cap families # {}
TakenByUs(port, families) ==
    \E k \in bound : k.port = port /\ KindFamilies(k.kind) \cap families # {}
Taken(port, families) == TakenByHost(port, families) \/ TakenByUs(port, families)

-----------------------------------------------------------------------------
(* The host: other processes.                                              *)

Coexist(S) ==
    \A s, t \in S : s # t /\ s.port = t.port
                    => AddrFamilies(s.addr) \cap AddrFamilies(t.addr) = {}

HostOpens(s) ==
    /\ s \notin foreign /\ s \notin restarting
    /\ churn < MaxChurn
    /\ ~Taken(s.port, AddrFamilies(s.addr))
    /\ foreign' = foreign \cup {s}
    /\ churn' = churn + 1
    /\ UNCHANGED <<restarting, table, prober, plan, pc, cancelled, unseen>>

HostCloses(s) ==
    /\ s \in foreign
    /\ churn < MaxChurn
    /\ foreign' = foreign \ {s}
    /\ restarting' \in {restarting} \cup
                       (IF s \in Neighbours THEN {restarting \cup {s}} ELSE {})
    /\ churn' = churn + 1
    /\ UNCHANGED <<table, prober, plan, pc, cancelled, unseen>>

HostReopens(s) ==
    /\ s \in restarting
    /\ ~Taken(s.port, AddrFamilies(s.addr))
    /\ foreign' = foreign \cup {s}
    /\ restarting' = restarting \ {s}
    /\ UNCHANGED <<churn, table, prober, plan, pc, cancelled, unseen>>

-----------------------------------------------------------------------------
(* The poll loop: ticker, scan, pre-pass.                                  *)

NoScan == [v4 |-> {}, v6 |-> {}, v6o |-> {}]
NoWants == [k \in Keys |-> 0]
Listening(r) == r.v4 \cup r.v6

ForeignOn(addrs) == {s.port : s \in {t \in foreign : t.addr \in addrs}}

\* isOurListenerPortLocked and isOurListener
OurPort(p) == \E kind \in Kinds : listeners[[kind |-> kind, port |-> p]] = "active"
OurListener(k) == listeners[k] = "active"

\* The explicit rule of an https port, as the set that holds it or nothing.
RuleOf(t) == {r \in HTTPSRules : r.https = t}
ExplicitKeys == {k \in Keys : k.kind = "https" /\ RuleOf(k.port) # {}}

\* The port whose disappearance makes k a listener without a backend, and
\* whether a scan shows it: a relay needs 0.0.0.0, https any wildcard.
Source(k) == IF k.kind = "relay" THEN k.port
             ELSE IF RuleOf(k.port) # {} THEN (CHOOSE r \in RuleOf(k.port) : TRUE).http
             ELSE k.port - HTTPSOffset
Shows(r, k) == IF k.kind = "relay" THEN k.port \in r.v4 ELSE Source(k) \in Listening(r)

\* Ticker (or the first pass) and the /proc/net/tcp half of the scan.
ScanTcp ==
    /\ pc = "idle"
    /\ res' = [NoScan EXCEPT !.v4 = ForeignOn({"v4any"})]
    /\ pc' = "tcp6"
    /\ UNCHANGED <<host, table, prober, autoTodo, wants, todo, cancelled, unseen>>

\* The /proc/net/tcp6 half. Our own sockets appear in it; they are recognised
\* by inode, unless listing /proc/self/fd failed and left the inode set empty.
ScanTcp6 ==
    /\ pc = "tcp6"
    /\ LET others == ForeignOn({"dual", "v6only"})
           ours == {k.port : k \in bound}
       IN \E mistaken \in {{}} \cup (IF FlakySelfFds THEN {ours} ELSE {}) :
            res' = [v4 |-> res.v4, v6 |-> others \cup ours, v6o |-> others \cup mistaken]
    /\ unseen' = [k \in Keys |-> IF Shows(res', k) THEN 0
                                 ELSE IF unseen[k] < GracePolls THEN unseen[k] + 1
                                 ELSE GracePolls]
    /\ pc' = "prepass"
    /\ UNCHANGED <<host, table, prober, autoTodo, wants, todo, cancelled>>

\* Scan returned an error: the pass is skipped and the table kept.
ScanFails ==
    /\ pc = "tcp6"
    /\ res' = NoScan
    /\ pc' = "idle"
    /\ UNCHANGED <<host, table, prober, autoTodo, wants, todo, cancelled, unseen>>

\* First lock: collect candidates. CleanProbeCache then forgets every other
\* port, and ProbePorts dials those without a fresh entry, outside the lock.
Candidates == {p \in Listening(res) : ~OurPort(p) /\ p \notin ExcludePorts}

Prepass ==
    /\ pc = "prepass"
    /\ IF HTTPSAuto
       THEN /\ cache' = [p \in Ports |-> IF p \in Candidates THEN cache[p] ELSE "none"]
            /\ probing' = {p \in Candidates : cache[p] = "none"}
       ELSE UNCHANGED prober
    /\ pc' = "probe"
    /\ UNCHANGED <<host, table, plan, cancelled, unseen>>

\* IsHTTPService dials 127.0.0.1, then ::1; no listener of ours passes it.
SpeaksHTTP(p) == p \in HTTPServices /\ \E s \in foreign : s.port = p

ProbeAnswers(p) ==
    /\ p \in probing
    /\ probing' = probing \ {p}
    /\ \E seen \in {TRUE, ~FlakyProbes} :
         cache' = [cache EXCEPT ![p] = IF seen /\ SpeaksHTTP(p) THEN "pos" ELSE "neg"]
    /\ UNCHANGED <<host, table, plan, pc, cancelled, unseen>>

\* A TTL (15s negative, 5m positive) runs out. An entry that expires after the
\* lock was taken is one that expired just before: it is read once under it.
CacheExpires(p) ==
    /\ pc \in {"idle", "probe"} /\ p \notin probing
    /\ cache[p] # "none"
    /\ cache' = [cache EXCEPT ![p] = "none"]
    /\ UNCHANGED <<host, table, probing, plan, pc, cancelled, unseen>>

-----------------------------------------------------------------------------
(* Reconcile under the lock: what is wanted.                               *)

ExplicitWants ==
    [k \in Keys |-> IF k \in ExplicitKeys /\ Shows(res, k) THEN Source(k) ELSE 0]

\* Mutant: ports of our own listeners are not skipped.
AutoPortsOurs(explicit) ==
    {p \in Listening(res) :
        /\ p \notin ExcludePorts /\ p \in HTTPSAllow
        /\ \A r \in HTTPSRules : r.http # p
        /\ p + HTTPSOffset \in Ports \ ExcludePorts
        /\ OurPort(p + HTTPSOffset) => OurListener(HTTPSKey(p + HTTPSOffset))
        /\ explicit[HTTPSKey(p + HTTPSOffset)] = 0}

\* Ports the https_auto loop hands to ProbeHTTP, with every skip before it.
AutoPorts(explicit) ==
    {p \in Listening(res) :
        /\ OurPort(p) => OurListener(RelayKey(p))
        /\ p \notin ExcludePorts /\ p \in HTTPSAllow
        /\ \A r \in HTTPSRules : r.http # p
        /\ p + HTTPSOffset \in Ports \ ExcludePorts
        /\ OurPort(p + HTTPSOffset) => OurListener(HTTPSKey(p + HTTPSOffset))
        /\ explicit[HTTPSKey(p + HTTPSOffset)] = 0}

TakeLock ==
    /\ pc = "probe" /\ probing = {}
    /\ wants' = ExplicitWants
    /\ autoTodo' = IF HTTPSAuto THEN AutoPorts(ExplicitWants) ELSE {}
    /\ pc' = "auto"
    /\ UNCHANGED <<host, table, prober, res, todo, cancelled, unseen>>

\* ProbeHTTP(port) with no fresh entry dials here, with the lock held.
AutoDials(p) ==
    /\ pc = "auto" /\ p \in autoTodo /\ probing = {}
    /\ cache[p] = "none"
    /\ probing' = {p}
    /\ UNCHANGED <<host, table, cache, plan, pc, cancelled, unseen>>

\* Mutant: the offset is left out.
AutoDecidesSamePort(p) ==
    /\ pc = "auto" /\ p \in autoTodo /\ probing = {}
    /\ cache[p] # "none"
    /\ wants' = IF cache[p] = "pos" THEN [wants EXCEPT ![HTTPSKey(p)] = p] ELSE wants
    /\ autoTodo' = autoTodo \ {p}
    /\ UNCHANGED <<host, table, prober, res, todo, pc, cancelled, unseen>>

AutoDecides(p) ==
    /\ pc = "auto" /\ p \in autoTodo /\ probing = {}
    /\ cache[p] # "none"
    /\ wants' = IF cache[p] = "pos"
                THEN [wants EXCEPT ![HTTPSKey(p + HTTPSOffset)] = p] ELSE wants
    /\ autoTodo' = autoTodo \ {p}
    /\ UNCHANGED <<host, table, prober, res, todo, pc, cancelled, unseen>>

\* Mutant: any wildcard on p counts as a reason to relay it, our own included.
RelayWantedByAny(p) ==
    /\ RelayAuto
    /\ p \in Listening(res) /\ p \notin res.v6o
    /\ p \notin ExcludePorts /\ p \in RelayAllow
    /\ OurPort(p) => OurListener(RelayKey(p))

\* Mutant: the allow list is not consulted.
RelayWantedUnlisted(p) ==
    /\ RelayAuto
    /\ p \in res.v4 /\ p \notin res.v6o
    /\ p \notin ExcludePorts
    /\ OurPort(p) => OurListener(RelayKey(p))

RelayWanted(p) ==
    /\ RelayAuto
    /\ p \in res.v4 /\ p \notin res.v6o
    /\ p \notin ExcludePorts /\ p \in RelayAllow
    /\ OurPort(p) => OurListener(RelayKey(p))

WantRelays ==
    /\ pc = "auto" /\ autoTodo = {}
    /\ wants' = [k \in Keys |-> IF k.kind = "relay" /\ RelayWanted(k.port)
                                THEN k.port ELSE wants[k]]
    /\ todo' = {k \in Keys : wants'[k] # 0 /\ listeners[k] = "none"}
    /\ pc' = "start"
    /\ UNCHANGED <<host, table, prober, res, autoTodo, cancelled, unseen>>

-----------------------------------------------------------------------------
(* Reconcile under the lock: start, maintain, collect.                     *)

CanBind(k) == ~Taken(k.port, KindFamilies(k.kind))

\* tryListen succeeded: the socket is ours and the entry replaces any other.
Opens(k) ==
    /\ CanBind(k)
    /\ bound' = bound \cup {k}
    /\ listeners' = [listeners EXCEPT ![k] = "active"]
    /\ backend' = [backend EXCEPT ![k] = wants[k]]
    /\ missing' = [missing EXCEPT ![k] = 0]

BindFails(k) == FlakyBinds \/ ~CanBind(k)

\* stopListener: the socket is closed first, draining follows.
Closes(k) == bound' = bound \ {k}

\* Mutant: delete(s.missing, k) forgotten.
ForgetsListenerOnly(k) ==
    /\ listeners' = [listeners EXCEPT ![k] = "none"]
    /\ backend' = [backend EXCEPT ![k] = 0]
    /\ UNCHANGED missing

Forgets(k) ==
    /\ listeners' = [listeners EXCEPT ![k] = "none"]
    /\ backend' = [backend EXCEPT ![k] = 0]
    /\ missing' = [missing EXCEPT ![k] = 0]

Start(k) ==
    /\ pc = "start" /\ k \in todo
    /\ \/ Opens(k)
       \/ /\ BindFails(k)
          /\ listeners' = [listeners EXCEPT ![k] = "conflict"]
          /\ UNCHANGED <<bound, backend, missing>>
    /\ todo' = todo \ {k}
    /\ UNCHANGED <<host, prober, res, autoTodo, wants, pc, cancelled, unseen>>

BeginMaintain ==
    /\ pc = "start" /\ todo = {}
    /\ todo' = {k \in Keys : listeners[k] # "none"}
    /\ pc' = "maintain"
    /\ UNCHANGED <<host, table, prober, res, autoTodo, wants, cancelled, unseen>>

Reaches(k) ==
    /\ pc = "maintain" /\ k \in todo
    /\ todo' = todo \ {k}
    /\ UNCHANGED <<host, prober, res, autoTodo, wants, pc, cancelled, unseen>>

\* Mutant: no polite yield, a native listener only stops being wanted.
YieldsNever(k) == FALSE

Yields(k) == k.kind = "relay" /\ k.port \in res.v6o

\* Mutant: the entry is deleted, the socket stays open.
HandoverLeaks(k) == Reaches(k) /\ Yields(k) /\ Forgets(k) /\ UNCHANGED bound

\* Native dual stack seen: the relay gives way whatever else holds.
Handover(k) == Reaches(k) /\ Yields(k) /\ Closes(k) /\ Forgets(k)

DropConflict(k) ==
    /\ Reaches(k) /\ ~Yields(k)
    /\ wants[k] = 0 /\ listeners[k] = "conflict"
    /\ Forgets(k) /\ UNCHANGED bound

\* Mutant: recycled one poll too early.
MissEarly(k) ==
    /\ Reaches(k) /\ ~Yields(k)
    /\ wants[k] = 0 /\ listeners[k] = "active"
    /\ IF missing[k] + 2 >= GracePolls
       THEN Closes(k) /\ Forgets(k)
       ELSE /\ missing' = [missing EXCEPT ![k] = missing[k] + 1]
            /\ UNCHANGED <<bound, listeners, backend>>

\* Mutant: the counter is not advanced.
MissUncounted(k) ==
    /\ Reaches(k) /\ ~Yields(k)
    /\ wants[k] = 0 /\ listeners[k] = "active"
    /\ UNCHANGED table

\* Not wanted any more: counted, and recycled at GracePolls.
Miss(k) ==
    /\ Reaches(k) /\ ~Yields(k)
    /\ wants[k] = 0 /\ listeners[k] = "active"
    /\ IF missing[k] + 1 >= GracePolls
       THEN Closes(k) /\ Forgets(k)
       ELSE /\ missing' = [missing EXCEPT ![k] = missing[k] + 1]
            /\ UNCHANGED <<bound, listeners, backend>>

\* Mutant: a conflict is kept but never tried again.
RetryNever(k) ==
    /\ Reaches(k) /\ ~Yields(k)
    /\ wants[k] # 0 /\ listeners[k] = "conflict"
    /\ UNCHANGED table

RetryConflict(k) ==
    /\ Reaches(k) /\ ~Yields(k)
    /\ wants[k] # 0 /\ listeners[k] = "conflict"
    /\ Opens(k) \/ (BindFails(k) /\ UNCHANGED table)

\* Mutant: a wanted listener keeps the misses it had.
KeepMisses(k) ==
    /\ Reaches(k) /\ ~Yields(k)
    /\ wants[k] # 0 /\ listeners[k] = "active"
    /\ UNCHANGED table

Keep(k) ==
    /\ Reaches(k) /\ ~Yields(k)
    /\ wants[k] # 0 /\ listeners[k] = "active"
    /\ missing' = [missing EXCEPT ![k] = 0]
    /\ UNCHANGED <<bound, listeners, backend>>

\* Reconcile returns. Its locals are cleared, which the code need not do.
Unlock ==
    /\ pc = "maintain" /\ todo = {}
    /\ res' = NoScan /\ wants' = NoWants
    /\ pc' = "idle"
    /\ UNCHANGED <<host, table, prober, autoTodo, todo, cancelled, unseen>>

-----------------------------------------------------------------------------
(* Termination.                                                            *)

Signal ==
    /\ ~cancelled
    /\ cancelled' = TRUE
    /\ UNCHANGED <<host, table, prober, plan, pc, unseen>>

\* Mutant: the maps are emptied before the snapshot is taken.
ShutdownClearsFirst ==
    /\ pc = "idle" /\ cancelled
    /\ todo' = {}
    /\ listeners' = [k \in Keys |-> "none"]
    /\ backend' = [k \in Keys |-> 0]
    /\ missing' = [k \in Keys |-> 0]
    /\ pc' = "stop"
    /\ UNCHANGED <<host, bound, prober, res, autoTodo, wants, cancelled, unseen>>

\* Service.Shutdown: empty the maps under the lock, stop the snapshot after.
Shutdown ==
    /\ pc = "idle" /\ cancelled
    /\ todo' = {k \in Keys : listeners[k] # "none"}
    /\ listeners' = [k \in Keys |-> "none"]
    /\ backend' = [k \in Keys |-> 0]
    /\ missing' = [k \in Keys |-> 0]
    /\ pc' = "stop"
    /\ UNCHANGED <<host, bound, prober, res, autoTodo, wants, cancelled, unseen>>

StopOne(k) ==
    /\ pc = "stop" /\ k \in todo
    /\ Closes(k)
    /\ todo' = todo \ {k}
    /\ UNCHANGED <<host, listeners, backend, missing, prober, res, autoTodo,
                   wants, pc, cancelled, unseen>>

Exit ==
    /\ pc = "stop" /\ todo = {}
    /\ pc' = "exited"
    /\ UNCHANGED <<host, table, prober, plan, cancelled, unseen>>

Exited == pc = "exited" /\ UNCHANGED vars

-----------------------------------------------------------------------------
Init ==
    /\ foreign \in {S \in SUBSET HostSockets : Coexist(S)}
    /\ restarting = {} /\ churn = 0
    /\ bound = {}
    /\ listeners = [k \in Keys |-> "none"]
    /\ backend = [k \in Keys |-> 0]
    /\ missing = [k \in Keys |-> 0]
    /\ cache = [p \in Ports |-> "none"] /\ probing = {}
    /\ pc = "idle"
    /\ res = NoScan /\ autoTodo = {} /\ wants = NoWants /\ todo = {}
    /\ cancelled = FALSE
    /\ unseen = [k \in Keys |-> 0]

HostMoves == \E s \in HostSockets : HostOpens(s) \/ HostCloses(s) \/ HostReopens(s)

MaintainOne(k) ==
    \/ Handover(k) \/ DropConflict(k) \/ Miss(k) \/ RetryConflict(k) \/ Keep(k)

\* What the main goroutine does, or waits for with a bounded timeout.
Daemon ==
    \/ ScanTcp \/ ScanTcp6 \/ Prepass \/ TakeLock
    \/ \E p \in Ports : ProbeAnswers(p) \/ AutoDials(p) \/ AutoDecides(p)
    \/ WantRelays \/ BeginMaintain \/ Unlock \/ Exit
    \/ \E k \in Keys : Start(k) \/ MaintainOne(k) \/ StopOne(k)

Next ==
    \/ Daemon \/ ScanFails \/ Shutdown \/ Exited
    \/ HostMoves \/ Signal
    \/ \E p \in Ports : CacheExpires(p)

Spec == Init /\ [][Next]_vars

\* The main goroutine is never starved; select picks at random among ready
\* channels, so ctx.Done wins eventually; a scan that can succeed does not
\* fail for ever; a restarting neighbour keeps retrying its bind; a cache entry
\* that is not cleaned outlives only so many polls.
Fairness ==
    /\ WF_vars(Daemon)
    /\ SF_vars(ScanTcp6)
    /\ SF_vars(Shutdown)
    /\ \A s \in Neighbours : SF_vars(HostReopens(s))
    /\ \A p \in Ports : SF_vars(CacheExpires(p))

FairSpec == Spec /\ Fairness

-----------------------------------------------------------------------------
(* Safety.                                                                 *)

Steps == {"idle", "tcp6", "prepass", "probe", "auto", "start", "maintain",
          "stop", "exited"}

\* Every variable stays in its domain; an inactive entry has no counter.
TypeOK ==
    /\ foreign \subseteq HostSockets /\ restarting \subseteq HostSockets
    /\ churn \in 0..MaxChurn
    /\ bound \subseteq Keys
    /\ listeners \in [Keys -> {"none", "active", "conflict"}]
    /\ backend \in [Keys -> 0..MaxPort]
    /\ missing \in [Keys -> 0..GracePolls]
    /\ cache \in [Ports -> {"none", "pos", "neg"}]
    /\ probing \subseteq Ports
    /\ pc \in Steps
    /\ res \in [v4: SUBSET Ports, v6: SUBSET Ports, v6o: SUBSET Ports]
    /\ autoTodo \subseteq Ports
    /\ wants \in [Keys -> 0..MaxPort]
    /\ todo \subseteq Keys
    /\ cancelled \in BOOLEAN
    /\ \A k \in Keys : listeners[k] = "active" => backend[k] # 0 /\ missing[k] < GracePolls
    /\ \A k \in Keys : listeners[k] # "active" => backend[k] = 0 /\ missing[k] = 0
    /\ unseen \in [Keys -> 0..GracePolls]

\* The sockets the process holds are exactly the active entries, whatever the
\* order of starts, hand-overs, retries and collections; during Shutdown, whose
\* maps are already empty, exactly those it has not stopped yet.
SocketsMatchTable ==
    /\ pc \notin {"stop", "exited"} => bound = {k \in Keys : listeners[k] = "active"}
    /\ pc = "stop" => bound \subseteq todo
    /\ pc = "exited" => bound = {}
    /\ pc \in {"stop", "exited"} => \A k \in Keys : listeners[k] = "none"

\* When Reconcile returns, no relay is left, active or in conflict, on a port
\* where the scan saw a native IPv6 listener (service.go "immediate yield").
PoliteYield ==
    pc = "maintain" /\ todo = {} =>
        \A p \in res.v6o : listeners[RelayKey(p)] = "none" /\ RelayKey(p) \notin bound

\* When Reconcile returns, everything wanted has an entry, wanted active entries
\* carry no missed polls, and a conflict entry is still wanted: whatever order
\* the two map iterations took, and although the second sees the first's work.
TableSettled ==
    pc = "maintain" /\ todo = {} =>
        \A k \in Keys :
            /\ wants[k] # 0 => listeners[k] # "none"
            /\ wants[k] # 0 => missing[k] = 0
            /\ listeners[k] = "conflict" => wants[k] # 0

\* What the configuration must say for an automatic listener k on backend b.
Permitted(k, b) ==
    /\ k.port \notin ExcludePorts
    /\ k.kind = "relay" => RelayAuto /\ k.port \in RelayAllow
    /\ k.kind = "https" => HTTPSAuto /\ b \in HTTPSAllow \ ExcludePorts

\* No automatic listener is held on, or in front of, a port the exclude and allow
\* lists forbid, through conflicts, retries and replaced entries alike.
OnlyPermitted ==
    pc # "stop" => \A k \in bound \ ExplicitKeys : Permitted(k, backend[k])

\* Where the configuration lets listener k forward to: a relay to its own port, an
\* https listener to its rule's backend or to the port HTTPSOffset below.
Right(k, b) ==
    IF k.kind = "relay" THEN b = k.port ELSE b \in {Source(k), k.port - HTTPSOffset}

\* Traffic goes where the configuration sends it, whichever of two wishes for a port
\* came first and however often its bind was retried; and never in a circle through a
\* relay, whose port no other listener of the daemon shares.
ForwardsRight ==
    pc # "stop" =>
        \A k \in bound : /\ Right(k, backend[k])
                         /\ k.kind = "relay" => HTTPSKey(k.port) \notin bound

\* No request goes round in circles through listeners the daemon made up by itself,
\* however stale the scans they were made from: listeners that answer each other's
\* requests, one or many, include one that a rule asked for. (Backends are dialled on
\* 127.0.0.1, where of our sockets only the https ones answer.)
LoopsNeedRules ==
    pc # "stop" =>
        \A S \in SUBSET bound :
            S # {} /\ (\A k \in S : HTTPSKey(backend[k]) \in S) => S \cap ExplicitKeys # {}

\* service.go "Never treat our own non-relay listener ports as new HTTP targets": the
\* daemon never dials an https listener of its own, which would answer from the same
\* process, neither outside the lock nor, with ports a relay already covers, under it.
NeverProbesItself == \A p \in probing : HTTPSKey(p) \notin bound

\* Listeners whose wish depends on the scan alone, not on a probe.
ScanDriven == {k \in Keys : k.kind = "relay"} \cup ExplicitKeys

LacksBackend(k) == unseen[k] >= GracePolls

\* Anti-flap (README grace_polls): outside shutdown and hand-over, a relay or an
\* explicit https listener is closed only after GracePolls consecutive scans
\* that did not show its backend; failed scans do not count.
GraceRespected ==
    [][\A k \in ScanDriven :
         k \in bound /\ k \notin bound' => LacksBackend(k) \/ Yields(k) \/ pc = "stop"]_vars

\* README "consecutive missed scans before a listener is recycled": the same of an
\* automatic upgrade, whose wish also depends on a probe. It does not hold: one
\* probe that times out is remembered for longer than GracePolls polls.
GraceForUpgrades ==
    [][\A k \in Keys \ ScanDriven :
         k \in bound /\ k \notin bound' => LacksBackend(k) \/ pc = "stop"]_vars

\* The table, its two loops and Shutdown implement the life of the listening
\* sockets: however starts, retries, hand-overs and collections interleave, each
\* step opens or closes one socket, or counts one poll against one.
Phase == IF pc = "stop" THEN "down" ELSE IF pc = "exited" THEN "off" ELSE "up"
Life == INSTANCE ListenerLifecycle
        WITH sockets <- bound, misses <- missing, phase <- Phase,
             Yielding <- {k \in Keys : k.kind = "relay"}
ImplementsLifecycle == Life!Spec

\* README "Probing happens outside the service lock": nothing is dialled while
\* Reconcile holds it.
Locked == pc \in {"auto", "start", "maintain"}
ProbesOutsideLock == Locked => probing = {}

\* README "take precedence over https_auto": when Reconcile returns, an explicit
\* rule whose backend was seen is served by its own backend, if it has a socket.
ExplicitPrecedence ==
    pc = "maintain" /\ todo = {} =>
        \A k \in bound \cap ExplicitKeys : Shows(res, k) => backend[k] = Source(k)

-----------------------------------------------------------------------------
(* Liveness.                                                               *)

\* After SIGTERM the daemon exits, and holds no socket when it has.
ShutdownCompletes == cancelled ~> (pc = "exited" /\ bound = {})

BackendUp(k) ==
    \E s \in foreign :
        /\ s.port = backend[k] /\ s.addr # "loop4"
        /\ k.kind = "relay" => s.addr = "v4any"

\* Ports on which a wildcard of another process listens, and the services among them
\* that https_auto upgrades.
Wildcards == ForeignOn({"v4any", "dual", "v6only"})
Upgradable ==
    {p \in Wildcards :
        /\ HTTPSAuto /\ p \in (HTTPServices \cap HTTPSAllow) \ ExcludePorts
        /\ \A r \in HTTPSRules : r.http # p
        /\ p + HTTPSOffset \in Ports \ ExcludePorts}

\* The https port of a rule is also asked for by others than the backend it leads to:
\* the rule's service, an https listener of the daemon on that service's port, or an
\* upgrade of the service below. An entry that is asked for is kept, whoever asks, with
\* the backend it was started for.
KeptForAnother(k) ==
    /\ k \in ExplicitKeys
    /\ \/ Source(k) \in Wildcards
       \/ HTTPSKey(Source(k)) \in bound
       \/ k.port - HTTPSOffset \in Upgradable

\* Once the host is quiet, every socket left has a live backend: each relay, each
\* upgrade, and each https listener of a rule unless somebody else keeps asking for it.
DeadBackendsRecycled == <>[](\A k \in bound : BackendUp(k) \/ KeptForAnother(k))

RelayServed ==
    \A s \in foreign :
        s.addr = "v4any" /\ RelayAuto /\ s.port \in RelayAllow \ ExcludePorts
        => Taken(s.port, {6})

UpgradeServed == \A p \in Upgradable : Taken(p + HTTPSOffset, {4, 6})

RulesServed == \A r \in HTTPSRules : r.http \in Wildcards => Taken(r.https, {4, 6})

\* Once the host is quiet, every v4-only service has its IPv6 side taken, every
\* upgradable HTTP service and every rule whose backend is up its https port:
\* conflicts are retried until the port is free, and nothing wanted is lost.
EventuallyServed ==
    <>[](cancelled \/ (RelayServed /\ UpgradeServed /\ RulesServed))

\* service.go "Never treat our own non-relay listener ports as new HTTP targets":
\* a stale scan may create an https listener in front of another of ours, but it
\* does not last.
SelfProxied(k) == k \in bound \ ExplicitKeys /\ HTTPSKey(backend[k]) \in bound
SelfProxyEnds == \A k \in {HTTPSKey(p) : p \in Ports} : SelfProxied(k) ~> ~SelfProxied(k)

\* service.go "so temporary neighbour restarts don't cause permanent port steal":
\* a process that closes its socket to restart gets its port back.
NeighbourReturns == \A s \in HostSockets : s \in restarting ~> s \in foreign
=============================================================================
