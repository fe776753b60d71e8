------------------------------ MODULE Daemon ------------------------------
(***************************************************************************)
(* The life of the processes of nasconn+: app.Run (internal/app/app.go) of *)
(* daemons that share a configuration file and a status socket, and of     *)
(* status queries, with the file's life in internal/config/config.go and   *)
(* the socket's in internal/ipc. Of a reconcile pass only the interval in  *)
(* which it holds the service's lock is seen; the rest is Reconcile.       *)
(***************************************************************************)
EXTENDS Config

CONSTANTS
    Daemons, Clients,
    Customs,        \* what the operator may put into the file
    NoFile, Torn,   \* the file is missing; it holds a part of the default text
    MaxFaults,      \* bound: crashes and failing system calls
    MaxEdits        \* bound: edits and removals by the operator

Procs == Daemons \cup Clients

ASSUME DaemonAssumption ==
    /\ Daemons \cap (Clients \cup {"none", "stale", "file"}) = {}
    /\ Customs \subseteq Texts
    /\ NoFile # Torn /\ {NoFile, Torn} \cap (Texts \cup {DefaultText}) = {}
    /\ MaxFaults \in Nat /\ MaxEdits \in Nat

VARIABLES
    file, edits,    \* the configuration file
    path,           \* of the socket: its daemon, "stale", "none", or "file" where none can be made
    pc,             \* where a process is
    serve,          \* Server.serve of a daemon, "none" or "failed" without a server
    term,           \* a signal was delivered
    peer, got,      \* of a query: the daemon it is connected to, how it ended
    missed, alone,  \* history: the file was missing, no other daemon ran, since the process started
    faults

config == <<file, edits, missed>>
ipc == <<path, serve, term>>
query == <<peer, got>>
vars == <<file, edits, path, pc, serve, term, peer, got, missed, alone, faults>>

Goto(p, l) == pc' = [pc EXCEPT ![p] = l]
Writing == {"create", "fill", "recreate", "refill"}
Loading == Writing \cup {"stat", "read"}
Asking == {"dial", "queued", "handled"}
Binding == {"lstat", "unlink", "bind"}
Closing == {"stopping", "remove", "join"}
Up == {"idle", "locked"}

\* StartServer gave d a server, whose listening socket is open.
Served(d) == serve[d] \notin {"none", "failed"}
Open(d) == Served(d) /\ pc[d] \in Up \cup {"stopping"}

-----------------------------------------------------------------------------
(* The configuration file. A daemon makes sure that there is one, then     *)
(* both kinds of process load it; without one a query goes on with the     *)
(* default socket path and a daemon ends.                                  *)

Start(p, l) ==
    /\ pc[p] = "off" /\ Goto(p, l)
    /\ missed' = [missed EXCEPT ![p] = file = NoFile /\ l \in Loading]
    /\ IF p \in Daemons
       THEN /\ alone' = [d \in Daemons |-> d = p /\ \A e \in Daemons \ {p} : pc[e] = "off"]
            /\ UNCHANGED got
       ELSE got' = [got EXCEPT ![p] = "nothing"] /\ UNCHANGED alone
    /\ UNCHANGED <<file, edits, ipc, peer, faults>>

\* Mutant: the default is written whether or not there is a file.
EnsureWrites(d) == Start(d, "create")

\* EnsureDefaultConfig: Stat
Ensure(d) == Start(d, IF file = NoFile THEN "create" ELSE "stat")

\* A query starts: with --socket it reads no configuration.
Ask(c) == Start(c, "stat") \/ Start(c, "dial")

Unloaded(p) ==
    /\ Goto(p, IF p \in Daemons THEN "off" ELSE "dial")
    /\ missed' = [missed EXCEPT ![p] = FALSE]
    /\ alone' = [d \in Daemons |-> d # p /\ alone[d]]

Loaded(p) ==
    /\ Goto(p, IF p \in Daemons THEN "lstat" ELSE "dial")
    /\ missed' = [missed EXCEPT ![p] = FALSE] /\ UNCHANGED alone

\* os.WriteFile opens with O_TRUNC, for EnsureDefaultConfig and for LoadConfig.
Create(p) ==
    /\ pc[p] \in {"create", "recreate"}
    /\ file' = Torn
    /\ Goto(p, IF pc[p] = "create" THEN "fill" ELSE "refill")
    /\ UNCHANGED <<edits, missed, ipc, query, alone, faults>>

\* What write(2) leaves, if another process writes or has replaced the file too.
Written(p) ==
    IF file = NoFile THEN {NoFile}
    ELSE IF file = Torn /\ \A q \in Procs \ {p} : pc[q] \notin {"fill", "refill"} THEN {DefaultText}
    ELSE {file, Torn, DefaultText}

Fill(p) ==
    /\ pc[p] \in {"fill", "refill"}
    /\ file' \in Written(p)
    /\ IF pc[p] = "fill" THEN Goto(p, "stat") /\ UNCHANGED <<missed, alone>>
       ELSE Loaded(p)
    /\ UNCHANGED <<edits, ipc, query, faults>>

\* No space, no permission: a Stat, a read or a write fails, and what was truncated
\* stays so. (A daemon whose EnsureDefaultConfig fails before it writes has not begun.)
LoadFails(p) ==
    /\ faults < MaxFaults /\ pc[p] \in Loading
    /\ Unloaded(p) /\ faults' = faults + 1
    /\ UNCHANGED <<file, edits, ipc, query>>

\* LoadConfigFile: Stat
Stat(p) ==
    /\ pc[p] = "stat"
    /\ IF file = NoFile THEN Unloaded(p) ELSE Goto(p, "read") /\ UNCHANGED <<missed, alone>>
    /\ UNCHANGED <<file, edits, ipc, query, faults>>

\* Mutant: the checks are left out.
ReadUnchecked(p) ==
    /\ pc[p] = "read"
    /\ \/ file = NoFile /\ Goto(p, "recreate") /\ UNCHANGED <<missed, alone>>
       \/ file = Torn /\ Unloaded(p)
       \/ file \in Texts /\ Loaded(p)
    /\ UNCHANGED <<file, edits, ipc, query, faults>>

\* LoadConfig: a file that vanished after the Stat is created, also by a query.
Read(p) ==
    /\ pc[p] = "read"
    /\ \/ file = NoFile /\ Goto(p, "recreate") /\ UNCHANGED <<missed, alone>>
       \/ (file = Torn \/ (file \in Texts /\ Refused(file))) /\ Unloaded(p)
       \/ file \in Texts /\ ~Refused(file) /\ Loaded(p)
    /\ UNCHANGED <<file, edits, ipc, query, faults>>

\* The operator replaces or removes the file.
Edit ==
    /\ edits < MaxEdits /\ edits' = edits + 1
    /\ file' \in (Customs \cup {NoFile}) \ {file}
    /\ missed' = [p \in Procs |-> missed[p] \/ (file' = NoFile /\ pc[p] \in Loading)]
    /\ UNCHANGED <<pc, ipc, query, alone, faults>>

-----------------------------------------------------------------------------
(* The status socket and the poll loop of a daemon.                        *)

\* Mutant: what a crash left behind is not removed.
LstatKeeps(d) ==
    /\ pc[d] = "lstat"
    /\ Goto(d, IF path = "file" THEN "idle" ELSE "bind")
    /\ UNCHANGED <<config, ipc, query, alone, faults>>

\* StartServer: a socket of whoever is removed, anything else is left and the daemon
\* does without.
Lstat(d) ==
    /\ pc[d] = "lstat"
    /\ \/ path = "none" /\ Goto(d, "bind")
       \/ path = "file" /\ Goto(d, "idle")
       \/ path \notin {"none", "file"} /\ Goto(d, "unlink")
    /\ UNCHANGED <<config, ipc, query, alone, faults>>

Unlink(d) ==
    /\ pc[d] = "unlink" /\ Goto(d, "bind")
    /\ path' = "none"
    /\ UNCHANGED <<config, serve, term, query, alone, faults>>

\* net.Listen; the address is in use if another daemon was faster.
Bind(d) ==
    /\ pc[d] = "bind" /\ Goto(d, "idle")
    /\ IF path = "none"
       THEN path' = d /\ serve' = [serve EXCEPT ![d] = "accept"]
       ELSE UNCHANGED <<path, serve>>
    /\ UNCHANGED <<config, term, query, alone, faults>>

\* MkdirAll, Lstat, Remove or Listen fails for another reason than what is on the path:
\* StartServer returns the error, and the daemon does without.
ServerFails(d) ==
    /\ faults < MaxFaults /\ faults' = faults + 1
    /\ pc[d] \in Binding /\ Goto(d, "idle")
    /\ serve' = [serve EXCEPT ![d] = "failed"]
    /\ UNCHANGED <<config, path, term, query, alone>>

\* runReconcile takes the lock GetMetricsSnapshot needs.
TakeLock(d) ==
    /\ pc[d] = "idle" /\ Goto(d, "locked")
    /\ UNCHANGED <<config, ipc, query, alone, faults>>

DropLock(d) ==
    /\ pc[d] = "locked" /\ Goto(d, "idle")
    /\ UNCHANGED <<config, ipc, query, alone, faults>>

\* SIGTERM or SIGINT after signal.Notify; before it the signal is a Crash.
Signal(d) ==
    /\ pc[d] \in Up /\ ~term[d]
    /\ term' = [term EXCEPT ![d] = TRUE]
    /\ UNCHANGED <<config, pc, path, serve, query, alone, faults>>

\* The select of the poll loop takes ctx.Done(), and Service.Shutdown runs.
Stop(d) ==
    /\ pc[d] = "idle" /\ term[d] /\ Goto(d, "stopping")
    /\ UNCHANGED <<config, ipc, query, alone, faults>>

\* Process d goes to l; the queries of cs read the end of their connections.
Disconnects(d, l, cs) ==
    /\ pc' = [p \in Procs |-> IF p = d THEN l ELSE IF p \in cs THEN "off" ELSE pc[p]]
    /\ peer' = [c \in Clients |-> IF c \in cs THEN "none" ELSE peer[c]]

Queued(d) == {c \in Clients : pc[c] = "queued" /\ peer[c] = d}

\* Mutant: Close waits for serve before it closes the listener.
CloseListenerAfterServe(d) ==
    /\ pc[d] = "stopping" /\ serve[d] = "returned"
    /\ Disconnects(d, "remove", Queued(d))
    /\ path' = "none"
    /\ UNCHANGED <<config, serve, term, got, alone, faults>>

\* Mutant: the path is left to the second removal.
CloseListenerKeepsPath(d) ==
    /\ pc[d] = "stopping" /\ Served(d)
    /\ Disconnects(d, "remove", Queued(d))
    /\ UNCHANGED <<config, ipc, got, alone, faults>>

\* Server.Close: the listener unlinks its path, whosever socket is there by now, and
\* closes with the connections in its queue, ...
CloseListener(d) ==
    /\ pc[d] = "stopping" /\ Served(d)
    /\ Disconnects(d, "remove", Queued(d))
    /\ path' = "none"
    /\ UNCHANGED <<config, serve, term, got, alone, faults>>

\* ... and Close does once more, ...
RemovePath(d) ==
    /\ pc[d] = "remove" /\ Goto(d, "join")
    /\ path' = "none"
    /\ UNCHANGED <<config, serve, term, query, alone, faults>>

\* The process ends: its descriptors are closed, its name on the path may stay.
Off(d) ==
    /\ Disconnects(d, "off", {c \in Clients : peer[c] = d})
    /\ serve' = [serve EXCEPT ![d] = "none"] /\ term' = [term EXCEPT ![d] = FALSE]
    /\ alone' = [alone EXCEPT ![d] = FALSE] /\ missed' = [missed EXCEPT ![d] = FALSE]

\* ... then waits for serve. Without a server there is nothing to close.
Exit(d) ==
    /\ \/ pc[d] = "stopping" /\ ~Served(d)
       \/ pc[d] = "join" /\ serve[d] = "returned"
    /\ Off(d)
    /\ UNCHANGED <<file, edits, path, got, faults>>

Crash(d) ==
    /\ faults < MaxFaults /\ faults' = faults + 1
    /\ pc[d] # "off" /\ Off(d)
    /\ path' = IF path = d THEN "stale" ELSE path
    /\ UNCHANGED <<file, edits, got>>

-----------------------------------------------------------------------------
(* Server.serve, Server.handle and QueryStatus.                            *)

\* Mutant: the loop ends with its first failing accept.
AcceptFailsForGood(d) ==
    /\ serve[d] = "accept" /\ Open(d)
    /\ serve' = [serve EXCEPT ![d] = "returned"]
    /\ UNCHANGED <<config, pc, path, term, query, alone, faults>>

\* Out of descriptors: sleep and try again.
AcceptFails(d) ==
    /\ serve[d] = "accept" /\ Open(d)
    /\ serve' = [serve EXCEPT ![d] = "sleep"]
    /\ UNCHANGED <<config, pc, path, term, query, alone, faults>>

Wake(d) ==
    /\ serve[d] = "sleep"
    /\ serve' = [serve EXCEPT ![d] = "accept"]
    /\ UNCHANGED <<config, pc, path, term, query, alone, faults>>

\* Accept on the closed listener
ServeReturns(d) ==
    /\ serve[d] = "accept" /\ ~Open(d)
    /\ serve' = [serve EXCEPT ![d] = "returned"]
    /\ UNCHANGED <<config, pc, path, term, query, alone, faults>>

Finish(c, how) ==
    /\ Goto(c, "off")
    /\ got' = [got EXCEPT ![c] = how] /\ peer' = [peer EXCEPT ![c] = "none"]

Dial(c) ==
    /\ pc[c] = "dial"
    /\ IF path \in Daemons /\ Open(path)
       THEN Goto(c, "queued") /\ peer' = [peer EXCEPT ![c] = path] /\ UNCHANGED got
       ELSE Finish(c, "nothing")
    /\ UNCHANGED <<config, ipc, alone, faults>>

Accept(c) ==
    /\ pc[c] = "queued" /\ serve[peer[c]] = "accept"
    /\ Goto(c, "handled")
    /\ UNCHANGED <<config, ipc, query, alone, faults>>

Answer(c) ==
    /\ pc[c] = "handled" /\ pc[peer[c]] # "locked"
    /\ Finish(c, "report")
    /\ UNCHANGED <<config, ipc, alone, faults>>

\* The deadline handle set passes, say while the provider waits for the lock, or that of
\* QueryStatus, say while serve sleeps.
Expire(c) ==
    /\ pc[c] \in {"queued", "handled"}
    /\ Finish(c, "late")
    /\ UNCHANGED <<config, ipc, alone, faults>>

-----------------------------------------------------------------------------
(* The specification.                                                      *)

Init ==
    /\ file \in Customs \cup {NoFile} /\ edits = 0 /\ faults = 0
    /\ path \in {"none", "stale", "file"}
    /\ pc = [p \in Procs |-> "off"]
    /\ serve = [d \in Daemons |-> "none"]
    /\ term = [d \in Daemons |-> FALSE] /\ alone = [d \in Daemons |-> FALSE]
    /\ peer = [c \in Clients |-> "none"]
    /\ got = [c \in Clients |-> "nothing"] /\ missed = [p \in Procs |-> FALSE]

Loads(p) == Create(p) \/ Fill(p) \/ LoadFails(p) \/ Stat(p) \/ Read(p)
Runs(d) ==
    \/ Ensure(d) \/ Lstat(d) \/ Unlink(d) \/ Bind(d) \/ ServerFails(d)
    \/ TakeLock(d) \/ DropLock(d) \/ Signal(d) \/ Stop(d) \/ CloseListener(d)
    \/ RemovePath(d) \/ Exit(d) \/ Crash(d)
Serves(d) == AcceptFails(d) \/ Wake(d) \/ ServeReturns(d)
Queries(c) == Ask(c) \/ Dial(c) \/ Accept(c) \/ Answer(c) \/ Expire(c)

Next ==
    \/ \E p \in Procs : Loads(p)
    \/ \E d \in Daemons : Runs(d) \/ Serves(d)
    \/ \E c \in Clients : Queries(c)
    \/ Edit

Spec == Init /\ [][Next]_vars

\* Goroutines run on; select and the scheduler are fair between what is ready.
Fairness ==
    /\ \A d \in Daemons :
        /\ WF_vars(Wake(d)) /\ WF_vars(ServeReturns(d)) /\ SF_vars(Stop(d)) /\ WF_vars(DropLock(d))
        /\ WF_vars(CloseListener(d) \/ RemovePath(d) \/ Exit(d))
    /\ \A c \in Clients :
        WF_vars(Dial(c)) /\ SF_vars(Accept(c)) /\ SF_vars(Answer(c))

FairSpec == Spec /\ Fairness

-----------------------------------------------------------------------------
(* Properties.                                                             *)

TypeOK ==
    /\ file \in Customs \cup {NoFile, Torn, DefaultText}
    /\ edits \in 0..MaxEdits /\ faults \in 0..MaxFaults
    /\ path \in Daemons \cup {"none", "stale", "file"}
    /\ pc \in [Procs -> Loading \cup Binding \cup Up \cup Closing \cup Asking \cup {"off"}]
    /\ \A d \in Daemons : pc[d] \notin Asking
    /\ serve \in [Daemons -> {"none", "failed", "accept", "sleep", "returned"}]
    /\ \A d \in Daemons : /\ serve[d] # "none" => pc[d] \in Up \cup Closing
                          /\ serve[d] = "returned" => ~Open(d)
    /\ peer \in [Clients -> Daemons \cup {"none"}]
    /\ \A c \in Clients : pc[c] \in {"queued", "handled"} <=> peer[c] # "none"
    /\ got \in [Clients -> {"nothing", "report", "late"}]
    /\ term \in [Daemons -> BOOLEAN] /\ alone \in [Daemons -> BOOLEAN]
    /\ missed \in [Procs -> BOOLEAN]

\* Whatever was edited, created by another process or cut short meanwhile, a daemon
\* goes into service with values in range, rules Reconcile can keep apart and the deny
\* list and whitelists its operator asked for.
LoadsSound == [][\A d \in Daemons : pc[d] = "read" /\ pc'[d] = "lstat" => ConfigSound(file)]_vars

\* A daemon no other ran beside is the one a query reaches, whatever an earlier
\* daemon's crash left on the path, unless a system call failed in its StartServer.
SoleDaemonReachable ==
    \A d \in Daemons : pc[d] \in Up /\ alone[d] /\ serve[d] # "failed" => path \in {d, "file"}

\* The path names an open listener, or what a crash left, or nothing: no daemon closes
\* its listener while the path still leads there, and none steals a path without serving.
PathIsServed == path \in Daemons => Open(path)

\* app.go "Ensure is the only writer", "a status query must never create config
\* files": a process writes over the operator's text only if, since it started, it
\* could have found the file missing.
OperatorTextKept ==
    [][(file \in Customs /\ file' \notin Customs \cup {NoFile}) =>
        (\E p \in Procs : missed[p] /\ pc[p] \in Writing)]_vars

\* A daemon that was signalled ends, also while accepts fail and queries wait.
ShutdownEnds == \A d \in Daemons : term[d] ~> pc[d] = "off"

\* A query made while one daemon serves alone gets its report, unless the daemon is
\* stopped or joined by another, or a deadline passes first.
StatusAnswers ==
    LET Sole == \E d \in Daemons :
                    pc[d] \in Up /\ alone[d] /\ serve[d] # "failed" /\ path # "file"
    IN \A c \in Clients : pc[c] = "dial" /\ Sole ~> got[c] # "nothing" \/ ~Sole

=============================================================================
