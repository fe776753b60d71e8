-------------------------- MODULE RelayListener --------------------------
(***************************************************************************)
(* One relay listener at work: limitListener and its connections           *)
(* (internal/proxy/listener.go), acceptRelayLoop and countingConn          *)
(* (internal/proxy/service.go), the bridge HandleConn makes between a      *)
(* client and the backend, and stopListener racing with them.              *)
(*                                                                         *)
(* Threads: the accept loop; per connection its handler, the two copying   *)
(* goroutines of tcpproxy and, in counting mode, several closers; and the  *)
(* stopper. Clients, the backend and the kernel are the environment.       *)
(* Byte counters, errorCount and the log of dial errors are left out.      *)
(***************************************************************************)
EXTENDS Integers, FiniteSets

CONSTANTS
    Conns,      \* client connections, each made once
    MaxConns    \* cfg.MaxConnsPerListener

ASSUME ListenerAssumption ==
    /\ IsFiniteSet(Conns)
    /\ MaxConns \in Nat \ {0}

\* A net.Conn stands any number of Close calls, at once or one after the other.
Closers == {1, 2}

\* The ends of a bridge, and its copies: up goes from the client to the backend.
Ends == {"client", "backend"}
Copies == {"up", "down"}
From(d) == IF d = "up" THEN "client" ELSE "backend"
To(d) == IF d = "up" THEN "backend" ELSE "client"

VARIABLES
    zeroCopy,   \* cfg.Relay.IszeroCopy(), for the life of the process
    sem,        \* tokens in limitListener.sem
    done,       \* limitListener.done is closed
    lnOpen,     \* the kernel socket is open
    stop,       \* listenerState.stop is closed
    stopper,    \* where stopListener is
    acc,        \* where the accept loop is
    cur,        \* connection Accept has just returned, as a set
    err,        \* error of the last Accept: "none", "closed" or "other"
    conn,       \* stage of each connection
    rawOpen,    \* connections whose accepted socket is open
    released,   \* connections whose sync.Once has run
    closed,     \* countingConn.closed
    closer,     \* where each closer of a connection is
    active,     \* listenerState.activeConn
    total,      \* listenerState.totalConn
    bridge,     \* where HandleConn is with a connection
    copies,     \* copies of a connection that are running
    ended,      \* ends of a connection that have finished sending
    told        \* ends that were sent the end of the stream

listener == <<sem, done, lnOpen>>
stopping == <<stop, stopper>>
loop == <<acc, cur, err>>
sockets == <<conn, rawOpen, released, closed, closer>>
metrics == <<active, total>>
tunnel == <<zeroCopy, bridge, copies, ended, told>>
vars == <<listener, stopping, loop, sockets, metrics, tunnel>>

-----------------------------------------------------------------------------
(* Clients.                                                                *)

Connect(c) ==
    /\ conn[c] = "new" /\ lnOpen
    /\ conn' = [conn EXCEPT ![c] = "queued"]
    /\ UNCHANGED <<listener, stopping, loop, rawOpen, released, closed, closer, metrics, tunnel>>

-----------------------------------------------------------------------------
(* limitListener.Accept, called by the accept loop.                        *)

\* Mutant: acquire waits for a slot only.
AcquireDeaf == FALSE /\ UNCHANGED vars

\* The two arms of the select in acquire; both may be ready.
AcquireClosed ==
    /\ acc = "acquire" /\ done
    /\ acc' = "failed" /\ err' = "closed"
    /\ UNCHANGED <<listener, stopping, cur, sockets, metrics, tunnel>>

\* Mutant: the ceiling is off by one.
AcquireOver ==
    /\ acc = "acquire" /\ sem <= MaxConns
    /\ sem' = sem + 1
    /\ acc' = "accept"
    /\ UNCHANGED <<done, lnOpen, stopping, cur, err, sockets, metrics, tunnel>>

AcquireSlot ==
    /\ acc = "acquire" /\ sem < MaxConns
    /\ sem' = sem + 1
    /\ acc' = "accept"
    /\ UNCHANGED <<done, lnOpen, stopping, cur, err, sockets, metrics, tunnel>>

AcceptReturns(c) ==
    /\ acc = "accept" /\ lnOpen /\ conn[c] = "queued"
    /\ conn' = [conn EXCEPT ![c] = "accepted"]
    /\ rawOpen' = rawOpen \cup {c}
    /\ cur' = {c}
    /\ acc' = "deliver"
    /\ UNCHANGED <<listener, stopping, err, released, closed, closer, metrics, tunnel>>

\* Mutant: the slot taken for the failed accept is not given back.
AcceptFailsKeepingSlot ==
    /\ acc = "accept"
    /\ err' = IF lnOpen THEN "other" ELSE "closed"
    /\ acc' = "normalise"
    /\ UNCHANGED <<sem, done, lnOpen, stopping, cur, sockets, metrics, tunnel>>

\* The underlying Accept fails (closed, or EMFILE, ECONNABORTED, ...): the slot
\* goes back first, the error is looked at afterwards.
AcceptFails ==
    /\ acc = "accept"
    /\ sem' = sem - 1
    /\ err' = IF lnOpen THEN "other" ELSE "closed"
    /\ acc' = "normalise"
    /\ UNCHANGED <<done, lnOpen, stopping, cur, sockets, metrics, tunnel>>

Normalise ==
    /\ acc = "normalise"
    /\ err' = IF done THEN "closed" ELSE err
    /\ acc' = "failed"
    /\ UNCHANGED <<listener, stopping, cur, sockets, metrics, tunnel>>

-----------------------------------------------------------------------------
(* acceptRelayLoop.                                                        *)

OnError ==
    /\ acc = "failed"
    /\ acc' = IF stop \/ err = "closed" THEN "returned" ELSE "backoff"
    /\ err' = "none"
    /\ UNCHANGED <<listener, stopping, cur, sockets, metrics, tunnel>>

Wake ==
    /\ acc = "backoff"
    /\ acc' = "acquire"
    /\ UNCHANGED <<listener, stopping, cur, err, sockets, metrics, tunnel>>

\* Counters, then a goroutine with HandleConn.
Spawn ==
    /\ acc = "deliver"
    /\ active' = active + 1 /\ total' = total + 1
    /\ conn' = [c \in Conns |-> IF c \in cur THEN "serving" ELSE conn[c]]
    /\ cur' = {}
    /\ acc' = "acquire"
    /\ UNCHANGED <<listener, stopping, err, rawOpen, released, closed, closer, tunnel>>

-----------------------------------------------------------------------------
(* The bridge: tcpproxy's HandleConn on the connection it was given.       *)

Dials(c) ==
    /\ conn[c] = "serving" /\ bridge[c] = "none"
    /\ bridge' = [bridge EXCEPT ![c] = "piping"]
    /\ copies' = [copies EXCEPT ![c] = Copies]
    /\ UNCHANGED <<listener, stopping, loop, sockets, metrics, zeroCopy, ended, told>>

\* Refused, or no answer within DialTimeout: OnDialError.
DialFails(c) ==
    /\ conn[c] = "serving" /\ bridge[c] = "none"
    /\ bridge' = [bridge EXCEPT ![c] = "failed"]
    /\ UNCHANGED <<listener, stopping, loop, sockets, metrics, zeroCopy, copies, ended, told>>

\* A client or the backend has sent its last byte.
PeerEnds(c, e) ==
    /\ bridge[c] = "piping" /\ e \notin ended[c]
    /\ ended' = [ended EXCEPT ![c] = @ \cup {e}]
    /\ UNCHANGED <<listener, stopping, loop, sockets, metrics, zeroCopy, bridge, copies, told>>

\* CloseWrite on what HandleConn was given for the end e. The backend's, and in
\* zero-copy mode the client's, is the TCP connection; countingConn looks for
\* CloseWrite on the limitListenerConn it wraps, which has none.
Forwards(e) == e = "backend" \/ zeroCopy

\* Mutant: the raw connection does not pass CloseWrite on either.
CopyEndsSilently(c, d) ==
    /\ d \in copies[c]
    /\ copies' = [copies EXCEPT ![c] = @ \ {d}]
    /\ IF copies[c] = {d}
       THEN /\ bridge' = [bridge EXCEPT ![c] = "over"]
            /\ ended' = [ended EXCEPT ![c] = {}] /\ told' = [told EXCEPT ![c] = {}]
       ELSE /\ told' = [told EXCEPT ![c] = IF d = "up" THEN @ \cup {To(d)} ELSE @]
            /\ UNCHANGED <<bridge, ended>>
    /\ UNCHANGED <<listener, stopping, loop, sockets, metrics, zeroCopy>>

\* A copy has met the end of its stream, or an error; the other goes on. After
\* both HandleConn returns, and with it what the ends have done is forgotten.
CopyEnds(c, d) ==
    /\ d \in copies[c]
    /\ copies' = [copies EXCEPT ![c] = @ \ {d}]
    /\ IF copies[c] = {d}
       THEN /\ bridge' = [bridge EXCEPT ![c] = "over"]
            /\ ended' = [ended EXCEPT ![c] = {}] /\ told' = [told EXCEPT ![c] = {}]
       ELSE /\ told' = [told EXCEPT ![c] = @ \cup {e \in {To(d)} : Forwards(e)}]
            /\ UNCHANGED <<bridge, ended>>
    /\ UNCHANGED <<listener, stopping, loop, sockets, metrics, zeroCopy>>

-----------------------------------------------------------------------------
(* Counting mode: countingConn.Close over limitListenerConn.Close.         *)

\* Mutant: every Close decrements.
BeginCloseUncompared(c, i) ==
    /\ ~zeroCopy /\ conn[c] = "serving" /\ bridge[c] \in {"failed", "over"}
    /\ closer[c][i] = "idle"
    /\ closer' = [closer EXCEPT ![c][i] = "raw"]
    /\ closed' = closed \cup {c}
    /\ active' = active - 1
    /\ UNCHANGED <<listener, stopping, loop, conn, rawOpen, released, total, tunnel>>

\* Mutant: the slot goes back before the socket is closed.
BeginCloseReleasing(c, i) ==
    /\ ~zeroCopy /\ conn[c] = "serving" /\ bridge[c] \in {"failed", "over"}
    /\ closer[c][i] = "idle"
    /\ closer' = [closer EXCEPT ![c][i] = "raw"]
    /\ closed' = closed \cup {c} /\ released' = released \cup {c}
    /\ sem' = IF c \in released THEN sem ELSE sem - 1
    /\ active' = IF c \in closed THEN active ELSE active - 1
    /\ UNCHANGED <<done, lnOpen, stopping, loop, conn, rawOpen, total, tunnel>>

\* CompareAndSwap, and the decrement it guards.
BeginClose(c, i) ==
    /\ ~zeroCopy /\ conn[c] = "serving" /\ bridge[c] \in {"failed", "over"}
    /\ closer[c][i] = "idle"
    /\ closer' = [closer EXCEPT ![c][i] = "raw"]
    /\ closed' = closed \cup {c}
    /\ active' = IF c \in closed THEN active ELSE active - 1
    /\ UNCHANGED <<listener, stopping, loop, conn, rawOpen, released, total, tunnel>>

CloseRaw(c, i) ==
    /\ closer[c][i] = "raw"
    /\ closer' = [closer EXCEPT ![c][i] = "once"]
    /\ rawOpen' = rawOpen \ {c}
    /\ UNCHANGED <<listener, stopping, loop, conn, released, closed, metrics, tunnel>>

\* Mutant: release without the sync.Once.
CloseReleasesTwice(c, i) ==
    /\ closer[c][i] = "once"
    /\ closer' = [closer EXCEPT ![c][i] = "end"]
    /\ sem > 0
    /\ released' = released \cup {c}
    /\ sem' = sem - 1
    /\ UNCHANGED <<done, lnOpen, stopping, loop, conn, rawOpen, closed, metrics, tunnel>>

CloseReleases(c, i) ==
    /\ closer[c][i] = "once"
    /\ closer' = [closer EXCEPT ![c][i] = "end"]
    /\ released' = released \cup {c}
    /\ sem' = IF c \in released THEN sem ELSE sem - 1
    /\ UNCHANGED <<done, lnOpen, stopping, loop, conn, rawOpen, closed, metrics, tunnel>>

-----------------------------------------------------------------------------
(* Zero-copy mode: HandleConn owns the raw connection; the deferred calls  *)
(* of the goroutine run when it returns, release first.                    *)

\* OnDialError closes the raw connection, or tcpproxy in a goroutine that
\* HandleConn does not wait for.
HandlerCloses(c) ==
    /\ zeroCopy /\ c \in rawOpen /\ bridge[c] \in {"failed", "over"}
    /\ rawOpen' = rawOpen \ {c}
    /\ UNCHANGED <<listener, stopping, loop, conn, released, closed, closer, metrics, tunnel>>

HandlerReleases(c) ==
    /\ zeroCopy /\ conn[c] = "serving"
    /\ bridge[c] = "over" \/ (bridge[c] = "failed" /\ c \notin rawOpen)
    /\ conn' = [conn EXCEPT ![c] = "released"]
    /\ released' = released \cup {c}
    /\ sem' = IF c \in released THEN sem ELSE sem - 1
    /\ UNCHANGED <<done, lnOpen, stopping, loop, rawOpen, closed, closer, metrics, tunnel>>

HandlerUncounts(c) ==
    /\ conn[c] = "released"
    /\ conn' = [conn EXCEPT ![c] = "gone"]
    /\ active' = active - 1
    /\ UNCHANGED <<listener, stopping, loop, rawOpen, released, closed, closer, total, tunnel>>

-----------------------------------------------------------------------------
(* stopListener on a relay.                                                *)

CloseStop ==
    /\ stopper = "idle"
    /\ stop' = TRUE /\ stopper' = "stopped"
    /\ UNCHANGED <<listener, loop, sockets, metrics, tunnel>>

CloseDone ==
    /\ stopper = "stopped"
    /\ done' = TRUE /\ stopper' = "done"
    /\ UNCHANGED <<sem, lnOpen, stop, loop, sockets, metrics, tunnel>>

\* Closing the socket resets what was still in its accept queue.
CloseSocket ==
    /\ stopper = "done"
    /\ lnOpen' = FALSE /\ stopper' = "closed"
    /\ conn' = [c \in Conns |-> IF conn[c] = "queued" THEN "refused" ELSE conn[c]]
    /\ UNCHANGED <<sem, done, stop, loop, rawOpen, released, closed, closer, metrics, tunnel>>

-----------------------------------------------------------------------------
Init ==
    /\ sem = 0 /\ done = FALSE /\ lnOpen = TRUE
    /\ stop = FALSE /\ stopper = "idle"
    /\ acc = "acquire" /\ cur = {} /\ err = "none"
    /\ conn = [c \in Conns |-> "new"]
    /\ rawOpen = {} /\ released = {} /\ closed = {}
    /\ closer = [c \in Conns |-> [i \in Closers |-> "idle"]]
    /\ active = 0 /\ total = 0
    /\ zeroCopy \in BOOLEAN
    /\ bridge = [c \in Conns |-> "none"]
    /\ copies = [c \in Conns |-> {}]
    /\ ended = [c \in Conns |-> {}] /\ told = [c \in Conns |-> {}]

AcceptLoop ==
    \/ AcquireSlot \/ AcquireClosed \/ \E c \in Conns : AcceptReturns(c)
    \/ Normalise \/ OnError \/ Wake \/ Spawn
    \/ (AcceptFails /\ ~lnOpen)

Dialling(c) == Dials(c) \/ DialFails(c)
Closing(c) == \E i \in Closers : CloseRaw(c, i) \/ CloseReleases(c, i)
HandlerEnds(c) == BeginClose(c, 1) \/ HandlerCloses(c) \/ HandlerReleases(c) \/ HandlerUncounts(c)
Stop == CloseStop \/ CloseDone \/ CloseSocket

Settled ==
    /\ acc = "returned" /\ stopper = "closed"
    /\ UNCHANGED vars

Next ==
    \/ \E c \in Conns : \/ Connect(c) \/ Dialling(c) \/ HandlerEnds(c) \/ Closing(c)
                        \/ BeginClose(c, 2)
                        \/ \E e \in Ends : PeerEnds(c, e)
                        \/ \E d \in Copies : CopyEnds(c, d)
    \/ AcceptLoop \/ AcceptFails
    \/ Stop \/ Settled

Spec == Init /\ [][Next]_vars

\* The goroutines run, a dial ends by its timeout, a stopper that began finishes,
\* and an end that is told the stream is over finishes too. Nothing obliges an
\* end to finish first or Reconcile to stop the listener.
FairSpec ==
    /\ Spec
    /\ WF_vars(AcceptLoop)
    /\ WF_vars(CloseDone \/ CloseSocket)
    /\ \A c \in Conns :
        /\ WF_vars(Dialling(c))
        /\ WF_vars(Closing(c) \/ HandlerEnds(c))
        /\ \A d \in Copies : WF_vars(From(d) \in ended[c] /\ CopyEnds(c, d))
        /\ \A e \in Ends : WF_vars(e \in told[c] /\ PeerEnds(c, e))

\* Besides, clients finish, and the kernel does not fail every accept.
Patience ==
    \A c \in Conns : WF_vars(PeerEnds(c, "client")) /\ SF_vars(AcceptReturns(c))

-----------------------------------------------------------------------------
(* Properties.                                                             *)

Stages == {"new", "queued", "accepted", "serving", "released", "gone", "refused"}

TypeOK ==
    /\ sem \in 0..MaxConns
    /\ done \in BOOLEAN /\ lnOpen \in BOOLEAN /\ stop \in BOOLEAN
    /\ stopper \in {"idle", "stopped", "done", "closed"}
    /\ acc \in {"acquire", "accept", "normalise", "failed", "deliver", "backoff", "returned"}
    /\ cur \subseteq Conns
    /\ err \in {"none", "closed", "other"}
    /\ conn \in [Conns -> Stages]
    /\ rawOpen \subseteq Conns /\ released \subseteq Conns /\ closed \subseteq Conns
    /\ closer \in [Conns -> [Closers -> {"idle", "raw", "once", "end"}]]
    /\ active \in Int /\ total \in Nat
    /\ zeroCopy \in BOOLEAN
    /\ bridge \in [Conns -> {"none", "piping", "failed", "over"}]
    /\ copies \in [Conns -> SUBSET Copies]
    /\ ended \in [Conns -> SUBSET Ends] /\ told \in [Conns -> SUBSET Ends]

\* Connections that hold a slot.
Holding == {c \in Conns : conn[c] \in {"accepted", "serving"} /\ c \notin released}

\* Every token of the semaphore belongs to one connection, or to the accept in
\* progress: no path loses one or gives it back twice, however closers race.
SlotsAccounted ==
    sem = Cardinality(Holding) + IF acc = "accept" THEN 1 ELSE 0

\* In counting mode the slot is given back after the socket is closed, so the
\* ceiling also bounds accepted sockets ("against fd exhaustion").
FdCeiling == ~zeroCopy => Cardinality(rawOpen) <= MaxConns

\* activeConn counts the connections that were counted in and not out yet, each
\* once, however many closers there are.
ActiveExact ==
    active = Cardinality({c \in Conns : conn[c] \in {"serving", "released"} /\ c \notin closed})

\* In counting mode the status never reports more active connections than the
\* listener may hold. In zero-copy mode it may: the slot is given back first.
ActiveWithinCeiling == ~zeroCopy => active <= MaxConns

\* limitlistener_test.go P0-1: a stopped listener's accept loop returns, although
\* every slot may be held by a client that never leaves.
StopUnblocks == stop ~> acc = "returned"

\* A client in the accept queue is served or refused if clients finish: slots are
\* recycled, failed accepts do not use them up, and backing off ends.
QueueDrains == Patience => \A c \in Conns : conn[c] = "queued" ~> conn[c] # "queued"

\* The end of a stream reaches the end it was sent to, which may be waiting for it
\* with its own side open, or the bridge is over.
EofReaches(c, e) ==
    (Ends \ {e}) \cap ended[c] # {} ~> (e \in told[c] \/ bridge[c] # "piping")

\* CHANGELOG "half-close signaling" of the zero-copy mode; in counting mode it is
\* only passed on to the backend.
HalfCloseForwarded ==
    \A c \in Conns : /\ EofReaches(c, "backend")
                     /\ zeroCopy => EofReaches(c, "client")

\* "countingConn [...] implements net.Conn and TCP extension interfaces": what is
\* passed on in zero-copy mode is passed on in both. It is not.
HalfCloseKept == \A c \in Conns : EofReaches(c, "client")

\* One end finishing is enough for the slot to come back, through the other end's
\* reply, both copies, the closers and the deferred calls; in counting mode only
\* when it was the client.
SlotReturns ==
    \A c \in Conns :
        "client" \in ended[c] \/ (zeroCopy /\ ended[c] # {}) ~> c \in released

\* limitListener implements bounded admission.
Bounded == INSTANCE Admission WITH admitted <- Holding, left <- released
ImplementsAdmission == Bounded!Spec
=============================================================================
