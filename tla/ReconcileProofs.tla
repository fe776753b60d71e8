-------------------------- MODULE ReconcileProofs --------------------------
(* Proofs about Reconcile, for every configuration and every host.         *)
EXTENDS Reconcile, WellFoundedInduction, TLAPS

\* The start loop only ever sees keys that are wanted and have no entry yet.
StartsFresh ==
    pc = "start" => \A k \in todo : wants[k] # 0 /\ listeners[k] = "none"

\* The inductive invariant behind TypeOK and SocketsMatchTable.
TableInv == TypeOK /\ StartsFresh /\ SocketsMatchTable

LEMMA Bounds ==
    /\ MaxPort \in Nat /\ MaxChurn \in Nat /\ GracePolls \in Nat /\ GracePolls > 0
    /\ HTTPSRules \subseteq [http: Ports, https: Ports]
    /\ HostSockets \subseteq [addr: Addrs, port: Ports]
  BY ConfigAssumption, HostAssumption

LEMMA InitTable == Init => TableInv
  <1> SUFFICES ASSUME Init PROVE TableInv
    OBVIOUS
  <1>1. TypeOK
    <2>1. foreign \subseteq HostSockets
      BY DEF Init
    <2>2. res \in [v4: SUBSET Ports, v6: SUBSET Ports, v6o: SUBSET Ports]
      BY DEF Init, NoScan
    <2>3. cancelled \in BOOLEAN
      BY DEF Init
    <2>4. /\ churn \in 0..MaxChurn /\ bound \subseteq Keys
          /\ listeners \in [Keys -> {"none", "active", "conflict"}]
          /\ backend \in [Keys -> 0..MaxPort] /\ missing \in [Keys -> 0..GracePolls]
      BY Bounds DEF Init
    <2>5. /\ cache \in [Ports -> {"none", "pos", "neg"}] /\ probing \subseteq Ports
          /\ pc \in Steps /\ autoTodo \subseteq Ports
          /\ wants \in [Keys -> 0..MaxPort] /\ todo \subseteq Keys
          /\ unseen \in [Keys -> 0..GracePolls]
      BY Bounds DEF Init, NoWants, Steps
    <2>6. \A k \in Keys : listeners[k] # "active" /\ backend[k] = 0 /\ missing[k] = 0
      BY DEF Init
    <2>7. restarting \subseteq HostSockets
      BY DEF Init
    <2> QED
      BY <2>1, <2>2, <2>3, <2>4, <2>5, <2>6, <2>7 DEF TypeOK
  <1>2. StartsFresh /\ SocketsMatchTable
    BY DEF Init, StartsFresh, SocketsMatchTable
  <1> QED BY <1>1, <1>2 DEF TableInv

\* Steps of the host, of the prober and of the history variable's scan leave the
\* table alone.
LEMMA QuietSteps ==
    ASSUME TableInv,
           \/ HostMoves \/ ScanTcp \/ ScanTcp6 \/ ScanFails \/ Prepass
           \/ Signal \/ Exited \/ UNCHANGED vars
           \/ \E p \in Ports : ProbeAnswers(p) \/ CacheExpires(p) \/ AutoDials(p)
    PROVE TableInv'
  <1> USE Bounds
      DEF TableInv, TypeOK, StartsFresh, SocketsMatchTable,
          vars, host, table, prober, plan, Steps
  <1>1. CASE HostMoves
    BY <1>1 DEF HostMoves, HostOpens, HostCloses, HostReopens
  <1>2. CASE ScanTcp
    BY <1>2 DEF ScanTcp, NoScan, ForeignOn
  <1>3. CASE ScanTcp6
    <2>1. res' \in [v4: SUBSET Ports, v6: SUBSET Ports, v6o: SUBSET Ports]
      <3> DEFINE others == ForeignOn({"dual", "v6only"})
                 ours == {k.port : k \in bound}
      <3>1. others \subseteq Ports /\ ours \subseteq Ports
        BY DEF ForeignOn, Keys
      <3>2. \E mistaken \in {{}, ours} :
              res' = [v4 |-> res.v4, v6 |-> others \cup ours, v6o |-> others \cup mistaken]
        BY <1>3 DEF ScanTcp6
      <3> HIDE DEF others, ours
      <3> QED BY <3>1, <3>2
    <2>2. unseen' \in [Keys -> 0..GracePolls]
      BY <1>3 DEF ScanTcp6
    <2> QED BY <1>3, <2>1, <2>2 DEF ScanTcp6
  <1>4. CASE ScanFails
    BY <1>4 DEF ScanFails, NoScan
  <1>5. CASE Prepass
    BY <1>5 DEF Prepass, Candidates, Listening
  <1>6. CASE Signal \/ Exited \/ UNCHANGED vars
    <2>1. CASE Signal
      BY <2>1 DEF Signal
    <2>2. CASE Exited \/ UNCHANGED vars
      BY <2>2 DEF Exited
    <2> QED BY <1>6, <2>1, <2>2
  <1>7. CASE \E p \in Ports : ProbeAnswers(p) \/ CacheExpires(p) \/ AutoDials(p)
    BY <1>7 DEF ProbeAnswers, CacheExpires, AutoDials
  <1> QED BY <1>1, <1>2, <1>3, <1>4, <1>5, <1>6, <1>7

LEMMA ExplicitSource ==
    ASSUME NEW k \in ExplicitKeys
    PROVE Source(k) \in Ports
  <1> DEFINE rule == CHOOSE r \in RuleOf(k.port) : TRUE
  <1>1. k.kind = "https" /\ RuleOf(k.port) # {}
    BY DEF ExplicitKeys
  <1>2. rule \in RuleOf(k.port)
    BY <1>1
  <1>3. Source(k) = rule.http
    BY <1>1 DEF Source
  <1> HIDE DEF rule
  <1>4. rule.http \in Ports
    BY <1>2, Bounds DEF RuleOf
  <1> QED BY <1>3, <1>4

\* Computing the wishes moves no entry; the start loop begins with fresh keys.
LEMMA WishSteps ==
    ASSUME TableInv,
           TakeLock \/ WantRelays \/ \E p \in Ports : AutoDecides(p)
    PROVE TableInv'
  <1> USE Bounds
      DEF TableInv, TypeOK, StartsFresh, SocketsMatchTable, host, table, prober, Steps
  <1>1. CASE TakeLock
    <2>2. ExplicitWants \in [Keys -> 0..MaxPort]
      BY ExplicitSource, Bounds DEF ExplicitWants, Ports
    <2>3. autoTodo' \subseteq Ports
      BY <1>1 DEF TakeLock, AutoPorts, Listening
    <2> QED BY <1>1, <2>2, <2>3 DEF TakeLock
  <1>2. CASE WantRelays
    <2>1. \A k \in Keys : k.port \in 0..MaxPort
      BY DEF Keys, Ports
    <2>2. wants' \in [Keys -> 0..MaxPort]
      BY <1>2, <2>1 DEF WantRelays
    <2>3. todo' = {k \in Keys : wants'[k] # 0 /\ listeners[k] = "none"}
      BY <1>2 DEF WantRelays
    <2> QED BY <1>2, <2>2, <2>3 DEF WantRelays
  <1>3. ASSUME NEW p \in Ports, AutoDecides(p) PROVE TableInv'
    <2>1. p \in 0..MaxPort
      BY DEF Ports
    <2>2. wants' \in [Keys -> 0..MaxPort]
      BY <1>3, <2>1 DEF AutoDecides
    <2> QED BY <1>3, <2>2 DEF AutoDecides
  <1> QED BY <1>1, <1>2, <1>3

\* A bind that succeeds adds the socket and the active entry together.
LEMMA OpensKeeps ==
    ASSUME TypeOK, NEW k \in Keys, wants[k] # 0, Opens(k),
           bound = {j \in Keys : listeners[j] = "active"}
    PROVE  /\ bound' \subseteq Keys
           /\ listeners' \in [Keys -> {"none", "active", "conflict"}]
           /\ backend' \in [Keys -> 0..MaxPort] /\ missing' \in [Keys -> 0..GracePolls]
           /\ \A j \in Keys : listeners'[j] = "active" => backend'[j] # 0 /\ missing'[j] < GracePolls
           /\ \A j \in Keys : listeners'[j] # "active" => backend'[j] = 0 /\ missing'[j] = 0
           /\ bound' = {j \in Keys : listeners'[j] = "active"}
           /\ \A j \in Keys : j # k => listeners'[j] = listeners[j]
  BY Bounds DEF TypeOK, Opens

LEMMA StartSteps ==
    ASSUME TableInv,
           BeginMaintain \/ \E k \in Keys : Start(k)
    PROVE TableInv'
  <1> USE Bounds
      DEF TableInv, TypeOK, StartsFresh, SocketsMatchTable, host, prober, Steps
  <1>1. CASE BeginMaintain
    BY <1>1 DEF BeginMaintain, table
  <1>2. ASSUME NEW k \in Keys, Start(k) PROVE TableInv'
    <2>1. wants[k] # 0 /\ listeners[k] = "none" /\ pc = "start"
          /\ bound = {j \in Keys : listeners[j] = "active"}
      BY <1>2 DEF Start
    <2>2. CASE Opens(k)
      BY <1>2, <2>1, <2>2, OpensKeeps DEF Start
    <2>3. CASE ~Opens(k)
      BY <1>2, <2>1, <2>3 DEF Start
    <2> QED BY <2>2, <2>3
  <1> QED BY <1>1, <1>2

\* Closing the socket and forgetting the entry go together.
LEMMA ForgetsKeeps ==
    ASSUME TypeOK, NEW k \in Keys, Closes(k), Forgets(k),
           bound = {j \in Keys : listeners[j] = "active"}
    PROVE  /\ bound' \subseteq Keys
           /\ listeners' \in [Keys -> {"none", "active", "conflict"}]
           /\ backend' \in [Keys -> 0..MaxPort] /\ missing' \in [Keys -> 0..GracePolls]
           /\ \A j \in Keys : listeners'[j] = "active" => backend'[j] # 0 /\ missing'[j] < GracePolls
           /\ \A j \in Keys : listeners'[j] # "active" => backend'[j] = 0 /\ missing'[j] = 0
           /\ bound' = {j \in Keys : listeners'[j] = "active"}
  BY Bounds DEF TypeOK, Closes, Forgets

LEMMA MaintainSteps ==
    ASSUME TableInv, NEW k \in Keys, MaintainOne(k)
    PROVE TableInv'
  <1> USE Bounds
      DEF TableInv, TypeOK, StartsFresh, SocketsMatchTable, host, prober, Steps, Reaches
  <1>1. pc = "maintain" /\ pc' = "maintain" /\ bound = {j \in Keys : listeners[j] = "active"}
    BY DEF MaintainOne, Handover, DropConflict, Miss, RetryConflict, Keep
  <1>2. CASE Handover(k)
    BY <1>1, <1>2, ForgetsKeeps DEF Handover
  <1>3. CASE DropConflict(k)
    BY <1>1, <1>3 DEF DropConflict, Forgets
  <1>4. CASE Miss(k)
    <2>1. CASE missing[k] + 1 >= GracePolls
      BY <1>1, <1>4, <2>1, ForgetsKeeps DEF Miss
    <2>2. CASE ~(missing[k] + 1 >= GracePolls)
      BY <1>1, <1>4, <2>2 DEF Miss
    <2> QED BY <2>1, <2>2
  <1>5. CASE RetryConflict(k)
    <2>1. CASE Opens(k)
      BY <1>1, <1>5, <2>1, OpensKeeps DEF RetryConflict
    <2>2. CASE ~Opens(k)
      BY <1>1, <1>5, <2>2 DEF RetryConflict, table
    <2> QED BY <2>1, <2>2
  <1>6. CASE Keep(k)
    BY <1>1, <1>6 DEF Keep
  <1> QED BY <1>2, <1>3, <1>4, <1>5, <1>6 DEF MaintainOne

LEMMA EndSteps ==
    ASSUME TableInv,
           Unlock \/ Shutdown \/ Exit \/ \E k \in Keys : StopOne(k)
    PROVE TableInv'
  <1> USE Bounds
      DEF TableInv, TypeOK, StartsFresh, SocketsMatchTable, host, prober, plan, Steps
  <1>1. CASE Unlock
    BY <1>1 DEF Unlock, NoScan, NoWants, table
  <1>2. CASE Shutdown
    BY <1>2 DEF Shutdown
  <1>3. CASE Exit
    BY <1>3 DEF Exit, table
  <1>4. ASSUME NEW k \in Keys, StopOne(k) PROVE TableInv'
    BY <1>4 DEF StopOne, Closes
  <1> QED BY <1>1, <1>2, <1>3, <1>4

LEMMA NextTable == TableInv /\ [Next]_vars => TableInv'
  <1> SUFFICES ASSUME TableInv, [Next]_vars PROVE TableInv'
    OBVIOUS
  <1>1. CASE HostMoves \/ ScanFails \/ Signal \/ Exited \/ UNCHANGED vars
             \/ \E p \in Ports : CacheExpires(p)
    BY <1>1, QuietSteps
  <1>2. CASE Shutdown
    BY <1>2, EndSteps
  <1>3. CASE Daemon
    <2>1. CASE ScanTcp \/ ScanTcp6 \/ Prepass \/ \E p \in Ports : ProbeAnswers(p) \/ AutoDials(p)
      BY <2>1, QuietSteps
    <2>2. CASE TakeLock \/ WantRelays \/ \E p \in Ports : AutoDecides(p)
      BY <2>2, WishSteps
    <2>3. CASE BeginMaintain \/ \E k \in Keys : Start(k)
      BY <2>3, StartSteps
    <2>4. CASE \E k \in Keys : MaintainOne(k)
      BY <2>4, MaintainSteps
    <2>5. CASE Unlock \/ Exit \/ \E k \in Keys : StopOne(k)
      BY <2>5, EndSteps
    <2> QED BY <1>3, <2>1, <2>2, <2>3, <2>4, <2>5 DEF Daemon
  <1> QED BY <1>1, <1>2, <1>3 DEF Next

THEOREM TableInvariant == Spec => []TableInv
  <1>1. Init => TableInv
    BY InitTable
  <1>2. TableInv /\ [Next]_vars => TableInv'
    BY NextTable
  <1> QED BY <1>1, <1>2, PTL DEF Spec

\* Every variable of the poll loop keeps its type and every entry its shape.
THEOREM TypeCorrect == Spec => []TypeOK
  <1>1. TableInv => TypeOK
    BY DEF TableInv
  <1> QED BY <1>1, TableInvariant, PTL

\* The daemon never leaks a listening socket and never lists one it lost.
THEOREM NoSocketLeak == Spec => []SocketsMatchTable
  <1>1. TableInv => SocketsMatchTable
    BY DEF TableInv
  <1> QED BY <1>1, TableInvariant, PTL

-----------------------------------------------------------------------------
(* The exclude and allow lists.                                            *)

\* Strengthening of OnlyPermitted: the wishes, and the ports still to be decided,
\* are permitted already.
PermitInv ==
    /\ \A p \in autoTodo : /\ HTTPSAuto /\ p \in HTTPSAllow \ ExcludePorts
                           /\ p + HTTPSOffset \in Ports \ ExcludePorts
    /\ \A k \in Keys \ ExplicitKeys : wants[k] # 0 => Permitted(k, wants[k])
    /\ \A k \in Keys \ ExplicitKeys : listeners[k] = "active" => Permitted(k, backend[k])

LEMMA InitPermit == Init => PermitInv
  BY DEF Init, PermitInv, NoWants

\* The steps that decide what is wanted.
LEMMA PermitWishes ==
    ASSUME TypeOK, PermitInv, TakeLock \/ WantRelays \/ \E p \in Ports : AutoDecides(p)
    PROVE PermitInv'
  <1> USE DEF PermitInv, table
  <1>1. CASE TakeLock
    <2>1. \A k \in Keys \ ExplicitKeys : wants'[k] = 0
      BY <1>1 DEF TakeLock, ExplicitWants
    <2>2. \A p \in autoTodo' : /\ HTTPSAuto /\ p \in HTTPSAllow \ ExcludePorts
                               /\ p + HTTPSOffset \in Ports \ ExcludePorts
      BY <1>1 DEF TakeLock, AutoPorts
    <2> QED BY <1>1, <2>1, <2>2 DEF TakeLock
  <1>2. CASE WantRelays
    <2>1. ASSUME NEW k \in Keys \ ExplicitKeys, wants'[k] # 0 PROVE Permitted(k, wants'[k])
      <3>1. CASE k.kind = "relay" /\ RelayWanted(k.port)
        BY <3>1 DEF RelayWanted, Permitted
      <3>2. CASE ~(k.kind = "relay" /\ RelayWanted(k.port))
        <4>1. wants'[k] = wants[k]
          BY <1>2, <3>2 DEF WantRelays
        <4> QED BY <4>1, <2>1
      <3> QED BY <3>1, <3>2
    <2> QED BY <1>2, <2>1 DEF WantRelays
  <1>3. ASSUME NEW p \in Ports, AutoDecides(p) PROVE PermitInv'
    <2>1. ASSUME NEW k \in Keys \ ExplicitKeys, wants'[k] # 0 PROVE Permitted(k, wants'[k])
      <3>1. CASE k = HTTPSKey(p + HTTPSOffset) /\ cache[p] = "pos"
        <4>1. wants'[k] = p
          BY <1>3, <3>1 DEF AutoDecides, TypeOK
        <4>2. k.kind = "https" /\ k.port = p + HTTPSOffset
          BY <3>1 DEF HTTPSKey
        <4> QED BY <1>3, <4>1, <4>2 DEF AutoDecides, Permitted
      <3>2. CASE ~(k = HTTPSKey(p + HTTPSOffset) /\ cache[p] = "pos")
        <4>1. wants'[k] = wants[k]
          BY <1>3, <3>2 DEF AutoDecides, TypeOK
        <4> QED BY <4>1, <2>1
      <3> QED BY <3>1, <3>2
    <2> QED BY <1>3, <2>1 DEF AutoDecides
  <1> QED BY <1>1, <1>2, <1>3

\* An entry that becomes active takes a permitted wish; others only disappear.
LEMMA PermitEntry ==
    ASSUME TypeOK, PermitInv, NEW k \in Keys, wants' = wants, autoTodo' = autoTodo,
           \/ wants[k] # 0 /\ Opens(k)
           \/ Forgets(k)
           \/ listeners' = [listeners EXCEPT ![k] = "conflict"] /\ backend' = backend
           \/ listeners' = listeners /\ backend' = backend
    PROVE PermitInv'
  <1> SUFFICES ASSUME NEW j \in Keys \ ExplicitKeys, listeners'[j] = "active"
               PROVE Permitted(j, backend'[j])
    BY DEF PermitInv
  <1>1. CASE wants[k] # 0 /\ Opens(k)
    <2>1. CASE j = k
      BY <1>1, <2>1 DEF Opens, PermitInv, TypeOK
    <2>2. CASE j # k
      BY <1>1, <2>2 DEF Opens, PermitInv, TypeOK
    <2> QED BY <2>1, <2>2
  <1>2. CASE Forgets(k)
    BY <1>2 DEF Forgets, PermitInv, TypeOK
  <1>3. CASE listeners' = [listeners EXCEPT ![k] = "conflict"] /\ backend' = backend
    BY <1>3 DEF PermitInv, TypeOK
  <1>4. CASE listeners' = listeners /\ backend' = backend
    BY <1>4 DEF PermitInv
  <1> QED BY <1>1, <1>2, <1>3, <1>4

LEMMA NextPermit == TableInv /\ PermitInv /\ [Next]_vars => PermitInv'
  <1> SUFFICES ASSUME TypeOK, StartsFresh, PermitInv, [Next]_vars PROVE PermitInv'
    BY DEF TableInv
  <1>1. CASE TakeLock \/ WantRelays \/ \E p \in Ports : AutoDecides(p)
    BY <1>1, PermitWishes
  <1>2. ASSUME NEW k \in Keys, Start(k) PROVE PermitInv'
    <2>1. wants[k] # 0
      BY <1>2 DEF Start, StartsFresh
    <2> QED BY <1>2, <2>1, PermitEntry DEF Start
  <1>3. ASSUME NEW k \in Keys, MaintainOne(k) PROVE PermitInv'
    <2>1. wants' = wants /\ autoTodo' = autoTodo
      BY <1>3 DEF MaintainOne, Handover, DropConflict, Miss, RetryConflict, Keep, Reaches
    <2>2. \/ wants[k] # 0 /\ Opens(k)
          \/ Forgets(k)
          \/ listeners' = listeners /\ backend' = backend
      BY <1>3 DEF MaintainOne, Handover, DropConflict, Miss, RetryConflict, Keep, table
    <2> QED BY <2>1, <2>2, PermitEntry
  <1>4. CASE Unlock
    BY <1>4 DEF Unlock, NoWants, PermitInv, table
  <1>5. CASE Shutdown
    BY <1>5 DEF Shutdown, PermitInv
  <1>6. CASE \/ ScanTcp \/ ScanTcp6 \/ ScanFails \/ Prepass \/ BeginMaintain
             \/ Signal \/ Exit \/ Exited \/ UNCHANGED vars
    BY <1>6 DEF ScanTcp, ScanTcp6, ScanFails, Prepass, BeginMaintain, Signal, Exit,
                Exited, PermitInv, vars, table, plan
  <1>7. CASE \/ HostMoves \/ \E k \in Keys : StopOne(k)
             \/ \E p \in Ports : ProbeAnswers(p) \/ AutoDials(p) \/ CacheExpires(p)
    BY <1>7 DEF HostMoves, HostOpens, HostCloses, HostReopens, StopOne, ProbeAnswers,
                AutoDials, CacheExpires, PermitInv, table, plan
  <1> QED
    BY <1>1, <1>2, <1>3, <1>4, <1>5, <1>6, <1>7 DEF Next, Daemon

\* No listener outside the explicit rules is ever held against the exclude and
\* allow lists.
THEOREM ListsRespected == Spec => []OnlyPermitted
  <1>1. Init => TableInv /\ PermitInv
    BY InitTable, InitPermit
  <1>2. TableInv /\ PermitInv /\ [Next]_vars => (TableInv /\ PermitInv)'
    BY NextTable, NextPermit
  <1>3. TableInv /\ PermitInv => OnlyPermitted
    BY DEF TableInv, TypeOK, SocketsMatchTable, PermitInv, OnlyPermitted
  <1> QED BY <1>1, <1>2, <1>3, PTL DEF Spec

-----------------------------------------------------------------------------
(* The grace period.                                                       *)

\* Strengthening of GraceRespected: a miss counter never runs ahead of the scans
\* that lacked the backend. Between a scan and the maintenance of k, the scan is
\* counted in unseen and not yet in missing, unless k is to be kept or handed over.
Ahead(k) == missing[k] < unseen[k]
CountInv ==
    \A k \in ScanDriven :
        /\ pc \in {"idle", "tcp6"} => missing[k] <= unseen[k]
        /\ pc \in {"prepass", "probe", "auto"} /\ listeners[k] = "active"
              => Shows(res, k) \/ Ahead(k)
        /\ pc = "auto" /\ k \in ExplicitKeys /\ Shows(res, k) => wants[k] # 0
        /\ (pc = "start" \/ (pc = "maintain" /\ k \in todo)) /\ listeners[k] = "active"
              => wants[k] # 0 \/ Yields(k) \/ Ahead(k)
        /\ pc = "maintain" /\ k \notin todo => missing[k] <= unseen[k]

GraceInv == TableInv /\ PermitInv /\ CountInv

LEMMA InitCount == Init => CountInv
  <1> SUFFICES ASSUME Init, NEW k \in ScanDriven
               PROVE missing[k] <= unseen[k] /\ pc = "idle"
    BY DEF Init, CountInv
  <1>1. k \in Keys
    BY DEF ScanDriven, ExplicitKeys
  <1> QED BY <1>1 DEF Init

LEMMA RelayKeyIs ==
    ASSUME NEW k \in Keys, k.kind = "relay"
    PROVE k = RelayKey(k.port)
  BY DEF Keys, RelayKey

\* A scan counts in unseen first, so that missing may follow.
LEMMA CountScan ==
    ASSUME TypeOK, CountInv, ScanTcp6
    PROVE CountInv'
  <1> SUFFICES ASSUME NEW k \in ScanDriven, listeners[k] = "active"
               PROVE Shows(res', k) \/ missing[k] < unseen'[k]
    BY DEF CountInv, Ahead, ScanTcp6, table, plan
  <1>1. k \in Keys
    BY DEF ScanDriven, ExplicitKeys
  <1>2. missing[k] <= unseen[k] /\ missing[k] < GracePolls
    BY <1>1 DEF CountInv, ScanTcp6, TypeOK
  <1>3. unseen'[k] = IF Shows(res', k) THEN 0
                     ELSE IF unseen[k] < GracePolls THEN unseen[k] + 1 ELSE GracePolls
    BY <1>1 DEF ScanTcp6
  <1>4. missing[k] \in Nat /\ unseen[k] \in Nat
    BY <1>1, Bounds DEF TypeOK
  <1> QED BY <1>2, <1>3, <1>4, Bounds

\* Every active scan-driven listener whose backend was seen ends up wanted.
LEMMA CountWishes ==
    ASSUME TypeOK, PermitInv, CountInv,
           TakeLock \/ WantRelays \/ \E p \in Ports : AutoDecides(p)
    PROVE CountInv'
  <1> USE DEF table
  <1>1. CASE TakeLock
    <2>1. ASSUME NEW k \in ExplicitKeys, Shows(res, k) PROVE wants'[k] # 0
      BY <1>1, <2>1, ExplicitSource DEF TakeLock, ExplicitWants, Ports, ExplicitKeys
    <2> QED BY <1>1, <2>1 DEF TakeLock, CountInv, Ahead
  <1>2. CASE WantRelays
    <2> SUFFICES ASSUME NEW k \in ScanDriven, listeners[k] = "active", Shows(res, k)
                 PROVE wants'[k] # 0 \/ Yields(k)
      BY <1>2 DEF WantRelays, CountInv, Ahead, Yields
    <2>1. k \in Keys
      BY DEF ScanDriven, ExplicitKeys
    <2>2. CASE k.kind = "relay"
      <3>1. k \notin ExplicitKeys
        BY <2>2 DEF ExplicitKeys
      <3>2. Permitted(k, backend[k])
        BY <2>1, <3>1 DEF PermitInv
      <3>3. OurListener(RelayKey(k.port)) /\ k.port \in res.v4
        BY <2>1, <2>2, RelayKeyIs DEF OurListener, Shows
      <3>4. CASE k.port \in res.v6o
        BY <2>2, <3>4 DEF Yields
      <3>5. CASE k.port \notin res.v6o
        <4>1. RelayWanted(k.port)
          BY <2>2, <3>2, <3>3, <3>5 DEF RelayWanted, Permitted
        <4>2. k.port # 0
          BY <2>1 DEF Keys, Ports
        <4> QED BY <1>2, <2>1, <2>2, <4>1, <4>2 DEF WantRelays
      <3> QED BY <3>4, <3>5
    <2>3. CASE k.kind # "relay"
      <3>1. k \in ExplicitKeys /\ wants[k] # 0
        BY <1>2, <2>3 DEF ScanDriven, CountInv, WantRelays
      <3> QED BY <1>2, <2>1, <2>3, <3>1 DEF WantRelays
    <2> QED BY <2>2, <2>3
  <1>3. ASSUME NEW p \in Ports, AutoDecides(p) PROVE CountInv'
    <2>1. ASSUME NEW k \in ExplicitKeys, wants[k] # 0 PROVE wants'[k] # 0
      BY <1>3, <2>1 DEF AutoDecides, TypeOK, Ports, ExplicitKeys
    <2> QED BY <1>3, <2>1 DEF AutoDecides, CountInv, Ahead
  <1> QED BY <1>1, <1>2, <1>3

LEMMA CountStart ==
    ASSUME TypeOK, StartsFresh, CountInv, BeginMaintain \/ \E k \in Keys : Start(k)
    PROVE CountInv'
  <1>1. CASE BeginMaintain
    <2>1. ASSUME NEW k \in ScanDriven, k \notin todo' PROVE missing[k] <= unseen[k]
      <3>1. k \in Keys /\ listeners[k] = "none"
        BY <1>1, <2>1 DEF BeginMaintain, ScanDriven, ExplicitKeys
      <3> QED BY <3>1, Bounds DEF TypeOK
    <2> QED BY <1>1, <2>1 DEF BeginMaintain, CountInv, Ahead, Yields, table
  <1>2. ASSUME NEW k \in Keys, Start(k) PROVE CountInv'
    <2> SUFFICES ASSUME NEW j \in ScanDriven, listeners'[j] = "active"
                 PROVE wants[j] # 0 \/ Yields(j) \/ missing'[j] < unseen[j]
      BY <1>2 DEF Start, CountInv, Ahead, Yields
    <2>1. j \in Keys
      BY DEF ScanDriven, ExplicitKeys
    <2>2. CASE j = k
      BY <1>2, <2>2 DEF Start, StartsFresh
    <2>3. CASE j # k
      <3>1. listeners'[j] = listeners[j] /\ missing'[j] = missing[j]
        BY <1>2, <2>1, <2>3 DEF Start, Opens, TypeOK
      <3> QED BY <1>2, <3>1 DEF Start, CountInv, Ahead
    <2> QED BY <2>2, <2>3
  <1> QED BY <1>1, <1>2

LEMMA CountMaintain ==
    ASSUME TypeOK, CountInv, NEW k \in Keys, MaintainOne(k)
    PROVE CountInv'
  <1>1. /\ pc = "maintain" /\ pc' = "maintain" /\ k \in todo /\ todo' = todo \ {k}
        /\ wants' = wants /\ res' = res /\ unseen' = unseen
    BY DEF MaintainOne, Handover, DropConflict, Miss, RetryConflict, Keep, Reaches
  <1>2. ASSUME NEW j \in Keys, j # k
        PROVE listeners'[j] = listeners[j] /\ missing'[j] = missing[j]
    BY <1>2 DEF MaintainOne, Handover, DropConflict, Miss, RetryConflict, Keep,
                Forgets, Opens, TypeOK, table
  <1>3. ASSUME k \in ScanDriven PROVE missing'[k] <= unseen[k]
    <2>1. missing[k] \in Nat /\ unseen[k] \in Nat
      BY Bounds DEF TypeOK
    <2>2. CASE Miss(k)
      <3>1. missing[k] < unseen[k]
        BY <1>3, <2>2 DEF Miss, Reaches, CountInv, Ahead
      <3>2. missing'[k] \in {0, missing[k] + 1}
        BY <2>2 DEF Miss, Forgets, TypeOK
      <3> QED BY <2>1, <3>1, <3>2
    <2>3. CASE RetryConflict(k)
      <3>1. missing'[k] = 0
        BY <2>3 DEF RetryConflict, Opens, TypeOK, table
      <3> QED BY <2>1, <3>1
    <2>4. CASE Handover(k) \/ DropConflict(k) \/ Keep(k)
      <3>1. missing'[k] = 0
        BY <2>4 DEF Handover, DropConflict, Keep, Forgets, TypeOK
      <3> QED BY <2>1, <3>1
    <2> QED BY <2>2, <2>3, <2>4 DEF MaintainOne
  <1> SUFFICES ASSUME NEW j \in ScanDriven
      PROVE /\ j \in todo' /\ listeners'[j] = "active"
                 => wants[j] # 0 \/ Yields(j) \/ missing'[j] < unseen[j]
            /\ j \notin todo' => missing'[j] <= unseen[j]
    BY <1>1 DEF CountInv, Ahead, Yields
  <1>4. j \in Keys
    BY DEF ScanDriven, ExplicitKeys
  <1> QED BY <1>1, <1>2, <1>3, <1>4 DEF CountInv, Ahead

\* Steps that touch neither the counters nor the scan result.
LEMMA CountQuiet ==
    ASSUME TypeOK, CountInv,
           \/ ScanTcp \/ ScanFails \/ Prepass \/ Unlock \/ Shutdown \/ Exit
           \/ HostMoves \/ Signal \/ Exited \/ UNCHANGED vars
           \/ \E k \in Keys : StopOne(k)
           \/ \E p \in Ports : ProbeAnswers(p) \/ AutoDials(p) \/ CacheExpires(p)
    PROVE CountInv'
  <1> USE DEF CountInv, Ahead, Yields, table, plan
  <1>1. CASE ScanTcp \/ ScanFails \/ Prepass \/ Signal \/ Exit \/ Exited \/ UNCHANGED vars
    BY <1>1 DEF ScanTcp, ScanFails, Prepass, Signal, Exit, Exited, vars
  <1>2. CASE Unlock \/ Shutdown \/ \E k \in Keys : StopOne(k)
    BY <1>2 DEF Unlock, Shutdown, StopOne
  <1>3. CASE HostMoves
    BY <1>3 DEF HostMoves, HostOpens, HostCloses, HostReopens
  <1>4. CASE \E p \in Ports : ProbeAnswers(p) \/ AutoDials(p) \/ CacheExpires(p)
    BY <1>4 DEF ProbeAnswers, AutoDials, CacheExpires
  <1> QED BY <1>1, <1>2, <1>3, <1>4

LEMMA NextGrace == GraceInv /\ [Next]_vars => GraceInv'
  <1> SUFFICES ASSUME GraceInv, [Next]_vars PROVE CountInv'
    BY NextTable, NextPermit DEF GraceInv
  <1>0. TypeOK /\ StartsFresh /\ PermitInv /\ CountInv
    BY DEF GraceInv, TableInv
  <1>1. CASE ScanTcp6
    BY <1>0, <1>1, CountScan
  <1>2. CASE TakeLock \/ WantRelays \/ \E p \in Ports : AutoDecides(p)
    BY <1>0, <1>2, CountWishes
  <1>3. CASE BeginMaintain \/ \E k \in Keys : Start(k)
    BY <1>0, <1>3, CountStart
  <1>4. CASE \E k \in Keys : MaintainOne(k)
    BY <1>0, <1>4, CountMaintain
  <1>5. CASE \/ ScanTcp \/ ScanFails \/ Prepass \/ Unlock \/ Shutdown \/ Exit
             \/ HostMoves \/ Signal \/ Exited \/ UNCHANGED vars
             \/ \E k \in Keys : StopOne(k)
             \/ \E p \in Ports : ProbeAnswers(p) \/ AutoDials(p) \/ CacheExpires(p)
    BY <1>0, <1>5, CountQuiet
  <1> QED
    BY <1>1, <1>2, <1>3, <1>4, <1>5 DEF Next, Daemon

\* Only three steps close a socket, and the counters justify the recycling one.
LEMMA ClosingSteps ==
    ASSUME GraceInv, [Next]_vars, NEW k \in ScanDriven, k \in bound, k \notin bound'
    PROVE LacksBackend(k) \/ Yields(k) \/ pc = "stop"
  <1> USE DEF table, plan
  <1>1. k \in Keys
    BY DEF ScanDriven, ExplicitKeys
  <1>2. ASSUME NEW j \in Keys, MaintainOne(j) PROVE LacksBackend(k) \/ Yields(k)
    <2>1. CASE Miss(j)
      <3>1. j = k
        BY <1>2, <2>1 DEF Miss, Closes
      <3>2. missing[k] < unseen[k]
        BY <2>1, <3>1 DEF Miss, Reaches, GraceInv, CountInv, Ahead
      <3>3. missing[k] + 1 >= GracePolls
        BY <2>1, <3>1 DEF Miss
      <3>4. missing[k] \in Nat /\ unseen[k] \in Nat
        BY <1>1, Bounds DEF GraceInv, TableInv, TypeOK
      <3> QED BY <3>2, <3>3, <3>4, Bounds DEF LacksBackend
    <2>2. CASE Handover(j)
      BY <1>2, <2>2 DEF Handover, Closes
    <2>3. CASE DropConflict(j) \/ RetryConflict(j) \/ Keep(j)
      BY <2>3 DEF DropConflict, RetryConflict, Keep, Opens
    <2> QED BY <1>2, <2>1, <2>2, <2>3 DEF MaintainOne
  <1>3. CASE \E j \in Keys : StopOne(j)
    BY <1>3 DEF StopOne
  <1>4. CASE \/ ScanTcp \/ ScanTcp6 \/ ScanFails \/ Prepass \/ TakeLock \/ WantRelays
             \/ BeginMaintain \/ Unlock \/ Shutdown \/ Exit \/ Signal \/ Exited
             \/ UNCHANGED vars
    BY <1>4 DEF ScanTcp, ScanTcp6, ScanFails, Prepass, TakeLock, WantRelays,
                BeginMaintain, Unlock, Shutdown, Exit, Signal, Exited, vars
  <1>5. CASE \/ HostMoves \/ \E j \in Keys : Start(j)
             \/ \E p \in Ports : \/ ProbeAnswers(p) \/ AutoDials(p) \/ CacheExpires(p)
                                 \/ AutoDecides(p)
    BY <1>5 DEF HostMoves, HostOpens, HostCloses, HostReopens, Start, Opens, ProbeAnswers,
                AutoDials, CacheExpires, AutoDecides
  <1> QED BY <1>2, <1>3, <1>4, <1>5 DEF Next, Daemon

\* The anti-flap promise holds for relays and explicit rules in every
\* configuration, under every behaviour of the host, of probes and of binds.
THEOREM GraceTheorem == Spec => GraceRespected
  <1>1. Init => GraceInv
    BY InitTable, InitPermit, InitCount DEF GraceInv
  <1>2. GraceInv /\ [Next]_vars => GraceInv'
    BY NextGrace
  <1>3. GraceInv /\ [Next]_vars
        => [\A k \in ScanDriven :
              k \in bound /\ k \notin bound' => LacksBackend(k) \/ Yields(k) \/ pc = "stop"]_vars
    BY ClosingSteps
  <1> QED BY <1>1, <1>2, <1>3, PTL DEF Spec, GraceRespected

-----------------------------------------------------------------------------
(* Where listeners forward.                                                *)

\* Strengthening of ForwardsRight: the wishes are right already, and no port is held
\* in two ways.
RightInv ==
    /\ \A k \in Keys : wants[k] # 0 => Right(k, wants[k])
    /\ \A k \in Keys : listeners[k] = "active" => Right(k, backend[k])
SoleOnPort == \A p \in Ports : ~(HTTPSKey(p) \in bound /\ RelayKey(p) \in bound)

LEMMA RightWishes ==
    ASSUME TypeOK, RightInv, TakeLock \/ WantRelays \/ \E p \in Ports : AutoDecides(p)
    PROVE RightInv'
  <1> USE DEF RightInv, table
  <1>1. CASE TakeLock
    <2>1. ASSUME NEW k \in Keys, wants'[k] # 0 PROVE Right(k, wants'[k])
      <3>1. k.kind # "relay" /\ wants'[k] = Source(k)
        BY <1>1, <2>1 DEF TakeLock, ExplicitWants, ExplicitKeys
      <3> QED BY <3>1 DEF Right
    <2> QED BY <1>1, <2>1 DEF TakeLock
  <1>2. CASE WantRelays
    <2>1. ASSUME NEW k \in Keys, wants'[k] # 0 PROVE Right(k, wants'[k])
      <3>1. CASE k.kind = "relay" /\ RelayWanted(k.port)
        BY <1>2, <3>1 DEF WantRelays, Right
      <3>2. CASE ~(k.kind = "relay" /\ RelayWanted(k.port))
        <4>1. wants'[k] = wants[k]
          BY <1>2, <3>2 DEF WantRelays
        <4> QED BY <4>1, <2>1
      <3> QED BY <3>1, <3>2
    <2> QED BY <1>2, <2>1 DEF WantRelays
  <1>3. ASSUME NEW p \in Ports, AutoDecides(p) PROVE RightInv'
    <2>1. ASSUME NEW k \in Keys, wants'[k] # 0 PROVE Right(k, wants'[k])
      <3>1. CASE k = HTTPSKey(p + HTTPSOffset) /\ cache[p] = "pos"
        <4>1. wants'[k] = p
          BY <1>3, <3>1 DEF AutoDecides, TypeOK
        <4>2. k.kind = "https" /\ k.port = p + HTTPSOffset
          BY <3>1 DEF HTTPSKey
        <4>3. p = k.port - HTTPSOffset
          BY <4>2, ConfigAssumption DEF Ports
        <4> QED BY <4>1, <4>2, <4>3 DEF Right
      <3>2. CASE ~(k = HTTPSKey(p + HTTPSOffset) /\ cache[p] = "pos")
        <4>1. wants'[k] = wants[k]
          BY <1>3, <3>2 DEF AutoDecides, TypeOK
        <4> QED BY <4>1, <2>1
      <3> QED BY <3>1, <3>2
    <2> QED BY <1>3, <2>1 DEF AutoDecides
  <1> QED BY <1>1, <1>2, <1>3

LEMMA RightEntry ==
    ASSUME TypeOK, RightInv, NEW k \in Keys, wants' = wants,
           \/ wants[k] # 0 /\ Opens(k)
           \/ Forgets(k)
           \/ listeners' = [listeners EXCEPT ![k] = "conflict"] /\ backend' = backend
           \/ listeners' = listeners /\ backend' = backend
    PROVE RightInv'
  <1> SUFFICES ASSUME NEW j \in Keys, listeners'[j] = "active" PROVE Right(j, backend'[j])
    BY DEF RightInv
  <1>1. CASE wants[k] # 0 /\ Opens(k)
    <2>1. CASE j = k
      BY <1>1, <2>1 DEF Opens, RightInv, TypeOK
    <2>2. CASE j # k
      BY <1>1, <2>2 DEF Opens, RightInv, TypeOK
    <2> QED BY <2>1, <2>2
  <1>2. CASE Forgets(k)
    BY <1>2 DEF Forgets, RightInv, TypeOK
  <1>3. CASE listeners' = [listeners EXCEPT ![k] = "conflict"] /\ backend' = backend
    BY <1>3 DEF RightInv, TypeOK
  <1>4. CASE listeners' = listeners /\ backend' = backend
    BY <1>4 DEF RightInv
  <1> QED BY <1>1, <1>2, <1>3, <1>4

LEMMA NextRight == TableInv /\ RightInv /\ [Next]_vars => RightInv'
  <1> SUFFICES ASSUME TypeOK, StartsFresh, RightInv, [Next]_vars PROVE RightInv'
    BY DEF TableInv
  <1>1. CASE TakeLock \/ WantRelays \/ \E p \in Ports : AutoDecides(p)
    BY <1>1, RightWishes
  <1>2. ASSUME NEW k \in Keys, Start(k) PROVE RightInv'
    <2>1. wants[k] # 0
      BY <1>2 DEF Start, StartsFresh
    <2> QED BY <1>2, <2>1, RightEntry DEF Start
  <1>3. ASSUME NEW k \in Keys, MaintainOne(k) PROVE RightInv'
    <2>1. wants' = wants
      BY <1>3 DEF MaintainOne, Handover, DropConflict, Miss, RetryConflict, Keep, Reaches
    <2>2. \/ wants[k] # 0 /\ Opens(k)
          \/ Forgets(k)
          \/ listeners' = listeners /\ backend' = backend
      BY <1>3 DEF MaintainOne, Handover, DropConflict, Miss, RetryConflict, Keep, table
    <2> QED BY <2>1, <2>2, RightEntry
  <1>4. CASE Unlock
    BY <1>4 DEF Unlock, NoWants, RightInv, table
  <1>5. CASE Shutdown
    BY <1>5 DEF Shutdown, RightInv
  <1>6. CASE \/ ScanTcp \/ ScanTcp6 \/ ScanFails \/ Prepass \/ BeginMaintain
             \/ Signal \/ Exit \/ Exited \/ UNCHANGED vars
    BY <1>6 DEF ScanTcp, ScanTcp6, ScanFails, Prepass, BeginMaintain, Signal, Exit,
                Exited, RightInv, vars, table, plan
  <1>7. CASE \/ HostMoves \/ \E k \in Keys : StopOne(k)
             \/ \E p \in Ports : ProbeAnswers(p) \/ AutoDials(p) \/ CacheExpires(p)
    BY <1>7 DEF HostMoves, HostOpens, HostCloses, HostReopens, StopOne, ProbeAnswers,
                AutoDials, CacheExpires, RightInv, table, plan
  <1> QED
    BY <1>1, <1>2, <1>3, <1>4, <1>5, <1>6, <1>7 DEF Next, Daemon

\* A step binds at most one socket, which the kernel has found free, or closes some.
LEMMA SocketMoves ==
    ASSUME [Next]_vars
    PROVE  bound' \subseteq bound \/ \E k \in Keys : CanBind(k) /\ bound' = bound \cup {k}
  <1> USE DEF table
  <1>1. CASE \/ ScanTcp \/ ScanTcp6 \/ ScanFails \/ Prepass \/ TakeLock \/ WantRelays
             \/ BeginMaintain \/ Unlock \/ Signal \/ Shutdown \/ Exit \/ Exited
             \/ UNCHANGED vars
    BY <1>1 DEF ScanTcp, ScanTcp6, ScanFails, Prepass, TakeLock, WantRelays, BeginMaintain,
                Unlock, Signal, Shutdown, Exit, Exited, vars
  <1>2. CASE \/ HostMoves
             \/ \E p \in Ports : ProbeAnswers(p) \/ AutoDials(p) \/ AutoDecides(p) \/ CacheExpires(p)
    BY <1>2 DEF HostMoves, HostOpens, HostCloses, HostReopens, ProbeAnswers, AutoDials,
                AutoDecides, CacheExpires
  <1>3. ASSUME NEW k \in Keys, Start(k)
        PROVE  bound' \subseteq bound \/ (CanBind(k) /\ bound' = bound \cup {k})
    BY <1>3 DEF Start, Opens
  <1>4. ASSUME NEW k \in Keys, MaintainOne(k)
        PROVE  bound' \subseteq bound \/ (CanBind(k) /\ bound' = bound \cup {k})
    BY <1>4 DEF MaintainOne, Handover, DropConflict, Miss, RetryConflict, Keep, Opens, Closes
  <1>5. ASSUME NEW k \in Keys, StopOne(k) PROVE bound' \subseteq bound
    BY <1>5 DEF StopOne, Closes
  <1> QED BY <1>1, <1>2, <1>3, <1>4, <1>5 DEF Next, Daemon

LEMMA NextSole == SoleOnPort /\ [Next]_vars => SoleOnPort'
  <1> SUFFICES ASSUME SoleOnPort, [Next]_vars, NEW p \in Ports
               PROVE ~(HTTPSKey(p) \in bound' /\ RelayKey(p) \in bound')
    BY DEF SoleOnPort
  <1>1. CASE bound' \subseteq bound
    BY <1>1 DEF SoleOnPort
  <1>2. ASSUME NEW k \in Keys, CanBind(k), bound' = bound \cup {k}
        PROVE  ~(HTTPSKey(p) \in bound' /\ RelayKey(p) \in bound')
    <2>1. \A j \in bound : j.port = k.port => KindFamilies(j.kind) \cap KindFamilies(k.kind) = {}
      BY <1>2 DEF CanBind, Taken, TakenByUs
    <2>2. 6 \in KindFamilies(HTTPSKey(p).kind) \cap KindFamilies(RelayKey(p).kind)
      BY DEF KindFamilies, HTTPSKey, RelayKey
    <2>3. HTTPSKey(p).port = p /\ RelayKey(p).port = p /\ HTTPSKey(p) # RelayKey(p)
      BY DEF HTTPSKey, RelayKey
    <2> QED BY <1>2, <2>1, <2>2, <2>3, Zenon DEF SoleOnPort
  <1> QED BY <1>1, <1>2, SocketMoves

\* Whatever is bound forwards where the configuration says, and no relay in front of
\* another listener of the daemon.
THEOREM ForwardTheorem == Spec => []ForwardsRight
  <1> DEFINE Inv == TableInv /\ RightInv /\ SoleOnPort
  <1>1. Init => Inv
    <2>1. Init => RightInv /\ SoleOnPort
      BY DEF Init, RightInv, SoleOnPort, NoWants
    <2> QED BY <2>1, InitTable
  <1>2. Inv /\ [Next]_vars => Inv'
    BY NextTable, NextRight, NextSole
  <1>3. Inv => ForwardsRight
    <2> SUFFICES ASSUME Inv, pc # "stop", NEW k \in bound
                 PROVE /\ Right(k, backend[k])
                       /\ k.kind = "relay" => HTTPSKey(k.port) \notin bound
      BY DEF ForwardsRight
    <2>1. k \in Keys /\ listeners[k] = "active"
      BY DEF TableInv, TypeOK, SocketsMatchTable
    <2>2. k.port \in Ports
      BY <2>1 DEF Keys
    <2>3. k.kind = "relay" => k = RelayKey(k.port)
      BY <2>1 DEF Keys, RelayKey
    <2> QED BY <2>1, <2>2, <2>3, Zenon DEF RightInv, SoleOnPort
  <1> HIDE DEF Inv
  <1> QED BY <1>1, <1>2, <1>3, PTL DEF Spec

\* No https listener forwards to its own port.
THEOREM NoSelfForward ==
    Spec => [](pc # "stop" => \A k \in bound : k.kind = "https" => backend[k] # k.port)
  <1>1. TypeOK /\ ForwardsRight
        => (pc # "stop" => \A k \in bound : k.kind = "https" => backend[k] # k.port)
    <2> SUFFICES ASSUME TypeOK, ForwardsRight, pc # "stop", NEW k \in bound, k.kind = "https"
                 PROVE backend[k] # k.port
      OBVIOUS
    <2>1. k \in Keys /\ k.port \in Int /\ HTTPSOffset \in Int /\ HTTPSOffset > 0
      BY ConfigAssumption DEF TypeOK, Keys, Ports
    <2>2. backend[k] \in {Source(k), k.port - HTTPSOffset}
      BY DEF ForwardsRight, Right
    <2>3. k.port - HTTPSOffset # k.port
      BY <2>1
    <2>4. CASE RuleOf(k.port) # {}
      <3> DEFINE rule == CHOOSE r \in RuleOf(k.port) : TRUE
      <3>1. rule \in RuleOf(k.port)
        BY <2>4
      <3>2. Source(k) = rule.http
        BY <2>4 DEF Source
      <3> HIDE DEF rule
      <3>3. rule.http # k.port
        BY <3>1, ConfigAssumption DEF RuleOf
      <3> QED BY <2>2, <2>3, <3>2, <3>3
    <2>5. CASE RuleOf(k.port) = {}
      BY <2>2, <2>3, <2>5 DEF Source
    <2> QED BY <2>4, <2>5
  <1> QED BY <1>1, TypeCorrect, ForwardTheorem, PTL

\* A nonempty set of natural numbers has a least one.
LEMMA LeastNumber ==
    ASSUME NEW T \in SUBSET Nat, T # {}
    PROVE  \E m \in T : \A n \in T : m <= n
  <1> DEFINE R == OpToRel(<, Nat)
  <1>1. \A x, y \in Nat : x < y => <<x, y>> \in R
    BY DEF OpToRel
  <1>2. IsWellFoundedOn(R, Nat)
    BY NatLessThanWellFounded, Zenon
  <1> HIDE DEF R
  <1>3. PICK m \in T : \A n \in T : ~(<<n, m>> \in R)
    BY <1>2, WFMin
  <1>4. ASSUME NEW n \in T PROVE m <= n
    <2>1. ~(n < m)
      BY <1>1, <1>3
    <2> QED BY <2>1
  <1> QED BY <1>4

\* Listeners that answer each other's requests include one that a rule asked for: the
\* lowest of them leads to a lower port, or is a relay, which leads to none of ours.
THEOREM LoopTheorem == Spec => []LoopsNeedRules
  <1>1. TypeOK /\ ForwardsRight => LoopsNeedRules
    <2> SUFFICES ASSUME TypeOK, ForwardsRight, pc # "stop", NEW S \in SUBSET bound, S # {},
                        \A k \in S : HTTPSKey(backend[k]) \in S, S \cap ExplicitKeys = {}
                 PROVE FALSE
      BY DEF LoopsNeedRules
    <2> DEFINE P == {k.port : k \in S}
    <2>1. \A k \in S : k \in Keys /\ k.port \in Nat
      BY ConfigAssumption DEF TypeOK, Keys, Ports
    <2>2. PICK m \in P : \A n \in P : m <= n
      <3>1. P \in SUBSET Nat /\ P # {}
        BY <2>1
      <3> HIDE DEF P
      <3> QED BY <3>1, LeastNumber
    <2>3. PICK k \in S : k.port = m
      OBVIOUS
    <2>4. HTTPSKey(backend[k]) \in S
      OBVIOUS
    <2>5. m <= backend[k]
      BY <2>2, <2>4 DEF HTTPSKey
    <2>6. k.kind = "https"
      <3>1. k.kind \in Kinds
        BY <2>1 DEF Keys
      <3>2. k.kind # "relay"
        BY <2>4 DEF ForwardsRight, Right
      <3> QED BY <3>1, <3>2 DEF Kinds
    <2>7. RuleOf(k.port) = {}
      BY <2>1, <2>6 DEF ExplicitKeys
    <2>8. backend[k] = m - HTTPSOffset
      BY <2>3, <2>6, <2>7 DEF ForwardsRight, Right, Source
    <2> QED BY <2>1, <2>3, <2>5, <2>8, ConfigAssumption
  <1> QED BY <1>1, TypeCorrect, ForwardTheorem, PTL

-----------------------------------------------------------------------------
(* What the prober dials.                                                  *)

\* Strengthening of NeverProbesItself: ports are dialled only between the pre-pass and
\* the last decision, and those still to be decided are none of our https ports.
ProbeInv ==
    /\ probing # {} => pc \in {"probe", "auto"}
    /\ pc = "auto" => probing \subseteq autoTodo
    /\ pc = "auto" => \A p \in autoTodo : HTTPSKey(p) \notin bound
    /\ NeverProbesItself

LEMMA NextProbe == TableInv /\ SoleOnPort /\ ProbeInv /\ [Next]_vars => ProbeInv'
  <1> SUFFICES ASSUME TableInv, SoleOnPort, ProbeInv, [Next]_vars PROVE ProbeInv'
    OBVIOUS
  <1> USE DEF ProbeInv, NeverProbesItself
  <1>1. CASE Prepass
    <2>1. bound = {k \in Keys : listeners[k] = "active"}
      BY <1>1 DEF Prepass, TableInv, SocketsMatchTable
    <2>2. \A p \in Candidates : HTTPSKey(p) \notin bound
      BY <2>1 DEF Candidates, OurPort, HTTPSKey, Kinds
    <2>3. probing' \subseteq Candidates
      BY <1>1 DEF Prepass, prober
    <2> QED BY <1>1, <2>2, <2>3 DEF Prepass, table
  <1>2. CASE TakeLock
    <2>1. bound = {k \in Keys : listeners[k] = "active"}
      BY <1>2 DEF TakeLock, TableInv, SocketsMatchTable
    <2>2. ASSUME NEW p \in autoTodo', HTTPSKey(p) \in bound PROVE FALSE
      <3>1. OurPort(p) => OurListener(RelayKey(p))
        BY <1>2, <2>2 DEF TakeLock, AutoPorts
      <3>2. OurPort(p) /\ p \in Ports
        BY <2>1, <2>2 DEF OurPort, HTTPSKey, Kinds, Keys
      <3>3. RelayKey(p) \in bound
        BY <2>1, <3>1, <3>2 DEF OurListener, RelayKey, Keys, Kinds
      <3> QED BY <2>2, <3>2, <3>3 DEF SoleOnPort
    <2> QED BY <1>2, <2>2 DEF TakeLock, table, prober
  <1>3. ASSUME NEW p \in Ports, ProbeAnswers(p) \/ AutoDials(p) \/ AutoDecides(p) \/ CacheExpires(p)
        PROVE ProbeInv'
    BY <1>3 DEF ProbeAnswers, AutoDials, AutoDecides, CacheExpires, table, plan, prober
  <1>4. CASE WantRelays
    BY <1>4 DEF WantRelays, table, prober
  <1>5. CASE ScanTcp \/ ScanTcp6 \/ ScanFails \/ BeginMaintain \/ Unlock \/ Shutdown \/ Exit
    BY <1>5 DEF ScanTcp, ScanTcp6, ScanFails, BeginMaintain, Unlock, Shutdown, Exit, prober
  <1>6. ASSUME NEW k \in Keys, Start(k) \/ MaintainOne(k) \/ StopOne(k) PROVE ProbeInv'
    <2>1. pc \in {"start", "maintain", "stop"} /\ pc' = pc /\ UNCHANGED prober
      BY <1>6 DEF Start, MaintainOne, Handover, DropConflict, Miss, RetryConflict, Keep, Reaches,
                  StopOne
    <2> QED BY <2>1 DEF prober
  <1>7. CASE HostMoves \/ Signal \/ Exited \/ UNCHANGED vars
    BY <1>7 DEF HostMoves, HostOpens, HostCloses, HostReopens, Signal, Exited, vars, table, plan,
                prober
  <1> HIDE DEF ProbeInv
  <1> QED BY <1>1, <1>2, <1>3, <1>4, <1>5, <1>6, <1>7 DEF Next, Daemon

\* The prober never dials an https listener of the daemon, at any moment of a pass.
THEOREM ProbeTheorem == Spec => []NeverProbesItself
  <1> DEFINE Inv == TableInv /\ SoleOnPort /\ ProbeInv
  <1>1. Init => Inv
    <2>1. Init => SoleOnPort /\ ProbeInv
      BY DEF Init, SoleOnPort, ProbeInv, NeverProbesItself
    <2> QED BY <2>1, InitTable
  <1>2. Inv /\ [Next]_vars => Inv'
    BY NextTable, NextSole, NextProbe
  <1>3. Inv => NeverProbesItself
    BY DEF ProbeInv
  <1> HIDE DEF Inv
  <1> QED BY <1>1, <1>2, <1>3, PTL DEF Spec
=============================================================================
