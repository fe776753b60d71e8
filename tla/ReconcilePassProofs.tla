----------------------- MODULE ReconcilePassProofs -----------------------
(***************************************************************************)
(* What Reconcile has achieved when it returns, whatever the order of its  *)
(* two loops over maps. A key already reached by the second loop has the   *)
(* properties the whole table is to have at the end, and no later step of  *)
(* the pass takes them away.                                               *)
(***************************************************************************)
EXTENDS ReconcileProofs

\* Nothing is wanted where a native listener was seen.
WishInv ==
    /\ pc = "auto" => \A k \in Keys : k.kind = "relay" => wants[k] = 0
    /\ pc \in {"start", "maintain"} => \A k \in Keys : wants[k] # 0 => ~Yields(k)

\* An entry that the second loop has dealt with.
Dealt(k) ==
    /\ wants[k] # 0 => missing[k] = 0
    /\ listeners[k] = "conflict" => wants[k] # 0
    /\ Yields(k) => listeners[k] = "none"

PassInv ==
    /\ pc = "start" => \A k \in Keys : wants[k] # 0 => k \in todo \/ listeners[k] # "none"
    /\ pc = "maintain" => \A k \in Keys : /\ wants[k] # 0 => listeners[k] # "none"
                                          /\ k \notin todo => Dealt(k)

SettleInv == TableInv /\ WishInv /\ PassInv

LEMMA InitSettle == Init => SettleInv
  <1> SUFFICES ASSUME Init PROVE WishInv /\ PassInv
    BY InitTable DEF SettleInv
  <1> QED BY DEF Init, WishInv, PassInv

LEMMA WishStep ==
    ASSUME TypeOK, WishInv, [Next]_vars
    PROVE WishInv'
  <1> USE DEF WishInv, Yields, table, plan
  <1>1. CASE TakeLock
    BY <1>1 DEF TakeLock, ExplicitWants, ExplicitKeys
  <1>2. ASSUME NEW p \in Ports, AutoDecides(p) PROVE WishInv'
    <2>1. ASSUME NEW k \in Keys, k.kind = "relay" PROVE wants'[k] = 0
      <3>1. k # HTTPSKey(p + HTTPSOffset)
        BY <2>1 DEF HTTPSKey
      <3> QED BY <1>2, <2>1, <3>1 DEF AutoDecides, TypeOK
    <2> QED BY <1>2, <2>1 DEF AutoDecides
  <1>3. CASE WantRelays
    <2>1. ASSUME NEW k \in Keys, wants'[k] # 0, k.kind = "relay" PROVE k.port \notin res.v6o
      BY <1>3, <2>1 DEF WantRelays, RelayWanted
    <2> QED BY <1>3, <2>1 DEF WantRelays
  <1>4. CASE BeginMaintain \/ Unlock \/ Shutdown \/ \E k \in Keys : Start(k) \/ StopOne(k)
    BY <1>4 DEF BeginMaintain, Unlock, Shutdown, Start, StopOne
  <1>5. ASSUME NEW k \in Keys, MaintainOne(k) PROVE WishInv'
    BY <1>5 DEF MaintainOne, Handover, DropConflict, Miss, RetryConflict, Keep, Reaches
  <1>6. CASE \/ ScanTcp \/ ScanTcp6 \/ ScanFails \/ Prepass \/ Exit \/ Signal \/ Exited
             \/ UNCHANGED vars
    BY <1>6 DEF ScanTcp, ScanTcp6, ScanFails, Prepass, Exit, Signal, Exited, vars
  <1>7. CASE HostMoves \/ \E p \in Ports : ProbeAnswers(p) \/ AutoDials(p) \/ CacheExpires(p)
    BY <1>7 DEF HostMoves, HostOpens, HostCloses, HostReopens, ProbeAnswers, AutoDials,
                CacheExpires
  <1> QED BY <1>1, <1>2, <1>3, <1>4, <1>5, <1>6, <1>7 DEF Next, Daemon

LEMMA PassStart ==
    ASSUME TypeOK, PassInv, WantRelays \/ BeginMaintain \/ \E k \in Keys : Start(k)
    PROVE PassInv'
  <1> USE DEF PassInv, table
  <1>1. CASE WantRelays
    BY <1>1 DEF WantRelays
  <1>2. CASE BeginMaintain
    <2>1. ASSUME NEW k \in Keys, k \notin todo' PROVE Dealt(k)'
      <3>1. listeners[k] = "none"
        BY <1>2, <2>1 DEF BeginMaintain
      <3>2. missing[k] = 0
        BY <3>1 DEF TypeOK
      <3> QED BY <1>2, <3>1, <3>2 DEF BeginMaintain, Dealt
    <2> QED BY <1>2, <2>1 DEF BeginMaintain
  <1>3. ASSUME NEW k \in Keys, Start(k) PROVE PassInv'
    <2>1. listeners'[k] # "none"
      BY <1>3 DEF Start, Opens, TypeOK
    <2>2. \A j \in Keys \ {k} : listeners'[j] = listeners[j]
      BY <1>3 DEF Start, Opens, TypeOK
    <2> QED BY <1>3, <2>1, <2>2 DEF Start
  <1> QED BY <1>1, <1>2, <1>3

LEMMA PassMaintain ==
    ASSUME TypeOK, WishInv, PassInv, NEW k \in Keys, MaintainOne(k)
    PROVE PassInv'
  <1>1. /\ pc = "maintain" /\ pc' = "maintain" /\ k \in todo /\ todo' = todo \ {k}
        /\ wants' = wants /\ res' = res
    BY DEF MaintainOne, Handover, DropConflict, Miss, RetryConflict, Keep, Reaches
  <1>2. ASSUME NEW j \in Keys, j # k
        PROVE listeners'[j] = listeners[j] /\ missing'[j] = missing[j]
    BY <1>2 DEF MaintainOne, Handover, DropConflict, Miss, RetryConflict, Keep,
                Forgets, Opens, TypeOK, table
  <1>3. (wants[k] # 0 => listeners'[k] # "none") /\ Dealt(k)'
    <2> USE <1>1 DEF Dealt, Yields
    <2>1. CASE Handover(k)
      <3>1. wants[k] = 0 /\ listeners'[k] = "none"
        BY <2>1 DEF Handover, Forgets, WishInv, TypeOK
      <3> QED BY <3>1
    <2>2. CASE DropConflict(k)
      BY <2>2 DEF DropConflict, Forgets, TypeOK
    <2>3. CASE Miss(k)
      <3>1. wants[k] = 0 /\ ~Yields(k) /\ listeners'[k] # "conflict"
        BY <2>3 DEF Miss, Forgets, TypeOK
      <3> QED BY <3>1
    <2>4. CASE RetryConflict(k)
      <3>1. wants[k] # 0 /\ ~Yields(k)
        BY <2>4 DEF RetryConflict
      <3>2. missing'[k] = 0 /\ listeners'[k] # "none"
        BY <2>4 DEF RetryConflict, Opens, TypeOK, table
      <3> QED BY <3>1, <3>2
    <2>5. CASE Keep(k)
      BY <2>5 DEF Keep, TypeOK
    <2> QED BY <2>1, <2>2, <2>3, <2>4, <2>5 DEF MaintainOne
  <1>4. ASSUME NEW j \in Keys
        PROVE /\ wants'[j] # 0 => listeners'[j] # "none"
              /\ j \notin todo' => Dealt(j)'
    <2>1. CASE j = k
      BY <1>1, <1>3, <2>1
    <2>2. CASE j # k
      BY <1>1, <1>2, <2>2 DEF PassInv, Dealt, Yields
    <2> QED BY <2>1, <2>2
  <1> QED BY <1>1, <1>4 DEF PassInv

LEMMA PassStep ==
    ASSUME TypeOK, WishInv, PassInv, [Next]_vars
    PROVE PassInv'
  <1> USE DEF table, plan
  <1>1. CASE WantRelays \/ BeginMaintain \/ \E k \in Keys : Start(k)
    BY <1>1, PassStart
  <1>2. CASE \E k \in Keys : MaintainOne(k)
    BY <1>2, PassMaintain
  <1>3. CASE \/ ScanTcp \/ ScanTcp6 \/ ScanFails \/ Prepass \/ TakeLock \/ Unlock
             \/ Shutdown \/ Exit \/ \E k \in Keys : StopOne(k)
    BY <1>3 DEF PassInv, ScanTcp, ScanTcp6, ScanFails, Prepass, TakeLock, Unlock, Shutdown,
                Exit, StopOne
  <1>4. CASE \E p \in Ports : AutoDecides(p)
    BY <1>4 DEF PassInv, AutoDecides
  <1>5. CASE Signal \/ Exited \/ UNCHANGED vars
    BY <1>5 DEF PassInv, Dealt, Yields, Signal, Exited, vars
  <1>6. CASE HostMoves \/ \E p \in Ports : ProbeAnswers(p) \/ AutoDials(p) \/ CacheExpires(p)
    BY <1>6 DEF PassInv, Dealt, Yields, HostMoves, HostOpens, HostCloses, HostReopens,
                ProbeAnswers, AutoDials, CacheExpires
  <1> QED BY <1>1, <1>2, <1>3, <1>4, <1>5, <1>6 DEF Next, Daemon

LEMMA AlwaysSettle == Spec => []SettleInv
  <1>1. SettleInv /\ [Next]_vars => SettleInv'
    BY NextTable, WishStep, PassStep DEF SettleInv, TableInv
  <1> QED BY InitSettle, <1>1, PTL DEF Spec

\* When Service.Reconcile returns no relay is left on a port where the scan saw a
\* native IPv6 listener, neither as an entry nor as a socket.
THEOREM YieldTheorem == Spec => []PoliteYield
  <1>1. SettleInv => PoliteYield
    <2> SUFFICES ASSUME SettleInv, pc = "maintain", todo = {}, NEW p \in res.v6o
                 PROVE listeners[RelayKey(p)] = "none" /\ RelayKey(p) \notin bound
      BY DEF PoliteYield
    <2>1. p \in Ports
      BY DEF SettleInv, TableInv, TypeOK
    <2>2. RelayKey(p) \in Keys /\ Yields(RelayKey(p))
      BY <2>1 DEF RelayKey, Keys, Kinds, Yields
    <2>3. listeners[RelayKey(p)] = "none"
      BY <2>2 DEF SettleInv, PassInv, Dealt
    <2> QED BY <2>3 DEF SettleInv, TableInv, SocketsMatchTable
  <1> QED BY <1>1, AlwaysSettle, PTL

\* When Service.Reconcile returns everything wanted has an entry, without missed
\* polls, and every conflict is about something wanted.
THEOREM SettledTheorem == Spec => []TableSettled
  <1>1. SettleInv => TableSettled
    BY DEF SettleInv, PassInv, Dealt, TableSettled
  <1> QED BY <1>1, AlwaysSettle, PTL
-----------------------------------------------------------------------------
(* The table implements the life of the listening sockets.                 *)

LEMMA StepsLife ==
    ASSUME TableInv, [Next]_vars
    PROVE [Life!Next]_<<bound, missing, Phase>>
  <1> USE DEF table, Phase
  <1>0. /\ TypeOK /\ SocketsMatchTable
        /\ Phase = "up" => bound = {k \in Keys : listeners[k] = "active"}
    BY DEF TableInv, SocketsMatchTable
  <1>1. ASSUME NEW k \in Keys, pc \in {"start", "maintain"}, pc' = pc, Opens(k),
               wants[k] # 0, listeners[k] # "active"
        PROVE Life!Open(k)
    BY <1>0, <1>1 DEF Opens, TypeOK, Life!Open
  <1>2. ASSUME NEW k \in Keys, Start(k) PROVE [Life!Next]_<<bound, missing, Phase>>
    <2>1. wants[k] # 0 /\ listeners[k] # "active" /\ pc = "start" /\ pc' = pc
      BY <1>2 DEF TableInv, StartsFresh, Start
    <2> QED BY <1>1, <1>2, <2>1 DEF Start, Life!Next
  <1>3. ASSUME NEW k \in Keys, MaintainOne(k) PROVE [Life!Next]_<<bound, missing, Phase>>
    <2>1. pc = "maintain" /\ pc' = "maintain"
      BY <1>3 DEF MaintainOne, Handover, DropConflict, Miss, RetryConflict, Keep, Reaches
    <2>2. CASE Handover(k)
      <3>1. CASE k \in bound
        BY <1>0, <2>1, <2>2, <3>1 DEF Handover, Yields, Closes, Forgets, Life!Retire, Life!Next
      <3>2. CASE k \notin bound
        <4>1. missing' = missing /\ bound' = bound
          BY <1>0, <2>1, <2>2, <3>2 DEF Handover, Closes, Forgets, TypeOK
        <4> QED BY <2>1, <4>1
      <3> QED BY <3>1, <3>2
    <2>3. CASE DropConflict(k)
      <3>1. missing' = missing /\ bound' = bound
        BY <1>0, <2>1, <2>3 DEF DropConflict, Forgets, TypeOK
      <3> QED BY <2>1, <3>1
    <2>4. CASE Miss(k)
      <3>1. k \in bound /\ missing[k] \in Nat
        BY <1>0, <2>1, <2>4, Bounds DEF Miss, TypeOK
      <3>2. CASE missing[k] + 1 >= GracePolls
        BY <2>1, <2>4, <3>1, <3>2 DEF Miss, Closes, Forgets, Life!Retire, Life!Next
      <3>3. CASE ~(missing[k] + 1 >= GracePolls)
        <4>1. missing[k] + 1 < GracePolls
          BY <3>1, <3>3, Bounds
        <4> QED BY <2>1, <2>4, <3>1, <3>3, <4>1 DEF Miss, Life!Miss, Life!Next
      <3> QED BY <3>2, <3>3
    <2>5. CASE RetryConflict(k)
      <3>1. wants[k] # 0 /\ listeners[k] # "active"
        BY <2>5 DEF RetryConflict
      <3> QED BY <1>1, <2>1, <2>5, <3>1 DEF RetryConflict, Life!Next
    <2>6. CASE Keep(k)
      BY <1>0, <2>1, <2>6 DEF Keep, Life!Renew, Life!Next
    <2> QED BY <1>3, <2>2, <2>3, <2>4, <2>5, <2>6 DEF MaintainOne
  <1>4. CASE Shutdown
    BY <1>4 DEF Shutdown, Life!Stop, Life!Next
  <1>5. ASSUME NEW k \in Keys, StopOne(k) PROVE [Life!Next]_<<bound, missing, Phase>>
    <2>1. CASE k \in bound
      BY <1>5, <2>1 DEF StopOne, Closes, Life!Drain, Life!Next
    <2>2. CASE k \notin bound
      BY <1>5, <2>2 DEF StopOne, Closes
    <2> QED BY <2>1, <2>2
  <1>6. CASE Exit
    BY <1>0, <1>6 DEF Exit, SocketsMatchTable, Life!Off, Life!Next
  <1>7. CASE \/ ScanTcp \/ ScanTcp6 \/ ScanFails \/ Prepass \/ TakeLock \/ WantRelays
             \/ BeginMaintain \/ Unlock \/ Signal \/ Exited \/ UNCHANGED vars
    BY <1>7 DEF ScanTcp, ScanTcp6, ScanFails, Prepass, TakeLock, WantRelays, BeginMaintain,
                Unlock, Signal, Exited, vars
  <1>8. CASE \/ HostMoves
             \/ \E p \in Ports : \/ ProbeAnswers(p) \/ AutoDials(p) \/ AutoDecides(p)
                                 \/ CacheExpires(p)
    BY <1>8 DEF HostMoves, HostOpens, HostCloses, HostReopens, ProbeAnswers, AutoDials,
                AutoDecides, CacheExpires
  <1> QED BY <1>2, <1>3, <1>4, <1>5, <1>6, <1>7, <1>8 DEF Next, Daemon

\* Service.Reconcile and Shutdown, whatever the scans, probes and binds return,
\* open and close listening sockets as ListenerLifecycle promises.
THEOREM LifecycleTheorem == Spec => ImplementsLifecycle
  <1>1. Init => Life!Init
    BY DEF Init, Life!Init, Phase
  <1>2. TableInv /\ [Next]_vars => [Life!Next]_<<bound, missing, Phase>>
    BY StepsLife
  <1> QED BY <1>1, <1>2, TableInvariant, PTL DEF Spec, ImplementsLifecycle, Life!Spec

-----------------------------------------------------------------------------
(* What the life of the sockets promises by itself: these steps use nothing *)
(* of the code but that it implements ListenerLifecycle.                    *)

Lived ==
    /\ bound \subseteq Keys /\ missing \in [Keys -> 0..GracePolls - 1]
    /\ \A k \in Keys : k \notin bound \/ Phase # "up" => missing[k] = 0
    /\ Phase = "off" => bound = {}

\* A socket opens only in service, and is closed in service only by a kind that yields or
\* after its last poll but one was missed; no step opens one socket and closes another.
OneAtATime ==
    /\ bound \subseteq bound' \/ bound' \subseteq bound
    /\ bound' \subseteq bound \/ Phase = "up"
    /\ \A k \in bound \ bound' :
        Phase = "up" => k.kind = "relay" \/ missing[k] = GracePolls - 1

LEMMA LifeStep ==
    ASSUME Lived, [Life!Next]_<<bound, missing, Phase>>
    PROVE  Lived' /\ OneAtATime
  <1> USE Bounds DEF Lived, OneAtATime
  <1>1. ASSUME NEW k \in Keys, Life!Open(k) PROVE Lived' /\ OneAtATime
    BY <1>1 DEF Life!Open
  <1>2. ASSUME NEW k \in Keys, Life!Renew(k) PROVE Lived' /\ OneAtATime
    BY <1>2 DEF Life!Renew
  <1>3. ASSUME NEW k \in Keys, Life!Miss(k) PROVE Lived' /\ OneAtATime
    BY <1>3 DEF Life!Miss
  <1>4. ASSUME NEW k \in Keys, Life!Retire(k) PROVE Lived' /\ OneAtATime
    BY <1>4 DEF Life!Retire
  <1>5. ASSUME NEW k \in Keys, Life!Drain(k) PROVE Lived' /\ OneAtATime
    BY <1>5 DEF Life!Drain
  <1>6. CASE Life!Stop
    BY <1>6 DEF Life!Stop
  <1>7. CASE Life!Off
    BY <1>7 DEF Life!Off
  <1>8. CASE UNCHANGED <<bound, missing, Phase>>
    BY <1>8
  <1> QED BY <1>1, <1>2, <1>3, <1>4, <1>5, <1>6, <1>7, <1>8 DEF Life!Next

\* An implementation of ListenerLifecycle never keeps a poll counted against a closed
\* socket, closes none early, opens none once it is stopping and has none left when off.
THEOREM LifecyclePromise ==
    ImplementsLifecycle => []Lived /\ [][OneAtATime]_<<bound, missing, Phase>>
  <1>1. Life!Init => Lived
    BY Bounds DEF Life!Init, Lived
  <1>2. Lived /\ [Life!Next]_<<bound, missing, Phase>>
          => Lived' /\ [OneAtATime]_<<bound, missing, Phase>>
    BY LifeStep
  <1> QED BY <1>1, <1>2, PTL DEF ImplementsLifecycle, Life!Spec
=============================================================================
