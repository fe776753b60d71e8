------------------------------- MODULE App -------------------------------
(***************************************************************************)
(* The daemon as app.Run puts it together: the configuration LoadConfig    *)
(* makes of a text is the one Service, its poll loop and its relay         *)
(* listeners run with. Module Config says what comes out of a text, module *)
(* Reconcile and RelayListener what the running parts do with values they  *)
(* take as parameters and assume to be sound; here the parameters are what *)
(* was loaded, and the properties are stated of the operator's text.       *)
(***************************************************************************)
EXTENDS ConfigProofs, FiniteSets

CONSTANTS
    text,           \* config.json, as parsed
    RelayAuto,      \* relay.auto, which LoadConfig hands on
    HTTPServices, HostSockets, Neighbours, MaxChurn,    \* the host, as in Reconcile
    FlakyProbes, FlakyBinds, FlakySelfFds,
    Conns           \* clients of one relay listener

VARIABLES
    foreign, restarting, churn, bound, listeners, backend, missing, cache, probing,
    pc, res, autoTodo, wants, todo, cancelled, unseen,                  \* Reconcile
    zeroCopy, sem, done, lnOpen, stop, stopper, acc, cur, err, conn, rawOpen, released,
    closed, closer, active, total, bridge, copies, ended, told          \* RelayListener

\* The configuration NewService is given.
cfg == LoadConfig(text)

\* The poll loop over that configuration.
Loop == INSTANCE ReconcileProofs
        WITH HTTPSOffset <- cfg.HTTPSOffset, GracePolls <- cfg.GracePolls,
             HTTPSAuto <- cfg.HTTPSAuto, HTTPSRules <- cfg.HTTPS,
             ExcludePorts <- {p \in Ports : IsExcluded(cfg, p)},
             RelayAllow <- {p \in Ports : IsRelayAllowed(cfg, p)},
             HTTPSAllow <- {p \in Ports : IsHTTPSAllowed(cfg, p)}

\* One of its relay listeners.
Relay == INSTANCE RelayListenerProofs WITH MaxConns <- cfg.MaxConnsPerListener

-----------------------------------------------------------------------------
(* Properties, in the operator's terms.                                    *)

\* What a host can be: its sockets have the addresses the kernel model knows.
HostSound ==
    /\ HostSockets \subseteq [addr: Loop!Addrs, port: Ports]
    /\ Neighbours \subseteq HostSockets /\ MaxChurn \in Nat
    /\ {RelayAuto, FlakyProbes, FlakyBinds, FlakySelfFds} \subseteq BOOLEAN

\* The https ports the text has a rule for.
RulePorts == {text.HTTPS[i].https : i \in DOMAIN text.HTTPS}

\* The listeners no rule asked for, held while the daemon is not shutting down.
Automatic == IF pc = "stop" THEN {} ELSE {k \in bound : k.kind = "https" => k.port \notin RulePorts}

\* The built-in deny list protects its ports from both sides: nothing automatic is held
\* on one, and nothing automatic leads to one.
DenyListInForce ==
    \A k \in Automatic : {k.port, backend[k]} \cap DefaultExcludePorts = {}

\* A list in the text allows what it names; none allows everything, but not in whitelist mode.
Lists(list, mode, p) == p \in list \/ (list = {} /\ mode \in {"", "auto"})
AllowListsInForce ==
    \A k \in Automatic :
        IF k.kind = "relay" THEN Lists(text.RelayAllow, text.RelayMode, backend[k])
        ELSE text.HTTPSAuto # "false" /\ Lists(text.HTTPSAllow, text.HTTPSMode, backend[k])

\* An automatic upgrade is at most 100 ports above the service it leads to, never on it.
UpgradesNearby ==
    \A k \in Automatic : k.kind = "https" => k.port - backend[k] \in 1..100

\* Listeners that answer each other's requests include one the text has a rule for.
LoopsNeedRules ==
    pc # "stop" =>
        \A S \in SUBSET bound :
            S # {} /\ (\A k \in S : Loop!HTTPSKey(backend[k]) \in S)
                => \E k \in S : k.port \in RulePorts

\* No text lifts the ceiling of a listener above 4096 connections.
CeilingInForce == ~zeroCopy => active <= 4096

-----------------------------------------------------------------------------
(* A configuration that loads satisfies what the running parts assume.     *)

Accepted == text \in Texts /\ ~Refused(text)

LEMMA LoadedSound ==
    ASSUME Accepted
    PROVE  /\ InRange(cfg) /\ RulesSound(cfg) /\ ListsSound(text, cfg)
           /\ cfg.HTTPSAuto = (text.HTTPSAuto # "false")
           /\ cfg.HTTPS = {text.HTTPS[i] : i \in DOMAIN text.HTTPS}
<1>1. ConfigSound(text)
  BY AcceptedIsSound DEF Accepted
<1>2. InRange(cfg) /\ RulesSound(cfg) /\ ListsSound(text, cfg)
  BY <1>1 DEF ConfigSound, cfg
<1>3. /\ cfg.HTTPSAuto = (text.HTTPSAuto # "false")
      /\ cfg.HTTPS = {text.HTTPS[i] : i \in DOMAIN text.HTTPS}
  BY Zenon DEF cfg, LoadConfig
<1> QED BY <1>2, <1>3

(* What module Reconcile assumes of its parameters is what LoadConfig guarantees. *)
THEOREM LoopAssumptions ==
    ASSUME Accepted, HostSound
    PROVE  Loop!ConfigAssumption /\ Loop!HostAssumption
<1>1. Loop!HostAssumption
  BY DEF HostSound, Loop!HostAssumption, Loop!Ports, Ports, Loop!Addrs
<1>2. cfg.HTTPSOffset \in Nat \ {0} /\ cfg.GracePolls \in Nat \ {0}
  <2>1. cfg.HTTPSOffset \in 1..100 /\ cfg.GracePolls \in 1..120
    BY LoadedSound, PTL DEF InRange
  <2> QED BY <2>1
<1>3. {cfg.HTTPSAuto, RelayAuto} \subseteq BOOLEAN
  BY LoadedSound, Zenon DEF HostSound
<1>4. MaxPort \in Nat
  BY DenyListAssumption
<1>5. RulesSound(cfg)
  BY LoadedSound
<1> QED BY <1>1, <1>2, <1>3, <1>4, <1>5 DEF Loop!ConfigAssumption, Loop!Ports, Ports, RulesSound

-----------------------------------------------------------------------------
(* The lists and the offset.                                               *)

(* What is proved of the poll loop, for the loaded configuration. *)
LEMMA LoopHolds ==
    ASSUME Accepted, HostSound
    PROVE  Loop!Spec => [](Loop!TypeOK /\ Loop!OnlyPermitted /\ Loop!ForwardsRight)
<1>1. Loop!ConfigAssumption /\ Loop!HostAssumption
  BY LoopAssumptions
<1> QED BY <1>1, Loop!TypeCorrect, Loop!ListsRespected, Loop!ForwardTheorem, PTL

(* An automatic listener is one for which Reconcile has no rule. *)
LEMMA AutomaticMeans ==
    ASSUME Accepted, HostSound, Loop!TypeOK, Loop!OnlyPermitted, Loop!ForwardsRight,
           NEW k \in Automatic
    PROVE  /\ k.kind \in {"relay", "https"} /\ k.port \in Ports /\ ~IsExcluded(cfg, k.port)
           /\ k.kind = "relay" =>
                backend[k] = k.port /\ RelayAuto /\ IsRelayAllowed(cfg, k.port)
           /\ k.kind = "https" =>
                /\ backend[k] = k.port - cfg.HTTPSOffset /\ backend[k] \in Ports
                /\ cfg.HTTPSAuto /\ IsHTTPSAllowed(cfg, backend[k])
                /\ ~IsExcluded(cfg, backend[k])
<1>1. pc # "stop" /\ k \in bound /\ k \in Loop!Keys /\ (k.kind = "https" => k.port \notin RulePorts)
  BY DEF Automatic, Loop!TypeOK
<1>2. k.kind \in {"relay", "https"} /\ k.port \in Ports
  BY <1>1 DEF Loop!Keys, Loop!Kinds, Loop!Ports, Ports
<1>3. k.kind = "https" => Loop!RuleOf(k.port) = {}
  BY <1>1, LoadedSound DEF Loop!RuleOf, RulePorts
<1>4. k \notin Loop!ExplicitKeys
  BY <1>2, <1>3 DEF Loop!ExplicitKeys
<1>5. Loop!Permitted(k, backend[k]) /\ Loop!Right(k, backend[k])
  BY <1>1, <1>4 DEF Loop!OnlyPermitted, Loop!ForwardsRight
<1>6. ~IsExcluded(cfg, k.port)
  BY <1>2, <1>5 DEF Loop!Permitted
<1>7. CASE k.kind = "relay"
  BY <1>2, <1>5, <1>6, <1>7 DEF Loop!Permitted, Loop!Right
<1>8. CASE k.kind = "https"
  <2>1. backend[k] = k.port - cfg.HTTPSOffset
    BY <1>3, <1>5, <1>8 DEF Loop!Right, Loop!Source
  <2>2. cfg.HTTPSAuto /\ backend[k] \in Ports /\ IsHTTPSAllowed(cfg, backend[k])
        /\ ~IsExcluded(cfg, backend[k])
    BY <1>5, <1>8 DEF Loop!Permitted
  <2> QED BY <1>2, <1>6, <1>8, <2>1, <2>2
<1> QED BY <1>2, <1>7, <1>8

(* Unless the text overrides it, the built-in deny list protects its ports, whatever
   else the text excludes, allows or leaves out. *)
THEOREM DenyListTheorem ==
    ASSUME Accepted, HostSound, ~text.OverrideDefaultExcludes
    PROVE  Loop!Spec => []DenyListInForce
<1>1. ASSUME Loop!TypeOK, Loop!OnlyPermitted, Loop!ForwardsRight PROVE DenyListInForce
  <2> SUFFICES ASSUME NEW k \in Automatic
               PROVE  k.port \notin DefaultExcludePorts /\ backend[k] \notin DefaultExcludePorts
    BY DEF DenyListInForce
  <2>1. \A p \in DefaultExcludePorts : IsExcluded(cfg, p)
    BY LoadedSound DEF ListsSound
  <2> QED BY <1>1, <2>1, AutomaticMeans
<1> QED BY <1>1, LoopHolds, PTL

(* Nothing automatic is served that the text's allow lists and modes do not let. *)
THEOREM AllowListsTheorem ==
    ASSUME Accepted, HostSound
    PROVE  Loop!Spec => []AllowListsInForce
<1>1. ASSUME Loop!TypeOK, Loop!OnlyPermitted, Loop!ForwardsRight PROVE AllowListsInForce
  <2> SUFFICES ASSUME NEW k \in Automatic
               PROVE  IF k.kind = "relay" THEN Lists(text.RelayAllow, text.RelayMode, backend[k])
                      ELSE text.HTTPSAuto # "false" /\ Lists(text.HTTPSAllow, text.HTTPSMode, backend[k])
    BY DEF AllowListsInForce
  <2>1. /\ \A p \in Ports : IsRelayAllowed(cfg, p) => Lists(text.RelayAllow, text.RelayMode, p)
        /\ \A p \in Ports : IsHTTPSAllowed(cfg, p) => Lists(text.HTTPSAllow, text.HTTPSMode, p)
    BY LoadedSound DEF ListsSound, Lists
  <2> QED BY <1>1, <2>1, AutomaticMeans, LoadedSound
<1> QED BY <1>1, LoopHolds, PTL

(* Whatever offset the text asks for, an upgrade stays near its service and off its port. *)
THEOREM UpgradesTheorem ==
    ASSUME Accepted, HostSound
    PROVE  Loop!Spec => []UpgradesNearby
<1>1. ASSUME Loop!TypeOK, Loop!OnlyPermitted, Loop!ForwardsRight PROVE UpgradesNearby
  <2> SUFFICES ASSUME NEW k \in Automatic, k.kind = "https"
               PROVE  k.port - backend[k] \in 1..100
    BY DEF UpgradesNearby
  <2>1. k.port \in Int /\ backend[k] = k.port - cfg.HTTPSOffset
    BY <1>1, AutomaticMeans DEF Ports
  <2>2. cfg.HTTPSOffset \in 1..100
    BY LoadedSound, PTL DEF InRange
  <2> QED BY <2>1, <2>2
<1> QED BY <1>1, LoopHolds, PTL

(* A daemon whose text has no rules sends no request round in circles; one that does
   only does so through a rule. *)
THEOREM LoopTheorem ==
    ASSUME Accepted, HostSound
    PROVE  Loop!Spec => []LoopsNeedRules
<1>1. Loop!ConfigAssumption /\ Loop!HostAssumption
  BY LoopAssumptions
<1>2. Loop!Spec => []Loop!LoopsNeedRules
  BY <1>1, Loop!LoopTheorem, PTL
<1>3. \A k \in Loop!ExplicitKeys : k.port \in RulePorts
  BY LoadedSound DEF Loop!ExplicitKeys, Loop!RuleOf, RulePorts
<1>4. Loop!LoopsNeedRules => LoopsNeedRules
  BY <1>3 DEF Loop!LoopsNeedRules, LoopsNeedRules
<1> QED BY <1>2, <1>4, PTL

-----------------------------------------------------------------------------
(* The connections of a relay listener.                                    *)

(* Whatever ceiling the text asks for, zero and negative numbers included, at most 4096
   connections are counted on a listener in the counting mode. *)
THEOREM CeilingTheorem ==
    ASSUME Accepted, IsFiniteSet(Conns)
    PROVE  Relay!Spec => []CeilingInForce
<1> DEFINE max == cfg.MaxConnsPerListener
<1>1. max \in 1..4096
  BY LoadedSound, PTL DEF InRange, max
<1> HIDE DEF max
<1>2. Relay!ListenerAssumption
  <2>1. max \in Nat \ {0}
    BY <1>1
  <2>2. Relay!IsFiniteSet(Conns)
    BY Zenon DEF IsFiniteSet, Relay!IsFiniteSet
  <2> QED BY <2>1, <2>2 DEF Relay!ListenerAssumption, max
<1>3. Relay!Spec => [](Relay!TypeOK /\ Relay!ActiveWithinCeiling)
  BY <1>2, Relay!ListenerTypes, Relay!CountWithinCeiling, PTL
<1>4. ASSUME Relay!TypeOK, Relay!ActiveWithinCeiling PROVE CeilingInForce
  <2>1. active \in Int /\ (~zeroCopy => active <= max)
    BY <1>4, Zenon DEF Relay!TypeOK, Relay!ActiveWithinCeiling, max
  <2>2. max \in Int /\ max <= 4096
    BY <1>1
  <2>3. ~zeroCopy => active <= 4096
    BY <2>1, <2>2
  <2> QED BY <2>3 DEF CeilingInForce
<1> QED BY <1>3, <1>4, PTL

=============================================================================
