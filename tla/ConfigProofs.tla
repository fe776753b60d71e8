--------------------------- MODULE ConfigProofs ---------------------------
(***************************************************************************)
(* What is proved of module Config: every text that is not refused loads   *)
(* to a configuration in the documented ranges, with sound rules, and with *)
(* the deny list in force.                                                 *)
(***************************************************************************)
EXTENDS Config, TLAPS

(* Whatever numbers a text holds, what runs is in the documented ranges. *)
LEMMA NumbersInRange ==
    ASSUME NEW text \in Texts
    PROVE  InRange(LoadConfig(text)) /\ HSTSLasts(LoadConfig(text))
<1> DEFINE cfg == LoadConfig(text)
           poll == PollSecondsOf(text)    grace == GracePollsOf(text)
           idle == IdleSecondsOf(text)    offset == HTTPSOffsetOf(text)
           conns == MaxConnsPerListenerOf(text)
<1>1. /\ cfg.PollSeconds = poll /\ cfg.GracePolls = grace
      /\ cfg.IdleSeconds = idle /\ cfg.HTTPSOffset = offset
      /\ cfg.MaxConnsPerListener = conns
      /\ cfg.HSTS = text.HSTS /\ cfg.MaxAge = MaxAgeOf(text)
  BY Zenon DEF LoadConfig
<1>2. poll \in 1..3600
  <2> DEFINE v == text.PollSeconds
  <2>1. v \in Int /\ poll = Clamp(1, 3600, 5, v)
    BY DEF Texts, PollSecondsOf
  <2> HIDE DEF v, poll
  <2> QED BY <2>1, SMT DEF Clamp
<1>3. grace \in 1..120
  <2> DEFINE v == text.GracePolls
  <2>1. v \in Int /\ grace = Clamp(1, 120, 2, v)
    BY DEF Texts, GracePollsOf
  <2> HIDE DEF v, grace
  <2> QED BY <2>1, SMT DEF Clamp
<1>4. idle \in 60..OneDay
  <2> DEFINE v == text.IdleSeconds
  <2>1. v \in Int /\ idle = Clamp(60, OneDay, 900, v)
    BY DEF Texts, IdleSecondsOf
  <2> HIDE DEF v, idle
  <2>2. OneDay \in Int /\ 900 <= OneDay
    BY SMT DEF OneDay
  <2> QED BY <2>1, <2>2, SMT DEF Clamp
<1>5. offset \in 1..100
  <2> DEFINE v == text.HTTPSOffset
  <2>1. v \in Int /\ offset = Clamp(1, 100, 1, v)
    BY DEF Texts, HTTPSOffsetOf
  <2> HIDE DEF v, offset
  <2> QED BY <2>1, SMT DEF Clamp
<1>6. conns \in 1..4096
  <2> DEFINE v == text.MaxConnsPerListener
  <2>1. v \in Int /\ conns = Clamp(1, 4096, 2048, v)
    BY DEF Texts, MaxConnsPerListenerOf
  <2> HIDE DEF v, conns
  <2> QED BY <2>1, SMT DEF Clamp
<1>7. text.HSTS => MaxAgeOf(text) > 0
  <2> DEFINE on == text.HSTS  age == text.MaxAge
  <2>1. age \in Int /\ MaxAgeOf(text) = IF on /\ age <= 0 THEN 365 * OneDay ELSE age
    BY DEF Texts, MaxAgeOf
  <2> HIDE DEF on, age
  <2> QED BY <2>1, SMT DEF on, OneDay
<1> HIDE DEF cfg, poll, grace, idle, offset, conns
<1>8. InRange(cfg)
  <2>1. cfg.PollSeconds \in 1..3600 /\ cfg.GracePolls \in 1..120
    BY <1>1, <1>2, <1>3
  <2>2. cfg.IdleSeconds \in 60..OneDay /\ cfg.HTTPSOffset \in 1..100
    BY <1>1, <1>4, <1>5
  <2>3. cfg.MaxConnsPerListener \in 1..4096
    BY <1>1, <1>6
  <2> QED BY <2>1, <2>2, <2>3, PTL DEF InRange
<1>9. HSTSLasts(cfg)
  BY <1>1, <1>7, Zenon DEF HSTSLasts
<1> QED BY <1>8, <1>9 DEF cfg

(* The rules that pass the checks are on ports, forward somewhere else and have an
   https port each of their own. *)
LEMMA RulesAreSound ==
    ASSUME NEW text \in Texts, ~Refused(text)
    PROVE  RulesSound(LoadConfig(text))
<1> DEFINE rules == {text.HTTPS[i] : i \in DOMAIN text.HTTPS}
<1>1. LoadConfig(text).HTTPS = rules
  BY Zenon DEF LoadConfig
<1>2. \A i \in DOMAIN text.HTTPS : text.HTTPS[i] \in RuleText
  <2>1. text.HTTPS \in Seq(RuleText)
    BY DEF Texts
  <2> QED BY <2>1
<1>3. \A i \in DOMAIN text.HTTPS :
        /\ text.HTTPS[i].http \in Ports /\ text.HTTPS[i].https \in Ports
        /\ text.HTTPS[i].http # text.HTTPS[i].https
  BY DEF Refused
<1>4. \A i, j \in DOMAIN text.HTTPS : i # j => text.HTTPS[i].https # text.HTTPS[j].https
  BY DEF Refused
<1>5. rules \subseteq [http: Ports, https: Ports]
  <2> SUFFICES ASSUME NEW i \in DOMAIN text.HTTPS
               PROVE  text.HTTPS[i] \in [http: Ports, https: Ports]
    OBVIOUS
  <2> HIDE DEF rules
  <2> QED BY <1>2, <1>3 DEF RuleText
<1>6. \A r \in rules : r.http # r.https
  BY <1>3
<1>7. \A r, q \in rules : r.https = q.https => r = q
  BY <1>4
<1> QED BY <1>1, <1>5, <1>6, <1>7, Zenon DEF RulesSound

(* The lists in force are the operator's, and the deny list unless overridden. *)
LEMMA ListsAreSound ==
    ASSUME NEW text \in Texts, ~Refused(text)
    PROVE  ListsSound(text, LoadConfig(text))
<1> DEFINE cfg == LoadConfig(text)
<1>1. /\ cfg.RelayExclude = Excludes(text, text.RelayExclude)
      /\ cfg.RelayAllow = text.RelayAllow /\ cfg.HTTPSAllow = text.HTTPSAllow
      /\ cfg.RelayMode = Mode(text.RelayMode) /\ cfg.HTTPSMode = Mode(text.HTTPSMode)
  BY Zenon DEF LoadConfig
<1>2. Mode(text.RelayMode) \in Modes /\ Mode(text.HTTPSMode) \in Modes
  BY SMT DEF Refused
<1>3. ASSUME NEW m, NEW list, NEW p, Mode(m) \in Modes, Allowed(Mode(m), list, p)
      PROVE  p \in list \/ (list = {} /\ m \in {"", "auto"})
  <2>1. p \in list \/ (list = {} /\ Mode(m) # "whitelist")
    BY <1>3, Zenon DEF Allowed
  <2>2. CASE m = ""
    BY <2>1, <2>2, Zenon
  <2>3. CASE m # ""
    <3>1. Mode(m) = m
      BY <2>3, Zenon DEF Mode
    <3> QED BY <1>3, <2>1, <3>1, Zenon DEF Modes
  <2> QED BY <2>2, <2>3, Zenon
<1>4. text.OverrideDefaultExcludes \/ \A p \in DefaultExcludePorts : IsExcluded(cfg, p)
  <2> SUFFICES ASSUME ~text.OverrideDefaultExcludes, NEW p \in DefaultExcludePorts
               PROVE  IsExcluded(cfg, p)
    OBVIOUS
  <2>1. cfg.RelayExclude = DefaultExcludePorts \cup text.RelayExclude
    BY <1>1, Zenon DEF Excludes
  <2> HIDE DEF cfg
  <2> QED BY <2>1, SMT DEF IsExcluded
<1>5. ASSUME NEW p \in Ports, IsRelayAllowed(cfg, p)
      PROVE  p \in text.RelayAllow \/ (text.RelayAllow = {} /\ text.RelayMode \in {"", "auto"})
  <2>1. Allowed(Mode(text.RelayMode), text.RelayAllow, p)
    BY <1>1, <1>5, Zenon DEF IsRelayAllowed
  <2> QED BY <1>2, <1>3, <2>1, Zenon
<1>6. ASSUME NEW p \in Ports, IsHTTPSAllowed(cfg, p)
      PROVE  p \in text.HTTPSAllow \/ (text.HTTPSAllow = {} /\ text.HTTPSMode \in {"", "auto"})
  <2>1. Allowed(Mode(text.HTTPSMode), text.HTTPSAllow, p)
    BY <1>1, <1>6, Zenon DEF IsHTTPSAllowed
  <2> QED BY <1>2, <1>3, <2>1, Zenon
<1> QED BY <1>4, <1>5, <1>6, Zenon DEF ListsSound

(* LoadConfig: every text it accepts makes a configuration the daemon can run on. *)
THEOREM AcceptedIsSound ==
    ASSUME NEW text \in Texts, ~Refused(text)
    PROVE  ConfigSound(text)
  BY NumbersInRange, RulesAreSound, ListsAreSound DEF ConfigSound

=============================================================================
