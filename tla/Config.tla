------------------------------ MODULE Config ------------------------------
(***************************************************************************)
(* What config.LoadConfig (internal/config/config.go) makes of a text that *)
(* parses: defaults, clamps, the union with the built-in deny list and the *)
(* checks that refuse a configuration, and the lookups the proxy makes in  *)
(* the result. A text is the record json.Unmarshal fills; what is absent   *)
(* in it is 0, {} or "nil". What LoadConfig only hands on (names, paths,   *)
(* relay.auto, the ACME account) is left out, but for the checks on it.    *)
(***************************************************************************)
EXTENDS Integers, Sequences

CONSTANTS
    MaxPort,              \* 65535
    DefaultExcludePorts   \* the built-in deny list

Ports == 1..MaxPort

ASSUME DenyListAssumption == MaxPort \in Nat /\ DefaultExcludePorts \subseteq Ports

Modes == {"auto", "whitelist"}
RuleText == [http: Int, https: Int]

Texts ==
    [PollSeconds: Int, GracePolls: Int, IdleSeconds: Int, HTTPSOffset: Int,
     MaxConnsPerListener: Int, MaxAge: Int, HSTS: BOOLEAN,
     HTTPSAuto: {"nil", "true", "false"}, ZeroCopy: {"nil", "true", "false"},
     HTTPS: Seq(RuleText),
     RelayExclude: SUBSET Int, HTTPSExclude: SUBSET Int,
     RelayAllow: SUBSET Int, HTTPSAllow: SUBSET Int,
     OverrideDefaultExcludes: BOOLEAN,
     RelayMode: Modes \cup {"", "other"}, HTTPSMode: Modes \cup {"", "other"},
     ACMEWithoutDomain: BOOLEAN, Traversal: BOOLEAN]

\* DefaultConfigText
DefaultText ==
    [PollSeconds |-> 0, GracePolls |-> 0, IdleSeconds |-> 0, HTTPSOffset |-> 0,
     MaxConnsPerListener |-> 0, MaxAge |-> 0, HSTS |-> FALSE,
     HTTPSAuto |-> "true", ZeroCopy |-> "true", HTTPS |-> <<>>,
     RelayExclude |-> DefaultExcludePorts, HTTPSExclude |-> DefaultExcludePorts,
     RelayAllow |-> {}, HTTPSAllow |-> {}, OverrideDefaultExcludes |-> FALSE,
     RelayMode |-> "", HTTPSMode |-> "",
     ACMEWithoutDomain |-> FALSE, Traversal |-> FALSE]

-----------------------------------------------------------------------------
(* LoadConfig.                                                             *)

\* A default for what is missing or negative, then the bounds.
Clamp(lo, hi, default, v) ==
    LET w == IF v <= 0 THEN default ELSE v
    IN IF w < lo THEN lo ELSE IF w > hi THEN hi ELSE w

Mode(m) == IF m = "" THEN "auto" ELSE m

\* unionPorts, unless the built-in deny list is overridden
Excludes(text, list) ==
    IF text.OverrideDefaultExcludes THEN list ELSE DefaultExcludePorts \cup list

\* The checks that make LoadConfig return an error.
Refused(text) ==
    \/ \E i \in DOMAIN text.HTTPS :
        LET r == text.HTTPS[i] IN {r.http, r.https} \ Ports # {} \/ r.http = r.https
    \/ \E i, j \in DOMAIN text.HTTPS : i # j /\ text.HTTPS[i].https = text.HTTPS[j].https
    \/ Excludes(text, text.RelayExclude) \ Ports # {}
    \/ Excludes(text, text.HTTPSExclude) \ Ports # {}
    \/ (text.RelayAllow \cup text.HTTPSAllow) \ Ports # {}
    \/ text.ACMEWithoutDomain \/ text.Traversal
    \/ {Mode(text.RelayMode), Mode(text.HTTPSMode)} \ Modes # {}

OneDay == 86400
PollSecondsOf(text) == Clamp(1, 3600, 5, text.PollSeconds)
GracePollsOf(text) == Clamp(1, 120, 2, text.GracePolls)
IdleSecondsOf(text) == Clamp(60, OneDay, 900, text.IdleSeconds)
HTTPSOffsetOf(text) == Clamp(1, 100, 1, text.HTTPSOffset)
MaxConnsPerListenerOf(text) == Clamp(1, 4096, 2048, text.MaxConnsPerListener)
MaxAgeOf(text) == IF text.HSTS /\ text.MaxAge <= 0 THEN 365 * OneDay ELSE text.MaxAge

LoadConfig(text) ==
    [PollSeconds |-> PollSecondsOf(text), GracePolls |-> GracePollsOf(text),
     IdleSeconds |-> IdleSecondsOf(text), HTTPSOffset |-> HTTPSOffsetOf(text),
     MaxConnsPerListener |-> MaxConnsPerListenerOf(text), MaxAge |-> MaxAgeOf(text),
     HSTS |-> text.HSTS,
     HTTPSAuto |-> text.HTTPSAuto # "false", ZeroCopy |-> text.ZeroCopy # "false",
     HTTPS |-> {text.HTTPS[i] : i \in DOMAIN text.HTTPS},
     RelayExclude |-> Excludes(text, text.RelayExclude),
     HTTPSExclude |-> Excludes(text, text.HTTPSExclude),
     RelayAllow |-> text.RelayAllow, HTTPSAllow |-> text.HTTPSAllow,
     RelayMode |-> Mode(text.RelayMode), HTTPSMode |-> Mode(text.HTTPSMode)]

-----------------------------------------------------------------------------
(* Lookups in a loaded configuration.                                      *)

\* Excluded from the relay or from the upgrade is excluded from both.
IsExcluded(cfg, p) == p \in cfg.RelayExclude \cup cfg.HTTPSExclude

\* An empty list allows every port, or none in whitelist mode.
Allowed(mode, list, p) == p \in list \/ (list = {} /\ mode # "whitelist")
IsRelayAllowed(cfg, p) == Allowed(cfg.RelayMode, cfg.RelayAllow, p)
IsHTTPSAllowed(cfg, p) == Allowed(cfg.HTTPSMode, cfg.HTTPSAllow, p)

-----------------------------------------------------------------------------
(* Properties of what the daemon runs on.                                  *)

\* The ranges of the README's table: a poll interval of 0 would panic in NewTicker,
\* a ceiling of 0 lift the limit, a grace of 0 recycle at once.
InRange(cfg) ==
    /\ cfg.PollSeconds \in 1..3600 /\ cfg.GracePolls \in 1..120
    /\ cfg.IdleSeconds \in 60..OneDay /\ cfg.HTTPSOffset \in 1..100
    /\ cfg.MaxConnsPerListener \in 1..4096

\* max-age=0 would make browsers forget the policy that hsts asks for.
HSTSLasts(cfg) == cfg.HSTS => cfg.MaxAge > 0

\* What Reconcile assumes of the explicit rules.
RulesSound(cfg) ==
    /\ cfg.HTTPS \subseteq [http: Ports, https: Ports]
    /\ \A r \in cfg.HTTPS : r.http # r.https
    /\ \A r, q \in cfg.HTTPS : r.https = q.https => r = q

\* README: the deny list is in force unless overridden, whatever else is excluded;
\* a list, if there is one, and whitelist mode allow nothing else.
ListsSound(text, cfg) ==
    /\ text.OverrideDefaultExcludes \/ \A p \in DefaultExcludePorts : IsExcluded(cfg, p)
    /\ \A p \in Ports : IsRelayAllowed(cfg, p) =>
         p \in text.RelayAllow \/ (text.RelayAllow = {} /\ text.RelayMode \in {"", "auto"})
    /\ \A p \in Ports : IsHTTPSAllowed(cfg, p) =>
         p \in text.HTTPSAllow \/ (text.HTTPSAllow = {} /\ text.HTTPSMode \in {"", "auto"})

ConfigSound(text) ==
    LET cfg == LoadConfig(text) IN InRange(cfg) /\ HSTSLasts(cfg) /\ RulesSound(cfg) /\ ListsSound(text, cfg)
=============================================================================
