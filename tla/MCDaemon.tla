----------------------------- MODULE MCDaemon -----------------------------
(* Texts at the edges of what LoadConfig accepts.                          *)
EXTENDS Daemon

CONSTANTS d1, d2, c1
TwoDaemons == {d1, d2}
OneClient == {c1}
DenyList == {1, 2}

\* Everything below its range, and an exclude list of the operator's own
Low == [DefaultText EXCEPT !.PollSeconds = -1, !.IdleSeconds = 1, !.HTTPSOffset = -3,
          !.HSTS = TRUE, !.RelayExclude = {5}, !.HTTPSExclude = {},
          !.HTTPSMode = "whitelist", !.HTTPS = <<[http |-> 3, https |-> 4]>>]

\* Two rules for one https port
Clash == [DefaultText EXCEPT !.MaxConnsPerListener = 9999,
            !.HTTPS = <<[http |-> 3, https |-> 4], [http |-> 5, https |-> 4]>>]

EdgeTexts == {Low, Clash}
=============================================================================
