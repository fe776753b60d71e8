--------------------------- MODULE MCReconcile ---------------------------
(* Instances of Reconcile for TLC: small hosts and configurations.         *)
EXTENDS Reconcile

Sock(addr, p) == [addr |-> addr, port |-> p]
Rule(http, https) == [http |-> http, https |-> https]

NoPorts == {}
AllPorts == Ports
Low == {1}

NoNeighbours == {}
NoRules == {}

\* Three HTTP services in a row: 2 and 3 are also the https ports of 1 and 2. Service 3
\* has rules for two ports, of which 2 is also the target of an upgrade.
RowHost == {Sock("v4any", 1), Sock("v4any", 2), Sock("v4any", 3)}
TwoRules == {Rule(3, 1), Rule(3, 2)}

\* A rule whose https port is also the target of an automatic upgrade;
\* the native dual-stack socket of service 1 may be restarted.
OneRule == {Rule(3, 2)}
RuleHost == {Sock("v4any", 1), Sock("v4any", 3), Sock("dual", 1)}
Restarting == {Sock("dual", 1)}

\* One service that nothing disturbs.
OneHost == {Sock("v4any", 1)}

\* A neighbour on the https port of service 1, which restarts.
SteadyHost == {Sock("v4any", 1), Sock("loop4", 2)}
OneNeighbour == {Sock("loop4", 2)}
=============================================================================
