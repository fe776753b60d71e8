------------------------- MODULE MCRelayListener -------------------------
(* Instances of RelayListener for TLC.                                     *)
EXTENDS RelayListener

CONSTANTS c1, c2
TwoConns == {c1, c2}
=============================================================================
