-------------------------- MODULE MCCertManager --------------------------
(* Instances of CertManager for TLC.                                       *)
EXTENDS CertManager

NoOne == {}
LocalCA == {"local"}
PublicCA == {"public"}
=============================================================================
