-------------------------- MODULE MCHealthChecker --------------------------
(* HealthChecker for two servers.                                          *)
EXTENDS HealthChecker

CONSTANTS n1, n2

TwoServers == {n1, n2}
=============================================================================
