---------------------------- MODULE MCZkMonitor ----------------------------
(* Three head servers, two of them configured.  The third uses less of     *)
(* everything than the first as it is registered at one time, and more at  *)
(* another; the second is better or worse than each of them in one figure  *)
(* only.  So the leader depends on who is believed to be healthy, and can  *)
(* change from round to round when nothing else does.                      *)
EXTENDS ZkMonitor

MCUsageOf ==
  [h \in Heads |-> CASE h = 1 -> {<<1, 1>>, <<3, 3>>} [] h = 2 -> {<<0, 4>>} [] OTHER -> {<<2, 2>>}]
=============================================================================
