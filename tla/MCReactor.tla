----------------------------- MODULE MCReactor -----------------------------
(* Small instances of Reactor.                                             *)
EXTENDS Reactor

TwoConns == 1 .. 2
=============================================================================
