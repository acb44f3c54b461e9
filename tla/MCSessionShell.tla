---------------------------- MODULE MCSessionShell ----------------------------
(***************************************************************************)
(* A small instance of SessionShell for TLC: a roster of which a host's    *)
(* link shows three seats, one of every claim state, and a guest's one.    *)
(***************************************************************************)
EXTENDS SessionShell

MCRoleOf == <<"host", "host", "host", "guest">>
MCSeatIds == DOMAIN MCRoleOf
=============================================================================
