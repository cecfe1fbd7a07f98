---------------------------- MODULE MCRateLimiter ----------------------------
(***************************************************************************)
(* Small instances of RateLimiter for TLC.                                 *)
(***************************************************************************)
EXTENDS RateLimiter

CONSTANTS Clients, Ports, Via

AllRequests == [client : Clients, port : Ports, via : Via]
=============================================================================
