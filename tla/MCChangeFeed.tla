---------------------------- MODULE MCChangeFeed ----------------------------
(* Small instances of ChangeFeed for TLC. *)
EXTENDS ChangeFeed

CONSTANTS t1, t2
=============================================================================
