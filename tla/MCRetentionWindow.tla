------------------------- MODULE MCRetentionWindow --------------------------
(* One worker, one name, one chunk. *)
EXTENDS RetentionWindow, TLC

CONSTANTS h1, w1

MCHash == {h1}
MCShardOf == h1 :> 0
MCPath == {"a/x"}
MCAgentOf == "a/x" :> "a"
MCBodies == {h1 :> 1}
=============================================================================
