---------------------------- MODULE MCChunkStore ----------------------------
(* Small instances of ChunkStore for TLC. *)
EXTENDS ChunkStore, TLC

CONSTANTS h1, h2, w1, w2

MCHash == {h1, h2}
MCShardOf == h1 :> 0 @@ h2 :> 1
MCBodies == {h1 :> 1 @@ h2 :> 0, h1 :> 2 @@ h2 :> 1}
MCSymmetry == Permutations({w1, w2})

(* Two agents, one of which has two names. *)
MCThreeNames == {"a/x", "a/y", "b/x"}
MCThreeNamesOf == "a/x" :> "a" @@ "a/y" :> "a" @@ "b/x" :> "b"

(* Two agents that may share chunks; the one with two names makes links. *)
MCLinked == {"a/x", "b/x", "b/y"}
MCLinkedOf == "a/x" :> "a" @@ "b/x" :> "b" @@ "b/y" :> "b"

(* One file, one chunk list that needs both locks. *)
MCOneName == {"a/x"}
MCOneNameOf == "a/x" :> "a"
MCOneBody == {h1 :> 1 @@ h2 :> 1}
=============================================================================
