----------------------------- MODULE PosixTree -----------------------------
(***************************************************************************)
(* What the namespace promises: one tree of names in which every name is   *)
(* absent or holds exactly one node, every node but a top-level one sits   *)
(* in a directory, a directory is removed only when it is empty, and a     *)
(* rename moves a whole subtree, each node to its own new name, in one     *)
(* step.  A node is a pair of its kind and, for a file, its inode.         *)
(***************************************************************************)
EXTENDS Naturals, Sequences, SequencesExt

CONSTANTS
    Path,       \* the non-empty sequences of names that may be used
    Inode       \* the identities of files

VARIABLE tree       \* Path -> the node at that name

Absent == <<"absent", 0>>
Dir == <<"dir", 0>>
Nodes == {Dir, <<"symlink", 0>>, <<"special", 0>>} \cup {<<"file", i>> : i \in Inode}

IsDir(t, p) == IF p = <<>> THEN TRUE ELSE t[p] = Dir
IsEmpty(t, p) == \A q \in Path : IsStrictPrefix(p, q) => t[q] = Absent
At(t, p) == IF p \in Path THEN t[p] ELSE Absent

\* A node appears at a free name of a directory.
Makes(t, u, p, node) ==
    /\ t[p] = Absent
    /\ IsDir(t, Front(p))
    /\ u = [t EXCEPT ![p] = node]

\* A node goes; a directory only when nothing is below it.
Unmakes(t, u, p) ==
    /\ t[p] # Absent
    /\ IsEmpty(t, p)
    /\ u = [t EXCEPT ![p] = Absent]

\* A node and all that is below it move to another name, onto nothing or onto
\* a node of their sort with nothing below it.
Source(from, to, p) == from \o SubSeq(p, Len(to) + 1, Len(p))

Moves(t, u, from, to) ==
    /\ t[from] # Absent
    /\ u[from] = Absent
    /\ ~IsStrictPrefix(from, to)
    /\ IsDir(t, Front(to))
    /\ t[to] # Absent => (t[from] = Dir) <=> (t[to] = Dir)
    /\ IsEmpty(t, to)
    /\ u = [p \in Path |-> IF IsPrefix(to, p) THEN At(t, Source(from, to, p))
                          ELSE IF IsPrefix(from, p) THEN Absent
                          ELSE t[p]]

Step(t, u) ==
    \/ \E p \in Path : \E node \in Nodes : Makes(t, u, p, node)
    \/ \E p \in Path : Unmakes(t, u, p)
    \/ \E from, to \in Path : Moves(t, u, from, to)

Init == tree = [p \in Path |-> Absent]
Next == Step(tree, tree')
Spec == Init /\ [][Next]_tree
=============================================================================
