----------------------------- MODULE FileStore ------------------------------
(***************************************************************************)
(* What the content store promises a client: names of files with contents. *)
(* There are no chunk files, counts, locks or collector here.  Contents    *)
(* change because somebody wrote, linked, removed or renamed a file or     *)
(* purged an agent, and for no other reason; a name that has not been      *)
(* removed can be read in full at every moment.                            *)
(***************************************************************************)
EXTENDS Integers

CONSTANTS Path, Agent, AgentOf, Bodies, Nothing

VARIABLES
    inode,   \* the file behind each name, 0 for none
    body     \* what a reader of the name gets, Nothing where there is no file

fvars == <<inode, body>>

Aliases(p) == {q \in Path : inode[q] = inode[p]}

Create(p, b) ==
    /\ inode[p] = 0
    /\ inode'[p] \notin {0} \union {inode[q] : q \in Path}      \* some new file
    /\ inode' = [inode EXCEPT ![p] = inode'[p]]
    /\ body' = [body EXCEPT ![p] = b]

Overwrite(p, b) ==
    /\ inode[p] # 0
    /\ inode' = inode
    /\ body' = [q \in Path |-> IF q \in Aliases(p) THEN b ELSE body[q]]

LinkTo(p, q) ==
    /\ inode[p] # 0 /\ inode[q] = 0
    /\ inode' = [inode EXCEPT ![q] = inode[p]]
    /\ body' = [body EXCEPT ![q] = body[p]]

Unlink(p) ==
    /\ inode[p] # 0
    /\ inode' = [inode EXCEPT ![p] = 0]
    /\ body' = [body EXCEPT ![p] = Nothing]

Move(p, q) ==
    /\ inode[p] # 0 /\ inode[q] # inode[p]
    /\ inode' = [inode EXCEPT ![q] = inode[p], ![p] = 0]
    /\ body' = [body EXCEPT ![q] = body[p], ![p] = Nothing]

Forget(a) ==
    /\ inode' = [p \in Path |-> IF AgentOf[p] = a THEN 0 ELSE inode[p]]
    /\ body' = [p \in Path |-> IF AgentOf[p] = a THEN Nothing ELSE body[p]]

FInit == inode = [p \in Path |-> 0] /\ body = [p \in Path |-> Nothing]

FNext ==
    \/ \E p \in Path, b \in Bodies : Create(p, b) \/ Overwrite(p, b)
    \/ \E p, q \in Path : LinkTo(p, q) \/ Move(p, q)
    \/ \E p \in Path : Unlink(p)
    \/ \E a \in Agent : Forget(a)

FSpec == FInit /\ [][FNext]_fvars
=============================================================================
