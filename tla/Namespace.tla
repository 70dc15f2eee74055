----------------------------- MODULE Namespace -----------------------------
(***************************************************************************)
(* The namespace tables of one tenant (manifests.go): manifests (one row   *)
(* per name of a regular file), symlinks, special_nodes, and dir_entries,  *)
(* which lists every name and is the only trace of a directory.  The four  *)
(* are read and written in SQLite transactions, one at a time, so each     *)
(* operation is an operator from the tables before to the tables after;    *)
(* its refusals are predicates.  A path is a non-empty sequence of names,  *)
(* <<>> is the root.  Change revisions and chunk reference counts are in   *)
(* ChangeFeed and ChunkStore.                                              *)
(*                                                                         *)
(* What lies below a directory is found by pattern: LIKE d||'/%' when a    *)
(* directory moves, GLOB d||'/*' when one must be empty.  Neither escapes  *)
(* the directory's name, so _ and % are wildcards of the one and * ? [ of  *)
(* the other, and LIKE takes ASCII letters in either case.  A moved path   *)
(* is cut with substr, which counts characters, at the length of the old   *)
(* directory in bytes.  Paths are not spelled out here: what matches and   *)
(* what a cut gives are constants.                                         *)
(***************************************************************************)
EXTENDS Naturals, Sequences, SequencesExt, FiniteSets

CONSTANTS
    Path,       \* the paths in use, closed under prefixes
    None,       \* no row
    Likes,      \* the <<d, p>> with p LIKE d||'/%'
    Globs,      \* the <<d, p>> with p GLOB d||'/*'
    Cut(_, _, _)\* Cut(from, to, p) is to||substr(p, len(from) + 1)

Root == <<>>
splitParent(p) == Front(p)
Name == UNION {{p[i] : i \in DOMAIN p} : p \in Path}
Manifest == [ino : Nat, ver : Nat \ {0}, body : Nat]

Under(d, p) == IsStrictPrefix(d, p)

ASSUME NamespaceAssumption ==
    /\ Path \subseteq Seq(Name) \ {Root}
    /\ \A p \in Path : splitParent(p) \in Path \cup {Root}
    /\ None \notin Manifest
    /\ Likes \subseteq Path \X Path
    /\ \A d, p \in Path : Under(d, p) => <<d, p>> \in Likes

Empty == [mf |-> [p \in Path |-> None], ln |-> {}, sp |-> {}, de |-> {}, id |-> 0]

Rows(t) == {p \in Path : t.mf[p] # None} \cup t.ln \cup t.sp
Version(t, p) == IF t.mf[p] = None THEN 0 ELSE t.mf[p].ver
Children(t, p) == {q \in t.de : splitParent(q) = p}
Names(t, ino) == {q \in Path : t.mf[q] # None /\ t.mf[q].ino = ino}
-----------------------------------------------------------------------------
resolveKind(t, p) ==
    IF t.mf[p] # None THEN "file"
    ELSE IF p \in t.ln THEN "symlink"
    ELSE IF p \in t.sp THEN "special"
    ELSE IF Children(t, p) # {} \/ p \in t.de THEN "dir"
    ELSE "absent"

\* The root is no row: it is always a directory.
IsDir(t, d) == IF d = Root THEN TRUE ELSE resolveKind(t, d) = "dir"

\* It asks only for the entry: a file's entry serves as well as a directory's.
checkParentExists(t, p) == splitParent(p) = Root \/ splitParent(p) \in t.de

dirIsEmpty(t, p) == Children(t, p) = {} /\ \A q \in Rows(t) : <<p, q>> \notin Globs

Unlist(t, p) == [t EXCEPT !.de = @ \ {p}]
List(t, p) == [t EXCEPT !.de = @ \cup {p}]

\* An inode's version and content are stored with each of its names.
SetInode(t, ino, ver, body) ==
    [t EXCEPT !.mf = [q \in Path |-> IF q \in Names(t, ino)
                                     THEN [t.mf[q] EXCEPT !.ver = ver, !.body = body]
                                     ELSE t.mf[q]]]
-----------------------------------------------------------------------------
PutAccepts(t, p, exp) == checkParentExists(t, p) /\ Version(t, p) = exp

Put(t, p, exp, body) ==
    List(IF exp = 0
         THEN [t EXCEPT !.mf[p] = [ino |-> t.id + 1, ver |-> 1, body |-> body], !.id = @ + 1]
         ELSE SetInode(t, t.mf[p].ino, exp + 1, body), p)

LinkAccepts(t, from, to) ==
    /\ checkParentExists(t, to)
    /\ resolveKind(t, to) = "absent"
    /\ t.mf[from] # None

Link(t, from, to) == List([t EXCEPT !.mf[to] = t.mf[from]], to)

\* One name that will be left, Root when there is none.  The code takes the
\* first in path order; any may be taken here.
survivingAliases(t, p) ==
    LET others == IF t.mf[p] = None THEN {} ELSE Names(t, t.mf[p].ino) \ {p}
    IN  IF others = {} THEN {Root} ELSE others

\* Delete looks for a special node, then a symlink, then a manifest.
DeleteAccepts(t, p, exp) == p \in t.sp \/ p \in t.ln \/ (exp > 0 /\ Version(t, p) = exp)

deletePathRow(t, p) == Unlist(IF p \in t.sp THEN [t EXCEPT !.sp = @ \ {p}]
                                            ELSE [t EXCEPT !.ln = @ \ {p}], p)

Delete(t, p) == IF p \in t.sp \/ p \in t.ln
                THEN deletePathRow(t, p)
                ELSE Unlist([t EXCEPT !.mf[p] = None], p)

NameFree(t, p) == checkParentExists(t, p) /\ p \notin t.de

DirCreate(t, p) == List(t, p)
Symlink(t, p) == List([t EXCEPT !.ln = @ \cup {p}], p)
Mknod(t, p) == List([t EXCEPT !.sp = @ \cup {p}], p)

\* The entry goes whatever the path is; only manifests are looked for.
DirRemoveAccepts(t, p) ==
    /\ p \in t.de
    /\ Children(t, p) = {}
    /\ \A q \in Path : <<p, q>> \in Globs => t.mf[q] = None
-----------------------------------------------------------------------------
(* rename *)

BugResolveRenameDest(t, from, to) ==
    resolveKind(t, to) # "absent" /\ resolveKind(t, from) = "dir" => dirIsEmpty(t, to)

resolveRenameDest(t, from, to) ==
    LET src == resolveKind(t, from)
        dst == resolveKind(t, to)
    IN  dst # "absent" => /\ (src = "dir") <=> (dst = "dir")
                          /\ src = "dir" => dirIsEmpty(t, to)

SameInode(t, from, to) ==
    t.mf[from] # None /\ t.mf[to] # None /\ t.mf[from].ino = t.mf[to].ino

renameAccepts(t, from, to) ==
    /\ resolveKind(t, from) # "absent"
    /\ from # to
    /\ resolveRenameDest(t, from, to)
    /\ checkParentExists(t, to)
    /\ ~SameInode(t, from, to)

deleteDest(t, to) ==
    Unlist(CASE resolveKind(t, to) = "file"    -> [t EXCEPT !.mf[to] = None]
             [] resolveKind(t, to) = "symlink" -> [t EXCEPT !.ln = @ \ {to}]
             [] resolveKind(t, to) = "special" -> [t EXCEPT !.sp = @ \ {to}]
             [] OTHER                          -> t, to)

\* Where a row, and an entry of dir_entries, is after its path, or its parent,
\* has been rewritten.  The entries in the directory itself go first.
Lands(from, to, p) == IF <<from, p>> \in Likes THEN Cut(from, to, p) ELSE p
EntryLands(from, to, p) ==
    LET parent == splitParent(p)
    IN  Append(Lands(from, to, IF parent = from THEN to ELSE parent), Last(p))

Reparented(t, from, to) ==
    [q \in Path |-> LET source == {p \in Path : t.mf[p] # None /\ Lands(from, to, p) = q}
                    IN  IF source = {} THEN None ELSE t.mf[CHOOSE p \in source : TRUE]]

BugReparentDescendants(t, from, to) ==
    [t EXCEPT !.mf = Reparented(t, from, to),
              !.ln = {Lands(from, to, p) : p \in @},
              !.de = {EntryLands(from, to, p) : p \in @}]

reparentDescendants(t, from, to) ==
    [t EXCEPT !.mf = Reparented(t, from, to),
              !.ln = {Lands(from, to, p) : p \in @},
              !.sp = {Lands(from, to, p) : p \in @},
              !.de = {EntryLands(from, to, p) : p \in @}]

\* Two rows of a table on one name break its primary key, and the rename fails.
KeysFree(t, from, to) ==
    /\ \A table \in {{p \in Path : t.mf[p] # None}, t.ln, t.sp} :
           \A p, q \in table : Lands(from, to, p) = Lands(from, to, q) => p = q
    /\ \A p, q \in t.de : EntryLands(from, to, p) = EntryLands(from, to, q) => p = q

\* The bound on depth: a rename whose result leaves Path is not tried.
Fits(t, from, to) ==
    /\ \A p \in Rows(t) : Lands(from, to, p) \in Path
    /\ \A p \in t.de : EntryLands(from, to, p) \in Path

\* A regular file lands at the version after the one it displaced.
renameVersion(t, to) == Version(t, to) + 1

moveRenameSource(t, from, to, ver) ==
    LET row == t.mf[from]
    IN  CASE resolveKind(t, from) = "file"    ->
                 SetInode([t EXCEPT !.mf[from] = None, !.mf[to] = row], row.ino, ver, row.body)
          [] resolveKind(t, from) = "symlink" -> [t EXCEPT !.ln = (@ \ {from}) \cup {to}]
          [] resolveKind(t, from) = "special" -> [t EXCEPT !.sp = (@ \ {from}) \cup {to}]
          [] OTHER                            -> reparentDescendants(t, from, to)

rewriteRenameDirEntries(t, from, to) == List(Unlist(t, from), to)

reparentAccepts(t, from, to) ==
    resolveKind(t, from) = "dir" => Fits(t, from, to) /\ KeysFree(deleteDest(t, to), from, to)

Rename(t, from, to) ==
    rewriteRenameDirEntries(
        moveRenameSource(deleteDest(t, to), from, to, renameVersion(t, to)), from, to)
-----------------------------------------------------------------------------
(* What the tables stand for: one node per name. *)
Node(t, p) == <<resolveKind(t, p), IF t.mf[p] = None THEN 0 ELSE t.mf[p].ino>>

\* Every name holds at most one node, is listed, and sits in a directory.
OneKind(t, p) == (t.mf[p] # None => p \notin t.ln \cup t.sp) /\ p \notin t.ln \cap t.sp
Listed(t) == Rows(t) \subseteq t.de
InDirectory(t) == \A p \in t.de : IsDir(t, splitParent(p))
\* A directory's rename is exact when the pattern finds what is below it and
\* nothing else, and the cut takes off the old directory and nothing else.
Graft(from, to, p) == to \o SubSeq(p, Len(from) + 1, Len(p))
Exact(t, from, to) ==
    resolveKind(t, from) = "dir" =>
        \A p \in Rows(t) \cup {splitParent(q) : q \in t.de} \cup {to} :
            <<from, p>> \in Likes => Under(from, p) /\ Cut(from, to, p) = Graft(from, to, p)

WellFormed(t) == (\A p \in Path : OneKind(t, p)) /\ Listed(t) /\ InDirectory(t)
=============================================================================
