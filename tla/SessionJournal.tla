--------------------------- MODULE SessionJournal ---------------------------
(***************************************************************************)
(* The session journal of one allocation over the tables of Namespace:     *)
(* every write of a regular file appends, in its own transaction, a row    *)
(* that holds what revert needs to undo it (journal.go); revert reads a    *)
(* row, checks the live version against it, writes the inverse as one more *)
(* journaled write and then deletes the row, in separate steps and under   *)
(* no lock (revert.go); a commit is followed by a broadcast to the event   *)
(* stream the dashboard reads (journal_pubsub.go, control_journal.go).     *)
(*                                                                         *)
(* The mount is one client.  Its kernel refuses, from names it has looked  *)
(* up, what the server does not: to create over a node, to rmdir a file,   *)
(* to use a file as a directory, to move a directory into itself (mark     *)
(* Vfs).  The dashboard and the data plane revert while the mount works,   *)
(* and while another revert is under way.                                  *)
(***************************************************************************)
EXTENDS Namespace

CONSTANTS
    MaxOp,          \* bound: writes, reverts, take-overs and restarts together
    MaxWatched,     \* the same bound while an event stream is followed
    MaxOverlap,     \* the same bound for a revert to start while another is under way
    MaxSession,     \* bound: mount sessions
    Watched,        \* bound: the paths written while an event stream is followed, the
                    \* others being written while none is
    CatchUp,        \* rows a stream reads before it subscribes (50 in the code)
    Buffer,         \* entries a subscriber may lag behind (64 in the code)
    Reverter        \* reverts that may be under way at once

ASSUME JournalAssumption ==
    /\ MaxOp \in Nat /\ MaxWatched \in 0..MaxOp /\ MaxOverlap \in Nat /\ MaxSession \in Nat \ {0}
    /\ Watched \subseteq Path
    /\ CatchUp \in Nat /\ Buffer \in Nat

VARIABLES
    db,             \* the tables
    journal,        \* the rows of session_journal
    ses,            \* the session of the current mount
    act,            \* the server's registry holds that session
    ops,            \* operations so far; the number of one is its content and its row's id
    rv,             \* the reverts under way
    bc,             \* rows committed and not yet broadcast
    st,             \* the event stream
    mixed           \* a revert put a file where another node was, or a directory was renamed
                    \* and more, or less, than its subtree moved with it

vars == <<db, journal, ses, act, ops, rv, bc, st, mixed>>

Idle == [pc |-> "idle"]
Unwatched == [pc |-> "none", hi |-> 0, q |-> <<>>, sent |-> <<>>]
Off == [pc |-> "off", hi |-> 0, q |-> <<>>, sent |-> <<>>]
Limit == IF st = Unwatched THEN MaxOp ELSE MaxWatched
NoSession == 0      \* the session "revert:<allocation>", used when no mount is active

Init ==
    /\ db = Empty
    /\ journal = {}
    /\ ses = 1 /\ act = FALSE
    /\ ops = 0
    /\ rv = [i \in Reverter |-> Idle] /\ bc = {}
    /\ st \in {Unwatched, Off}
    /\ mixed = FALSE
-----------------------------------------------------------------------------
(* the journal *)

SeqsOf(s) == {r.seq : r \in {x \in journal : x.ses = s}}

BugNextSeq(s) == Cardinality(SeqsOf(s)) + 1

\* max(seq) + 1 over the rows the session still has.
NextSeq(s) == IF SeqsOf(s) = {} THEN 1 ELSE 1 + Max(SeqsOf(s))

\* What was at the row's path and what the write left there is kept beside
\* the row, for the properties only.
appendJournal(s, row, was, left) ==
    journal \cup {[op |-> row.op, path |-> row.path, after |-> row.after, from |-> row.from, body |-> row.body,
                   ses |-> s, seq |-> NextSeq(s), id |-> ops + 1, was |-> was, left |-> left]}

BugJournalBeforeWrite(op, path, prior, after, from) ==
    [op |-> op, path |-> path, after |-> after, from |-> from,
     body |-> IF op = "update" THEN ops + 1 ELSE IF prior = None THEN 0 ELSE prior.body]

\* The row of a write: what was at the path, and the version it leaves there.
journalBeforeWrite(op, path, prior, after, from) ==
    [op |-> op, path |-> path, after |-> after, from |-> from,
     body |-> IF prior = None THEN 0 ELSE prior.body]

Content(t, p) == IF t.mf[p] = None THEN 0 ELSE t.mf[p].body

\* One committed write: its tables, its row, and the broadcast it still owes.
Commit(t, s, row) ==
    /\ ops < Limit
    /\ ops' = ops + 1
    /\ db' = t
    /\ journal' = appendJournal(s, row, Content(db, row.path), Content(t, row.path))
    /\ bc' = IF st = Unwatched THEN bc ELSE bc \cup {[id |-> ops + 1, seq |-> NextSeq(s)]}

Unjournaled(t) ==
    /\ ops < Limit
    /\ ops' = ops + 1
    /\ db' = t
    /\ UNCHANGED <<journal, bc>>

\* A write of the mount re-asserts its session in the server's registry.
Fenced == act' = TRUE /\ UNCHANGED <<ses, rv, st>>
Mount == Fenced /\ UNCHANGED mixed
MountUnfenced == UNCHANGED <<ses, act, rv, st, mixed>>
-----------------------------------------------------------------------------
(* the requests of the mount *)

VfsFree(p) == resolveKind(db, p) = "absent" /\ IsDir(db, splitParent(p))

handleManifestPut(p) ==
    LET exp == Version(db, p)
    IN  /\ exp = 0 => VfsFree(p)
        /\ PutAccepts(db, p, exp)
        /\ Commit(Put(db, p, exp, ops + 1), ses,
                  journalBeforeWrite(IF exp = 0 THEN "create" ELSE "update",
                                     p, db.mf[p], exp + 1, Root))
        /\ Mount

\* chmod of a file is a write of it; of another node it changes no table here.
SetMode(p) ==
    /\ db.mf[p] # None
    /\ PutAccepts(db, p, Version(db, p))
    /\ Commit(Put(db, p, Version(db, p), ops + 1), ses,
              journalBeforeWrite("update", p, db.mf[p], Version(db, p) + 1, Root))
    /\ Mount

LinkRow(from, to) == journalBeforeWrite("create", to, None, Version(db, from), Root)

handleLink(from, to) ==
    /\ VfsFree(to)
    /\ LinkAccepts(db, from, to)
    /\ Commit(Link(db, from, to), ses, LinkRow(from, to))
    /\ Mount

handleManifestDelete(p) ==
    /\ DeleteAccepts(db, p, Version(db, p))
    /\ IF p \in db.sp \cup db.ln
       THEN Unjournaled(Delete(db, p))
       ELSE \E alias \in survivingAliases(db, p) :
                Commit(Delete(db, p), ses, journalBeforeWrite("delete", p, db.mf[p], 0, alias))
    /\ Mount

\* Only the move of a regular file is journaled, under its new name.
journalRename(from, to) ==
    journalBeforeWrite("rename", to, db.mf[from], renameVersion(db, to), from)

handleManifestRename(from, to) ==
    /\ ~Under(from, to)
    /\ IsDir(db, splitParent(to))
    /\ renameAccepts(db, from, to)
    /\ reparentAccepts(db, from, to)
    /\ IF db.mf[from] = None
       THEN Unjournaled(Rename(db, from, to))
       ELSE Commit(Rename(db, from, to), ses, journalRename(from, to))
    /\ mixed' = (mixed \/ ~Exact(db, from, to))
    /\ Fenced

\* These four carry no session and pass no fence.
handleDirCreate(p) == VfsFree(p) /\ NameFree(db, p) /\ Unjournaled(DirCreate(db, p)) /\ MountUnfenced
handleSymlink(p) == VfsFree(p) /\ NameFree(db, p) /\ Unjournaled(Symlink(db, p)) /\ MountUnfenced
handleMknod(p) == VfsFree(p) /\ NameFree(db, p) /\ Unjournaled(Mknod(db, p)) /\ MountUnfenced

handleDirRemove(p) ==
    /\ resolveKind(db, p) = "dir"
    /\ DirRemoveAccepts(db, p)
    /\ Unjournaled(Unlist(db, p))
    /\ MountUnfenced
-----------------------------------------------------------------------------
(* revert *)

\* The newest row of a path by time and then by number: of rows of the same
\* millisecond an older one may be taken.
latestRowForPath(p) ==
    {r \in journal : r.path = p /\ \A x \in journal : x.path = p /\ x.id > r.id => x.seq <= r.seq}
rowForSessionSeq(s, n) == CHOOSE r \in journal : r.ses = s /\ r.seq = n

writerSessionForRevert == IF act THEN ses ELSE NoSession

\* The handler has resolved the session to write under, and finds the row.
RevertPaths(i, row, force) ==
    /\ rv[i] = Idle
    /\ ops < Limit
    /\ ops < MaxOverlap \/ \A j \in Reverter : rv[j] = Idle
    /\ rv' = [rv EXCEPT ![i] = [pc |-> "found", row |-> row, force |-> force,
                                writer |-> writerSessionForRevert, live |-> 0, fromLive |-> 0]]
    /\ UNCHANGED <<db, journal, ses, act, ops, bc, st, mixed>>

\* The data plane reverts the latest row of a path, the dashboard the row shown.
handleJournalRevertPath(i, p, force) == \E row \in latestRowForPath(p) : RevertPaths(i, row, force)

tenantJournalRevert(i, row, force) == RevertPaths(i, rowForSessionSeq(row.ses, row.seq), force)

\* The live version is read; unless the revert is forced it must be the one
\* the row's write left.
liveManifestVersion(i) ==
    LET v == rv[i]
        live == Version(db, v.row.path)
    IN  /\ v.pc = "found"
        /\ rv' = [rv EXCEPT ![i] =
                    IF v.force \/ live = v.row.after
                    THEN [v EXCEPT !.live = live, !.pc = IF v.row.from = Root THEN "checked" ELSE "source"]
                    ELSE Idle]
        /\ UNCHANGED <<db, journal, ses, act, ops, bc, st, mixed>>

\* Then that of the other name: a rename's old one, a delete's surviving link.
seedSource(i) ==
    LET v == rv[i]
    IN  /\ v.pc = "source"
        /\ rv' = [rv EXCEPT ![i] = [v EXCEPT !.fromLive = Version(db, v.row.from), !.pc = "checked"]]
        /\ UNCHANGED <<db, journal, ses, act, ops, bc, st, mixed>>

\* What applyInverse asks of the tables when its transaction runs, and what
\* it leaves there; a create that is already gone needs no write.
InverseAccepts(v) ==
    LET row == v.row
    IN  CASE row.op = "create" -> DeleteAccepts(db, row.path, v.live)
          [] row.op = "update" -> v.live > 0 /\ PutAccepts(db, row.path, v.live)
          [] row.op = "delete" -> /\ v.live = 0
                                  /\ IF row.from = Root THEN PutAccepts(db, row.path, 0)
                                     ELSE v.fromLive > 0 /\ LinkAccepts(db, row.from, row.path)
          [] row.op = "rename" -> /\ v.live > 0 /\ v.fromLive = 0
                                  /\ Version(db, row.path) = v.live
                                  /\ renameAccepts(db, row.path, row.from)

Undone(v) ==
    LET row == v.row
    IN  CASE row.op = "create" -> Delete(db, row.path)
          [] row.op = "update" -> Put(db, row.path, v.live, row.body)
          [] row.op = "delete" -> IF row.from = Root THEN Put(db, row.path, 0, row.body)
                                  ELSE Link(db, row.from, row.path)
          [] row.op = "rename" -> Rename(db, row.path, row.from)

InverseRow(v, alias) ==
    LET row == v.row
        live == db.mf[row.path]
    IN  CASE row.op = "create" -> journalBeforeWrite("delete", row.path, live, 0, alias)
          [] row.op = "update" -> journalBeforeWrite("update", row.path, live, v.live + 1, Root)
          [] row.op = "delete" -> IF row.from = Root
                                  THEN journalBeforeWrite("create", row.path, None, 1, Root)
                                  ELSE LinkRow(row.from, row.path)
          [] row.op = "rename" -> journalRename(row.path, row.from)

Gone(v) == v.row.op = "create" /\ v.live = 0

\* The inverse brings a file to a name that is taken, or that is below a file.
Misplaces(v) ==
    LET row == v.row
        to  == IF row.op = "rename" THEN row.from ELSE row.path
    IN  /\ row.op \in {"delete", "rename"}
        /\ \/ row.op = "delete" /\ resolveKind(db, to) # "absent"
           \/ ~IsDir(db, splitParent(to))

applyInverse(i) ==
    LET v == rv[i]
    IN  /\ v.pc = "checked"
        /\ IF Gone(v) \/ ~InverseAccepts(v)
           THEN UNCHANGED <<db, journal, ops, bc, mixed>>
           ELSE /\ IF v.row.op = "create" /\ v.row.path \in db.sp \cup db.ln
                   THEN Unjournaled(Undone(v))
                   ELSE \E alias \in survivingAliases(db, v.row.path) :
                            Commit(Undone(v), v.writer, InverseRow(v, alias))
                /\ mixed' = (mixed \/ Misplaces(v))
        /\ rv' = [rv EXCEPT ![i] = IF Gone(v) \/ InverseAccepts(v) THEN [v EXCEPT !.pc = "applied"] ELSE Idle]
        /\ UNCHANGED <<ses, act, st>>

DeleteRow(i) ==
    LET v == rv[i]
    IN  /\ v.pc = "applied"
        /\ journal' = {r \in journal : r.ses # v.row.ses \/ r.seq # v.row.seq}
        /\ rv' = [rv EXCEPT ![i] = Idle]
        /\ UNCHANGED <<db, ses, act, ops, bc, st, mixed>>
-----------------------------------------------------------------------------
(* the event stream *)

\* The rows above the browser's mark, at most CatchUp, ordered by sequence
\* number; rows of two sessions with the same number come in any order.
QueryAfterSeq(after) ==
    LET above == {r \in journal : r.seq > after}
        n == IF Cardinality(above) < CatchUp THEN Cardinality(above) ELSE CatchUp
    IN  {rows \in [1..n -> above] :
            /\ IsInjective(rows)
            /\ \A i, j \in 1..n : i < j => rows[i].seq <= rows[j].seq
            /\ \A i \in 1..n : \A r \in above \ Range(rows) : rows[i].seq <= r.seq}

tenantJournalStream ==
    /\ st.pc = "off"
    /\ \E rows \in QueryAfterSeq(0) :
           st' = [pc |-> "caught", q |-> <<>>,
                  hi |-> IF rows = <<>> THEN 0 ELSE rows[Len(rows)].seq,
                  sent |-> [i \in DOMAIN rows |-> rows[i].id]]
    /\ UNCHANGED <<db, journal, ses, act, ops, rv, bc, mixed>>

Subscribe ==
    /\ st.pc = "caught"
    /\ st' = [st EXCEPT !.pc = "live"]
    /\ UNCHANGED <<db, journal, ses, act, ops, rv, bc, mixed>>

\* Never blocks: a subscriber whose buffer is full is dropped.
Enqueue(entry) == IF Len(st.q) < Buffer THEN [st EXCEPT !.q = Append(@, entry)]
                                        ELSE [st EXCEPT !.pc = "closed"]

Broadcast(entry) ==
    /\ bc' = bc \ {entry}
    /\ st' = IF st.pc = "live" THEN Enqueue(entry) ELSE st
    /\ UNCHANGED <<db, journal, ses, act, ops, rv, mixed>>

BugSendLive ==
    /\ st.pc \in {"live", "closed"} /\ st.q # <<>>
    /\ st' = [st EXCEPT !.q = Tail(@), !.hi = Head(st.q).seq, !.sent = Append(@, Head(st.q).id)]
    /\ UNCHANGED <<db, journal, ses, act, ops, rv, bc, mixed>>

\* The watermark drops what catch-up, or an earlier frame, already covered.
sendLive ==
    LET entry == Head(st.q)
    IN  /\ st.pc \in {"live", "closed"} /\ st.q # <<>>
        /\ st' = [st EXCEPT !.q = Tail(@),
                            !.hi = IF entry.seq <= st.hi THEN @ ELSE entry.seq,
                            !.sent = IF entry.seq <= st.hi THEN @ ELSE Append(@, entry.id)]
        /\ UNCHANGED <<db, journal, ses, act, ops, rv, bc, mixed>>
-----------------------------------------------------------------------------
(* sessions and faults *)

TakeOver ==
    /\ ses < MaxSession
    /\ ops < Limit /\ ops' = ops + 1
    /\ ses' = ses + 1
    /\ act' = FALSE
    /\ UNCHANGED <<db, journal, rv, bc, st, mixed>>

\* The process ends: the registry, the reverts, the subscribers and the
\* broadcasts not yet made are in memory only.
ServerRestart ==
    /\ ops < Limit /\ ops' = ops + 1
    /\ act' = FALSE
    /\ rv' = [i \in Reverter |-> Idle] /\ bc' = {}
    /\ st' = IF st = Unwatched THEN st ELSE Off
    /\ UNCHANGED <<db, journal, ses, mixed>>

\* The names a step may write: one small set while a stream is followed, the
\* rest while none is.
Quiet == IF st = Unwatched THEN Path \ Watched ELSE {}
Busy == IF st = Unwatched THEN {} ELSE Watched

Writes ==
    \/ \E p \in Quiet \cup Busy : handleManifestPut(p)
    \/ \E p \in Quiet : SetMode(p)
    \/ \E p \in Quiet \cup Busy : handleManifestDelete(p)
    \/ \E from, to \in Quiet : handleLink(from, to)
    \/ \E from, to \in Quiet : handleManifestRename(from, to)
    \/ \E p \in Quiet : handleDirCreate(p)
    \/ \E p \in Quiet : handleDirRemove(p)
    \/ \E p \in Quiet : handleSymlink(p)
    \/ \E p \in Quiet : handleMknod(p)

Reverts(i) ==
    \/ \E p \in Path : \E force \in BOOLEAN : handleJournalRevertPath(i, p, force)
    \/ \E row \in journal : \E force \in BOOLEAN : tenantJournalRevert(i, row, force)
    \/ liveManifestVersion(i) \/ seedSource(i)
    \/ applyInverse(i)
    \/ DeleteRow(i)

Stream ==
    \/ tenantJournalStream
    \/ Subscribe
    \/ \E entry \in bc : Broadcast(entry)
    \/ sendLive

Next == Writes \/ (\E i \in Reverter : Reverts(i)) \/ Stream \/ TakeOver \/ ServerRestart

Spec == Init /\ [][Next]_vars
-----------------------------------------------------------------------------
(* Properties *)

Tables == [mf : [Path -> Manifest \cup {None}], ln : SUBSET Path, sp : SUBSET Path, de : SUBSET Path, id : Nat]
Row == [op : {"create", "update", "delete", "rename"}, path : Path, after : Nat, from : Path \cup {Root},
        body : Nat, ses : Nat, seq : Nat \ {0}, id : Nat \ {0}, was : Nat, left : Nat]
Frame == [id : Nat \ {0}, seq : Nat \ {0}]
Revert == {Idle} \cup [pc : {"found", "source", "checked", "applied"}, row : Row, force : BOOLEAN,
                       writer : Nat, live : Nat, fromLive : Nat]
Follower == [pc : {"none", "off", "caught", "live", "closed"}, hi : Nat, q : Seq(Frame), sent : Seq(Nat \ {0})]

\* Every variable has its type; a subscriber's buffer is never overrun.
TypeOK ==
    /\ db \in Tables
    /\ journal \subseteq Row
    /\ ses \in 1..MaxSession /\ act \in BOOLEAN /\ mixed \in BOOLEAN
    /\ ops \in 0..MaxOp
    /\ rv \in [Reverter -> Revert]
    /\ bc \subseteq Frame
    /\ st \in Follower /\ Len(st.q) <= Buffer

\* The four tables always describe one tree: no name holds two kinds of node,
\* every row is listed in its directory, every entry sits in a directory,
\* however renames of whole subtrees, removals and reverts follow each other
\* (manifests.go).  A revert that brought a file to a name in use, or below a
\* file, has left that state (the finding of RevertSparesWriters); so has the
\* rename of a directory whose name is a pattern that finds more than what is
\* below it, or is cut off wrongly because its bytes are not its characters.
TreeWellFormed == ~mixed => WellFormed(db)

\* The same of every rename: false, since reparentDescendantsTx neither escapes
\* the directory's name nor counts its characters.
RenamesKeepTree == [][
    \A from, to \in Path : WellFormed(db) /\ handleManifestRename(from, to) => WellFormed(db')
    ]_vars

TreeOf(t) == [p \in Path |-> Node(t, p)]
Tree == INSTANCE PosixTree WITH tree <- TreeOf(db), Inode <- 1..MaxOp

\* Every step of the tables is one step of the abstract tree: one node made,
\* one removed, or one subtree moved as a whole with each of its files at its
\* own new name (renameOpt and reparentDescendantsTx, manifests.go), with the
\* exceptions of TreeWellFormed.
ImplementsTree == [][
    LET t == TreeOf(db)
        u == TreeOf(db)'
    IN  t = u \/ mixed' \/ Tree!Step(t, u)
    ]_db

\* (session_id, seq) identifies a row although revert deletes rows and the next
\* number is derived from the rows that are left (appendJournal, journal.go).
KeysUnique == \A r, x \in journal : r.ses = x.ses /\ r.seq = x.seq => r = x

\* One stream never shows a row twice, although a row committed before catch-up
\* may be broadcast after the subscription (tenantJournalStream).
StreamSendsOnce == IsInjective(st.sent)

\* A revert that goes through leaves what was there before the row's write: no
\* file after a create, the old content after an update or delete (or the
\* content its surviving hard link has), the file back at its old name after a
\* rename (applyInverse, revert.go).
RevertRestores == [][
    \A i \in Reverter :
        rv[i].pc = "checked" /\ rv'[i].pc = "applied" /\ ~mixed' /\ ~Gone(rv[i]) =>
        LET row == rv[i].row
        IN  CASE row.op = "create" -> Content(db', row.path) = 0
              [] row.op = "update" -> Content(db', row.path) = row.was
              [] row.op = "delete" -> Content(db', row.path) = IF row.from = Root THEN row.was
                                                               ELSE Content(db, row.from)
              [] row.op = "rename" -> /\ Content(db', row.from) = Content(db, row.path)
                                      /\ Content(db', row.path) = 0
    ]_vars

\* A revert that is not forced takes away only what the row's own write left:
\* "concurrent writers surface as RevertConflict instead of being silently
\* overwritten" (journal.go:33-36).
RevertSparesWriters == [][
    \A i \in Reverter :
        rv[i].pc = "checked" /\ rv'[i].pc = "applied" /\ ~rv[i].force =>
        \A p \in Path :
            /\ resolveKind(db, p) # "absent"
            /\ Node(db', p) # Node(db, p) \/ Content(db', p) # Content(db, p)
            => db.mf[p] # None /\ Content(db, p) = rv[i].row.left
    ]_vars
=============================================================================
