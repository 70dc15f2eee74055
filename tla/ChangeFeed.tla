----------------------------- MODULE ChangeFeed -----------------------------
(***************************************************************************)
(* The metadata change feed of orlop-server and the mirror a mount keeps   *)
(* of it: one revision per committed mutation, one live row or tombstone   *)
(* per path, pages through a (rev, path) cursor, doorbells that carry only *)
(* the newest revision, the pruning of old tombstones, and the client's    *)
(* sync worker, doorbell reader and FUSE threads, which share the mirror's *)
(* database and its atomics.                                               *)
(*                                                                         *)
(* Abstractions.  Paths are numbers, since the cursor orders them, all in  *)
(* the subtree of one agent and permitted by the policy; 0 is the empty    *)
(* cursor path.  The content of a row is the revision that wrote it.  A    *)
(* rename moves a file.  Whatever makes the server refuse a mutation is    *)
(* one refusal.  Server and client agree on sync_protocol and the subtree. *)
(***************************************************************************)
EXTENDS Integers, FiniteSets

CONSTANTS
    NPath,       \* number of paths
    Thread,      \* FUSE threads and unlink senders of the mount
    Limit,       \* page size: FETCH_LIMIT and changesFetchMaxLimit
    Renames,     \* whether the mount renames
    Pipelined,   \* whether it pipelines unlinks (gated writeback mode)
    MaxRev,      \* bound: mutations
    MaxOwn,      \* bound: mutations the mount itself asks for
    MaxPrune,    \* bound: prunes that find something
    MaxDrop      \* bound: lost connections

ASSUME FeedAssumption ==
    /\ NPath \in Nat \ {0} /\ Limit \in Nat \ {0}
    /\ {Renames, Pipelined} \subseteq BOOLEAN
    /\ {MaxRev, MaxOwn, MaxPrune, MaxDrop} \subseteq Nat

Path == 1 .. NPath
Rev == 0 .. MaxRev
Absent == -1     \* the content of a path that does not exist
Never == -1      \* sub_generation before the first subscription

VARIABLES
    row,          \* manifests and change_tombstones
    lastRev, prunedBefore,   \* change_counter
    ringing,      \* committed revisions whose Notify has not run yet
    sub,          \* changeSub of the connection
    conn,         \* the mount's data connection and its generation
    mirror,       \* entries table of the mirror
    cursor,       \* its stored cursor
    applied, target, fresh, subGen,  \* its atomics
    pending,      \* pending_unlinks
    wake,         \* the worker's one-slot channel
    worker,       \* the sync worker's pass, and its request on the server
    thread,       \* the mutation each thread has in flight
    blind,        \* history: paths that one of the races in Crossed touched
    owns, prunes, drops \* how many there were

tables == <<row, lastRev, prunedBefore>>
link == <<ringing, sub>>
atomics == <<applied, target, fresh, subGen>>
store == <<mirror, cursor>>
counts == <<owns, prunes, drops>>
vars == <<tables, link, conn, store, atomics, pending, wake, worker, thread, blind, counts>>

Idle == [pc |-> "idle"]
Start == [rev |-> 0, path |-> 0]
NoSub == [on |-> FALSE, rev |-> 0, signal |-> FALSE]
Missing == [rev |-> 0, val |-> Absent]
Larger(a, b) == IF a > b THEN a ELSE b

-----------------------------------------------------------------------------
(* Commits.  A mutation takes the next revision and stamps its rows with   *)
(* it in one transaction; Notify runs after the commit.                    *)

Live(rev, val) == [kind |-> "live", rev |-> rev, val |-> val]
Tombstone(rev) == [kind |-> "tombstone", rev |-> rev, val |-> Absent]
Nothing == [kind |-> "none", rev |-> 0, val |-> Absent]

exists == {p \in Path : row[p].kind = "live"}

NewRev == lastRev + 1

Written(p) == [row EXCEPT ![p] = Live(NewRev, NewRev)]
BugDeleted(p) == [row EXCEPT ![p] = Nothing]
Deleted(p) == [row EXCEPT ![p] = Tombstone(NewRev)]
Moved(p, q) == [row EXCEPT ![p] = Tombstone(NewRev), ![q] = Live(NewRev, row[p].val)]

Commit(rows) ==
    /\ lastRev < MaxRev
    /\ row' = rows
    /\ lastRev' = NewRev
    /\ ringing' = ringing \union {NewRev}
    /\ UNCHANGED <<prunedBefore, sub>>

(* Another session of the agent, a revert or a purge.                      *)
OtherMutation ==
    /\ \E p \in Path : Commit(Written(p)) \/ (p \in exists /\ Commit(Deleted(p)))
    /\ UNCHANGED <<conn, store, atomics, pending, wake, worker, thread, blind, counts>>

Notify(rev) ==
    /\ ringing' = ringing \ {rev}
    /\ sub' = IF sub.on THEN [on |-> TRUE, rev |-> Larger(sub.rev, rev), signal |-> TRUE] ELSE sub
    /\ UNCHANGED <<tables, conn, store, atomics, pending, wake, worker, thread, blind, counts>>

(* The tombstones written before the cutoff, which are those up to some    *)
(* revision.                                                               *)
BugWatermark(rev) == rev
Watermark(rev) == rev + 1

pruneTombstones ==
    /\ prunes < MaxPrune
    /\ \E p \in Path :
           LET old == {q \in Path : row[q].kind = "tombstone" /\ row[q].rev <= row[p].rev} IN
           /\ p \in old
           /\ row' = [q \in Path |-> IF q \in old THEN Nothing ELSE row[q]]
           /\ prunedBefore' = Larger(prunedBefore, Watermark(row[p].rev))
    /\ prunes' = prunes + 1
    /\ UNCHANGED <<lastRev, link, conn, store, atomics, pending, wake, worker, thread, blind, owns, drops>>

-----------------------------------------------------------------------------
(* The connection.                                                         *)

(* A request on a lost connection dials first.                             *)
Calling == worker.pc \in {"subscribe", "state"} \/ \E t \in Thread : thread[t].pc = "sent"

Dial ==
    /\ ~conn.up /\ Calling
    /\ conn' = [up |-> TRUE, gen |-> conn.gen + 1]
    /\ UNCHANGED <<tables, link, store, atomics, pending, wake, worker, thread, blind, counts>>

(* Outstanding requests fail; the server drops the subscription.           *)
Disconnect ==
    /\ conn.up /\ drops < MaxDrop
    /\ conn' = [conn EXCEPT !.up = FALSE]
    /\ sub' = NoSub
    /\ worker' = IF worker.pc \in {"subscribe", "subscribed", "state", "query"} THEN Idle ELSE worker
    /\ thread' = [t \in Thread |->
           IF thread[t].pc \in {"sent", "acked"} /\ thread[t].op = "unlink" THEN [thread[t] EXCEPT !.pc = "failed"]
           ELSE IF thread[t].pc = "sent" THEN Idle
           ELSE thread[t]]
    /\ drops' = drops + 1
    /\ UNCHANGED <<tables, ringing, store, atomics, pending, wake, blind, owns, prunes>>

-----------------------------------------------------------------------------
(* The mirror.                                                             *)

is_fresh == fresh /\ subGen = conn.gen

(* What a lookup is answered, when the mirror may answer.                  *)
Answer(p) == IF p \in pending THEN Absent ELSE mirror[p].val

note_target(rev) ==
    /\ target' = Larger(target, rev)
    /\ fresh' = (fresh /\ ~(Larger(target, rev) > applied))
    /\ wake' = TRUE

(* The pump sends the newest revision notified; a frame on its way is a    *)
(* signal not yet taken.                                                   *)
changesEventPump ==
    /\ sub.signal
    /\ sub' = [sub EXCEPT !.signal = FALSE]
    /\ note_target(sub.rev)
    /\ UNCHANGED <<tables, ringing, conn, store, applied, subGen, pending, worker, thread, blind, counts>>

wiped == [p \in Path |-> Missing]

wipe ==
    /\ fresh' = FALSE
    /\ mirror' = wiped
    /\ cursor' = Start
    /\ applied' = 0

-----------------------------------------------------------------------------
(* sync_once.  It starts on a wake or on its timer.                        *)

Goto(pc) == worker' = [worker EXCEPT !.pc = pc]

SyncStart ==
    /\ worker.pc = "idle"
    /\ wake' = FALSE
    /\ IF subGen # conn.gen
       THEN worker' = [pc |-> "subscribe", gen |-> conn.gen] /\ fresh' = FALSE
       ELSE worker' = [pc |-> "state"] /\ UNCHANGED fresh
    /\ UNCHANGED <<tables, link, conn, store, applied, target, subGen, pending, thread, blind, counts>>

(* The server registers first ...                                          *)
SubscribeRegister ==
    /\ worker.pc = "subscribe" /\ conn.up
    /\ sub' = [on |-> TRUE, rev |-> 0, signal |-> FALSE]
    /\ Goto("subscribed")
    /\ UNCHANGED <<tables, ringing, conn, store, atomics, pending, wake, thread, blind, counts>>

(* ... and reads the counter second.                                       *)
SubscribeReply ==
    /\ worker.pc = "subscribed"
    /\ subGen' = worker.gen
    /\ target' = Larger(target, lastRev)
    /\ worker' = [pc |-> "state"]
    /\ UNCHANGED <<tables, link, conn, store, applied, fresh, pending, wake, thread, blind, counts>>

(* changes_fetch with the stored cursor; the server reads the feed's state *)
(* before the page.                                                        *)
Predates(rev) == 0 < rev /\ rev < prunedBefore

FetchState ==
    /\ worker.pc = "state" /\ conn.up
    /\ worker' = IF Predates(cursor.rev)
                 THEN [pc |-> "resync"]
                 ELSE [pc |-> "query", from |-> cursor, last |-> lastRev, horizon |-> prunedBefore]
    /\ UNCHANGED <<tables, link, conn, store, atomics, pending, wake, thread, blind, counts>>

Resync ==
    /\ worker.pc = "resync"
    /\ wipe
    /\ Goto("state")
    /\ UNCHANGED <<tables, link, conn, target, subGen, pending, wake, thread, blind, counts>>

Follows(p, c) ==
    row[p].kind # "none" /\ (row[p].rev > c.rev \/ (row[p].rev = c.rev /\ p > c.path))
Precedes(p, q) == row[p].rev < row[q].rev \/ (row[p].rev = row[q].rev /\ p < q)

queryChanges(c) ==
    LET after == {p \in Path : Follows(p, c)} IN
    {p \in after : Cardinality({q \in after : Precedes(q, p)}) < Limit}

At(p) == [rev |-> row[p].rev, path |-> p]

(* Where the next page starts: a page that is not full moves to the        *)
(* counter as it was read before the query.                                *)
BugNextCursor(page, last) ==
    [rev |-> IF page = {} THEN last ELSE CHOOSE r \in {row[p].rev : p \in page} : \A p \in page : row[p].rev <= r,
     path |-> NPath]
NextCursor(page, last) ==
    LET final == CHOOSE p \in page : \A q \in page : p = q \/ Precedes(q, p) IN
    IF page # {} /\ (Cardinality(page) = Limit \/ row[final].rev >= last)
    THEN At(final)
    ELSE [rev |-> last, path |-> 0]

FetchPage ==
    /\ worker.pc = "query"
    /\ LET page == queryChanges(worker.from)
           next == NextCursor(page, worker.last)
       IN worker' = [pc |-> "page", from |-> worker.from, next |-> next,
                     full |-> Cardinality(page) = Limit,
                     current |-> IF Cardinality(page) = Limit THEN worker.last ELSE Larger(worker.last, next.rev),
                     rows |-> [p \in page |-> row[p]]]
    /\ blind' = IF prunedBefore # worker.horizon THEN Path ELSE blind
    /\ UNCHANGED <<tables, link, conn, store, atomics, pending, wake, thread, counts>>

(* Rows and cursor change in one transaction, each row under its guard.    *)
Fed(p, e) ==
    IF e.rev < mirror[p].rev THEN mirror[p]
    ELSE IF e.kind = "tombstone" THEN Missing ELSE [rev |-> e.rev, val |-> e.val]

apply_page ==
    /\ worker.pc = "page"
    /\ mirror' = [p \in Path |-> IF p \in DOMAIN worker.rows THEN Fed(p, worker.rows[p]) ELSE mirror[p]]
    /\ cursor' = worker.next
    /\ target' = Larger(target, worker.current)
    /\ worker' = [pc |-> "applied", rev |-> worker.next.rev, full |-> worker.full]
    /\ blind' = IF cursor # worker.from THEN Path
                ELSE blind \union {p \in Path : worker.from.rev = 0 /\ row[p].kind = "none" /\ mirror[p] # Missing}
    /\ UNCHANGED <<tables, link, conn, applied, fresh, subGen, pending, wake, thread, counts>>

BugCaughtUp(rev) == rev > target /\ subGen = conn.gen
CaughtUp(rev) == rev >= target /\ subGen = conn.gen

StoreApplied ==
    /\ worker.pc = "applied"
    /\ applied' = worker.rev
    /\ worker' = IF worker.full THEN [pc |-> "state"] ELSE [pc |-> "verdict", fresh |-> CaughtUp(worker.rev)]
    /\ UNCHANGED <<tables, link, conn, store, target, fresh, subGen, pending, wake, thread, blind, counts>>

StoreFresh ==
    /\ worker.pc = "verdict"
    /\ fresh' = worker.fresh
    /\ worker' = Idle
    /\ UNCHANGED <<tables, link, conn, store, applied, target, subGen, pending, wake, thread, blind, counts>>

-----------------------------------------------------------------------------
(* The mount's own mutations.  A pipelined unlink hides the path at once.  *)

Send(t, op) == thread[t].pc = "idle" /\ thread' = [thread EXCEPT ![t] = op]

Begin(t) ==
    /\ owns < MaxOwn /\ owns' = owns + 1
    /\ \/ \E p \in Path : Send(t, [pc |-> "sent", op |-> "put", path |-> p]) /\ UNCHANGED pending
       \/ \E p \in Path : Send(t, [pc |-> "sent", op |-> "delete", path |-> p]) /\ UNCHANGED pending
       \/ /\ Renames
          /\ \E p, q \in Path : p # q /\ Send(t, [pc |-> "sent", op |-> "rename", path |-> p, to |-> q])
          /\ UNCHANGED pending
       \/ /\ Pipelined /\ is_fresh
          /\ \E p \in Path :
                 Send(t, [pc |-> "sent", op |-> "unlink", path |-> p]) /\ pending' = pending \union {p}
    /\ UNCHANGED <<tables, link, conn, store, atomics, wake, worker, blind, prunes, drops>>

Serve(t) ==
    /\ thread[t].pc = "sent" /\ conn.up
    /\ LET o == thread[t] IN
       /\ \/ o.op = "put" /\ Commit(Written(o.path))
          \/ o.op \in {"delete", "unlink"} /\ o.path \in exists /\ Commit(Deleted(o.path))
          \/ o.op = "rename" /\ o.path \in exists /\ Commit(Moved(o.path, o.to))
       /\ thread' = [thread EXCEPT ![t] = [rev |-> NewRev, path |-> o.path, op |-> o.op, pc |-> "acked",
                                           to |-> IF o.op = "rename" THEN o.to ELSE o.path]]
    /\ UNCHANGED <<conn, store, atomics, pending, wake, worker, blind, counts>>

Refuse(t) ==
    /\ thread[t].pc = "sent" /\ conn.up
    /\ thread' = [thread EXCEPT ![t] = IF @.op = "unlink" THEN [@ EXCEPT !.pc = "failed"] ELSE Idle]
    /\ UNCHANGED <<tables, link, conn, store, atomics, pending, wake, worker, blind, counts>>

(* The local effect of an acknowledged mutation keeps the row's revision.  *)
Locally(o) ==
    CASE o.op = "put" -> [mirror EXCEPT ![o.path].val = o.rev]
      [] o.op = "rename" -> [mirror EXCEPT ![o.to] = mirror[o.path], ![o.path] = Missing]
      [] OTHER -> [mirror EXCEPT ![o.path] = Missing]

(* The feed has reached, through the cursor, a change of the paths that is *)
(* newer than the mutation; for a rename, the mutation itself.             *)
Overtaken(o) ==
    /\ cursor.rev >= o.rev
    /\ \E p \in {o.path, o.to} :
           \/ row[p].rev > o.rev
           \/ row[p].kind = "none" /\ prunedBefore > o.rev
           \/ o.op = "rename" /\ row[p].rev = o.rev
Crossed(o) == IF Overtaken(o) THEN {o.path, o.to} ELSE {}

apply_local(t) ==
    /\ thread[t].pc = "acked"
    /\ mirror' = Locally(thread[t])
    /\ blind' = blind \union Crossed(thread[t])
    /\ thread' = [thread EXCEPT ![t] = IF @.op = "unlink" THEN [@ EXCEPT !.pc = "resolve"] ELSE Idle]
    /\ UNCHANGED <<tables, link, conn, cursor, atomics, pending, wake, worker, counts>>

(* resolve_pending_unlink: on success the row goes (again), on failure the *)
(* freshness goes first, the entries after it.                             *)
ResolveOk(t) ==
    /\ thread[t].pc = "resolve"
    /\ pending' = pending \ {thread[t].path}
    /\ mirror' = Locally(thread[t])
    /\ blind' = blind \union Crossed(thread[t])
    /\ thread' = [thread EXCEPT ![t] = Idle]
    /\ UNCHANGED <<tables, link, conn, cursor, atomics, wake, worker, counts>>

ResolveFailed(t) ==
    /\ thread[t].pc = "failed"
    /\ pending' = pending \ {thread[t].path}
    /\ fresh' = FALSE
    /\ thread' = [thread EXCEPT ![t] = [pc |-> "wipe"]]
    /\ UNCHANGED <<tables, link, conn, store, applied, target, subGen, wake, worker, blind, counts>>

WipeEntries(t) ==
    /\ thread[t].pc = "wipe"
    /\ mirror' = wiped /\ cursor' = Start /\ applied' = 0
    /\ wake' = TRUE
    /\ thread' = [thread EXCEPT ![t] = Idle]
    /\ UNCHANGED <<tables, link, conn, target, fresh, subGen, pending, worker, blind, counts>>

-----------------------------------------------------------------------------
Init ==
    /\ row = [p \in Path |-> Nothing]
    /\ lastRev = 0 /\ prunedBefore = 0
    /\ ringing = {} /\ sub = NoSub
    /\ conn = [up |-> TRUE, gen |-> 0]
    /\ mirror = wiped /\ cursor = Start
    /\ applied = 0 /\ target = 0 /\ fresh = FALSE /\ subGen = Never
    /\ pending = {} /\ wake = FALSE
    /\ worker = Idle
    /\ thread = [t \in Thread |-> Idle]
    /\ blind = {}
    /\ owns = 0 /\ prunes = 0 /\ drops = 0

Ring == (\E rev \in ringing : Notify(rev)) \/ changesEventPump

Sync ==
    \/ SyncStart \/ SubscribeRegister \/ SubscribeReply \/ FetchState \/ Resync
    \/ FetchPage \/ apply_page \/ StoreApplied \/ StoreFresh

Finish(t) == Serve(t) \/ Refuse(t) \/ apply_local(t) \/ ResolveOk(t) \/ ResolveFailed(t) \/ WipeEntries(t)

Next ==
    \/ OtherMutation \/ pruneTombstones
    \/ Ring \/ Dial \/ Disconnect
    \/ Sync
    \/ \E t \in Thread : Begin(t) \/ Finish(t)

Spec == Init /\ [][Next]_vars

(* Goroutines and threads run; the worker's timer fires every              *)
(* RESYNC_CHECK_INTERVAL; a request is answered or fails.                  *)
Fairness ==
    /\ WF_vars(Ring) /\ WF_vars(Dial) /\ WF_vars(Sync)
    /\ \A t \in Thread : WF_vars(Finish(t))

FairSpec == Spec /\ Fairness

-----------------------------------------------------------------------------
(* Properties.                                                             *)

Cursor == [rev : Rev, path : 0 .. NPath]
Version == Rev \ {0}
FeedRows == [kind : {"live"}, rev : Version, val : Rev]
            \union [kind : {"tombstone"}, rev : Version, val : {Absent}]
Pass ==
    {Idle}
    \union [pc : {"subscribe", "subscribed"}, gen : Nat]
    \union [pc : {"state", "resync"}]
    \union [pc : {"query"}, from : Cursor, last : Rev, horizon : 0 .. MaxRev + 1]
    \union [pc : {"page"}, from : Cursor, next : Cursor, full : BOOLEAN, current : Rev,
            rows : UNION {[S -> FeedRows] : S \in SUBSET Path}]
    \union [pc : {"applied"}, rev : Rev, full : BOOLEAN]
    \union [pc : {"verdict"}, fresh : BOOLEAN]
Operation ==
    {Idle}
    \union [pc : {"sent"}, op : {"put", "delete", "unlink"}, path : Path]
    \union [pc : {"sent"}, op : {"rename"}, path : Path, to : Path]
    \union [pc : {"acked"}, op : {"put", "delete", "rename", "unlink"}, path : Path, to : Path, rev : Version]
    \union [pc : {"failed"}, op : {"unlink"}, path : Path]
    \union [pc : {"resolve", "failed"}, op : {"unlink"}, path : Path, to : Path, rev : Version]
    \union [pc : {"wipe"}]

Unlinking(o) == o.pc \notin {"idle", "wipe"} /\ o.op = "unlink"

(* Every variable has its type; the pending set names unlinks in flight.   *)
TypeOK ==
    /\ row \in [Path -> FeedRows \union {Nothing}]
    /\ lastRev \in Rev /\ prunedBefore \in 0 .. MaxRev + 1
    /\ ringing \subseteq Rev
    /\ sub \in [on : BOOLEAN, rev : Rev, signal : BOOLEAN]
    /\ conn \in [up : BOOLEAN, gen : Nat]
    /\ mirror \in [Path -> [rev : Rev, val : Rev \union {Absent}]]
    /\ cursor \in Cursor
    /\ applied \in Rev /\ target \in Rev /\ fresh \in BOOLEAN /\ subGen \in {Never} \union Nat
    /\ pending \subseteq {thread[t].path : t \in {u \in Thread : Unlinking(thread[u])}}
    /\ wake \in BOOLEAN /\ blind \subseteq Path
    /\ worker \in Pass
    /\ thread \in [Thread -> Operation]
    /\ {owns, prunes, drops} \subseteq Nat

(* The mirror may answer, and nothing is on its way that would stop it:    *)
(* no doorbell, no wake, no pass of the worker, no mutation of its own.    *)
(* is_fresh does not ask whether the connection is up: a lost one keeps    *)
(* its generation until the next request dials.                            *)
Settled ==
    /\ is_fresh
    /\ ringing = {} /\ ~sub.signal /\ ~wake
    /\ worker.pc = "idle"
    /\ \A t \in Thread : thread[t].pc = "idle"

(* "Freshness is proven" (mirror.rs): a settled mirror answers what the    *)
(* server has.  The code breaks it in two ways: the local effect of an     *)
(* acknowledged rename deletes the destination that the feed has already   *)
(* delivered, and nothing brings it back (MCChangeFeed_mirror); and a      *)
(* mirror whose connection was lost goes on answering, without a           *)
(* subscription, until something dials (MCChangeFeed_offline).             *)
FreshIsExact == Settled => \A p \in Path : Answer(p) = row[p].val

(* What is left of it: a settled mirror answers what the server has,       *)
(* except for the paths that one of four races has touched: a local effect *)
(* applied after the feed went past it, a wipe under a page in flight, a   *)
(* prune between the two reads of a fetch, and a local effect in a mirror  *)
(* that had not hydrated yet on a path deleted and pruned since.  A fifth  *)
(* exception is a lost connection: then the answer may be older, but only  *)
(* where the next fetch has the change to tell or starts over.             *)
Untold(p) ==
    IF row[p].kind = "none" THEN Predates(cursor.rev) \/ cursor = Start ELSE Follows(p, cursor)
FreshUnlessRaced ==
    Settled => \A p \in Path \ blind : Answer(p) = row[p].val \/ (~conn.up /\ Untold(p))

(* The watermark protects against pruned deletions: a path that the mirror *)
(* still has and the server has forgotten is caught by the next fetch,     *)
(* which finds the cursor below the watermark, unless a race touched the   *)
(* path; queryChanges shows the rest.                                      *)
ForgottenIsResynced ==
    \A p \in Path \ blind :
        (row[p].kind = "none" /\ mirror[p].rev > 0) =>
            (Predates(cursor.rev) \/ cursor = Start)

(* No fetch moves the cursor past a change it has not delivered: a change  *)
(* of another session that the cursor has passed is in the mirror, or in a *)
(* local effect on top of it.                                              *)
CursorSkipsNothing ==
    \A p \in Path \ blind :
        (row[p].kind = "live" /\ ~Follows(p, cursor)) => mirror[p].rev = row[p].rev

(* A mount that can reach the server always gets a fresh mirror again, as  *)
(* long as no tombstone is pruned or the tree fits in a page.              *)
FreshAgain == <>[](prunedBefore = 0 \/ NPath < Limit) => []<>is_fresh

(* The rebaseline "must not loop on resync_required" (changes_test.go).    *)
(* It does: the second page of a rebaseline has a cursor below the         *)
(* watermark, and the mirror is wiped again.                               *)
RebaselineEnds == []<>is_fresh
=============================================================================
