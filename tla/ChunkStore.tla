----------------------------- MODULE ChunkStore -----------------------------
(***************************************************************************)
(* The content store of one tenant of orlop-server: chunk files on disk,   *)
(* the SQLite tables `chunks` and `manifests`, the first-byte hash locks   *)
(* that tie the two together, and everybody who changes them: requests     *)
(* that upload chunks and commit manifests, single-transaction namespace   *)
(* operations, the garbage collector, the administrative purge of one      *)
(* agent's subtree, and a crash of the process.                            *)
(*                                                                         *)
(* SQLite runs on one connection, so a transaction is one atomic step.     *)
(* Files and rows are different stores: nothing makes a transaction and an *)
(* unlink or a rename of a chunk file atomic, which is what the hash locks *)
(* are for.                                                                *)
(*                                                                         *)
(* Abstractions.  A chunk list is the number of times each hash occurs in  *)
(* it.  A manifest version is compared with the request's expectation and  *)
(* decides between success and conflict, so a commit may go either way.    *)
(* Paths sit in directories that exist.  Bytes, sizes, modes, owners, the  *)
(* session journal and the change feed are left out.                       *)
(***************************************************************************)
EXTENDS Integers, FiniteSets

CONSTANTS
    Hash,          \* chunk hashes (blake3 of the bytes)
    Shard,         \* lock numbers: the first byte of a hash
    ShardOf,       \* the lock a hash belongs to
    Path,          \* file names
    Agent,         \* the agents whose subtrees partition the names
    AgentOf,       \* the agent a name belongs to (its first component)
    Bodies,        \* chunk lists a manifest may carry, as occurrence counts
    Worker,        \* goroutines that serve data-plane requests
    LinkingAgents, \* agents that create hard links
    PurgedAgents,  \* agents the control plane purges out of a shared tenant
    BatchSize,     \* gc.batch_size
    Retention,     \* gc.retention_window, in clock units
    MaxClock,      \* bound: the clock stops here
    MaxInode       \* bound: how many files are ever created

GC == "gc"
Admin == "admin"
Free == "free"
Proc == Worker \union {GC, Admin}

ASSUME HashAssumption == IsFiniteSet(Hash) /\ Shard \subseteq Nat /\ ShardOf \in [Hash -> Shard]
ASSUME PathAssumption == IsFiniteSet(Path) /\ AgentOf \in [Path -> Agent]
                         /\ PurgedAgents \subseteq Agent /\ LinkingAgents \subseteq Agent
ASSUME BodyAssumption == Bodies \subseteq [Hash -> Nat]
ASSUME WorkerAssumption == {GC, Admin, Free} \intersect Worker = {}
ASSUME BoundAssumption == /\ BatchSize \in Nat \ {0} /\ Retention \in Nat
                          /\ MaxClock \in Nat /\ MaxInode \in Nat

VARIABLES
    files,      \* hashes with a file under objects/
    tracked,    \* hashes with a row in `chunks`
    refcount,   \* chunks.refcount, 0 where there is no row
    addedAt,    \* chunks.added_at, 0 where there is no row
    ino,        \* manifests.inode_id by path, 0 where there is no row
    chunks,     \* manifests.chunks by path, NoChunks where there is no row
    nextIno,    \* inode_counter.next_id
    owner,      \* who holds each hash lock
    wk,         \* the request each worker serves
    gc,         \* the sweep of this tenant
    purge,      \* the administrative purge
    skewed,     \* history: hashes of which a purge gave back too many references
    clock

store == <<tracked, refcount, addedAt, skewed>>
namespace == <<ino, chunks, nextIno>>
vars == <<files, store, namespace, owner, wk, gc, purge, clock>>

NoChunks == [h \in Hash |-> 0]
Idle == [pc |-> "idle"]
GcIdle == [pc |-> "idle", cutoff |-> 0, batch |-> {}]
PurgeIdle == [pc |-> "idle", batch |-> {}]

Live == {p \in Path : ino[p] # 0}
Names(p) == {q \in Path : ino[q] = ino[p]}
Support(b) == {h \in Hash : b[h] > 0}

-----------------------------------------------------------------------------
(* Hash locks.  lockHashes takes the locks it needs one by one in ascending *)
(* order and keeps the ones it has while it waits for the next.             *)

Held(x) == {s \in Shard : owner[s] = x}

Need(x) ==
    IF x = GC THEN IF gc.pc = "lock" THEN {ShardOf[h] : h \in gc.batch} ELSE {}
    ELSE IF x = Admin THEN IF purge.pc = "lock" THEN Shard ELSE {}
    ELSE CASE wk[x].pc = "upload" -> {ShardOf[wk[x].hash]}
           [] wk[x].pc = "put" -> {ShardOf[h] : h \in Support(wk[x].body)}
           [] OTHER -> {}

BugLockOrder(s, need) == TRUE
LockOrder(s, need) == \A t \in need : s <= t

LockNext(x) ==
    /\ \E s \in Need(x) \ Held(x) :
          /\ LockOrder(s, Need(x) \ Held(x))
          /\ owner[s] = Free
          /\ owner' = [owner EXCEPT ![s] = x]
    /\ UNCHANGED <<files, store, namespace, wk, gc, purge, clock>>

Locked(x) == Need(x) \subseteq Held(x)

Unlock(x) == owner' = [s \in Shard |-> IF owner[s] = x THEN Free ELSE owner[s]]

-----------------------------------------------------------------------------
(* The chunks table.  A missing row is created with refcount 0 and          *)
(* added_at 0 before the delta is added; the CHECK constraint refuses a     *)
(* transaction that would make a count negative.                            *)

BugApplyChunkRefDelta(delta) ==
    /\ tracked' = tracked \union {h \in Hash : delta[h] # 0}
    /\ refcount' = [h \in Hash |-> refcount[h] - delta[h]]
    /\ addedAt' = addedAt

ApplyChunkRefDelta(delta) ==
    /\ \A h \in Hash : refcount[h] + delta[h] >= 0
    /\ tracked' = tracked \union {h \in Hash : delta[h] # 0}
    /\ refcount' = [h \in Hash |-> refcount[h] + delta[h]]
    /\ addedAt' = addedAt

ChunkRefDelta(old, new) == [h \in Hash |-> new[h] - old[h]]

DropRows(H) ==
    /\ tracked' = tracked \ H
    /\ refcount' = [h \in Hash |-> IF h \in H THEN 0 ELSE refcount[h]]
    /\ addedAt' = [h \in Hash |-> IF h \in H THEN 0 ELSE addedAt[h]]

-----------------------------------------------------------------------------
(* chunk_put: store the file under its lock, then note the row.            *)

Become(w, request) == wk' = [wk EXCEPT ![w] = request]

UploadStart(w, h) ==
    /\ wk[w] = Idle
    /\ Become(w, [pc |-> "upload", hash |-> h])
    /\ UNCHANGED <<files, store, namespace, owner, gc, purge, clock>>

(* ChunkStore.Put: an existing file is left alone; otherwise a temporary   *)
(* file is written, synced and renamed, or the write fails (over capacity, *)
(* stalled, I/O error) and nothing becomes visible.                        *)
UploadStore(w) ==
    /\ wk[w].pc = "upload"
    /\ Locked(w)
    /\ \/ files' = files \union {wk[w].hash} /\ Become(w, [pc |-> "note", hash |-> wk[w].hash])
       \/ wk[w].hash \notin files /\ files' = files /\ Become(w, Idle)
    /\ Unlock(w)
    /\ UNCHANGED <<store, namespace, gc, purge, clock>>

(* NoteChunkStored: insert a row unless there is one; best effort.         *)
UploadNote(w) ==
    /\ wk[w].pc = "note"
    /\ Become(w, Idle)
    /\ \/ LET h == wk[w].hash IN
          /\ tracked' = tracked \union {h}
          /\ addedAt' = [addedAt EXCEPT ![h] = IF h \in tracked THEN @ ELSE clock]
       \/ UNCHANGED <<tracked, addedAt>>
    /\ UNCHANGED <<files, refcount, skewed, namespace, owner, gc, purge, clock>>

-----------------------------------------------------------------------------
(* manifest_put: lock the chunks, check their files, commit, unlock.       *)

PutStart(w, p, b) ==
    /\ wk[w] = Idle
    /\ Become(w, [pc |-> "put", path |-> p, body |-> b])
    /\ UNCHANGED <<files, store, namespace, owner, gc, purge, clock>>

Present(b) == Support(b) \subseteq files

PutValidate(w) ==
    /\ wk[w].pc = "put"
    /\ Locked(w)
    /\ IF Present(wk[w].body)
       THEN /\ Become(w, [pc |-> "commit", path |-> wk[w].path, body |-> wk[w].body])
            /\ owner' = owner
       ELSE Become(w, Idle) /\ Unlock(w)
    /\ UNCHANGED <<files, store, namespace, gc, purge, clock>>

BugPutTargets(p) == {p}
PutTargets(p) == IF ino[p] = 0 THEN {p} ELSE Names(p)

(* The transaction of ManifestStore.Put.  A new file gets the next inode;  *)
(* an update rewrites every name of the inode.                             *)
PutCommit(w) ==
    LET p == wk[w].path
        b == wk[w].body
    IN /\ wk[w].pc = "commit"
       /\ ino[p] = 0 => nextIno < MaxInode
       /\ ApplyChunkRefDelta(ChunkRefDelta(chunks[p], b))
       /\ nextIno' = IF ino[p] = 0 THEN nextIno + 1 ELSE nextIno
       /\ ino' = IF ino[p] = 0 THEN [ino EXCEPT ![p] = nextIno + 1] ELSE ino
       /\ chunks' = [q \in Path |-> IF q \in PutTargets(p) THEN b ELSE chunks[q]]
       /\ Become(w, Idle)
       /\ Unlock(w)
       /\ UNCHANGED <<files, skewed, gc, purge, clock>>

(* Version conflict, missing parent, or any error: the transaction is      *)
(* rolled back and the locks are released.                                 *)
PutAbort(w) ==
    /\ wk[w].pc = "commit"
    /\ Become(w, Idle)
    /\ Unlock(w)
    /\ UNCHANGED <<files, store, namespace, gc, purge, clock>>

-----------------------------------------------------------------------------
(* Single-transaction operations; they take no hash lock.  A connection is *)
(* confined to its agent's subtree, so both names of a link or a rename    *)
(* belong to one agent.                                                    *)

(* Chunks belong to the inode: only its last name gives them back.         *)
Owned(p) == IF Names(p) = {p} THEN chunks[p] ELSE NoChunks

Delete(p) ==
    /\ ino[p] # 0
    /\ ApplyChunkRefDelta(ChunkRefDelta(Owned(p), NoChunks))
    /\ ino' = [ino EXCEPT ![p] = 0]
    /\ chunks' = [chunks EXCEPT ![p] = NoChunks]
    /\ UNCHANGED <<files, skewed, nextIno, owner, wk, gc, purge, clock>>

Link(from, to) ==
    /\ AgentOf[from] = AgentOf[to] /\ AgentOf[from] \in LinkingAgents
    /\ ino[from] # 0
    /\ ino[to] = 0
    /\ ino' = [ino EXCEPT ![to] = ino[from]]
    /\ chunks' = [chunks EXCEPT ![to] = chunks[from]]
    /\ UNCHANGED <<files, store, nextIno, owner, wk, gc, purge, clock>>

(* A rename onto another name of the same inode, or onto itself, does      *)
(* nothing; otherwise the destination is deleted and the row moves.        *)
Rename(from, to) ==
    /\ AgentOf[from] = AgentOf[to]
    /\ ino[from] # 0
    /\ ino[to] # ino[from]
    /\ ApplyChunkRefDelta(ChunkRefDelta(IF ino[to] = 0 THEN NoChunks ELSE Owned(to), NoChunks))
    /\ ino' = [ino EXCEPT ![to] = ino[from], ![from] = 0]
    /\ chunks' = [chunks EXCEPT ![to] = chunks[from], ![from] = NoChunks]
    /\ UNCHANGED <<files, skewed, nextIno, owner, wk, gc, purge, clock>>

-----------------------------------------------------------------------------
(* The garbage collector.                                                   *)

BugEligible(cutoff) == {h \in tracked : refcount[h] = 0 /\ addedAt[h] \in 1 .. cutoff - 1}
Eligible(cutoff) == {h \in tracked : refcount[h] = 0 /\ addedAt[h] < cutoff}

GcTick ==
    /\ gc.pc = "idle"
    /\ gc' = [pc |-> "select", cutoff |-> clock - Retention, batch |-> {}]
    /\ UNCHANGED <<files, store, namespace, owner, wk, purge, clock>>

(* selectGCCandidates: the oldest rows first, at most BatchSize of them.   *)
GcCandidates(cutoff) ==
    {B \in SUBSET Eligible(cutoff) :
        /\ Cardinality(B) <= BatchSize
        /\ Cardinality(B) < BatchSize => B = Eligible(cutoff)
        /\ \A h \in B, k \in Eligible(cutoff) \ B : addedAt[h] <= addedAt[k]}

GcSelect ==
    /\ gc.pc = "select"
    /\ IF Eligible(gc.cutoff) = {}
       THEN gc' = GcIdle
       ELSE \E B \in GcCandidates(gc.cutoff) : gc' = [gc EXCEPT !.pc = "lock", !.batch = B]
    /\ UNCHANGED <<files, store, namespace, owner, wk, purge, clock>>

BugStillEligible(H, cutoff) == H
StillEligible(H, cutoff) == H \intersect Eligible(cutoff)

(* deleteGCBatch repeats the predicate and returns what it deleted.        *)
GcDeleteRows ==
    /\ gc.pc = "lock"
    /\ Locked(GC)
    /\ DropRows(StillEligible(gc.batch, gc.cutoff))
    /\ gc' = [gc EXCEPT !.pc = "unlink", !.batch = StillEligible(gc.batch, gc.cutoff)]
    /\ UNCHANGED <<files, skewed, namespace, owner, wk, purge, clock>>

GcDeleteFails ==
    /\ gc.pc = "lock"
    /\ Locked(GC)
    /\ gc' = GcIdle
    /\ Unlock(GC)
    /\ UNCHANGED <<files, store, namespace, wk, purge, clock>>

(* Unlinks may fail one by one.  Then the next batch, or the end of the    *)
(* sweep when the tenant's time budget is used up.                         *)
GcUnlink ==
    /\ gc.pc = "unlink"
    /\ \E gone \in SUBSET gc.batch : files' = files \ gone
    /\ gc' \in {GcIdle, [gc EXCEPT !.pc = "select", !.batch = {}]}
    /\ Unlock(GC)
    /\ UNCHANGED <<store, namespace, wk, purge, clock>>

-----------------------------------------------------------------------------
(* purgeAgentSubtree: every hash lock, one transaction over the subtree,   *)
(* one over the released rows, the unlinks.                                *)

PurgeStart(a) ==
    /\ purge.pc = "idle"
    /\ purge' = [pc |-> "lock", batch |-> {}, agent |-> a]
    /\ UNCHANGED <<files, store, namespace, owner, wk, gc, clock>>

Subtree(a) == {p \in Live : AgentOf[p] = a}

(* One reference is given back for every occurrence in every doomed row.   *)
RowOccurrences(P, h) == UNION {{p} \X (1 .. chunks[p][h]) : p \in P}

BugPurgeDelta(a) == [h \in Hash |-> 0 - Cardinality({p \in Subtree(a) : chunks[p][h] > 0})]
PurgeDelta(a) == [h \in Hash |-> 0 - Cardinality(RowOccurrences(Subtree(a), h))]

(* Where two of the doomed names are links to one file, which counted once, *)
(* that is more than the file had.                                          *)
Overpaid(P) == {h \in Hash : \E p, q \in P : p # q /\ ino[p] = ino[q] /\ chunks[p][h] > 0}

PurgeCommit ==
    LET P == Subtree(purge.agent)
    IN /\ purge.pc = "lock"
       /\ Locked(Admin)
       /\ ApplyChunkRefDelta(PurgeDelta(purge.agent))
       /\ ino' = [p \in Path |-> IF p \in P THEN 0 ELSE ino[p]]
       /\ chunks' = [p \in Path |-> IF p \in P THEN NoChunks ELSE chunks[p]]
       /\ purge' = [pc |-> "sweep", batch |-> UNION {Support(chunks[p]) : p \in P}]
       /\ skewed' = skewed \union Overpaid(P)
       /\ UNCHANGED <<files, nextIno, owner, wk, gc, clock>>

(* deletePurgedChunkRows: no retention window here.                        *)
BugReleased(H) == H \intersect tracked
Released(H) == {h \in H \intersect tracked : refcount[h] = 0}

PurgeSweep ==
    /\ purge.pc = "sweep"
    /\ DropRows(Released(purge.batch))
    /\ purge' = [pc |-> "unlink", batch |-> Released(purge.batch)]
    /\ UNCHANGED <<files, skewed, namespace, owner, wk, gc, clock>>

PurgeUnlink ==
    /\ purge.pc = "unlink"
    /\ \E gone \in SUBSET purge.batch : files' = files \ gone
    /\ purge' = PurgeIdle
    /\ Unlock(Admin)
    /\ UNCHANGED <<store, namespace, wk, gc, clock>>

(* A failed transaction ends the purge where it is.                        *)
PurgeFails ==
    /\ purge.pc \in {"lock", "sweep"}
    /\ Locked(Admin)
    /\ purge' = PurgeIdle
    /\ Unlock(Admin)
    /\ UNCHANGED <<files, store, namespace, wk, gc, clock>>

-----------------------------------------------------------------------------
(* A crash forgets the locks and everybody's progress; committed           *)
(* transactions and files stay.                                            *)
Crash ==
    /\ wk' = [w \in Worker |-> Idle]
    /\ gc' = GcIdle
    /\ purge' = PurgeIdle
    /\ owner' = [s \in Shard |-> Free]
    /\ UNCHANGED <<files, store, namespace, clock>>

Tick ==
    /\ clock < MaxClock
    /\ clock' = clock + 1
    /\ UNCHANGED <<files, store, namespace, owner, wk, gc, purge>>

Init ==
    /\ files = {}
    /\ tracked = {}
    /\ refcount = [h \in Hash |-> 0]
    /\ addedAt = [h \in Hash |-> 0]
    /\ ino = [p \in Path |-> 0]
    /\ chunks = [p \in Path |-> NoChunks]
    /\ nextIno = 0
    /\ owner = [s \in Shard |-> Free]
    /\ wk = [w \in Worker |-> Idle]
    /\ gc = GcIdle
    /\ purge = PurgeIdle
    /\ skewed = {}
    /\ clock = Retention + 1     \* long after the epoch

WorkerStep(w) == UploadStore(w) \/ UploadNote(w) \/ PutValidate(w) \/ PutCommit(w) \/ PutAbort(w)
GcStep == GcSelect \/ GcDeleteRows \/ GcUnlink
PurgeStep == PurgeCommit \/ PurgeSweep \/ PurgeUnlink \/ PurgeFails

Next ==
    \/ \E w \in Worker, h \in Hash : UploadStart(w, h)
    \/ \E w \in Worker, p \in Path, b \in Bodies : PutStart(w, p, b)
    \/ \E w \in Worker : WorkerStep(w)
    \/ \E x \in Proc : LockNext(x)
    \/ \E p \in Path : Delete(p)
    \/ \E p, q \in Path : Link(p, q) \/ Rename(p, q)
    \/ GcTick \/ GcStep \/ GcDeleteFails
    \/ \E a \in PurgedAgents : PurgeStart(a)
    \/ PurgeStep
    \/ Crash
    \/ Tick

Spec == Init /\ [][Next]_vars

(***************************************************************************)
(* Fairness.  A request that was accepted runs on; the GC ticker fires     *)
(* again after each sweep; time passes.  Go's mutexes hand over to a       *)
(* waiter that has starved, so a lock that becomes free again and again is *)
(* taken in the end.  Nothing makes a client send a request.               *)
(***************************************************************************)
Fairness ==
    /\ \A w \in Worker : WF_vars(WorkerStep(w))
    /\ \A x \in Proc : SF_vars(LockNext(x))
    /\ WF_vars(GcTick) /\ WF_vars(GcStep) /\ WF_vars(PurgeStep) /\ WF_vars(Tick)

FairSpec == Spec /\ Fairness

-----------------------------------------------------------------------------
(* Properties.                                                             *)

Requests ==
    [pc : {"idle"}] \union [pc : {"upload", "note"}, hash : Hash]
        \union [pc : {"put", "commit"}, path : Path, body : Bodies]

(* The shapes of the tables, the locks and the requests in progress.       *)
TypeOK ==
    /\ files \subseteq Hash /\ tracked \subseteq Hash /\ skewed \subseteq Hash
    /\ refcount \in [Hash -> Nat] /\ addedAt \in [Hash -> Nat]
    /\ ino \in [Path -> Nat] /\ nextIno \in Nat
    /\ chunks \in [Path -> Bodies \union {NoChunks}]
    /\ owner \in [Shard -> Proc \union {Free}]
    /\ wk \in [Worker -> Requests]
    /\ gc \in [pc : {"idle", "select", "lock", "unlink"}, cutoff : Int, batch : SUBSET Hash]
    /\ purge \in [pc : {"idle", "sweep", "unlink"}, batch : SUBSET Hash]
                 \union [pc : {"lock"}, batch : {{}}, agent : Agent]
    /\ clock \in Nat

(* The references a hash has: one per occurrence per inode, however many   *)
(* names the inode has.                                                    *)
Occurrences(h) == UNION {{ino[p]} \X (1 .. chunks[p][h]) : p \in Live}

(* chunks.refcount is the number of references at every moment: across     *)
(* concurrent commits, overwrites through any hard link, deletes, renames  *)
(* over a file, sweeps, purges and crashes no reference is counted that    *)
(* does not exist, and none is lost except of a hash that a purge of       *)
(* hard-linked names has skewed.                                           *)
RefcountExact ==
    \A h \in Hash : /\ refcount[h] <= Cardinality(Occurrences(h))
                    /\ h \notin skewed => refcount[h] = Cardinality(Occurrences(h))

(* The file of every chunk that a committed manifest lists is on disk,     *)
(* unless the chunk is skewed: neither the collector's nor the purge's     *)
(* unlink hits a chunk that a manifest refers to, and no manifest commits  *)
(* a chunk on its way out.                                                 *)
ReferencedChunksPresent == \A p \in Live : Support(chunks[p]) \subseteq files \union skewed

(* The same without the exception: what a reader of a file counts on.  A   *)
(* purge of an agent that has made hard links breaks it for the agents     *)
(* that share its chunks (MCChunkStore_purgelinks).                        *)
NoChunkLost == \A p \in Live : Support(chunks[p]) \subseteq files

(* All names of an inode carry the same chunk list, so that it does not    *)
(* matter through which name the references are given back.                *)
AliasesAgree == \A p, q \in Live : ino[p] = ino[q] => chunks[p] = chunks[q]

Unreferenced(h) == \A p \in Path : chunks[p][h] = 0
MayGo(h) == h \in skewed \/ Unreferenced(h)

(* What the hash locks buy.  From its validation to its commit a manifest  *)
(* holds the locks of chunks that are all on disk; from the row delete to  *)
(* the unlink the collector and the purge hold the locks of chunks that    *)
(* nobody refers to or that are skewed.  Neither can overtake the other.   *)
LocksProtect ==
    /\ \A w \in Worker : wk[w].pc = "commit" =>
          \A h \in Support(wk[w].body) : owner[ShardOf[h]] = w /\ h \in files
    /\ gc.pc = "unlink" => \A h \in gc.batch : owner[ShardOf[h]] = GC /\ MayGo(h)
    /\ purge.pc \in {"sweep", "unlink"} => \A s \in Shard : owner[s] = Admin
    /\ purge.pc = "unlink" => \A h \in purge.batch : MayGo(h)

(* The inductive invariant behind the two safety properties above.  Inode  *)
(* numbers are never handed out twice; only names of one agent share one.  *)
NameShape == \A p \in Path : ino[p] <= nextIno /\ (ino[p] = 0 => chunks[p] = NoChunks)
LinksStayHome == \A p, q \in Live : ino[p] = ino[q] => AgentOf[p] = AgentOf[q]

StoreInv ==
    /\ TypeOK /\ NameShape /\ LinksStayHome
    /\ AliasesAgree /\ RefcountExact /\ ReferencedChunksPresent /\ LocksProtect

(* What a reader of p gets: the chunk list if every chunk that no purge    *)
(* has skewed can be fetched, otherwise something that is no chunk list.   *)
Unreadable == [h \in Hash |-> 0 - 1]
ReadBack == [p \in Path |-> IF Support(chunks[p]) \subseteq files \union skewed THEN chunks[p] ELSE Unreadable]

FS == INSTANCE FileStore WITH inode <- ino, body <- ReadBack, Nothing <- NoChunks

(* The content store implements the plain file store: uploads, sweeps,     *)
(* unlinks, lock traffic and crashes never change what any name reads as,  *)
(* as far as its chunks are not skewed.                                    *)
ImplementsFileStore == FS!FSpec

(* Every request, once accepted, ends and gives its locks back, whatever   *)
(* the collector, the purge and the other requests do: ascending lock      *)
(* order leaves no circle of waiters.                                      *)
RequestsReturn == \A w \in Worker : wk[w] # Idle ~> wk[w] = Idle

(* A chunk row that nobody refers to and that is old enough does not stay  *)
(* for ever, provided crashes and failing sweeps end at some time.         *)
Garbage(h) == h \in tracked /\ refcount[h] = 0 /\ addedAt[h] < MaxClock - Retention
GarbageCollected ==
    <>[][~(Crash \/ GcDeleteFails)]_vars => \A h \in Hash : []<>~Garbage(h)
=============================================================================
