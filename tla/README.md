# A TLA+ verification project for orlop

orlop gives agents a shared, durable disk. A Rust client mounts it (FUSE or
NFS), a Go data plane (`cmd/orlop-server`) stores content-addressed chunks and
manifests per tenant, a Go control plane (`cmd/orlop-control`) hands out
allocations, certificates and mount leases. This directory holds TLA+ models of
the parts whose correctness rests on interleavings and failures, the TLC runs
that check them, and TLAPS proofs of the main safety properties of the content
store, enrolment, server leases, mount leases, tenants and quotas, capacity, the change
feed with its mirror, and the namespace with its journal.

## Inventory

| Part | State | Operations | Talks to | Hard because | Model |
|---|---|---|---|---|---|
| Content store (`chunkstore.go`, `tenantdb.go`) | chunk files, `chunks` rows, 256 hash locks | Put, HasMany, DeleteMany, lockHashes | manifest store, collector, purge | files and rows are two stores; locks taken one by one; crash between commit and unlink | `ChunkStore`, `WalTail` |
| Manifest store (`manifests.go`) | manifests, directory entries, symlinks, special nodes, inodes, versions | Put, Link, Delete, Rename, DirCreate, DirRemove, Symlink, Mknod | content store, journal, change feed | four tables describe one tree; subtree renames; versions restart | `Namespace`, `SessionJournal`, `ChunkStore` |
| Collector (`gc.go`) | cutoff, batch | tick, select, delete rows, unlink | content store | acts on a stale selection | `ChunkStore`, `RetentionWindow` |
| Agent purge (`control_purge_agent.go`) | doomed rows, released hashes | lock all, one transaction, sweep, unlink | content store | shares chunks with surviving agents | `ChunkStore` |
| Lease manager (`lease*.go`, `conns.go`) | byPath, byID, byConn, leases.db | Grant, YieldFor, Refresh, Release, AuthorizeOrRebindSession, SweepExpired, ReleaseAllForConn, Snapshot, Restore | connections, write handlers | two timers, reconnects, late frames, restart | `LeaseManager` |
| Mount-session registry (`mount_lease_registry.go`) | active and fenced sessions | Install, Clear, Get | write handlers, orlop-control | fence races with writes; memory only | `LeaseManager`, `MountLease` |
| Change feed (`changes.go`, `dataplane_changes.go`) | revision counter, tombstones, prune watermark, doorbells | fetch, subscribe, notify, prune | manifest store, client mirror | state read before the page | `ChangeFeed` |
| Client mirror (`backend/dataplane/mirror.rs`) | rows, cursor, applied and target revision, freshness, pending unlinks | sync, local apply, wipe | change feed | lock-free flags between threads | `ChangeFeed` |
| Journal and revert (`journal.go`, `revert.go`, `journal_pubsub.go`) | journal rows, subscribers | append, revert, stream | manifest store, dashboard | several transactions per revert; catch-up against broadcast | `SessionJournal` |
| Tenants and quotas (`control_tenants.go`, `registered_tenants.go`, `account_quota_async.go`, `internal/quota`) | tenant map, two state files, pending applies, file-system limits | register, resize, unregister, apply, restart | control plane | background apply superseded, retried, interrupted | `TenantQuota` |
| Control: mount leases (`control_mount_handlers.go`, `internal/storage`) | bound enrolment, expiry, token hash, deny-list | acquire, probe, reclaim, refresh, release, unmount, revoke | registry on the server, mounts | lost replies, take-over, renewed certificates | `MountLease` |
| Control: allocations and capacity (`internal/allocations`, `entity_handlers.go`) | pool capacity, owner reservations, placements, disk rows | provision, enrol, resize, reassign, delete, purge, sweep | server API | commit, remote call, commit | `Capacity` |
| Control: CA, secrets, enrolment (`internal/ca`, `internal/secrets`, `internal/devauth`, `agent_enroll_handlers.go`), server certificate (`cert_provision.go`) | root and intermediates, tokens, certificate rows | bootstrap, load, mint, consume, provision, rotate | replicas, agents, servers | replicas bootstrap at once; two files for one pair | `Enrolment` |
| Client write path, lease cache, hand-over (`fs.rs`, `write_handle.rs`, `lease.rs`, `handoff.rs`) | open handles, lease cache | write, flush, acquire, drop | data plane | check then insert | no |

What makes each part correct: the content store never loses a chunk that a
manifest lists, and counts references exactly; the namespace is one POSIX tree;
the lease manager keeps its indexes consistent and never lets an old connection
act on its successor's lease; the fence keeps a displaced mount from writing;
the control plane has one holder per allocation, one debit per owner, one
authority for certificates; the mirror answers only what the server would
answer; a revert undoes exactly one change; a promised budget comes into force.

`PROJECT.json` lists all components, also the ones without a model, and under
`hazards` the places in the code that a test would hardly reach, each with the
properties that watch it.

## Modules

| Module | Models |
|---|---|
| `ChunkStore` | one tenant's chunk files, tables and locks with all who change them |
| `FileStore` | abstract: names with contents, no chunks; `ChunkStore` implements it |
| `WalTail`, `RetentionWindow` | `ChunkStore` with loss of power, and with a history of last references |
| `LeaseManager` | one tenant's leases, connections, write sessions, fence, sweeper, restart |
| `MountLease` | one allocation's mount lease over control plane, mounts, owner and server |
| `ChangeFeed` | the feed of one subtree and the mirror of one mount |
| `Namespace` | the four namespace tables; operations from tables to tables |
| `SessionJournal` | journal, revert and event stream over `Namespace` |
| `PosixTree` | abstract: a tree with one node per name; `SessionJournal` implements it |
| `Capacity` | disks, placements and pool capacity over two servers |
| `TenantQuota` | tenants, saved files and account quotas on one server |
| `Enrolment` | the CA, enrol tokens, enrolments and the server's certificate |
| `ChunkStore_proofs`, `Enrolment_proofs`, `LeaseManager_proofs`, `MountLease_proofs`, `TenantQuota_proofs`, `Capacity_proofs`, `ChangeFeed_proofs`, `SessionJournal_proofs` | theorems about the module of that name |
| `MC*` | instances for TLC |

### ChunkStore

`files` are the objects on disk; `tracked`, `refcount`, `addedAt` the table
`chunks`; `ino`, `chunks`, `nextIno` the manifests and the inode counter; `owner`
the hash locks. The tenant database has a single connection, so each transaction
is one step. An upload is *store the file under its lock*, then *note the row*. A
commit is *take the locks one by one in ascending order* (`LockNext`), *check that
the files exist* (`PutValidate`), *commit and unlock* (`PutCommit`) or fail.
Delete, link and rename are single transactions without locks. The collector
selects candidates without locks, locks, deletes the rows that are still
eligible, unlinks (each unlink may fail), unlocks. The purge holds all locks over
its two transactions and the unlinks. `Crash` may happen between any two steps.

A chunk list is a function from hashes to the number of occurrences, which is
what reference counting sees. `LinkingAgents` are the agents that make hard
links, `PurgedAgents` the ones that may be purged. The purge gives references back
per name although they were taken per file (`control_purge_agent.go:151`). A chunk
for which that is too many (`Overpaid`) is from then on in the history `skewed`: its
count is too low, and the collector or the purge may unlink it under another file.
The safety properties except these chunks and no others.

### LeaseManager

`byPath`, `byID`, `byConn` and `rec` are the maps of `leaseManager`. `active` and
`fenced` are the registry; `saved` is `leases.db`. A `lease_grant` or a write is a
request in a goroutine: *yield* (one turn of `YieldFor`), *revoke* or *wait*,
*install* (the second critical section of `Grant`), and for writes *authorize*
(`AuthorizeOrRebindSession`), *register* (`Install`), *commit*. Requests outlive
their connection. Refresh, release, the sweeper, the end of a connection and the
fence are one critical section each. A graceful stop saves the leases and goes on
serving until it exits; a crash restores what the last stop saved. Lease ids count
up (the code draws 128 random bits). `issued` and `banned` are histories. The mode
is left out; no client asks for `LeaseSharedRead`. dir_create, dir_remove and
symlink make no session check, so the writes here are the others. A revoke reaches
the holder's frame queue at once; in the code the push may block on a full queue of
256 frames before `revokeTimeout` starts (`lease.go:104`).

### MountLease

`row` is the allocation's lease columns, `proc` what each mount process knows
(state, certificate, token, believed expiry), `req` the one request each has in
flight, `owner` the dashboard's request, `denied` the revoked certificates,
`denyList` what the server knows of them, `live`, `active`, `fenced` its sessions.
Handlers go statement by statement: acquire, *probe* the server when the row is
taken, *reclaim* when it calls the session dead, *fence* the predecessor. Replies,
pushes, remote calls and statements may fail; processes die; certificates are
renewed and expire. Both stores' statements are the same except for the empty
token, which is why `Null` and `Empty` are distinct. Initially nobody has mounted,
or a process that mounted some time ago holds the lease, with or without a token.

### ChangeFeed

`row` is what the feed has per path (live, tombstone, nothing), stamped with the
revision that wrote it. A commit and its `Notify` are two steps; a fetch reads
the feed's state and then the page (`FetchState`, `FetchPage`); a subscription
registers and then reads the counter. The mirror's worker is `SyncStart` ...
`StoreFresh`, one step per access to shared memory or the database; doorbells
(`note_target`), local effects (`apply_local`) and pipelined unlinks interleave
with it. `blind` is a history of the paths touched by one of four races (below).
A lost connection keeps its generation, so `is_fresh` stays true until something
dials (`client.rs:837`); `Untold` says what a mirror may then be behind by.
Failures of the mirror's own database and a server without the feed are left out:
both end in a wipe or in no mirror at all.

### Namespace, SessionJournal, PosixTree

`Namespace` has no variables: `db` of `SessionJournal` is a record of its tables,
and every operation of `manifests.go` is an operator on it, with its refusals as
predicates. What lies below a directory is found by pattern there (`LIKE d||'/%'` for
a move, `GLOB d||'/*'` for emptiness, neither escaped) and a moved path is cut at the
byte length of the old one by a function that counts characters
(`manifests.go:856-876`). Names are not spelled out in the model, so `Likes`, `Globs`
and `Cut` are constants: any relation that at least finds what is below the
directory, and any result of the cut. `Lands` and `EntryLands` are where each row of
the tables comes to lie, `KeysFree` the primary keys that may refuse it, and `Exact`
says that a rename's pattern and cut do what they are meant to.

`SessionJournal` adds the journal rows, the reverts, and one event stream with
catch-up rows, bounded buffer and broadcasts after the commit. A revert (one of
`Reverter`, as nothing keeps two apart) fixes the session it writes as, finds the
latest row (by time, then number, so of two sessions in one millisecond either),
reads the live version (`liveManifestVersion`), then that of the other name
(`seedSource`), writes the inverse and deletes the row by session and number, each
in a step of its own. What the kernel refuses before a request is sent (marked Vfs)
is part of the guard, because the server does not check it. The journal is the set
of its rows, and a catch-up gets one of the answers SQL may give it: the rows in
order of their numbers, those of two sessions with the same number in either order.
`mixed` remembers a revert that brought a file to a name in use (the counterexample
`MCSessionJournal_revert`) and a directory's rename that was not `Exact`
(`MCSessionJournal_like`).

### Capacity

`free` and `res` are the pool and the owners' reservations, `rows` the disks, `vm`
the placements, `disk` the tenants each server has loaded, `filed` those of its
`registered_tenants.json`, `mounted` the pods with a session and `data` what they
wrote. A pod that has mounted goes on writing after its disk is revoked, until the
tenant is unregistered. A restart loads the filed tenants but those it cannot open
(`server.go:203`), and an unregistration may fail to remove the directory, which is
only logged (`control_tenants.go:373`), or find the tenant not loaded and answer
404, which the control plane counts as done (`client.go:325`): what it leaves is
remembered in `left`. A request is a job of a worker; every statement, transaction
and remote call is one step and a job may die between any two. Enrol tokens are in
`Enrolment`. `patched`, `moved`, `raced` and `reused` are histories of what the code
does not compensate: a PATCH of a single disk, a disk that changes owners, an
enrolment that outlives its row (it marks its agent, its owner and all owners the
agent has had), and an agent provisioned again while an earlier row of it still
waits for its purge or has one under way. The properties except exactly those. For
an agent in `reused` a late cleanup, which goes by the agent's name, drops the
placement of the new disk; that disk's own purge then finds no placement and marks
the row without erasing anything. This needs four jobs on one agent, so it is beyond
the bounds of `capacity`; it was met in the proof of `PurgedIsErased`.

### TenantQuota

`live`, `saved`, `dirs` are the tenant map, `registered_tenants.json` and the
directories. A tenant that is its own account has the account's directory, below
which the account's other tenants have theirs (`Below`): removing it
(`control_tenants.go:372-373`) takes them along, and `uprooted` remembers them until
their directory is made again. `quota`, `disk` the quota manager's state in memory
and on disk, `cap` the limit in the file system, set by an external command that may
fail after it took effect. `pending` and the applier are `account_quota_async.go`.
The limit is rounded up to the command's unit as in the code. `torn`, `raced`,
`unsaved` are histories of failures in the middle of an update.

### Enrolment

A key pair is a number drawn afresh; `secret` holds the stored pairs, `ca` what
each replica loaded, `token` and `rows` the database, `delivered` the certificates
agents have. With files, certificate and key are written one after the other and
only one replica runs; with Postgres the pair is one transaction under an advisory
lock. Replicas die between any two steps.

## Runs

| Run | Instance | Distinct states | Checks |
|---|---|---|---|
| `gc` | 2 agents, 3 names, 2 chunks on 2 locks, 2 workers, batch 1, one agent links and is purged | 1.4 M | `TypeOK`, `RefcountExact`, `ReferencedChunksPresent`, `LocksProtect`, `ImplementsFileStore` |
| `live` | 1 name whose list needs both locks, 2 workers, batch 1, no purge | 48 k | `RequestsReturn`, `GarbageCollected`, no deadlock |
| `lease` | 2 agents, 2 paths, 2 connections, 1 request, 1 restart | 2.4 M | `IndexesAgree`, `FencedWritesRejected`, `TeardownSparesOthers`, `SessionMovesForward` |
| `leaselive` | 2 agents, 1 path, 2 requests, clock to 2 | 200 k | `RequestsEnd`, `ForsakenLeasesGo` |
| `mount` | 2 processes, 2 certificates, one data connection, one fault, leases of 2 units, clock to 1 | 3.9 M | `BeliefBacked`, `NoSilentTakeover`, `DisplacedStaysOut`, `EvictedOnlyWhenLost` |
| `mountlive` | 2 processes, 2 certificates, one fault, clock to 1 | 640 k | `DisplacedStops`, `RevokedCertsRefused` |
| `feed` | 2 paths, pages of 1 row, 2 mutations, one own, one prune, one lost connection | 810 k | `FreshUnlessRaced`, `ForgottenIsResynced`, `CursorSkipsNothing`, `FreshAgain` |
| `capacity` | 2 owners, 2 agents, 2 servers, 2 requests at once, 3 in all, 1 change of owner or size, restart or failed erasure | 1.3 M | `PoolConserved`, `PlacementsBacked`, `ErasedWhenPurged`, `CapacityReturned` |
| `names` | 2 directories with a name below each, 1 more name, 5 operations (3 beside a stream), 2 reverts at once, an inexact rename | 720 k | `TreeWellFormed`, `KeysUnique`, `StreamSendsOnce`, `ImplementsTree`, `RevertRestores` |
| `quota` | 2 accounts, one its own tenant with another one below it, 2 handlers, 3 requests, 1 fault | 1.2 M | `RegistryAgrees`, `PromisedIsEnforced`, `ProjectsDistinct`, `QuotaConverges` |
| `enrol` | 2 replicas, 1 tenant, 3 bearers, 2 enrolments | 2.2 M | `OneAuthority`, `MutualTrust`, `OneCertPerToken` |
| `reuse` (violation) | 1 owner, 1 agent, 1 server | | `LiveDataSurvives` |

Why the bounds suffice for the cases that matter. *gc*: two chunks on two locks
make a circle of lock waits possible, one list uses a chunk twice; two workers,
the collector and the purge are four parties on the locks; three names give links,
overwriting renames, last-name deletes, and a purge of linked names beside a
survivor that shares their chunks, so that both the exception (`skewed`) and what is
outside it occur; with two chunks and batches of one a sweep has to come back for the
second. *live* has no purge: with it the temporal check takes longer than a run
should. The purge takes its locks in the same ascending order as a commit and waits for
nothing else. *lease*: with two connections a session moves, is taken over
and torn down; two leases suffice for a record to be replaced while somebody waits
on it; `TTL` and `MinHold` are one clock unit, so leases are expired and unexpired,
holders within and past min-hold. *leaselive* has no allocations; the fence plays
no role in waiting. *mount*: two processes with a renewal each are the holder and
its displacer; the holder at the start has one or two of its two units left, so
that one tick separates an expired row from a live one and a refresh extends it.
*feed*: pages of one row make every fetch of two changes a partial one, and one
prune falls between any two reads. *capacity*: two owners compete for two servers
of two units with disks of one and two; three multi-step requests are a purge, an
enrolment and whatever overtakes them, while a mounted pod may write at any time.
*names*: the smallest tree in which a directory with content is renamed over another;
`b` has a letter of two bytes, so that moving it cuts the paths below it wrongly. A
revert starts beside another one while at most `MaxOverlap` operations have been done:
one write that both undo, and a second one that changes what they see. *quota*: one
failure anywhere among two accounts' requests and the applier, limits that round; the
account `u` is a tenant and `a` lies below it. *enrol*: two
replicas that bootstrap the root and the tenant at once, a token that two requests
race for, a rotation.

Symmetry is used between workers, slots, agents, processes, owners and reverts and never
with liveness properties. Runs other than `gc` and `live` do not check for
deadlock: once their bounds are used up nothing needs to happen.

The type invariants of `Capacity`, `ChangeFeed`, `LeaseManager`, `MountLease` and
`SessionJournal` hold on the same instances; they are kept in the modules and are
not listed among a run's properties.

### Fairness

* `live`: a request's goroutine runs on (weak); a lock that is free again and again
  is taken, since Go mutexes hand over to a starved waiter (strong, `LockNext`);
  the collector's ticker fires; time passes. `GarbageCollected` holds when crashes
  and failing sweeps end at some time.
* `leaselive`: goroutines run on, the timers of a waiting request fire, the
  sweeper's ticker fires, time passes. Clients owe nothing: no holder has to
  answer a revoke, refresh or disconnect.
* `mountlive`: a mount's refresh loop and its requests run, an expired certificate
  is renewed in the end (the loop retries), the server reconciles its deny-list on
  its ticker, time passes.
* `feed`: goroutines and threads run, the worker's timer fires every
  `RESYNC_CHECK_INTERVAL`, a request is answered or fails. `FreshAgain` assumes that
  nothing is pruned for ever or that the tree fits in a page, see below.
* `quota`: handlers and the applier run on.

## Where code and documentation differ

The run `reuse`: `purgeAllocation` erases the tenant `a_<agent>`, whose name a new
disk of the same agent has again. Delete an agent, provision and enrol it once
more before the old row's purge runs, and the purge erases the new disk's data;
`internal/allocations/purge.go:13-15` says that a purge "only ever erases data
whose allocation was already revoked". `LiveDataIsKept` (below) proves that this is
the only way for a live disk to lose data.

### Counterexamples kept beside the runs

These configurations state what a comment, a document or a test says, and TLC
finds it violated. They mark the limits of the properties above.

| Configuration | Claim | What the code does |
|---|---|---|
| `MCChunkStore_purgelinks` | `NoChunkLost`; `control_purge_agent.go:39-40`, `:100-101` | the purge subtracts references per name (`:151`), `Put` counts per inode; the purge of an agent with hard links unlinks a chunk of another agent's file |
| `MCWalTail` | `NothingWorseThanAnOrphan`; `tenantdb.go:34-36` | with `synchronous=NORMAL` (`:54`) a lost delete whose chunk has been swept leaves a manifest without its chunk |
| `MCRetentionWindow` | `HeldBackForTheWindow`; `docs/design-data-plane.md:259-261` | the window is measured from the first upload (`gc.go:194`), not from the last reference |
| `MCLeaseManager_displaced` | `DisplacedNeverWrites`; `mount_lease_registry.go:21-28` | a graceful restart (`server.go:318`) restores leases with their ids but not the fences |
| `MCMountLease_reclaim` | `LiveMountProtected`: an acquire without force never displaces a live mount | a mount that has its lease but has not written yet has no session on the server, so it is called dead and reclaimed |
| `MCMountLease_fence` | `HolderNotFenced`: the fence hits only displaced sessions | the call names the allocation (`control_mount_handlers.go:117`), so a late one fences the successor |
| `MCMountLease_legacy` | `LegacyKeepsLease`: a client without tokens keeps its lease by its enrolment | the SQLite store writes an empty token as `''` and compares with `IS NULL` (`allocations.go:176`) |
| `MCChangeFeed_mirror` | `FreshIsExact`; "Freshness is proven" in `mirror.rs` | the local effect of an acknowledged rename deletes the destination the feed has delivered already |
| `MCChangeFeed_offline` | `FreshIsExact`; `mirror.rs:9-15`, `docs/design-metadata-mirror.md:228` | a lost connection keeps its generation until the next dial (`client.rs:837`), so the mirror goes on answering without a subscription |
| `MCChangeFeed_rebaseline` | `RebaselineEnds`; `changes_test.go`: "must not loop on resync_required" | the second page of a rebaseline has a cursor below the watermark and asks for a rebaseline again |
| `MCSessionJournal_revert` | `RevertSparesWriters`; `journal.go:33-36` | the version check passes when a path was deleted and written again to the same version, or a rename took it |
| `MCSessionJournal_like` | `RenamesKeepTree`: a rename leaves one tree | the unescaped pattern of `manifests.go:856-876` finds rows of another directory, and moves them without their entries |
| `MCTenantQuota_nested` | `LiveHasDirectory`; `control_tenants.go:325-331` | unregistering a tenant that is its own account removes the directories of the account's other tenants (`:111-115`, `:372-373`) |
| `MCTenantQuota_latest` | `LatestBudgetWins`; `account_quota_async.go:25-27` | `drainOnce` compares sizes, so the same size asked for again after a resize is taken for the one applied |
| `MCTenantQuota_heldup` | `RegistrationNotHeldUp`; `account_quota_async.go:18-23` | the registration looks up the account under the manager's lock, which the applier's command holds |

`FreshUnlessRaced` says what is left of the mirror's promise: a settled mirror
answers what the server has, except on paths touched by one of four races (a local
effect applied after the feed went past it, a wipe under a page in flight, a prune
between the two reads of a fetch, and a local effect in a mirror that had not
hydrated yet on a path deleted and pruned since). The fifth exception is a lost
connection: until something dials the mirror may be behind, but only where its next
fetch has the change to tell or starts over (`Untold`).

## Proofs

For every value of the constants that satisfies the modules' assumptions:

| Theorem | Statement |
|---|---|
| `ChunkStore_proofs!TypeCorrect` | `Spec => []TypeOK`; in particular counts never become negative |
| `ChunkStore_proofs!CountsExact` | `Spec => []RefcountExact` |
| `ChunkStore_proofs!NoDanglingChunk` | `Spec => []ReferencedChunksPresent` |
| `ChunkStore_proofs!LocksHold` | `Spec => []LocksProtect` |
| `ChunkStore_proofs!Refinement` | `Spec => FS!FSpec` |
| `Enrolment_proofs!EnrolmentTypes` | `Spec => []TypeOK` |
| `Enrolment_proofs!AuthoritySingle` | `Spec => []OneAuthority` |
| `Enrolment_proofs!TrustMutual` | `Spec => []MutualTrust` |
| `Enrolment_proofs!TokensSpentOnce` | `Spec => []OneCertPerToken` |
| `LeaseManager_proofs!LeaseTypes` | `Spec => []TypeOK` |
| `LeaseManager_proofs!LeaseIndexesAgree` | `Spec => []IndexesAgree` |
| `LeaseManager_proofs!FencedNeverCommit` | `Spec => []FencedWritesRejected` |
| `LeaseManager_proofs!TeardownIsLocal` | `Spec => TeardownSparesOthers` (an action property) |
| `LeaseManager_proofs!SessionsMoveForward` | `Spec => SessionMovesForward` (an action property) |
| `MountLease_proofs!MountTypes` | `Spec => []TypeOK` |
| `MountLease_proofs!MountBeliefBacked` | `Spec => []BeliefBacked` |
| `MountLease_proofs!DisplacedCannotTouch` | `Spec => DisplacedStaysOut` (an action property) |
| `MountLease_proofs!EvictionIsTrue` | `Spec => EvictedOnlyWhenLost` (an action property) |
| `MountLease_proofs!TakeoverIsOverruled` | `Spec => NoSilentTakeover` (an action property) |
| `TenantQuota_proofs!RegistryAlwaysAgrees` | `Spec => []RegistryAgrees` |
| `TenantQuota_proofs!ProjectsAlwaysDistinct` | `Spec => []ProjectsDistinct` |
| `TenantQuota_proofs!PromisesAreEnforced` | `Spec => []PromisedIsEnforced` |
| `Capacity_proofs!CapacityTypes` | `Spec => []TypeOK`; free bytes stay between zero and the total |
| `Capacity_proofs!PoolAlwaysConserved` | `Spec => []PoolConserved` |
| `Capacity_proofs!PlacementsAlwaysBacked` | `Spec => []PlacementsBacked` |
| `Capacity_proofs!PurgedIsErased` | `Spec => []ErasedWhenPurged` |
| `Capacity_proofs!CapacityComesBack` | `Spec => []CapacityReturned` |
| `Capacity_proofs!LiveDataIsKept` | `Spec => LiveDataKept`: no step removes what the pod of a live disk wrote, but for an agent in `reused` |
| `ChangeFeed_proofs!FeedTypes` | `Spec => []TypeOK` |
| `ChangeFeed_proofs!CursorNeverSkips` | `Spec => []CursorSkipsNothing` |
| `ChangeFeed_proofs!ForgottenAlwaysResynced` | `Spec => []ForgottenIsResynced` |
| `ChangeFeed_proofs!FreshAlwaysUnlessRaced` | `Spec => []FreshUnlessRaced` |
| `SessionJournal_proofs!JournalTypes` | `Spec => []TypeOK`; in particular a subscriber's buffer is never overrun |
| `SessionJournal_proofs!KeysAlwaysUnique` | `Spec => []KeysUnique` |
| `SessionJournal_proofs!StreamAlwaysSendsOnce` | `Spec => []StreamSendsOnce` |
| `SessionJournal_proofs!TreeAlwaysWellFormed` | `Spec => []TreeWellFormed` |
| `SessionJournal_proofs!TablesImplementTree` | `Spec => ImplementsTree`: every step of the tables is a step of `PosixTree` |
| `SessionJournal_proofs!RevertsRestore` | `Spec => RevertRestores` (an action property) |

The bounds on clocks, ids, requests, rows and faults are constants of the modules
too, so the theorems hold for every value of them.

*Content store.* The inductive invariant is `StoreInv`. `ReferencedChunksPresent`
alone is not inductive: a commit could list a chunk that is just being unlinked.
It needs `LocksProtect` (who commits holds the locks of chunks on disk; who unlinks
holds the locks of chunks nobody lists), and the collector's part of that needs
`RefcountExact` (a count of zero means that nobody lists the chunk). Exact counts
need `AliasesAgree` (it does not matter through which name references go back) and
`NameShape` (a new inode is really new). What a purge takes with a subtree is counted
by names; `LinksStayHome` (only names of one agent share a file) makes that at least
what goes, and exactly that for a chunk that is not `Overpaid`, so that counts are
never too high, and too low only for `skewed` chunks. Nothing is assumed of who links
and who is purged. The counting argument (how the cardinality of the set of occurrences
changes when one inode's list is replaced, removed, or when a subtree goes) is in
the lemmas `OccSplit`, `OccReplace`, `OccRemove` and `CountPut` ... `CountPurge`.

*Enrolment.* `AuthorityInv` says that what a running replica holds, what a
request carries and what the server captured are the stored pairs, and that a
stored pair never changes once its certificate and key are both there; the
properties about certificates in agents' hands follow. `TokenInv` says that a
token that yielded a certificate is spent, that at most one request holds the
certificate of a token after it consumed it, and that its row is written before
the reply.

*Lease manager.* `LeaseInv` is `IndexesAgree` with what a new or restored lease
needs: ids are handed out in order and one is left for every grant under way, so
the id a grant draws has no record yet (`Room`, `Known`); the saved table has one
record per path and none that expires late, so that a restore rebuilds agreeing
indexes (`SavedApart`, `SavedBounded`); a write that came in fenced still names a
fenced session at every later step (`FencedStays`), although other sessions of the
allocation install themselves meanwhile. The two action properties follow from
the invariant and the critical section that acts.

*Mount leases.* In `MountInv` the row's token tells who holds it (`RowSound`), a
process knows no token but its own (`TokenSound`), and what the holder was told, or
will be told by a reply in flight, is no more than the row grants (`BeliefSound`).
A row from before there were tokens is the hard case: it is told apart by its
enrolment only, which is enough because its holder is the one mount without a
token, keeps that enrolment while it is up, and nobody else has it (`OldRowSound`,
`Alone`). The three action properties are proved from it action by action.

*Tenants and quotas.* `RegistryInv` is about the registration locks and `regFileMu`:
whoever writes the file has loaded what it still holds (`FileLock`), and a handler
between two saves leaves its tenant in one of a few states (`HandlerSound`), in which a
directory that went with its account's is accounted for.
`ManagerInv` says that ids stay below the next one, that the record of a running
allocation is the last one made (so that its rollback may give the id back), and
that limit and record agree. `PromiseInv` ties the command under way to who holds the
manager's mutex, and the promise to the pending entry or the record.

*Capacity.* `CapacityInv` has three parts. `RowInv`: a live row is its agent's last,
no purge works on a live row, earlier rows have the same owner or the parting is
known. `HomeInv`: an account has one home; an enrolment under way and every
placement went there; the last row of a placed agent is not purged, and a purge of
it that is past the server will drop the placement with its next step (`LastSound`),
which is why capacity that is kept for a placement comes back later (`Backed`).
`DataInv`: what a pod wrote, and the pods that may still write, are where the agent
is placed, but for what is in `left`; a purge past the server has left none of
either, and a pod can only write where its tenant is loaded, so late writes cannot
come back. `PoolInv` counts reserved bytes as pairs of account and number, so that
`SumStep` says how the sum changes when one account's reservation does; a
consequence is that the cap in `ReleaseCapacity` never cuts anything off unless a
PATCH has been at that server. `PickBest` is a `CHOOSE` of a maximum; that there is
one comes from the well-foundedness of the natural numbers (`MostFree`).

*Change feed and mirror.* `FeedInv` follows the data from the commit to the
verdict. `SubHears`: a subscription on the current connection has a target, a
doorbell under way or a signal for the last commit. `AckedStand`: an acknowledged
mutation of the mount is what the server holds, or a later one is, or it has been
pruned. `QuerySound`, `PageSound`, `PageKeepsAcked` and `PageForgets` are about the
page in flight: a row it covers is as it was on the server, or has changed since and
is ahead of the page's cursor, or was pruned and the fetch after it will notice,
because the watermark is beyond that cursor. `MirrorCaught` and `MirrorComplete` say
what the mirror then has up to its own cursor, by path and revision for a full page
and by revision for the last one; `FreshSound` that a verdict is about this cursor
unless a wake is there to revise it. `FreshUnlessRaced` is the conjunction of
`SubHears`, `FreshSound` and `MirrorComplete` in a settled state. None of the parts is
inductive without the page: it is what a commit, a prune, a wipe or a local effect
disturbs while it travels.

*Namespace, journal and stream.* The invariant is `Inv`. `TreeSound` adds to
`TreeWellFormed` that every entry's directory is listed itself (`Parents`), without
which a removal could leave a subtree hanging. What `reparentDescendantsTx` does to
a subtree of any size and depth is, for a rename that is `Exact`, a graft: the map
from old to new names is one to one and nothing is left below the old one
(`GraftFacts`, `InRegraft`, `MovesSubtree`). That is proved for any pattern and cut;
where they are not exact, `mixed` is set and the tree is given up. `MakesNode` and
`UnmakesNode` are the other two kinds of step of `PosixTree`. `KeysUnique` needs
that a row's number is at most its id and that ids are drawn in order
(`RowsCounted`, `NextSeqIs`); it does not need that numbers are not used again, and
they are, after a revert deleted the last row. `StreamSendsOnce` therefore cannot be
read off the watermark alone: `FramesSound` says that an entry is either on its way
or in the buffer, once, and that one the stream has shown is at most at its
watermark (`CatchUpKeeps` for the rows read at the start). `RowsSound` and
`RevertSound` say that the row a revert works from holds what was there before the
write, also when the row has been deleted since; `RevertsRestore` follows from that
and from what the inverse does to the tables (`InverseIs`).

Assumptions on constants that the proofs use: sizes and bounds are natural numbers,
sets of workers, accounts and servers are finite where the code counts them, and the
markers for "nothing" (`None`, `Null`, `Empty`, `Nobody`) are none of the values
they are told apart from; the paths of a namespace are closed under parents and
`Likes` finds at least what is below a directory (`NamespaceAssumption`), and the
stream's buffer and catch-up are natural numbers (`JournalAssumption`). TLC
evaluates them on every run.

Only model-checked: liveness and ENABLED, which are outside the prover's reach
(`RequestsReturn`, `GarbageCollected`, `RequestsEnd`, `ForsakenLeasesGo`,
`DisplacedStops`, `RevokedCertsRefused`, `FreshAgain`, `QuotaConverges`). Every other
property of a passing run is a theorem above. The claims of the counterexamples are
refuted and have no proof.

## Not modelled

* Encoding and framing, audit, metrics, configuration, policy, rate limits and
  read-only handlers: they do not change the state the properties are about.
* The content-defined chunker: a pure function of bytes.
* X.509 and TLS: library code, represented by who signed what.
* Attributes and extended attributes: carried by the namespace, not read by it.
* The client's write path (`fs.rs`, `write_handle.rs`): driven by the kernel; the
  requests it sends are steps of `ChunkStore`, `SessionJournal` and `ChangeFeed`.
* The client's lease cache (`lease.rs`) and live hand-over (`handoff.rs`).
* Device login, dashboard sessions, e-mail allowlists: single statements over
  their own tables.
* The command line and the development tools.

## Status

All eight state machines are modelled, checked and proved up to liveness. What could
be added beside the present models, in this order: the client's lease cache
(`lease.rs`), whose two threads may both miss it; the write path's hand-over of a
dirty file to `ChunkStore`; device login.
