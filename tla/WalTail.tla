------------------------------ MODULE WalTail -------------------------------
(***************************************************************************)
(* The content store on a host that can lose power.  tenant.db runs with   *)
(* journal_mode = wal and synchronous = normal: a commit is written to the *)
(* log and synced only by a later checkpoint.  A power loss therefore puts *)
(* the tables back to the last checkpoint, while unlinks of chunk files,   *)
(* which are not part of the database, may have reached the disk.          *)
(***************************************************************************)
EXTENDS ChunkStore

VARIABLE synced      \* the tables as of the last checkpoint

Tables == [tracked |-> tracked, refcount |-> refcount, addedAt |-> addedAt,
           ino |-> ino, chunks |-> chunks, nextIno |-> nextIno, skewed |-> skewed]

WalInit == Init /\ synced = Tables

WalStep == Next /\ UNCHANGED synced

(* SQLite checkpoints the log when it has grown, and on a clean close.     *)
Checkpoint ==
    /\ synced' = Tables
    /\ UNCHANGED vars

(* Nobody survives; the tail of the log does not either.                   *)
PowerLoss ==
    /\ wk' = [w \in Worker |-> Idle]
    /\ gc' = GcIdle
    /\ purge' = PurgeIdle
    /\ owner' = [s \in Shard |-> Free]
    /\ tracked' = synced.tracked /\ refcount' = synced.refcount /\ addedAt' = synced.addedAt
    /\ ino' = synced.ino /\ chunks' = synced.chunks /\ nextIno' = synced.nextIno
    /\ skewed' = synced.skewed
    /\ UNCHANGED <<files, clock, synced>>

WalNext == WalStep \/ Checkpoint \/ PowerLoss

WalSpec == WalInit /\ [][WalNext]_<<vars, synced>>

(* The comment on OpenTenantDB: after a crash that takes back the tail of  *)
(* the log, an acknowledged manifest may be gone and its chunk an orphan   *)
(* file; nothing worse.  So a manifest that is there still has its chunks. *)
NothingWorseThanAnOrphan == NoChunkLost
=============================================================================
