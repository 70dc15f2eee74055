-------------------------- MODULE RetentionWindow ---------------------------
(***************************************************************************)
(* The content store with a history variable: when the count of each chunk *)
(* last fell to zero.  The chunks table does not record that time.         *)
(***************************************************************************)
EXTENDS ChunkStore

VARIABLE droppedAt      \* clock when the last reference went, 0 if none ever did

RetentionInit == Init /\ droppedAt = [h \in Hash |-> 0]

RetentionNext ==
    /\ Next
    /\ droppedAt' = [h \in Hash |->
                        IF refcount[h] > 0 /\ refcount'[h] = 0 THEN clock ELSE droppedAt[h]]

RetentionSpec == RetentionInit /\ [][RetentionNext]_<<vars, droppedAt>>

(* The design document: a chunk that has just lost its last reference is   *)
(* held back from the sweep until it has aged past the retention window.   *)
HeldBackForTheWindow ==
    gc.pc = "unlink" => \A h \in gc.batch : droppedAt[h] < gc.cutoff
=============================================================================
