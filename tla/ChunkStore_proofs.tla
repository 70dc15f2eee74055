-------------------------- MODULE ChunkStore_proofs --------------------------
(* Theorems about ChunkStore, for every value of its constants. *)
EXTENDS ChunkStore, FiniteSetTheorems, TLAPS

-----------------------------------------------------------------------------
(* Counting references.  The rows P carry a key (the inode of a name) and  *)
(* a count (how often the row lists some hash); a reference is a pair      *)
(* <<key, n>> with n up to the count, so rows that share a key share their *)
(* references.  The lemmas say how the number of references changes when   *)
(* the rows do; they hold for every finite set of rows.                    *)

Occ(P, key, count) == UNION {{key[p]} \X (1 .. count[p]) : p \in P}

(* Key k has m references. *)
HasBlock(P, key, count, k, m) ==
    /\ \A p \in P : key[p] = k => count[p] = m
    /\ m = 0 \/ \E p \in P : key[p] = k

(* The block of references of one key. *)
LEMMA BlockCount ==
    ASSUME NEW k, NEW n \in Nat
    PROVE  /\ IsFiniteSet({k} \X (1 .. n))
           /\ Cardinality({k} \X (1 .. n)) = n
<1>1. IsFiniteSet({k}) /\ Cardinality({k}) = 1
  BY FS_Singleton
<1>2. 1 \in Int /\ n \in Int
  OBVIOUS
<1>3. IsFiniteSet(1 .. n) /\ Cardinality(1 .. n) = IF 1 > n THEN 0 ELSE n - 1 + 1
  BY <1>2, FS_Interval
<1>4. Cardinality(1 .. n) = n
  BY <1>3
<1>5. /\ IsFiniteSet({k} \X (1 .. n))
      /\ Cardinality({k} \X (1 .. n)) = Cardinality({k}) * Cardinality(1 .. n)
  BY <1>1, <1>3, FS_Product
<1> QED BY <1>1, <1>4, <1>5

(* Finitely many rows have finitely many references. *)
LEMMA OccFinite ==
    ASSUME NEW P, IsFiniteSet(P), NEW key, NEW count \in [P -> Nat]
    PROVE  IsFiniteSet(Occ(P, key, count))
<1> DEFINE B == {{key[p]} \X (1 .. count[p]) : p \in P}
           f == [p \in P |-> {key[p]} \X (1 .. count[p])]
<1>1. IsFiniteSet(B)
  <2>1. f \in Surjection(P, B)
    BY DEF Surjection
  <2> QED BY <2>1, FS_Surjection
<1>2. \A b \in B : IsFiniteSet(b)
  <2> SUFFICES ASSUME NEW p \in P PROVE IsFiniteSet({key[p]} \X (1 .. count[p]))
    OBVIOUS
  <2>1. count[p] \in Nat
    OBVIOUS
  <2> QED BY <2>1, BlockCount
<1> QED BY <1>1, <1>2, FS_UNION DEF Occ

LEMMA OccMember ==
    ASSUME NEW P, NEW key, NEW count, NEW o
    PROVE  o \in Occ(P, key, count) <=> \E p \in P : \E n \in 1 .. count[p] : o = <<key[p], n>>
<1>1. o \in Occ(P, key, count) <=> \E p \in P : o \in {key[p]} \X (1 .. count[p])
  BY DEF Occ
<1>2. ASSUME NEW p \in P
      PROVE  o \in {key[p]} \X (1 .. count[p]) <=> \E n \in 1 .. count[p] : o = <<key[p], n>>
  OBVIOUS
<1> QED BY <1>1, <1>2

(* Rows with the same keys and counts have the same references. *)
LEMMA OccSame ==
    ASSUME NEW P, NEW key, NEW count, NEW Q, NEW key2, NEW count2,
           \A p \in P : \E q \in Q : key2[q] = key[p] /\ count2[q] = count[p],
           \A q \in Q : \E p \in P : key2[q] = key[p] /\ count2[q] = count[p]
    PROVE  Occ(P, key, count) = Occ(Q, key2, count2)
<1>1. ASSUME NEW o, o \in Occ(P, key, count) PROVE o \in Occ(Q, key2, count2)
  <2> PICK p \in P : \E n \in 1 .. count[p] : o = <<key[p], n>>
    BY <1>1, OccMember
  <2> PICK q \in Q : key2[q] = key[p] /\ count2[q] = count[p]
    OBVIOUS
  <2>1. \E n \in 1 .. count2[q] : o = <<key2[q], n>>
    OBVIOUS
  <2> QED BY <2>1, OccMember
<1>2. ASSUME NEW o, o \in Occ(Q, key2, count2) PROVE o \in Occ(P, key, count)
  <2> PICK q \in Q : \E n \in 1 .. count2[q] : o = <<key2[q], n>>
    BY <1>2, OccMember
  <2> PICK p \in P : key2[q] = key[p] /\ count2[q] = count[p]
    OBVIOUS
  <2>1. \E n \in 1 .. count[p] : o = <<key[p], n>>
    OBVIOUS
  <2> QED BY <2>1, OccMember
<1> QED BY <1>1, <1>2

(* The references apart from those of k, and the block of k. *)
LEMMA OccSplit ==
    ASSUME NEW P, IsFiniteSet(P), NEW key, NEW count \in [P -> Nat], NEW k, NEW m \in Nat,
           HasBlock(P, key, count, k, m)
    PROVE  /\ IsFiniteSet(Occ({p \in P : key[p] # k}, key, count))
           /\ Cardinality(Occ(P, key, count)) = Cardinality(Occ({p \in P : key[p] # k}, key, count)) + m
<1> DEFINE S == {p \in P : key[p] # k}
           R == Occ(S, key, count)
           B == {k} \X (1 .. m)
<1>1. IsFiniteSet(R)
  <2>1. Occ(P, key, count) = UNION {{key[p]} \X (1 .. count[p]) : p \in P}
    BY DEF Occ
  <2>2. R \subseteq Occ(P, key, count)
    BY DEF Occ
  <2> QED BY <2>2, OccFinite, FS_Subset
<1>2. Occ(P, key, count) = R \union B
  <2>1. ASSUME NEW o, o \in Occ(P, key, count) PROVE o \in R \union B
    <3> PICK p \in P : \E n \in 1 .. count[p] : o = <<key[p], n>>
      BY <2>1, OccMember
    <3> PICK n \in 1 .. count[p] : o = <<key[p], n>>
      OBVIOUS
    <3>1. CASE key[p] = k
      BY <3>1 DEF HasBlock
    <3>2. CASE key[p] # k
      BY <3>2, OccMember
    <3> QED BY <3>1, <3>2
  <2>2. ASSUME NEW o, o \in R PROVE o \in Occ(P, key, count)
    BY <2>2, OccMember
  <2>3. ASSUME NEW o, o \in B PROVE o \in Occ(P, key, count)
    <3> PICK n \in 1 .. m : o = <<k, n>>
      BY <2>3
    <3> PICK p \in P : key[p] = k
      BY DEF HasBlock
    <3>1. n \in 1 .. count[p]
      BY DEF HasBlock
    <3> QED BY <3>1, OccMember
  <2> QED BY <2>1, <2>2, <2>3
<1>3. R \intersect B = {}
  <2> SUFFICES ASSUME NEW o \in R, o \in B PROVE FALSE
    OBVIOUS
  <2> PICK p \in S : \E n \in 1 .. count[p] : o = <<key[p], n>>
    BY OccMember
  <2> PICK n \in 1 .. count[p] : o = <<key[p], n>>
    OBVIOUS
  <2> QED OBVIOUS
<1>4. IsFiniteSet(B) /\ Cardinality(B) = m
  BY BlockCount
<1>5. Cardinality(R \union B) = Cardinality(R) + Cardinality(B) - Cardinality(R \intersect B)
  BY <1>1, <1>4, FS_Union
<1>6. Cardinality(R \intersect B) = 0 /\ Cardinality(R) \in Nat
  BY <1>1, <1>3, FS_EmptySet, FS_CardinalityType
<1> HIDE DEF R, B
<1>7. Cardinality(Occ(P, key, count)) = Cardinality(R) + m
  BY <1>2, <1>4, <1>5, <1>6
<1> QED BY <1>1, <1>7 DEF R

(* Changing the block of one key from m references to n. *)
LEMMA OccReplace ==
    ASSUME NEW P, IsFiniteSet(P), NEW key, NEW count \in [P -> Nat],
           NEW Q, IsFiniteSet(Q), NEW key2, NEW count2 \in [Q -> Nat],
           NEW k, NEW m \in Nat, NEW n \in Nat,
           \A p \in P : key[p] # k => \E q \in Q : key2[q] = key[p] /\ count2[q] = count[p],
           \A q \in Q : key2[q] # k => \E p \in P : key[p] = key2[q] /\ count[p] = count2[q],
           HasBlock(P, key, count, k, m), HasBlock(Q, key2, count2, k, n)
    PROVE  Cardinality(Occ(Q, key2, count2)) = Cardinality(Occ(P, key, count)) - m + n
<1> DEFINE S == {p \in P : key[p] # k}
           T == {q \in Q : key2[q] # k}
<1>1. IsFiniteSet(Occ(S, key, count)) /\ Cardinality(Occ(P, key, count)) = Cardinality(Occ(S, key, count)) + m
  BY OccSplit
<1>2. Cardinality(Occ(Q, key2, count2)) = Cardinality(Occ(T, key2, count2)) + n
  BY OccSplit
<1>3. Occ(S, key, count) = Occ(T, key2, count2)
  <2>1. \A p \in S : \E q \in T : key2[q] = key[p] /\ count2[q] = count[p]
    OBVIOUS
  <2>2. \A q \in T : \E p \in S : key2[q] = key[p] /\ count2[q] = count[p]
    OBVIOUS
  <2> HIDE DEF S, T
  <2> QED BY <2>1, <2>2, OccSame
<1>4. Cardinality(Occ(S, key, count)) \in Nat
  BY <1>1, FS_CardinalityType
<1> QED BY <1>1, <1>2, <1>3, <1>4

(* No row of D that counts shares its key with another row. *)
Sole(D, P, key, count) == \A p \in D, q \in P : key[p] = key[q] => p = q \/ count[p] = 0

(* Dropping the rows D drops at most one reference per occurrence in each  *)
(* dropped row, and exactly that many when the rows share no key.          *)
LEMMA OccRemove ==
    ASSUME NEW P, IsFiniteSet(P), NEW key, NEW count \in [P -> Nat],
           NEW D \in SUBSET P, NEW self, \A p \in D : self[p] = p
    PROVE  LET before == Cardinality(Occ(P, key, count))
               after == Cardinality(Occ(P \ D, key, count))
               dropped == Cardinality(Occ(D, self, count))
           IN  /\ before \in Nat /\ after \in Nat /\ dropped \in Nat
               /\ after >= before - dropped
               /\ Sole(D, P, key, count) => after = before - dropped
<1> DEFINE X == Occ(P, key, count)
           Y == Occ(P \ D, key, count)
           Z == Occ(D, key, count)
           W == Occ(D, self, count)
           f == [o \in W |-> <<key[o[1]], o[2]>>]
<1>1. IsFiniteSet(X)
  BY OccFinite
<1>2. X = Y \union Z
  <2>1. ASSUME NEW o, o \in X PROVE o \in Y \union Z
    <3> PICK p \in P : \E n \in 1 .. count[p] : o = <<key[p], n>>
      BY <2>1, OccMember
    <3> PICK n \in 1 .. count[p] : o = <<key[p], n>>
      OBVIOUS
    <3>1. CASE p \in D
      BY <3>1, OccMember
    <3>2. CASE p \in P \ D
      BY <3>2, OccMember
    <3> QED BY <3>1, <3>2
  <2>2. ASSUME NEW o, o \in Y \union Z PROVE o \in X
    <3> PICK p \in P : \E n \in 1 .. count[p] : o = <<key[p], n>>
      BY <2>2, OccMember
    <3> PICK n \in 1 .. count[p] : o = <<key[p], n>>
      OBVIOUS
    <3> QED BY OccMember
  <2> QED BY <2>1, <2>2
<1>3. ASSUME Sole(D, P, key, count) PROVE Y \intersect Z = {}
  <2> SUFFICES ASSUME NEW o, o \in Y, o \in Z PROVE FALSE
    OBVIOUS
  <2> PICK p \in P \ D : \E n \in 1 .. count[p] : o = <<key[p], n>>
    BY OccMember
  <2> PICK n \in 1 .. count[p] : o = <<key[p], n>>
    OBVIOUS
  <2> PICK q \in D : \E j \in 1 .. count[q] : o = <<key[q], j>>
    BY OccMember
  <2> PICK j \in 1 .. count[q] : o = <<key[q], j>>
    OBVIOUS
  <2>1. key[p] = key[q] /\ count[q] # 0
    OBVIOUS
  <2> QED BY <1>3, <2>1 DEF Sole
<1>4. IsFiniteSet(Y) /\ IsFiniteSet(Z)
  BY <1>1, <1>2, FS_Subset
<1>5. Cardinality(X) = Cardinality(Y) + Cardinality(Z) - Cardinality(Y \intersect Z)
  BY <1>2, <1>4, FS_Union
<1>6. /\ IsFiniteSet(W) /\ Cardinality(Z) <= Cardinality(W)
      /\ Sole(D, P, key, count) => Cardinality(Z) = Cardinality(W)
  <2>1. ASSUME NEW o \in W PROVE \E p \in D : \E n \in 1 .. count[p] : o = <<p, n>> /\ f[o] = <<key[p], n>>
    <3> PICK p \in D : \E n \in 1 .. count[p] : o = <<self[p], n>>
      BY OccMember
    <3> PICK n \in 1 .. count[p] : o = <<self[p], n>>
      OBVIOUS
    <3>1. o = <<p, n>> /\ o[1] = p /\ o[2] = n
      OBVIOUS
    <3> QED BY <3>1
  <2>2. f \in [W -> Z]
    <3> SUFFICES ASSUME NEW o \in W PROVE f[o] \in Z
      OBVIOUS
    <3> PICK p \in D : \E n \in 1 .. count[p] : o = <<p, n>> /\ f[o] = <<key[p], n>>
      BY <2>1
    <3> PICK n \in 1 .. count[p] : o = <<p, n>> /\ f[o] = <<key[p], n>>
      OBVIOUS
    <3> HIDE DEF f
    <3> QED BY OccMember
  <2>3. ASSUME Sole(D, P, key, count) PROVE \A o1, o2 \in W : f[o1] = f[o2] => o1 = o2
    <3> SUFFICES ASSUME NEW o1 \in W, NEW o2 \in W, f[o1] = f[o2] PROVE o1 = o2
      OBVIOUS
    <3> PICK p \in D : \E n \in 1 .. count[p] : o1 = <<p, n>> /\ f[o1] = <<key[p], n>>
      BY <2>1
    <3> PICK n \in 1 .. count[p] : o1 = <<p, n>> /\ f[o1] = <<key[p], n>>
      OBVIOUS
    <3> PICK q \in D : \E j \in 1 .. count[q] : o2 = <<q, j>> /\ f[o2] = <<key[q], j>>
      BY <2>1
    <3> PICK j \in 1 .. count[q] : o2 = <<q, j>> /\ f[o2] = <<key[q], j>>
      OBVIOUS
    <3> HIDE DEF f
    <3>1. key[p] = key[q] /\ n = j /\ count[p] # 0
      OBVIOUS
    <3> QED BY <2>3, <3>1 DEF Sole
  <2>4. \A z \in Z : \E o \in W : f[o] = z
    <3> SUFFICES ASSUME NEW z \in Z PROVE \E o \in W : f[o] = z
      OBVIOUS
    <3> PICK p \in D : \E n \in 1 .. count[p] : z = <<key[p], n>>
      BY OccMember
    <3> PICK n \in 1 .. count[p] : z = <<key[p], n>>
      OBVIOUS
    <3>1. <<p, n>> = <<self[p], n>>
      OBVIOUS
    <3>2. <<p, n>> \in W
      BY <3>1, OccMember
    <3>3. f[<<p, n>>] = z
      BY <3>2
    <3> QED BY <3>2, <3>3
  <2>5. IsFiniteSet(W)
    <3>1. IsFiniteSet(D)
      BY FS_Subset
    <3>2. Occ(D, self, count) = Occ(D, self, [p \in D |-> count[p]])
      BY DEF Occ
    <3>3. [p \in D |-> count[p]] \in [D -> Nat]
      OBVIOUS
    <3> QED BY <3>1, <3>2, <3>3, OccFinite
  <2>6. f \in Surjection(W, Z)
    <3> HIDE DEF f, W, Z
    <3> QED BY <2>2, <2>4 DEF Surjection
  <2>7. ASSUME Sole(D, P, key, count) PROVE f \in Injection(W, Z)
    <3> HIDE DEF f, W, Z
    <3> QED BY <2>2, <2>3, <2>7 DEF Injection, IsInjective
  <2> HIDE DEF f, W, Z
  <2> QED BY <2>5, <2>6, <2>7, FS_Surjection
<1> HIDE DEF X, Y, Z, W, f
<1>7. ASSUME Sole(D, P, key, count) PROVE Cardinality(Y \intersect Z) = 0
  BY <1>3, <1>7, FS_EmptySet
<1>8. /\ Cardinality(X) \in Nat /\ Cardinality(Y) \in Nat /\ Cardinality(Z) \in Nat
      /\ Cardinality(W) \in Nat /\ Cardinality(Y \intersect Z) \in Nat
  <2>1. IsFiniteSet(Y \intersect Z)
    BY <1>4, FS_Subset
  <2> QED BY <1>1, <1>4, <1>6, <2>1, FS_CardinalityType
<1>9. Cardinality(Y) >= Cardinality(X) - Cardinality(W)
  BY <1>5, <1>6, <1>8
<1>10. ASSUME Sole(D, P, key, count) PROVE Cardinality(Y) = Cardinality(X) - Cardinality(W)
  BY <1>5, <1>6, <1>7, <1>8, <1>10
<1> QED BY <1>8, <1>9, <1>10 DEF X, Y, W

-----------------------------------------------------------------------------
(* Type correctness.                                                       *)

USE DEF GC, Admin, Free, Proc

(* Releasing locks leaves an owner function. *)
LEMMA UnlockType ==
    ASSUME TypeOK, NEW x, Unlock(x)
    PROVE  owner' \in [Shard -> Proc \union {Free}]
BY DEF TypeOK, Unlock

LEMMA NoChunksType == NoChunks \in [Hash -> Nat]
BY DEF NoChunks

LEMMA ChunksType == TypeOK => chunks \in [Path -> [Hash -> Nat]]
BY NoChunksType, BodyAssumption DEF TypeOK

(* What a worker step does to its own request is again a request. *)
LEMMA BecomeType ==
    ASSUME TypeOK, NEW w \in Worker, NEW r \in Requests, Become(w, r)
    PROVE  wk' \in [Worker -> Requests]
BY DEF TypeOK, Become

LEMMA RequestShapes ==
    ASSUME TypeOK, NEW w \in Worker
    PROVE  /\ wk[w].pc \in {"upload", "note"} => wk[w].hash \in Hash
           /\ wk[w].pc \in {"put", "commit"} => wk[w].path \in Path /\ wk[w].body \in Bodies
BY DEF TypeOK, Requests

LEMMA DeltaType ==
    ASSUME TypeOK, NEW d \in [Hash -> Int], ApplyChunkRefDelta(d)
    PROVE  tracked' \subseteq Hash /\ refcount' \in [Hash -> Nat] /\ addedAt' \in [Hash -> Nat]
BY DEF TypeOK, ApplyChunkRefDelta

LEMMA DropType ==
    ASSUME TypeOK, NEW H, DropRows(H)
    PROVE  tracked' \subseteq Hash /\ refcount' \in [Hash -> Nat] /\ addedAt' \in [Hash -> Nat]
BY DEF TypeOK, DropRows

LEMMA RefDeltaType ==
    ASSUME NEW old \in [Hash -> Nat], NEW new \in [Hash -> Nat]
    PROVE  ChunkRefDelta(old, new) \in [Hash -> Int]
BY DEF ChunkRefDelta

LEMMA OwnedType ==
    ASSUME TypeOK, NEW p \in Path
    PROVE  Owned(p) \in [Hash -> Nat]
BY ChunksType, NoChunksType DEF Owned

(* The purge's delta is a whole number: the subtree has finitely many rows. *)
LEMMA RowOccurrencesFinite ==
    ASSUME TypeOK, NEW P \in SUBSET Path, NEW h \in Hash
    PROVE  IsFiniteSet(RowOccurrences(P, h))
<1> DEFINE count == [p \in P |-> chunks[p][h]]
           key == [p \in P |-> p]
<1>1. IsFiniteSet(P)
  BY PathAssumption, FS_Subset
<1>2. count \in [P -> Nat]
  BY ChunksType
<1>3. RowOccurrences(P, h) = Occ(P, key, count)
  BY DEF RowOccurrences, Occ
<1> HIDE DEF count, key
<1> QED BY <1>1, <1>2, <1>3, OccFinite

LEMMA PurgeDeltaType ==
    ASSUME TypeOK, NEW a
    PROVE  PurgeDelta(a) \in [Hash -> Int]
<1>1. \A h \in Hash : Cardinality(RowOccurrences(Subtree(a), h)) \in Nat
  BY RowOccurrencesFinite, FS_CardinalityType DEF Subtree, Live
<1> QED BY <1>1 DEF PurgeDelta

LEMMA TypeInit == Init => TypeOK
BY BoundAssumption DEF Init, TypeOK, NoChunks, Requests, Idle, GcIdle, PurgeIdle

LEMMA TypeNext == TypeOK /\ [Next]_vars => TypeOK'
<1> SUFFICES ASSUME TypeOK, [Next]_vars PROVE TypeOK'
  OBVIOUS
<1> USE DEF store, namespace
<1>0. Idle \in Requests
  BY DEF Idle, Requests
<1>1. ASSUME NEW w \in Worker, NEW h \in Hash, UploadStart(w, h) PROVE TypeOK'
  <2>1. [pc |-> "upload", hash |-> h] \in Requests
    BY DEF Requests
  <2> QED BY <1>1, <2>1, BecomeType DEF UploadStart, TypeOK
<1>2. ASSUME NEW w \in Worker, NEW p \in Path, NEW b \in Bodies, PutStart(w, p, b) PROVE TypeOK'
  <2>1. [pc |-> "put", path |-> p, body |-> b] \in Requests
    BY DEF Requests
  <2> QED BY <1>2, <2>1, BecomeType DEF PutStart, TypeOK
<1>3. ASSUME NEW w \in Worker, UploadStore(w) PROVE TypeOK'
  <2>1. wk[w].hash \in Hash
    BY <1>3, RequestShapes DEF UploadStore
  <2>2. [pc |-> "note", hash |-> wk[w].hash] \in Requests
    BY <2>1 DEF Requests
  <2>3. wk' \in [Worker -> Requests] /\ owner' \in [Shard -> Proc \union {Free}]
    BY <1>0, <1>3, <2>2, BecomeType, UnlockType DEF UploadStore
  <2> QED BY <1>3, <2>1, <2>3 DEF UploadStore, TypeOK
<1>4. ASSUME NEW w \in Worker, UploadNote(w) PROVE TypeOK'
  <2>1. wk[w].hash \in Hash
    BY <1>4, RequestShapes DEF UploadNote
  <2>2. wk' \in [Worker -> Requests]
    BY <1>0, <1>4, BecomeType DEF UploadNote
  <2>3. tracked' \subseteq Hash /\ addedAt' \in [Hash -> Nat]
    BY <1>4, <2>1 DEF UploadNote, TypeOK
  <2> QED BY <1>4, <2>2, <2>3 DEF UploadNote, TypeOK
<1>5. ASSUME NEW w \in Worker, PutValidate(w) PROVE TypeOK'
  <2>1. [pc |-> "commit", path |-> wk[w].path, body |-> wk[w].body] \in Requests
    BY <1>5, RequestShapes DEF PutValidate, Requests
  <2>2. wk' \in [Worker -> Requests] /\ owner' \in [Shard -> Proc \union {Free}]
    BY <1>0, <1>5, <2>1, BecomeType, UnlockType DEF PutValidate, TypeOK
  <2> QED BY <1>5, <2>2 DEF PutValidate, TypeOK
<1>6. ASSUME NEW w \in Worker, PutCommit(w) PROVE TypeOK'
  <2> DEFINE p == wk[w].path
             b == wk[w].body
  <2>1. p \in Path /\ b \in Bodies /\ b \in [Hash -> Nat]
    BY <1>6, RequestShapes, BodyAssumption DEF PutCommit
  <2>2. tracked' \subseteq Hash /\ refcount' \in [Hash -> Nat] /\ addedAt' \in [Hash -> Nat]
    BY <1>6, <2>1, ChunksType, RefDeltaType, DeltaType DEF PutCommit
  <2>3. wk' \in [Worker -> Requests] /\ owner' \in [Shard -> Proc \union {Free}]
    BY <1>0, <1>6, BecomeType, UnlockType DEF PutCommit
  <2>4. ino' \in [Path -> Nat] /\ nextIno' \in Nat /\ chunks' \in [Path -> Bodies \union {NoChunks}]
    BY <1>6, <2>1 DEF PutCommit, TypeOK
  <2> QED BY <1>6, <2>2, <2>3, <2>4 DEF PutCommit, TypeOK
<1>7. ASSUME NEW w \in Worker, PutAbort(w) PROVE TypeOK'
  <2>1. wk' \in [Worker -> Requests] /\ owner' \in [Shard -> Proc \union {Free}]
    BY <1>0, <1>7, BecomeType, UnlockType DEF PutAbort
  <2> QED BY <1>7, <2>1 DEF PutAbort, TypeOK
<1>8. ASSUME NEW x \in Proc, LockNext(x) PROVE TypeOK'
  <2>1. owner' \in [Shard -> Proc \union {Free}]
    <3> PICK s : owner' = [owner EXCEPT ![s] = x]
      BY <1>8 DEF LockNext
    <3> QED BY DEF TypeOK
  <2> QED BY <1>8, <2>1 DEF LockNext, TypeOK
<1>9. ASSUME NEW p \in Path, Delete(p) PROVE TypeOK'
  <2>1. tracked' \subseteq Hash /\ refcount' \in [Hash -> Nat] /\ addedAt' \in [Hash -> Nat]
    BY <1>9, OwnedType, NoChunksType, RefDeltaType, DeltaType DEF Delete
  <2> QED BY <1>9, <2>1 DEF Delete, TypeOK
<1>10. ASSUME NEW p \in Path, NEW q \in Path, Link(p, q) PROVE TypeOK'
  BY <1>10 DEF Link, TypeOK
<1>11. ASSUME NEW p \in Path, NEW q \in Path, Rename(p, q) PROVE TypeOK'
  <2>1. tracked' \subseteq Hash /\ refcount' \in [Hash -> Nat] /\ addedAt' \in [Hash -> Nat]
    BY <1>11, OwnedType, NoChunksType, RefDeltaType, DeltaType DEF Rename
  <2> QED BY <1>11, <2>1 DEF Rename, TypeOK
<1>12. ASSUME GcTick PROVE TypeOK'
  BY <1>12, BoundAssumption DEF GcTick, TypeOK
<1>13. ASSUME GcSelect PROVE TypeOK'
  <2>1. gc' \in [pc : {"idle", "select", "lock", "unlink"}, cutoff : Int, batch : SUBSET Hash]
    <3>1. CASE gc' = GcIdle
      BY <3>1 DEF GcIdle
    <3>2. CASE \E B \in GcCandidates(gc.cutoff) : gc' = [gc EXCEPT !.pc = "lock", !.batch = B]
      <4> PICK B \in GcCandidates(gc.cutoff) : gc' = [gc EXCEPT !.pc = "lock", !.batch = B]
        BY <3>2
      <4>1. B \subseteq Hash
        BY DEF GcCandidates, Eligible, TypeOK
      <4> QED BY <4>1 DEF TypeOK
    <3> QED BY <1>13, <3>1, <3>2 DEF GcSelect
  <2> QED BY <1>13, <2>1 DEF GcSelect, TypeOK
<1>14. ASSUME GcDeleteRows PROVE TypeOK'
  <2>1. tracked' \subseteq Hash /\ refcount' \in [Hash -> Nat] /\ addedAt' \in [Hash -> Nat]
    BY <1>14, DropType DEF GcDeleteRows
  <2>2. gc' \in [pc : {"idle", "select", "lock", "unlink"}, cutoff : Int, batch : SUBSET Hash]
    BY <1>14 DEF GcDeleteRows, StillEligible, TypeOK
  <2> QED BY <1>14, <2>1, <2>2 DEF GcDeleteRows, TypeOK
<1>15. ASSUME GcDeleteFails PROVE TypeOK'
  BY <1>15, UnlockType DEF GcDeleteFails, GcIdle, TypeOK
<1>16. ASSUME GcUnlink PROVE TypeOK'
  <2>1. gc' \in [pc : {"idle", "select", "lock", "unlink"}, cutoff : Int, batch : SUBSET Hash]
    <3>1. CASE gc' = GcIdle
      BY <3>1 DEF GcIdle
    <3>2. CASE gc' = [gc EXCEPT !.pc = "select", !.batch = {}]
      BY <3>2 DEF TypeOK
    <3> QED BY <1>16, <3>1, <3>2 DEF GcUnlink
  <2>2. owner' \in [Shard -> Proc \union {Free}]
    BY <1>16, UnlockType DEF GcUnlink
  <2> QED BY <1>16, <2>1, <2>2 DEF GcUnlink, TypeOK
<1>17. ASSUME NEW a \in PurgedAgents, PurgeStart(a) PROVE TypeOK'
  <2>1. a \in Agent
    BY PathAssumption
  <2> QED BY <1>17, <2>1 DEF PurgeStart, TypeOK
<1>18. ASSUME PurgeCommit PROVE TypeOK'
  <2>1. tracked' \subseteq Hash /\ refcount' \in [Hash -> Nat] /\ addedAt' \in [Hash -> Nat]
    BY <1>18, PurgeDeltaType, DeltaType DEF PurgeCommit
  <2>2. ino' \in [Path -> Nat] /\ chunks' \in [Path -> Bodies \union {NoChunks}]
    BY <1>18 DEF PurgeCommit, TypeOK
  <2>3. purge' \in [pc : {"idle", "sweep", "unlink"}, batch : SUBSET Hash]
    BY <1>18 DEF PurgeCommit, Support
  <2>4. skewed' \subseteq Hash
    BY <1>18 DEF PurgeCommit, Overpaid, TypeOK
  <2> QED BY <1>18, <2>1, <2>2, <2>3, <2>4 DEF PurgeCommit, TypeOK
<1>19. ASSUME PurgeSweep PROVE TypeOK'
  <2>1. tracked' \subseteq Hash /\ refcount' \in [Hash -> Nat] /\ addedAt' \in [Hash -> Nat]
    BY <1>19, DropType DEF PurgeSweep
  <2>2. purge' \in [pc : {"idle", "sweep", "unlink"}, batch : SUBSET Hash]
    BY <1>19 DEF PurgeSweep, Released, TypeOK
  <2> QED BY <1>19, <2>1, <2>2 DEF PurgeSweep, TypeOK
<1>20. ASSUME PurgeUnlink PROVE TypeOK'
  BY <1>20, UnlockType DEF PurgeUnlink, PurgeIdle, TypeOK
<1>21. ASSUME PurgeFails PROVE TypeOK'
  BY <1>21, UnlockType DEF PurgeFails, PurgeIdle, TypeOK
<1>22. ASSUME Crash PROVE TypeOK'
  BY <1>0, <1>22 DEF Crash, GcIdle, PurgeIdle, TypeOK
<1>23. ASSUME Tick PROVE TypeOK'
  BY <1>23 DEF Tick, TypeOK
<1>24. CASE UNCHANGED vars
  BY <1>24 DEF vars, TypeOK
<1> QED
  BY <1>1, <1>2, <1>3, <1>4, <1>5, <1>6, <1>7, <1>8, <1>9, <1>10, <1>11, <1>12, <1>13, <1>14,
     <1>15, <1>16, <1>17, <1>18, <1>19, <1>20, <1>21, <1>22, <1>23, <1>24
     DEF Next, WorkerStep, GcStep, PurgeStep

(* The tables, the locks and the requests in progress keep their shapes    *)
(* through every operation of the store.                                   *)
THEOREM TypeCorrect == Spec => []TypeOK
BY TypeInit, TypeNext, PTL DEF Spec

-----------------------------------------------------------------------------
(* Counting.                                                               *)

LEMMA LiveFinite == IsFiniteSet(Live)
BY PathAssumption, FS_Subset DEF Live

LEMMA LiveFiniteNext == IsFiniteSet(Live')
BY PathAssumption, FS_Subset DEF Live

(* The step leaves the occurrences of h in inodes other than k alone. *)
KeepsOthers(k, h) ==
    /\ \A p \in Live : ino[p] # k => \E q \in Live' : ino'[q] = ino[p] /\ chunks'[q][h] = chunks[p][h]
    /\ \A q \in Live' : ino'[q] # k => \E p \in Live : ino[p] = ino'[q] /\ chunks[p][h] = chunks'[q][h]

(* Inode k lists h m times, in all its names; L, i and c are the names,    *)
(* their inodes and their chunk lists.                                     *)
InodeLists(L, i, c, k, h, m) ==
    /\ \A p \in L : i[p] = k => c[p][h] = m
    /\ m = 0 \/ \E p \in L : i[p] = k

(* The count of h is what RefcountExact says of it. *)
CountRight(h) ==
    /\ refcount[h] <= Cardinality(Occurrences(h))
    /\ h \notin skewed => refcount[h] = Cardinality(Occurrences(h))

(* The count stays right when the references of one inode k change from m  *)
(* to n and the refcount by the same amount.                               *)
LEMMA CountChange ==
    ASSUME TypeOK, TypeOK', RefcountExact, NEW h \in Hash, NEW k, NEW m \in Nat, NEW n \in Nat,
           KeepsOthers(k, h), InodeLists(Live, ino, chunks, k, h, m), InodeLists(Live', ino', chunks', k, h, n),
           refcount'[h] = refcount[h] - m + n, skewed' = skewed
    PROVE  CountRight(h)'
<1> DEFINE c == [p \in Live |-> chunks[p][h]]
           d == [p \in Live' |-> chunks'[p][h]]
<1>1. c \in [Live -> Nat]
  BY ChunksType DEF Live
<1>2. d \in [Live' -> Nat]
  BY NoChunksType, BodyAssumption DEF Live, TypeOK
<1>3. Occurrences(h) = Occ(Live, ino, c)
  BY DEF Occurrences, Occ
<1>4. Occurrences(h)' = Occ(Live', ino', d)
  BY DEF Occurrences, Occ
<1>5. HasBlock(Live, ino, c, k, m) /\ HasBlock(Live', ino', d, k, n)
  BY DEF HasBlock, InodeLists
<1>6. \A p \in Live : ino[p] # k => \E q \in Live' : ino'[q] = ino[p] /\ d[q] = c[p]
  BY DEF KeepsOthers
<1>7. \A q \in Live' : ino'[q] # k => \E p \in Live : ino[p] = ino'[q] /\ c[p] = d[q]
  BY DEF KeepsOthers
<1>8. /\ refcount[h] <= Cardinality(Occ(Live, ino, c)) /\ refcount[h] \in Nat
      /\ h \notin skewed => refcount[h] = Cardinality(Occ(Live, ino, c))
  BY <1>3 DEF RefcountExact, TypeOK
<1> HIDE DEF c, d
<1>10. Cardinality(Occ(Live, ino, c)) \in Nat
  BY <1>1, LiveFinite, OccFinite, FS_CardinalityType
<1>9. Cardinality(Occ(Live', ino', d)) = Cardinality(Occ(Live, ino, c)) - m + n
  BY <1>1, <1>2, <1>5, <1>6, <1>7, LiveFinite, LiveFiniteNext, OccReplace
<1> QED BY <1>4, <1>8, <1>9, <1>10 DEF CountRight

(* It stays right when names come and go but every inode keeps one. *)
LEMMA CountSame ==
    ASSUME RefcountExact, NEW h \in Hash,
           \A p \in Live : \E q \in Live' : ino'[q] = ino[p] /\ chunks'[q][h] = chunks[p][h],
           \A q \in Live' : \E p \in Live : ino'[q] = ino[p] /\ chunks'[q][h] = chunks[p][h],
           refcount'[h] = refcount[h], skewed' = skewed
    PROVE  CountRight(h)'
<1> DEFINE c == [p \in Live |-> chunks[p][h]]
           d == [p \in Live' |-> chunks'[p][h]]
<1>1. Occurrences(h) = Occ(Live, ino, c)
  BY DEF Occurrences, Occ
<1>2. Occurrences(h)' = Occ(Live', ino', d)
  BY DEF Occurrences, Occ
<1>3. \A p \in Live : \E q \in Live' : ino'[q] = ino[p] /\ d[q] = c[p]
  OBVIOUS
<1>4. \A q \in Live' : \E p \in Live : ino'[q] = ino[p] /\ d[q] = c[p]
  OBVIOUS
<1>5. /\ refcount[h] <= Cardinality(Occ(Live, ino, c))
      /\ h \notin skewed => refcount[h] = Cardinality(Occ(Live, ino, c))
  BY <1>1 DEF RefcountExact
<1> HIDE DEF c, d
<1>6. Occ(Live, ino, c) = Occ(Live', ino', d)
  BY <1>3, <1>4, OccSame
<1> QED BY <1>2, <1>5, <1>6 DEF CountRight

(* A hash with refcount 0 is in no manifest, unless it is skewed. *)
LEMMA ZeroMayGo ==
    ASSUME TypeOK, NameShape, RefcountExact, NEW h \in Hash, refcount[h] = 0
    PROVE  MayGo(h)
<1> SUFFICES ASSUME h \notin skewed, NEW p \in Path, chunks[p][h] # 0 PROVE FALSE
  BY DEF MayGo, Unreferenced
<1> DEFINE c == [q \in Live |-> chunks[q][h]]
<1>1. chunks[p][h] \in Nat
  BY ChunksType
<1>2. p \in Live
  BY DEF NameShape, NoChunks, Live
<1>3. c \in [Live -> Nat] /\ 1 \in 1 .. c[p]
  BY <1>1, <1>2, ChunksType DEF Live
<1>4. Occurrences(h) = Occ(Live, ino, c)
  BY DEF Occurrences, Occ
<1>5. refcount[h] = Cardinality(Occ(Live, ino, c))
  BY <1>4 DEF RefcountExact
<1> HIDE DEF c
<1>6. IsFiniteSet(Occ(Live, ino, c))
  BY <1>3, LiveFinite, OccFinite
<1>7. <<ino[p], 1>> \in Occ(Live, ino, c)
  BY <1>2, <1>3, OccMember
<1> QED BY <1>5, <1>6, <1>7, FS_EmptySet

-----------------------------------------------------------------------------
(* The refcount after each operation on the namespace.                     *)

LEMMA CountPut ==
    ASSUME StoreInv, TypeOK', NEW w \in Worker, PutCommit(w)
    PROVE  RefcountExact'
<1> USE DEF StoreInv
<1> DEFINE p == wk[w].path
           b == wk[w].body
<1> SUFFICES ASSUME NEW h \in Hash PROVE CountRight(h)'
  BY DEF RefcountExact, CountRight
<1>0. skewed' = skewed
  BY DEF PutCommit
<1>1. p \in Path /\ b \in [Hash -> Nat] /\ chunks \in [Path -> [Hash -> Nat]] /\ b[h] \in Nat /\ chunks[p][h] \in Nat
  BY RequestShapes, BodyAssumption, ChunksType DEF PutCommit
<1>2. refcount'[h] = refcount[h] - chunks[p][h] + b[h]
  BY <1>1 DEF PutCommit, ApplyChunkRefDelta, ChunkRefDelta, TypeOK
<1>3. CASE ino[p] = 0
  <2> DEFINE k == nextIno + 1
  <2>1. /\ ino' = [ino EXCEPT ![p] = k]
        /\ chunks' = [q \in Path |-> IF q = p THEN b ELSE chunks[q]]
    BY <1>3 DEF PutCommit, PutTargets
  <2>2. k # 0 /\ \A q \in Path : ino[q] # k
    BY DEF NameShape, TypeOK
  <2>3. chunks[p][h] = 0
    BY <1>1, <1>3 DEF NameShape, NoChunks
  <2>4. Live' = Live \union {p} /\ ino'[p] = k
    BY <1>1, <2>1, <2>2 DEF Live, TypeOK
  <2>5. \A q \in Live : q # p /\ ino'[q] = ino[q] /\ chunks'[q] = chunks[q] /\ ino[q] # k
    BY <1>3, <2>1, <2>2 DEF Live, TypeOK
  <2>6. chunks'[p][h] = b[h]
    BY <1>1, <2>1
  <2> HIDE DEF k, p, b
  <2>7. KeepsOthers(k, h) /\ InodeLists(Live, ino, chunks, k, h, 0) /\ InodeLists(Live', ino', chunks', k, h, b[h])
    BY <2>4, <2>5, <2>6 DEF KeepsOthers, InodeLists
  <2>8. refcount'[h] = refcount[h] - 0 + b[h]
    BY <1>1, <1>2, <2>3
  <2> QED BY <1>1, <2>7, <2>8, <1>0, CountChange
<1>4. CASE ino[p] # 0
  <2> DEFINE k == ino[p]
  <2>1. /\ ino' = ino
        /\ chunks' = [q \in Path |-> IF ino[q] = k THEN b ELSE chunks[q]]
    BY <1>4 DEF PutCommit, PutTargets, Names
  <2>2. Live' = Live /\ p \in Live
    BY <1>1, <1>4, <2>1 DEF Live
  <2>3. \A q \in Live : ino[q] = k => chunks[q][h] = chunks[p][h] /\ chunks'[q][h] = b[h]
    BY <2>1, <2>2 DEF AliasesAgree, Live
  <2>4. \A q \in Live : ino[q] # k => chunks'[q] = chunks[q]
    BY <2>1 DEF Live
  <2>5. ino[p] = k
    OBVIOUS
  <2> HIDE DEF k, p, b
  <2>6. KeepsOthers(k, h) /\ InodeLists(Live, ino, chunks, k, h, chunks[p][h]) /\ InodeLists(Live', ino', chunks', k, h, b[h])
    BY <2>1, <2>2, <2>3, <2>4, <2>5 DEF KeepsOthers, InodeLists
  <2> QED BY <1>1, <1>2, <2>6, <1>0, CountChange
<1> QED BY <1>3, <1>4

LEMMA CountDelete ==
    ASSUME StoreInv, TypeOK', NEW p \in Path, Delete(p)
    PROVE  RefcountExact'
<1> USE DEF StoreInv
<1> SUFFICES ASSUME NEW h \in Hash PROVE CountRight(h)'
  BY DEF RefcountExact, CountRight
<1>0. skewed' = skewed
  BY DEF Delete
<1>1. p \in Live /\ Live' = Live \ {p}
  BY DEF Delete, Live, TypeOK
<1>2. \A q \in Live' : ino'[q] = ino[q] /\ chunks'[q] = chunks[q]
  BY <1>1 DEF Delete, Live, TypeOK
<1>3. chunks[p][h] \in Nat /\ refcount[h] \in Nat
  BY ChunksType DEF TypeOK
<1>4. CASE Names(p) = {p}
  <2>1. refcount'[h] = refcount[h] - chunks[p][h] + 0
    BY <1>3, <1>4 DEF Delete, ApplyChunkRefDelta, ChunkRefDelta, Owned, NoChunks
  <2>2. \A q \in Live : ino[q] = ino[p] => q = p
    BY <1>4 DEF Names, Live
  <2>3. KeepsOthers(ino[p], h) /\ InodeLists(Live, ino, chunks, ino[p], h, chunks[p][h]) /\ InodeLists(Live', ino', chunks', ino[p], h, 0)
    BY <1>1, <1>2, <2>2 DEF KeepsOthers, InodeLists
  <2> QED BY <1>3, <2>1, <2>3, <1>0, CountChange
<1>5. CASE Names(p) # {p}
  <2>1. refcount'[h] = refcount[h]
    BY <1>3, <1>5 DEF Delete, ApplyChunkRefDelta, ChunkRefDelta, Owned, NoChunks
  <2>2. PICK r \in Path : r # p /\ ino[r] = ino[p]
    BY <1>5 DEF Names
  <2>3. r \in Live' /\ chunks[r] = chunks[p]
    BY <1>1, <2>2 DEF Live, AliasesAgree
  <2> QED BY <1>1, <1>2, <2>1, <2>2, <2>3, <1>0, CountSame
<1> QED BY <1>4, <1>5

LEMMA CountLink ==
    ASSUME StoreInv, NEW p \in Path, NEW q \in Path, Link(p, q)
    PROVE  RefcountExact'
<1> USE DEF StoreInv
<1> SUFFICES ASSUME NEW h \in Hash PROVE CountRight(h)'
  BY DEF RefcountExact, CountRight
<1>0. skewed' = skewed
  BY DEF Link, store
<1>1. Live' = Live \union {q} /\ p \in Live /\ p # q
  BY DEF Link, Live, TypeOK
<1>2. \A r \in Live : ino'[r] = ino[r] /\ chunks'[r] = chunks[r]
  BY DEF Link, Live, TypeOK
<1>3. ino'[q] = ino[p] /\ chunks'[q] = chunks[p]
  BY DEF Link, TypeOK
<1>4. refcount' = refcount
  BY DEF Link, store
<1> QED BY <1>1, <1>2, <1>3, <1>4, <1>0, CountSame

LEMMA CountRename ==
    ASSUME StoreInv, TypeOK', NEW p \in Path, NEW q \in Path, Rename(p, q)
    PROVE  RefcountExact'
<1> USE DEF StoreInv
<1> SUFFICES ASSUME NEW h \in Hash PROVE CountRight(h)'
  BY DEF RefcountExact, CountRight
<1>0. skewed' = skewed
  BY DEF Rename
<1>1. p \in Live /\ p # q /\ Live' = (Live \ {p}) \union {q}
  BY DEF Rename, Live, TypeOK
<1>2. ino'[q] = ino[p] /\ chunks'[q] = chunks[p]
  BY <1>1 DEF Rename, TypeOK
<1>3. \A r \in Live \ {p, q} : ino'[r] = ino[r] /\ chunks'[r] = chunks[r]
  BY DEF Rename, Live, TypeOK
<1>4. ino[q] # ino[p] /\ chunks[q][h] \in Nat /\ refcount[h] \in Nat
  BY ChunksType DEF Rename, TypeOK
<1>5. CASE ino[q] # 0 /\ Names(q) = {q}
  <2>1. refcount'[h] = refcount[h] - chunks[q][h] + 0
    BY <1>4, <1>5 DEF Rename, ApplyChunkRefDelta, ChunkRefDelta, Owned, NoChunks
  <2>2. q \in Live /\ \A r \in Live : ino[r] = ino[q] => r = q
    BY <1>5 DEF Names, Live
  <2>3. \A r \in Live' : ino'[r] # ino[q]
    BY <1>1, <1>2, <1>3, <1>4, <2>2
  <2>4. \A r \in Live : ino[r] # ino[q] => \E s \in Live' : ino'[s] = ino[r] /\ chunks'[s][h] = chunks[r][h]
    BY <1>1, <1>2, <1>3
  <2>5. \A s \in Live' : \E r \in Live : ino[r] = ino'[s] /\ chunks[r][h] = chunks'[s][h]
    BY <1>1, <1>2, <1>3
  <2>6. KeepsOthers(ino[q], h) /\ InodeLists(Live, ino, chunks, ino[q], h, chunks[q][h]) /\ InodeLists(Live', ino', chunks', ino[q], h, 0)
    BY <2>2, <2>3, <2>4, <2>5 DEF KeepsOthers, InodeLists
  <2> QED BY <1>4, <2>1, <2>6, <1>0, CountChange
<1>6. CASE ino[q] = 0
  <2>1. refcount'[h] = refcount[h]
    BY <1>4, <1>6 DEF Rename, ApplyChunkRefDelta, ChunkRefDelta, NoChunks
  <2>2. q \notin Live
    BY <1>6 DEF Live
  <2> QED BY <1>1, <1>2, <1>3, <2>1, <2>2, <1>0, CountSame
<1>7. CASE ino[q] # 0 /\ Names(q) # {q}
  <2>1. refcount'[h] = refcount[h]
    BY <1>4, <1>7 DEF Rename, ApplyChunkRefDelta, ChunkRefDelta, Owned, NoChunks
  <2>2. PICK r \in Path : r # q /\ ino[r] = ino[q]
    BY <1>7 DEF Names
  <2>3. r \in Live \ {p, q} /\ q \in Live /\ chunks[r] = chunks[q]
    BY <1>4, <1>7, <2>2 DEF Live, AliasesAgree
  <2> QED BY <1>1, <1>2, <1>3, <2>1, <2>2, <2>3, <1>0, CountSame
<1> QED BY <1>5, <1>6, <1>7

(* The purge gives back one reference per row and occurrence.  That is     *)
(* right for the hashes of names that share no inode, and too much for the *)
(* others, which become skewed.                                            *)
LEMMA CountPurge ==
    ASSUME StoreInv, PurgeCommit
    PROVE  RefcountExact'
<1> USE DEF StoreInv
<1> SUFFICES ASSUME NEW h \in Hash PROVE CountRight(h)'
  BY DEF RefcountExact, CountRight
<1> DEFINE D == Subtree(purge.agent)
           c == [p \in Live |-> chunks[p][h]]
           d == [p \in Live' |-> chunks'[p][h]]
           self == [p \in D |-> p]
<1>1. D \subseteq Live /\ Live' = Live \ D
  BY DEF PurgeCommit, Subtree, Live, TypeOK
<1>2. \A p \in Live' : ino'[p] = ino[p] /\ chunks'[p] = chunks[p]
  BY <1>1 DEF PurgeCommit, Live, TypeOK
<1>3. c \in [Live -> Nat]
  BY ChunksType DEF Live
<1>4. Occurrences(h) = Occ(Live, ino, c)
  BY DEF Occurrences, Occ
<1>5. Occurrences(h)' = Occ(Live', ino', d)
  BY DEF Occurrences, Occ
<1>6. \A p \in Live' : d[p] = c[p]
  BY <1>1, <1>2
<1>7. RowOccurrences(D, h) = Occ(D, self, c)
  BY <1>1 DEF RowOccurrences, Occ
<1>8. refcount'[h] = refcount[h] - Cardinality(RowOccurrences(D, h))
  <2>1. Cardinality(RowOccurrences(D, h)) \in Nat /\ refcount[h] \in Nat
    BY RowOccurrencesFinite, FS_CardinalityType DEF Subtree, Live, TypeOK
  <2>2. refcount'[h] = refcount[h] + (0 - Cardinality(RowOccurrences(D, h)))
    BY DEF PurgeCommit, ApplyChunkRefDelta, PurgeDelta
  <2> HIDE DEF D
  <2> QED BY <2>1, <2>2
<1>9. ASSUME h \notin skewed' PROVE Sole(D, Live, ino, c)
  <2>1. skewed' = skewed \union Overpaid(D)
    BY DEF PurgeCommit
  <2> SUFFICES ASSUME NEW p \in D, NEW q \in Live, ino[p] = ino[q], p # q PROVE c[p] = 0
    BY DEF Sole
  <2>2. q \in D
    BY DEF LinksStayHome, Subtree
  <2>3. ~(chunks[p][h] > 0)
    BY <1>9, <2>1, <2>2 DEF Overpaid
  <2>4. chunks[p][h] \in Nat
    BY <1>1, ChunksType DEF Live
  <2> QED BY <1>1, <2>3, <2>4
<1>10. /\ refcount[h] <= Cardinality(Occ(Live, ino, c)) /\ refcount[h] \in Nat
       /\ h \notin skewed => refcount[h] = Cardinality(Occ(Live, ino, c))
       /\ skewed \subseteq skewed'
  BY <1>4 DEF RefcountExact, TypeOK, PurgeCommit
<1>11. \A p \in D : self[p] = p
  OBVIOUS
<1> HIDE DEF c, d, D, self
<1>12. Occ(Live', ino', d) = Occ(Live \ D, ino, c)
  BY <1>1, <1>2, <1>6, OccSame
<1> DEFINE before == Cardinality(Occ(Live, ino, c))
           after == Cardinality(Occ(Live \ D, ino, c))
           dropped == Cardinality(Occ(D, self, c))
<1>13. /\ before \in Nat /\ after \in Nat /\ dropped \in Nat
       /\ after >= before - dropped
       /\ h \notin skewed' => after = before - dropped
  BY SMTT(30), <1>1, <1>3, <1>9, <1>11, LiveFinite, OccRemove
<1>14. Cardinality(Occurrences(h)') = after /\ refcount'[h] = refcount[h] - dropped
  BY <1>5, <1>7, <1>8, <1>12
<1> HIDE DEF before, after, dropped
<1> QED BY <1>10, <1>13, <1>14 DEF CountRight, before

-----------------------------------------------------------------------------
(* The inductive invariant.                                                *)

(* Steps that touch neither the names nor the counts. *)
Quiet == UNCHANGED namespace /\ refcount' = refcount /\ skewed' = skewed

LEMMA NamespaceSteps ==
    ASSUME TypeOK, [Next]_vars
    PROVE  \/ Quiet
           \/ \E w \in Worker : PutCommit(w)
           \/ \E p \in Path : Delete(p)
           \/ \E p, q \in Path : Link(p, q) \/ Rename(p, q)
           \/ PurgeCommit
<1> USE DEF Quiet, store
<1>1. ASSUME NEW w \in Worker, UploadStore(w) \/ UploadNote(w) \/ PutValidate(w) \/ PutAbort(w) PROVE Quiet
  BY <1>1 DEF UploadStore, UploadNote, PutValidate, PutAbort
<1>2. ASSUME GcTick \/ GcSelect \/ GcDeleteFails \/ GcUnlink \/ PurgeUnlink \/ PurgeFails \/ Crash \/ Tick PROVE Quiet
  BY <1>2 DEF GcTick, GcSelect, GcDeleteFails, GcUnlink, PurgeUnlink, PurgeFails, Crash, Tick
<1>3. ASSUME GcDeleteRows PROVE Quiet
  BY <1>3 DEF GcDeleteRows, DropRows, StillEligible, Eligible, TypeOK
<1>4. ASSUME PurgeSweep PROVE Quiet
  BY <1>4 DEF PurgeSweep, DropRows, Released, TypeOK
<1>5. ASSUME NEW w \in Worker, NEW h, UploadStart(w, h) PROVE Quiet
  BY <1>5 DEF UploadStart
<1>6. ASSUME NEW w \in Worker, NEW p, NEW b, PutStart(w, p, b) PROVE Quiet
  BY <1>6 DEF PutStart
<1>7. ASSUME NEW x, LockNext(x) PROVE Quiet
  BY <1>7 DEF LockNext
<1>8. ASSUME NEW a, PurgeStart(a) PROVE Quiet
  BY <1>8 DEF PurgeStart
<1>9. CASE UNCHANGED vars
  BY <1>9 DEF vars
<1> HIDE DEF Quiet
<1> QED BY <1>1, <1>2, <1>3, <1>4, <1>5, <1>6, <1>7, <1>8, <1>9 DEF Next, WorkerStep, GcStep, PurgeStep

LEMMA CountNext ==
    ASSUME StoreInv, TypeOK', [Next]_vars
    PROVE  RefcountExact'
<1>1. CASE Quiet
  BY <1>1 DEF StoreInv, RefcountExact, Occurrences, Live, Quiet, namespace
<1>2. ASSUME PurgeCommit PROVE RefcountExact'
  BY <1>2, CountPurge
<1> QED BY <1>1, <1>2, CountPut, CountDelete, CountLink, CountRename, NamespaceSteps DEF StoreInv

LEMMA NamesNext ==
    ASSUME StoreInv, TypeOK', [Next]_vars
    PROVE  NameShape' /\ LinksStayHome' /\ AliasesAgree'
<1> USE DEF StoreInv
<1>1. CASE Quiet
  BY <1>1 DEF NameShape, LinksStayHome, AliasesAgree, Live, Quiet, namespace
<1>2. ASSUME NEW w \in Worker, PutCommit(w) PROVE NameShape' /\ LinksStayHome' /\ AliasesAgree'
  <2> DEFINE p == wk[w].path
             b == wk[w].body
  <2>1. p \in Path
    BY <1>2, RequestShapes DEF PutCommit
  <2>2. CASE ino[p] = 0
    <3>1. /\ nextIno' = nextIno + 1
          /\ ino' = [ino EXCEPT ![p] = nextIno + 1]
          /\ chunks' = [q \in Path |-> IF q = p THEN b ELSE chunks[q]]
      BY <1>2, <2>2 DEF PutCommit, PutTargets
    <3>2. nextIno + 1 # 0 /\ \A q \in Path : ino[q] # nextIno + 1 /\ ino[q] <= nextIno + 1
      BY DEF NameShape, TypeOK
    <3> HIDE DEF p, b
    <3>3. NameShape'
      BY <2>1, <3>1, <3>2 DEF NameShape, TypeOK
    <3>4. LinksStayHome' /\ AliasesAgree'
      BY <2>1, <3>1, <3>2 DEF LinksStayHome, AliasesAgree, Live, TypeOK
    <3> QED BY <3>3, <3>4
  <2>3. CASE ino[p] # 0
    <3>1. /\ nextIno' = nextIno
          /\ ino' = ino
          /\ chunks' = [q \in Path |-> IF ino[q] = ino[p] THEN b ELSE chunks[q]]
      BY <1>2, <2>3 DEF PutCommit, PutTargets, Names
    <3> HIDE DEF p, b
    <3> QED BY <2>1, <2>3, <3>1 DEF NameShape, LinksStayHome, AliasesAgree, Live, TypeOK
  <2> QED BY <2>2, <2>3
<1>3. ASSUME NEW p \in Path, Delete(p) PROVE NameShape' /\ LinksStayHome' /\ AliasesAgree'
  <2>1. /\ nextIno' = nextIno
        /\ ino' = [ino EXCEPT ![p] = 0]
        /\ chunks' = [chunks EXCEPT ![p] = NoChunks]
    BY <1>3 DEF Delete
  <2> QED BY <2>1 DEF NameShape, LinksStayHome, AliasesAgree, Live, TypeOK
<1>4. ASSUME NEW p \in Path, NEW q \in Path, Link(p, q) PROVE NameShape' /\ LinksStayHome' /\ AliasesAgree'
  <2>1. /\ nextIno' = nextIno
        /\ ino[p] # 0
        /\ ino' = [ino EXCEPT ![q] = ino[p]]
        /\ chunks' = [chunks EXCEPT ![q] = chunks[p]]
        /\ AgentOf[p] = AgentOf[q]
    BY <1>4 DEF Link
  <2> QED BY <2>1 DEF NameShape, LinksStayHome, AliasesAgree, Live, TypeOK
<1>5. ASSUME NEW p \in Path, NEW q \in Path, Rename(p, q) PROVE NameShape' /\ LinksStayHome' /\ AliasesAgree'
  <2>1. /\ nextIno' = nextIno
        /\ ino[p] # 0 /\ p # q /\ AgentOf[p] = AgentOf[q]
        /\ ino' = [ino EXCEPT ![q] = ino[p], ![p] = 0]
        /\ chunks' = [chunks EXCEPT ![q] = chunks[p], ![p] = NoChunks]
    BY <1>5 DEF Rename
  <2> QED BY <2>1 DEF NameShape, LinksStayHome, AliasesAgree, Live, TypeOK
<1>6. ASSUME PurgeCommit PROVE NameShape' /\ LinksStayHome' /\ AliasesAgree'
  <2> DEFINE D == Subtree(purge.agent)
  <2>1. /\ nextIno' = nextIno
        /\ ino' = [p \in Path |-> IF p \in D THEN 0 ELSE ino[p]]
        /\ chunks' = [p \in Path |-> IF p \in D THEN NoChunks ELSE chunks[p]]
    BY <1>6 DEF PurgeCommit
  <2> HIDE DEF D
  <2> QED BY <2>1 DEF NameShape, LinksStayHome, AliasesAgree, Live, TypeOK
<1> QED BY <1>1, <1>2, <1>3, <1>4, <1>5, <1>6, NamespaceSteps

(* Who gave its locks back is past the steps they protect. *)
PastLocks(x) ==
    /\ x \in Worker => wk'[x].pc # "commit"
    /\ x = GC => gc'.pc # "unlink"
    /\ x = Admin => purge'.pc \notin {"sweep", "unlink"}

(* A lock changes hands only by its holder's own step or in a crash. *)
LEMMA OwnerKept ==
    ASSUME TypeOK, [Next]_vars, NEW x \in Proc, NEW s \in Shard, owner[s] = x
    PROVE  owner'[s] = x \/ PastLocks(x)
<1> USE WorkerAssumption
<1>0. owner' = owner => owner'[s] = x
  OBVIOUS
<1>1. ASSUME NEW w \in Worker, NEW h, UploadStart(w, h) PROVE owner' = owner
  BY <1>1 DEF UploadStart
<1>2. ASSUME NEW w \in Worker, NEW p, NEW b, PutStart(w, p, b) PROVE owner' = owner
  BY <1>2 DEF PutStart
<1>3. ASSUME NEW w \in Worker, UploadStore(w) PROVE owner'[s] = x \/ PastLocks(x)
  <2>1. wk'[w].pc # "commit"
    BY <1>3 DEF UploadStore, Become, Idle, TypeOK
  <2> QED BY <1>3, <2>1 DEF UploadStore, Unlock, PastLocks
<1>4. ASSUME NEW w \in Worker, UploadNote(w) PROVE owner' = owner
  BY <1>4 DEF UploadNote
<1>5. ASSUME NEW w \in Worker, PutValidate(w) PROVE owner'[s] = x \/ PastLocks(x)
  <2>1. owner' = owner \/ (Unlock(w) /\ Become(w, Idle))
    BY <1>5 DEF PutValidate
  <2>2. CASE Unlock(w) /\ Become(w, Idle)
    BY <2>2 DEF Unlock, Become, Idle, PastLocks, TypeOK
  <2> QED BY <2>1, <2>2
<1>6. ASSUME NEW w \in Worker, PutCommit(w) \/ PutAbort(w) PROVE owner'[s] = x \/ PastLocks(x)
  <2>1. Unlock(w) /\ Become(w, Idle)
    BY <1>6 DEF PutCommit, PutAbort
  <2> QED BY <2>1 DEF Unlock, Become, Idle, PastLocks, TypeOK
<1>7. ASSUME NEW y \in Proc, LockNext(y) PROVE owner'[s] = x
  <2> PICK t : owner[t] = Free /\ owner' = [owner EXCEPT ![t] = y]
    BY <1>7 DEF LockNext
  <2> QED BY DEF TypeOK
<1>8. ASSUME NEW p, NEW q, Delete(p) \/ Link(p, q) \/ Rename(p, q) PROVE owner' = owner
  BY <1>8 DEF Delete, Link, Rename
<1>9. ASSUME GcTick \/ GcSelect \/ GcDeleteRows \/ PurgeCommit \/ PurgeSweep \/ Tick PROVE owner' = owner
  BY <1>9 DEF GcTick, GcSelect, GcDeleteRows, PurgeCommit, PurgeSweep, Tick
<1>10. ASSUME GcDeleteFails \/ GcUnlink PROVE owner'[s] = x \/ PastLocks(x)
  <2>1. Unlock(GC) /\ gc'.pc # "unlink"
    <3>1. Unlock(GC) /\ (gc' = GcIdle \/ gc' = [gc EXCEPT !.pc = "select", !.batch = {}])
      BY <1>10 DEF GcDeleteFails, GcUnlink
    <3>2. CASE gc' = GcIdle
      BY <3>1, <3>2 DEF GcIdle
    <3>3. CASE gc' = [gc EXCEPT !.pc = "select", !.batch = {}]
      BY <3>1, <3>3 DEF TypeOK
    <3> QED BY <3>1, <3>2, <3>3
  <2> QED BY <2>1 DEF Unlock, PastLocks
<1>11. ASSUME PurgeUnlink \/ PurgeFails PROVE owner'[s] = x \/ PastLocks(x)
  <2>1. Unlock(Admin) /\ purge'.pc = "idle"
    BY <1>11 DEF PurgeUnlink, PurgeFails, PurgeIdle
  <2> QED BY <2>1 DEF Unlock, PastLocks
<1>12. ASSUME NEW a, PurgeStart(a) PROVE owner' = owner
  BY <1>12 DEF PurgeStart
<1>13. ASSUME Crash PROVE PastLocks(x)
  BY <1>13 DEF Crash, PastLocks, Idle, GcIdle, PurgeIdle
<1>14. CASE UNCHANGED vars
  BY <1>14 DEF vars
<1> QED
  BY <1>0, <1>1, <1>2, <1>3, <1>4, <1>5, <1>6, <1>7, <1>8, <1>9, <1>10, <1>11, <1>12, <1>13, <1>14
     DEF Next, WorkerStep, GcStep, PurgeStep

(* Only the unlinks of the collector and of the purge remove a file; then  *)
(* nobody refers to the chunk, unless it is skewed, and no commit has its  *)
(* lock.                                                                   *)
LEMMA FilesKept ==
    ASSUME StoreInv, [Next]_vars, NEW h \in files, h \notin files'
    PROVE  /\ MayGo(h) /\ UNCHANGED <<ino, chunks, wk>>
           /\ owner[ShardOf[h]] \in {GC, Admin}
<1> USE DEF StoreInv, store, namespace
<1>1. CASE GcUnlink
  <2>1. h \in gc.batch
    BY <1>1 DEF GcUnlink
  <2>2. MayGo(h) /\ owner[ShardOf[h]] = GC
    BY <1>1, <2>1 DEF GcUnlink, LocksProtect
  <2> QED BY <1>1, <2>2 DEF GcUnlink
<1>2. CASE PurgeUnlink
  <2>1. h \in purge.batch
    BY <1>2 DEF PurgeUnlink
  <2>2. ShardOf[h] \in Shard
    BY HashAssumption DEF TypeOK
  <2>3. MayGo(h) /\ owner[ShardOf[h]] = Admin
    BY <1>2, <2>1, <2>2 DEF PurgeUnlink, LocksProtect
  <2> QED BY <1>2, <2>3 DEF PurgeUnlink
<1>3. ASSUME NEW w \in Worker, UploadStore(w) PROVE FALSE
  BY <1>3 DEF UploadStore
<1>4. ASSUME NEW w \in Worker, UploadNote(w) \/ PutValidate(w) \/ PutCommit(w) \/ PutAbort(w) PROVE files' = files
  BY <1>4 DEF UploadNote, PutValidate, PutCommit, PutAbort
<1>5. ASSUME NEW w \in Worker, NEW p, NEW b, UploadStart(w, p) \/ PutStart(w, p, b) PROVE files' = files
  BY <1>5 DEF UploadStart, PutStart
<1>6. ASSUME NEW p, NEW q, Delete(p) \/ Link(p, q) \/ Rename(p, q) PROVE files' = files
  BY <1>6 DEF Delete, Link, Rename
<1>7. ASSUME GcTick \/ GcSelect \/ GcDeleteRows \/ GcDeleteFails \/ PurgeCommit \/ PurgeSweep \/ PurgeFails \/ Crash \/ Tick
      PROVE  files' = files
  BY <1>7 DEF GcTick, GcSelect, GcDeleteRows, GcDeleteFails, PurgeCommit, PurgeSweep, PurgeFails, Crash, Tick
<1>8. ASSUME NEW x, LockNext(x) \/ PurgeStart(x) PROVE files' = files
  BY <1>8 DEF LockNext, PurgeStart
<1>9. CASE UNCHANGED vars
  BY <1>9 DEF vars
<1> HIDE DEF StoreInv, store, namespace
<1> QED BY <1>1, <1>2, <1>3, <1>4, <1>5, <1>6, <1>7, <1>8, <1>9 DEF Next, WorkerStep, GcStep, PurgeStep

(* A manifest comes to list a chunk that none listed only by a commit that *)
(* holds the lock and has seen the file.                                   *)
LEMMA RefsGrow ==
    ASSUME StoreInv, [Next]_vars, NEW h \in Hash, NEW p \in Path, chunks'[p][h] # 0
    PROVE  \/ \E q \in Path : chunks[q][h] # 0
           \/ \E w \in Worker : owner[ShardOf[h]] = w /\ h \in files /\ files' = files
<1> USE DEF StoreInv
<1>1. CASE Quiet
  BY <1>1 DEF Quiet, namespace
<1>2. ASSUME NEW w \in Worker, PutCommit(w), \A q \in Path : chunks[q][h] = 0
      PROVE  owner[ShardOf[h]] = w /\ h \in files /\ files' = files
  <2>1. chunks'[p] = wk[w].body
    BY <1>2 DEF PutCommit
  <2>2. wk[w].body[h] \in Nat
    BY <1>2, RequestShapes, BodyAssumption DEF PutCommit
  <2>3. h \in Support(wk[w].body)
    BY <2>1, <2>2 DEF Support
  <2> QED BY <1>2, <2>3 DEF PutCommit, LocksProtect
<1>3. ASSUME NEW q \in Path, Delete(q) PROVE \E r \in Path : chunks[r][h] # 0
  BY <1>3 DEF Delete, NoChunks, TypeOK
<1>4. ASSUME NEW q \in Path, NEW r \in Path, Link(q, r) \/ Rename(q, r) PROVE \E t \in Path : chunks[t][h] # 0
  BY <1>4 DEF Link, Rename, NoChunks, TypeOK
<1>5. ASSUME PurgeCommit PROVE \E r \in Path : chunks[r][h] # 0
  BY <1>5 DEF PurgeCommit, NoChunks, TypeOK
<1> HIDE DEF StoreInv
<1> QED BY <1>1, <1>2, <1>3, <1>4, <1>5, NamespaceSteps DEF StoreInv

(* A skewed hash stays skewed. *)
LEMMA SkewedGrows ==
    ASSUME TypeOK, [Next]_vars
    PROVE  skewed \subseteq skewed'
<1>1. CASE Quiet
  BY <1>1 DEF Quiet
<1>2. ASSUME NEW w \in Worker, PutCommit(w) PROVE skewed' = skewed
  BY <1>2 DEF PutCommit
<1>3. ASSUME NEW p, NEW q, Delete(p) \/ Link(p, q) \/ Rename(p, q) PROVE skewed' = skewed
  BY <1>3 DEF Delete, Link, Rename, store
<1>4. CASE PurgeCommit
  BY <1>4 DEF PurgeCommit
<1> QED BY <1>1, <1>2, <1>3, <1>4, NamespaceSteps

LEMMA PresentNext ==
    ASSUME StoreInv, TypeOK', [Next]_vars
    PROVE  ReferencedChunksPresent'
<1> SUFFICES ASSUME NEW p \in Path, NEW h \in Hash, chunks'[p][h] > 0, h \notin skewed' PROVE h \in files'
  BY DEF ReferencedChunksPresent, Support, Live
<1>1. CASE \E q \in Path : chunks[q][h] # 0
  <2> PICK q \in Path : chunks[q][h] # 0
    BY <1>1
  <2>1. ~MayGo(h) /\ h \notin skewed
    BY SkewedGrows DEF MayGo, Unreferenced, StoreInv
  <2>2. h \in files
    <3>1. chunks[q][h] \in Nat /\ q \in Live
      BY ChunksType DEF StoreInv, NameShape, NoChunks, Live
    <3> QED BY <2>1, <3>1 DEF StoreInv, ReferencedChunksPresent, Support
  <2> QED BY <2>1, <2>2, FilesKept
<1>2. CASE \E w \in Worker : owner[ShardOf[h]] = w /\ h \in files /\ files' = files
  BY <1>2
<1>3. chunks'[p][h] # 0
  BY NoChunksType, BodyAssumption DEF TypeOK
<1> QED BY <1>1, <1>2, <1>3, RefsGrow

(* What a step does to the request of a worker that comes to hold a        *)
(* validated manifest.                                                     *)
LEMMA CommitOrigin ==
    ASSUME TypeOK, [Next]_vars, NEW v \in Worker, wk'[v].pc = "commit"
    PROVE  \/ wk'[v] = wk[v]
           \/ /\ wk[v].pc = "put" /\ Locked(v) /\ Present(wk[v].body)
              /\ wk'[v].body = wk[v].body /\ UNCHANGED <<owner, files>>
<1>1. ASSUME NEW w \in Worker, NEW h, UploadStart(w, h) PROVE wk'[v] = wk[v]
  BY <1>1 DEF UploadStart, Become, TypeOK
<1>2. ASSUME NEW w \in Worker, NEW p, NEW b, PutStart(w, p, b) PROVE wk'[v] = wk[v]
  BY <1>2 DEF PutStart, Become, TypeOK
<1>3. ASSUME NEW w \in Worker, UploadStore(w) PROVE wk'[v] = wk[v]
  BY <1>3 DEF UploadStore, Become, Idle, TypeOK
<1>4. ASSUME NEW w \in Worker, UploadNote(w) \/ PutCommit(w) \/ PutAbort(w) PROVE wk'[v] = wk[v]
  <2>1. Become(w, Idle)
    BY <1>4 DEF UploadNote, PutCommit, PutAbort
  <2> QED BY <2>1 DEF Become, Idle, TypeOK
<1>5. ASSUME NEW w \in Worker, PutValidate(w), wk'[v] # wk[v]
      PROVE  /\ wk[v].pc = "put" /\ Locked(v) /\ Present(wk[v].body)
             /\ wk'[v].body = wk[v].body /\ UNCHANGED <<owner, files>>
  <2>1. v = w
    BY <1>5 DEF PutValidate, Become, TypeOK
  <2>2. Present(wk[w].body)
    BY <1>5, <2>1 DEF PutValidate, Become, Idle, TypeOK
  <2> QED BY <1>5, <2>1, <2>2 DEF PutValidate, Become, TypeOK
<1>6. ASSUME NEW p, NEW q, Delete(p) \/ Link(p, q) \/ Rename(p, q) PROVE wk' = wk
  BY <1>6 DEF Delete, Link, Rename
<1>7. ASSUME GcTick \/ GcSelect \/ GcDeleteRows \/ GcDeleteFails \/ GcUnlink \/ Tick
      PROVE  wk' = wk
  BY <1>7 DEF GcTick, GcSelect, GcDeleteRows, GcDeleteFails, GcUnlink, Tick
<1>8. ASSUME PurgeCommit \/ PurgeSweep \/ PurgeFails \/ PurgeUnlink
      PROVE  wk' = wk
  BY <1>8 DEF PurgeCommit, PurgeSweep, PurgeFails, PurgeUnlink
<1>9. ASSUME NEW x, LockNext(x) \/ PurgeStart(x) PROVE wk' = wk
  BY <1>9 DEF LockNext, PurgeStart
<1>10. ASSUME Crash PROVE FALSE
  BY <1>10 DEF Crash, Idle
<1>11. CASE UNCHANGED vars
  BY <1>11 DEF vars
<1> QED
  BY <1>1, <1>2, <1>3, <1>4, <1>5, <1>6, <1>7, <1>8, <1>9, <1>10, <1>11 DEF Next, WorkerStep, GcStep, PurgeStep

(* The collector comes to its unlinks only through the row delete.         *)
LEMMA SweepOrigin ==
    ASSUME TypeOK, [Next]_vars, gc'.pc = "unlink"
    PROVE  gc' = gc \/ GcDeleteRows
<1>1. ASSUME NEW w \in Worker, NEW p, NEW b, UploadStart(w, p) \/ PutStart(w, p, b) PROVE gc' = gc
  BY <1>1 DEF UploadStart, PutStart
<1>2. ASSUME NEW w \in Worker, WorkerStep(w) PROVE gc' = gc
  BY <1>2 DEF WorkerStep, UploadStore, UploadNote, PutValidate, PutCommit, PutAbort
<1>3. ASSUME NEW p, NEW q, Delete(p) \/ Link(p, q) \/ Rename(p, q) PROVE gc' = gc
  BY <1>3 DEF Delete, Link, Rename
<1>4. ASSUME NEW x, LockNext(x) \/ PurgeStart(x) PROVE gc' = gc
  BY <1>4 DEF LockNext, PurgeStart
<1>5. ASSUME PurgeStep \/ Tick PROVE gc' = gc
  BY <1>5 DEF PurgeStep, PurgeCommit, PurgeSweep, PurgeFails, PurgeUnlink, Tick
<1>6. ASSUME GcTick PROVE FALSE
  BY <1>6 DEF GcTick
<1>7. ASSUME GcSelect PROVE FALSE
  <2>1. gc' = GcIdle \/ \E B : gc' = [gc EXCEPT !.pc = "lock", !.batch = B]
    BY <1>7 DEF GcSelect
  <2>2. CASE gc' = GcIdle
    BY <2>2 DEF GcIdle
  <2>3. CASE \E B : gc' = [gc EXCEPT !.pc = "lock", !.batch = B]
    BY <2>3 DEF TypeOK
  <2> QED BY <2>1, <2>2, <2>3
<1>8. ASSUME GcUnlink PROVE FALSE
  <2>1. gc' = GcIdle \/ gc' = [gc EXCEPT !.pc = "select", !.batch = {}]
    BY <1>8 DEF GcUnlink
  <2>2. CASE gc' = GcIdle
    BY <2>2 DEF GcIdle
  <2>3. CASE gc' = [gc EXCEPT !.pc = "select", !.batch = {}]
    BY <2>3 DEF TypeOK
  <2> QED BY <2>1, <2>2, <2>3
<1>9. ASSUME GcDeleteFails \/ Crash PROVE FALSE
  BY <1>9 DEF GcDeleteFails, Crash, GcIdle
<1>10. CASE UNCHANGED vars
  BY <1>10 DEF vars
<1> QED
  BY <1>1, <1>2, <1>3, <1>4, <1>5, <1>6, <1>7, <1>8, <1>9, <1>10 DEF Next, GcStep

(* The purge moves only by its own steps; a crash resets it.               *)
LEMMA PurgeOrigin ==
    ASSUME [Next]_vars
    PROVE  \/ purge' = purge \/ purge' = PurgeIdle
           \/ \E a \in PurgedAgents : PurgeStart(a)
           \/ PurgeCommit \/ PurgeSweep
<1>1. ASSUME NEW w \in Worker, NEW p, NEW b, UploadStart(w, p) \/ PutStart(w, p, b) PROVE purge' = purge
  BY <1>1 DEF UploadStart, PutStart
<1>2. ASSUME NEW w \in Worker, WorkerStep(w) PROVE purge' = purge
  BY <1>2 DEF WorkerStep, UploadStore, UploadNote, PutValidate, PutCommit, PutAbort
<1>3. ASSUME NEW p, NEW q, Delete(p) \/ Link(p, q) \/ Rename(p, q) PROVE purge' = purge
  BY <1>3 DEF Delete, Link, Rename
<1>4. ASSUME NEW x, LockNext(x) PROVE purge' = purge
  BY <1>4 DEF LockNext
<1>5. ASSUME GcTick \/ GcStep \/ GcDeleteFails \/ Tick PROVE purge' = purge
  BY <1>5 DEF GcTick, GcStep, GcSelect, GcDeleteRows, GcDeleteFails, GcUnlink, Tick
<1>6. ASSUME PurgeUnlink \/ PurgeFails \/ Crash PROVE purge' = PurgeIdle
  BY <1>6 DEF PurgeUnlink, PurgeFails, Crash
<1>7. CASE UNCHANGED vars
  BY <1>7 DEF vars
<1> QED
  BY <1>1, <1>2, <1>3, <1>4, <1>5, <1>6, <1>7 DEF Next, PurgeStep

(* A chunk that nobody refers to and whose lock no worker holds stays      *)
(* unreferenced.                                                           *)
LEMMA MayGoKept ==
    ASSUME StoreInv, TypeOK', [Next]_vars, NEW h \in Hash, MayGo(h),
           owner[ShardOf[h]] \notin Worker
    PROVE  MayGo(h)'
<1> SUFFICES ASSUME h \notin skewed', NEW p \in Path, chunks'[p][h] # 0 PROVE FALSE
  BY DEF MayGo, Unreferenced
<1>1. \A q \in Path : chunks[q][h] = 0
  BY SkewedGrows DEF MayGo, Unreferenced, StoreInv
<1> QED BY <1>1, RefsGrow

LEMMA CommitLocks ==
    ASSUME StoreInv, TypeOK', [Next]_vars, NEW v \in Worker, wk'[v].pc = "commit",
           NEW h \in Support(wk'[v].body)
    PROVE  owner'[ShardOf[h]] = v /\ h \in files'
<1> USE WorkerAssumption, HashAssumption
<1>1. h \in Hash /\ ShardOf[h] \in Shard
  BY DEF Support
<1>2. CASE wk'[v] = wk[v]
  <2>1. owner[ShardOf[h]] = v /\ h \in files
    BY <1>2 DEF StoreInv, LocksProtect
  <2>2. owner'[ShardOf[h]] = v
    BY <1>1, <2>1, OwnerKept DEF StoreInv, Proc, PastLocks
  <2>3. h \in files'
    BY <2>1, FilesKept
  <2> QED BY <2>2, <2>3
<1>3. CASE /\ wk[v].pc = "put" /\ Locked(v) /\ Present(wk[v].body)
           /\ wk'[v].body = wk[v].body /\ UNCHANGED <<owner, files>>
  <2>1. h \in Support(wk[v].body)
    BY <1>3
  <2>2. v # GC /\ v # Admin
    OBVIOUS
  <2>3. Need(v) = {ShardOf[k] : k \in Support(wk[v].body)}
    BY <1>3, <2>2 DEF Need
  <2>4. ShardOf[h] \in Need(v)
    BY <2>1, <2>3
  <2>5. owner[ShardOf[h]] = v
    BY <1>3, <2>4 DEF Locked, Held
  <2> QED BY <1>3, <2>1, <2>5 DEF Present
<1> QED BY <1>2, <1>3, CommitOrigin DEF StoreInv

LEMMA SweepLocks ==
    ASSUME StoreInv, TypeOK', [Next]_vars, gc'.pc = "unlink", NEW h \in gc'.batch
    PROVE  owner'[ShardOf[h]] = GC /\ MayGo(h)'
<1> USE WorkerAssumption, HashAssumption DEF StoreInv
<1>1. h \in Hash /\ ShardOf[h] \in Shard
  BY DEF TypeOK
<1>2. CASE gc' = gc
  <2>1. owner[ShardOf[h]] = GC /\ MayGo(h)
    BY <1>2 DEF LocksProtect
  <2>2. owner'[ShardOf[h]] = GC
    BY <1>1, <2>1, OwnerKept DEF Proc, PastLocks
  <2>3. owner[ShardOf[h]] \notin Worker
    BY <2>1
  <2> HIDE DEF StoreInv
  <2> QED BY <1>1, <2>1, <2>2, <2>3, MayGoKept
<1>3. CASE GcDeleteRows
  <2>1. h \in gc.batch /\ h \in Eligible(gc.cutoff)
    BY <1>3 DEF GcDeleteRows, StillEligible, TypeOK
  <2>2. refcount[h] = 0
    BY <2>1 DEF Eligible
  <2>3. MayGo(h)
    BY <1>1, <2>2, ZeroMayGo
  <2>4. MayGo(h)'
    BY <1>3, <2>3 DEF GcDeleteRows, MayGo, Unreferenced, namespace
  <2>5. ShardOf[h] \in Need(GC)
    BY <1>3, <2>1 DEF GcDeleteRows, Need
  <2>6. owner[ShardOf[h]] = GC
    BY <1>3, <2>5 DEF GcDeleteRows, Locked, Held
  <2> QED BY <1>3, <2>4, <2>6 DEF GcDeleteRows
<1> QED BY <1>2, <1>3, SweepOrigin

LEMMA PurgeLocks ==
    ASSUME StoreInv, TypeOK', [Next]_vars, purge'.pc \in {"sweep", "unlink"}
    PROVE  /\ \A s \in Shard : owner'[s] = Admin
           /\ purge'.pc = "unlink" => \A h \in purge'.batch : MayGo(h)'
<1> USE WorkerAssumption, HashAssumption DEF StoreInv
<1>1. CASE purge' = purge
  <2>1. \A s \in Shard : owner[s] = Admin
    BY <1>1 DEF LocksProtect
  <2>2. \A s \in Shard : owner'[s] = Admin
    <3> SUFFICES ASSUME NEW s \in Shard PROVE owner'[s] = Admin
      OBVIOUS
    <3> QED BY <2>1, OwnerKept DEF Proc, PastLocks
  <2>3. ASSUME purge'.pc = "unlink", NEW h \in purge'.batch PROVE MayGo(h)'
    <3>1. h \in Hash /\ ShardOf[h] \in Shard
      BY <2>3 DEF TypeOK
    <3>2. MayGo(h) /\ owner[ShardOf[h]] \notin Worker
      BY <1>1, <2>1, <2>3, <3>1 DEF LocksProtect
    <3> HIDE DEF StoreInv
    <3> QED BY <3>1, <3>2, MayGoKept
  <2> QED BY <2>2, <2>3
<1>2. CASE purge' = PurgeIdle \/ \E a \in PurgedAgents : PurgeStart(a)
  BY <1>2 DEF PurgeIdle, PurgeStart
<1>3. CASE PurgeCommit
  <2>1. Shard \subseteq Held(Admin)
    BY <1>3 DEF PurgeCommit, Locked, Need, GC, Admin
  <2> QED BY <1>3, <2>1 DEF PurgeCommit, Held
<1>4. CASE PurgeSweep
  <2>1. \A s \in Shard : owner'[s] = Admin
    BY <1>4 DEF PurgeSweep, LocksProtect
  <2>2. ASSUME NEW h \in purge'.batch PROVE MayGo(h)'
    <3>1. h \in tracked /\ refcount[h] = 0
      BY <1>4, <2>2 DEF PurgeSweep, Released
    <3>2. MayGo(h)
      BY <3>1, ZeroMayGo DEF TypeOK
    <3> QED BY <1>4, <3>2 DEF PurgeSweep, MayGo, Unreferenced, namespace
  <2> QED BY <2>1, <2>2
<1> QED BY <1>1, <1>2, <1>3, <1>4, PurgeOrigin

LEMMA LocksNext ==
    ASSUME StoreInv, TypeOK', [Next]_vars
    PROVE  LocksProtect'
BY CommitLocks, SweepLocks, PurgeLocks DEF LocksProtect

-----------------------------------------------------------------------------
(* Safety.                                                                 *)

LEMMA StoreInit == Init => StoreInv
<1> SUFFICES ASSUME Init PROVE StoreInv
  OBVIOUS
<1> USE DEF Init
<1>1. Live = {}
  BY DEF Live
<1>2. RefcountExact
  <2>1. ASSUME NEW h \in Hash PROVE Occurrences(h) = {}
    BY <1>1 DEF Occurrences
  <2> QED BY <2>1, FS_EmptySet DEF RefcountExact
<1>3. NameShape /\ LinksStayHome /\ AliasesAgree /\ ReferencedChunksPresent
  BY <1>1 DEF NameShape, LinksStayHome, AliasesAgree, ReferencedChunksPresent
<1>4. LocksProtect
  BY DEF LocksProtect, Idle, GcIdle, PurgeIdle
<1> QED BY <1>2, <1>3, <1>4, TypeInit DEF StoreInv

LEMMA StoreNext ==
    ASSUME StoreInv, [Next]_vars
    PROVE  StoreInv'
<1>1. TypeOK'
  BY TypeNext DEF StoreInv
<1>2. RefcountExact'
  BY <1>1, CountNext
<1>3. NameShape' /\ LinksStayHome' /\ AliasesAgree'
  BY <1>1, NamesNext
<1>4. ReferencedChunksPresent' /\ LocksProtect'
  BY <1>1, PresentNext, LocksNext
<1> QED BY <1>1, <1>2, <1>3, <1>4 DEF StoreInv

LEMMA StoreInvariant == Spec => []StoreInv
<1>1. StoreInv /\ [Next]_vars => StoreInv'
  BY StoreNext
<1> QED BY <1>1, StoreInit, PTL DEF Spec

(* For any number of hashes, names, workers and agents, any bodies and any *)
(* assignment of hashes to locks: chunks.refcount is never too high, and   *)
(* exact for every hash that no purge of hard-linked names has skewed.     *)
THEOREM CountsExact == Spec => []RefcountExact
<1>1. StoreInv => RefcountExact
  BY DEF StoreInv
<1> QED BY <1>1, StoreInvariant, PTL

(* No interleaving of uploads, commits, deletes, renames, sweeps, purges   *)
(* and crashes leaves a committed manifest with a chunk that is not on     *)
(* disk, unless the chunk is skewed.                                       *)
THEOREM NoDanglingChunk == Spec => []ReferencedChunksPresent
<1>1. StoreInv => ReferencedChunksPresent
  BY DEF StoreInv
<1> QED BY <1>1, StoreInvariant, PTL

(* From its validation to its commit a manifest holds the locks of chunks  *)
(* that are on disk, and from the row delete to the unlink the collector   *)
(* and the purge hold the locks of chunks nobody refers to or that are     *)
(* skewed.                                                                 *)
THEOREM LocksHold == Spec => []LocksProtect
<1>1. StoreInv => LocksProtect
  BY DEF StoreInv
<1> QED BY <1>1, StoreInvariant, PTL

-----------------------------------------------------------------------------
(* Refinement.                                                             *)

LEMMA Readable ==
    ASSUME StoreInv
    PROVE  ReadBack = chunks
<1>1. \A p \in Path : Support(chunks[p]) \subseteq files \union skewed
  BY DEF StoreInv, ReferencedChunksPresent, NameShape, Live, Support, NoChunks
<1>2. chunks = [p \in Path |-> chunks[p]]
  BY DEF StoreInv, TypeOK
<1> QED BY <1>1, <1>2 DEF ReadBack

LEMMA RefinePut ==
    ASSUME StoreInv, ReadBack = chunks, ReadBack' = chunks', NEW w \in Worker, PutCommit(w)
    PROVE  \E p \in Path, b \in Bodies : FS!Create(p, b) \/ FS!Overwrite(p, b)
<1> DEFINE p == wk[w].path
           b == wk[w].body
<1>1. p \in Path /\ b \in Bodies
  BY RequestShapes DEF PutCommit, StoreInv
<1>2. CASE ino[p] = 0
  <2>1. /\ ino' = [ino EXCEPT ![p] = nextIno + 1]
        /\ chunks' = [q \in Path |-> IF q = p THEN b ELSE chunks[q]]
    BY <1>2 DEF PutCommit, PutTargets
  <2>2. nextIno + 1 # 0 /\ \A q \in Path : ino[q] # nextIno + 1
    BY DEF NameShape, TypeOK, StoreInv
  <2> HIDE DEF p, b
  <2>3. ino'[p] = nextIno + 1 /\ ino' = [ino EXCEPT ![p] = ino'[p]]
    BY <1>1, <2>1 DEF StoreInv, TypeOK
  <2>4. chunks' = [chunks EXCEPT ![p] = b]
    BY <1>1, <2>1 DEF StoreInv, TypeOK
  <2>5. FS!Create(p, b)
    BY <1>2, <2>2, <2>3, <2>4 DEF FS!Create
  <2> QED BY <1>1, <2>5
<1>3. CASE ino[p] # 0
  <2>1. /\ ino' = ino
        /\ chunks' = [q \in Path |-> IF q \in FS!Aliases(p) THEN b ELSE chunks[q]]
    BY <1>3 DEF PutCommit, PutTargets, Names, FS!Aliases
  <2>2. FS!Overwrite(p, b)
    BY <1>3, <2>1 DEF FS!Overwrite
  <2> QED BY <1>1, <2>2
<1> QED BY <1>2, <1>3

LEMMA RefineStep ==
    ASSUME StoreInv, StoreInv', [Next]_vars
    PROVE  [FS!FNext]_(FS!fvars)
<1>1. ReadBack = chunks
  BY Readable
<1>2. ReadBack' = chunks'
  <2>1. \A p \in Path : Support(chunks[p])' \subseteq files' \union skewed'
    BY DEF StoreInv, ReferencedChunksPresent, NameShape, Live, Support, NoChunks
  <2>2. chunks' = [p \in Path |-> chunks'[p]]
    BY DEF StoreInv, TypeOK
  <2> QED BY <2>1, <2>2 DEF ReadBack
<1>3. CASE Quiet
  BY <1>1, <1>2, <1>3 DEF Quiet, namespace, FS!fvars
<1>4. ASSUME NEW w \in Worker, PutCommit(w) PROVE FS!FNext
  BY <1>1, <1>2, <1>4, RefinePut DEF FS!FNext
<1>5. ASSUME NEW p \in Path, Delete(p) PROVE FS!FNext
  <2>1. FS!Unlink(p)
    BY <1>1, <1>2, <1>5 DEF Delete, FS!Unlink
  <2> QED BY <2>1 DEF FS!FNext
<1>6. ASSUME NEW p \in Path, NEW q \in Path, Link(p, q) PROVE FS!FNext
  <2>1. FS!LinkTo(p, q)
    BY <1>1, <1>2, <1>6 DEF Link, FS!LinkTo
  <2> QED BY <2>1 DEF FS!FNext
<1>7. ASSUME NEW p \in Path, NEW q \in Path, Rename(p, q) PROVE FS!FNext
  <2>1. FS!Move(p, q)
    BY <1>1, <1>2, <1>7 DEF Rename, FS!Move
  <2> QED BY <2>1 DEF FS!FNext
<1>8. ASSUME PurgeCommit PROVE FS!FNext
  <2> DEFINE a == purge.agent
  <2>1. a \in Agent
    BY <1>8 DEF PurgeCommit, StoreInv, TypeOK
  <2>2. /\ ino' = [p \in Path |-> IF p \in Subtree(a) THEN 0 ELSE ino[p]]
        /\ chunks' = [p \in Path |-> IF p \in Subtree(a) THEN NoChunks ELSE chunks[p]]
    BY <1>8 DEF PurgeCommit
  <2> HIDE DEF a
  <2>3. ino' = [p \in Path |-> IF AgentOf[p] = a THEN 0 ELSE ino[p]]
    BY <2>2 DEF Subtree, Live
  <2>4. chunks' = [p \in Path |-> IF AgentOf[p] = a THEN NoChunks ELSE chunks[p]]
    BY <2>2 DEF Subtree, Live, StoreInv, NameShape
  <2>5. FS!Forget(a)
    BY <1>1, <1>2, <2>3, <2>4 DEF FS!Forget
  <2> QED BY <2>1, <2>5 DEF FS!FNext
<1> QED BY <1>3, <1>4, <1>5, <1>6, <1>7, <1>8, NamespaceSteps DEF StoreInv

(* The content store implements the plain file store: what a name reads as *)
(* changes only by a put, delete, link, rename or purge of that name, as   *)
(* far as its chunks are not skewed.                                       *)
THEOREM Refinement == Spec => ImplementsFileStore
<1>1. Init => FS!FInit
  <2> SUFFICES ASSUME Init PROVE FS!FInit
    OBVIOUS
  <2>1. ReadBack = chunks
    BY StoreInit, Readable
  <2> QED BY <2>1 DEF Init, FS!FInit
<1>2. StoreInv /\ StoreInv' /\ [Next]_vars => [FS!FNext]_(FS!fvars)
  BY RefineStep
<1> QED BY <1>1, <1>2, StoreInvariant, PTL DEF Spec, ImplementsFileStore, FS!FSpec
=============================================================================
