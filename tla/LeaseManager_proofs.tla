------------------------- MODULE LeaseManager_proofs -------------------------
(***************************************************************************)
(* Theorems about LeaseManager, for every value of its constants.          *)
(***************************************************************************)
EXTENDS LeaseManager, FiniteSetTheorems, TLAPS

-----------------------------------------------------------------------------
(* The inductive invariant.                                                *)

IssuedIds == {i \in Id : issued[i] # Unissued}
Granting == {s \in Slot : req[s].pc # "idle" /\ req[s].op = "grant"}

\* Ids are handed out in order, and there is one left for every grant under
\* way: what InstallLocked draws is new.
Room == \E n \in Nat : IssuedIds = 1 .. n /\ n + Cardinality(Granting) <= MaxId

\* Only an id that was handed out has a record, now or in the snapshot.
Known == byID \subseteq IssuedIds /\ \A i \in Id : saved[i] # NoRec => i \in IssuedIds

\* A record is of a path, and the snapshot has one record per path.
Placed == \A i \in byID : rec[i].path \in Path
SavedApart ==
    /\ \A i \in Id : saved[i] # NoRec => saved[i].path \in Path
    /\ \A i, j \in Id : saved[i] # NoRec /\ saved[j] # NoRec /\ saved[i].path = saved[j].path => i = j
SavedBounded == \A i \in Id : saved[i].expires <= clock + TTL

\* A write that came in with a fenced session stays fenced to the end.
FencedStays ==
    \A s \in Slot : req[s].pc # "idle" /\ req[s].op = "write" /\ req[s].fencedAtStart =>
        /\ req[s].pc # "commit"
        /\ req[s].alloc \in Alloc
        /\ req[s].session \in fenced[req[s].alloc]

LeaseInv ==
    /\ TypeOK /\ SavedBounded /\ Room /\ Known /\ Placed /\ SavedApart
    /\ IndexesAgree /\ FencedStays

-----------------------------------------------------------------------------
(* The shapes of a request.                                                *)

GrantReq == [op : {"grant"}, pc : {"yield", "revoke", "wait", "install"}, conn : Conn, path : Path,
             on : Id \union {None}, again : BOOLEAN]
YieldingWrite == [op : {"write"}, pc : {"yield", "revoke", "wait"}, conn : Conn, path : Path,
                  on : Id \union {None}, again : BOOLEAN, session : Id \union {None},
                  alloc : Alloc \union {Nobody}, fencedAtStart : BOOLEAN, bannedAtStart : BOOLEAN]
CheckedWrite == [op : {"write"}, pc : {"authorize", "register"}, conn : Conn, path : {Nobody},
                 on : Id \union {None}, again : BOOLEAN, session : Id \union {None},
                 alloc : Alloc \union {Nobody}, fencedAtStart : BOOLEAN, bannedAtStart : BOOLEAN]
PassedWrite == [op : {"write"}, pc : {"commit"}, fencedAtStart : BOOLEAN, bannedAtStart : BOOLEAN]

LEMMA RequestShapes ==
    Requests = [pc : {"idle"}] \union GrantReq \union YieldingWrite \union CheckedWrite \union PassedWrite
BY DEF Requests, GrantReq, YieldingWrite, CheckedWrite, PassedWrite

\* The program counter and the operation tell the shape.
LEMMA ShapeByPc ==
    ASSUME NEW r \in Requests
    PROVE  /\ r.pc = "idle" => r = Idle
           /\ r.pc \in {"yield", "revoke", "wait"} => r \in GrantReq \union YieldingWrite
           /\ r.pc = "install" => r \in GrantReq
           /\ r.pc \in {"authorize", "register"} => r \in CheckedWrite
           /\ r.pc = "commit" => r \in PassedWrite
           /\ r.pc # "idle" /\ r.op = "grant" => r \in GrantReq
           /\ r.pc # "idle" /\ r.op # "grant" => r.op = "write" /\ r \in YieldingWrite \union CheckedWrite \union PassedWrite
<1>1. r \in [pc : {"idle"}] => r.pc = "idle" /\ r = Idle
  BY DEF Idle
<1>2. r \in GrantReq => r.pc \in {"yield", "revoke", "wait", "install"} /\ r.op = "grant"
  BY DEF GrantReq
<1>3. r \in YieldingWrite => r.pc \in {"yield", "revoke", "wait"} /\ r.op = "write"
  BY DEF YieldingWrite
<1>4. r \in CheckedWrite => r.pc \in {"authorize", "register"} /\ r.op = "write"
  BY DEF CheckedWrite
<1>5. r \in PassedWrite => r.pc = "commit" /\ r.op = "write"
  BY DEF PassedWrite
<1> QED
  BY <1>1, <1>2, <1>3, <1>4, <1>5, RequestShapes

LEMMA IdleShape == Idle \in Requests /\ Idle.pc = "idle"
BY RequestShapes DEF Idle

LEMMA EndType ==
    ASSUME req \in [Slot -> Requests], NEW s \in Slot, End(s)
    PROVE  /\ req' \in [Slot -> Requests]
           /\ req'[s] = Idle /\ \A t \in Slot \ {s} : req'[t] = req[t]
BY IdleShape DEF End

LEMMA NextTurnType ==
    ASSUME req \in [Slot -> Requests], NEW s \in Slot, req[s].pc \in {"revoke", "wait"}, NextTurn(s)
    PROVE  /\ req' \in [Slot -> Requests]
           /\ req'[s].pc = "yield" /\ req'[s].op = req[s].op
           /\ req[s].op = "write" =>
                 /\ req'[s].fencedAtStart = req[s].fencedAtStart
                 /\ req'[s].session = req[s].session /\ req'[s].alloc = req[s].alloc
           /\ \A t \in Slot \ {s} : req'[t] = req[t]
<1> DEFINE r == [req[s] EXCEPT !.pc = "yield", !.on = None, !.again = TRUE]
<1>1. req' = [req EXCEPT ![s] = r]
  BY DEF NextTurn
<1>2. req[s] \in GrantReq \union YieldingWrite
  BY ShapeByPc
<1>3. CASE req[s] \in GrantReq
  <2>1. r \in GrantReq /\ r.pc = "yield" /\ r.op = "grant" /\ req[s].op = "grant"
    BY <1>3 DEF GrantReq
  <2> QED
    BY <1>1, <2>1, RequestShapes
<1>4. CASE req[s] \in YieldingWrite
  <2>1. /\ r \in YieldingWrite /\ r.pc = "yield" /\ r.op = "write" /\ req[s].op = "write"
        /\ r.fencedAtStart = req[s].fencedAtStart /\ r.session = req[s].session /\ r.alloc = req[s].alloc
    BY <1>4 DEF YieldingWrite
  <2> QED
    BY <1>1, <2>1, RequestShapes
<1> QED
  BY <1>2, <1>3, <1>4

LEMMA PassType ==
    ASSUME req \in [Slot -> Requests], NEW s \in Slot, req[s].pc \in {"authorize", "register"}, Pass(s)
    PROVE  /\ req' \in [Slot -> Requests]
           /\ req'[s].pc = "commit" /\ req'[s].op = "write" /\ req'[s].fencedAtStart = req[s].fencedAtStart
           /\ \A t \in Slot \ {s} : req'[t] = req[t]
<1>1. req[s] \in CheckedWrite
  BY ShapeByPc
<1> DEFINE r == [op |-> "write", pc |-> "commit", fencedAtStart |-> req[s].fencedAtStart,
                 bannedAtStart |-> req[s].bannedAtStart]
<1>2. r \in PassedWrite /\ r.pc = "commit" /\ r.op = "write" /\ r.fencedAtStart = req[s].fencedAtStart
  BY <1>1 DEF CheckedWrite, PassedWrite
<1>3. req' = [req EXCEPT ![s] = r]
  BY DEF Pass
<1> QED
  BY <1>2, <1>3, RequestShapes

\* A turn of YieldFor's loop.
LEMMA YieldType ==
    ASSUME TypeOK, IndexesAgree, NEW s \in Slot, Yield(s)
    PROVE  /\ req' \in [Slot -> Requests]
           /\ \A t \in Slot \ {s} : req'[t] = req[t]
           /\ req'[s].pc # "idle" /\ req'[s].op = "grant" => req[s].pc # "idle" /\ req[s].op = "grant"
           /\ req'[s].pc # "idle" /\ req'[s].op = "write" =>
                 /\ req[s].pc # "idle" /\ req[s].op = "write" /\ req'[s].pc # "commit"
                 /\ req'[s].fencedAtStart = req[s].fencedAtStart
                 /\ req'[s].session = req[s].session /\ req'[s].alloc = req[s].alloc
           /\ rec' = rec \/ \E i \in byID : rec' = [rec EXCEPT ![i].revoking = TRUE]
<1> DEFINE i == byPath[req[s].path]
           other == HolderOn(req[s].path) \notin {Nobody, Holder(s)}
<1>1. req[s].pc = "yield" /\ req \in [Slot -> Requests] /\ req[s] \in GrantReq \union YieldingWrite
  BY ShapeByPc DEF Yield, TypeOK
<1>2. CASE req[s] \in GrantReq
  <2>1. req[s].path \in Path /\ req[s].op = "grant"
    BY <1>2 DEF GrantReq
  <2>2. CASE ~other
    <3> DEFINE r == [req[s] EXCEPT !.pc = "install"]
    <3>1. r \in GrantReq /\ r.op = "grant"
      BY <1>2 DEF GrantReq
    <3>2. req' = [req EXCEPT ![s] = r] /\ rec' = rec
      BY <2>1, <2>2 DEF Yield, Goto
    <3> QED
      BY <1>1, <2>1, <3>1, <3>2, RequestShapes
  <2>3. CASE other /\ WithinMinHold(i)
    <3>1. End(s) /\ rec' = rec
      BY <2>3 DEF Yield
    <3> QED
      BY <1>1, <3>1, EndType, IdleShape
  <2>4. CASE other /\ ~WithinMinHold(i)
    <3>1. i \in Id /\ i \in byID
      BY <2>1, <2>4 DEF TypeOK, HolderOn, IndexesAgree
    <3> HIDE DEF i
    <3> DEFINE r == [req[s] EXCEPT !.pc = IF rec[i].revoking THEN "wait" ELSE "revoke", !.on = i]
    <3>2. r \in GrantReq /\ r.op = "grant"
      BY <1>2, <3>1 DEF GrantReq
    <3>3. req' = [req EXCEPT ![s] = r] /\ rec' = [rec EXCEPT ![i].revoking = TRUE]
      BY <2>4 DEF Yield, i
    <3> QED
      BY <1>1, <2>1, <3>1, <3>2, <3>3, RequestShapes
  <2> QED
    BY <2>2, <2>3, <2>4
<1>3. CASE req[s] \in YieldingWrite
  <2>1. req[s].path \in Path /\ req[s].op = "write"
    BY <1>3 DEF YieldingWrite
  <2>2. CASE ~other
    <3> DEFINE r == [req[s] EXCEPT !.pc = "authorize", !.path = Nobody, !.again = FALSE]
    <3>1. /\ r \in CheckedWrite /\ r.op = "write" /\ r.pc = "authorize"
          /\ r.fencedAtStart = req[s].fencedAtStart /\ r.session = req[s].session /\ r.alloc = req[s].alloc
      BY <1>3 DEF YieldingWrite, CheckedWrite
    <3>2. req' = [req EXCEPT ![s] = r] /\ rec' = rec
      BY <2>1, <2>2 DEF Yield
    <3> QED
      BY <1>1, <2>1, <3>1, <3>2, RequestShapes
  <2>3. CASE other /\ WithinMinHold(i)
    <3>1. End(s) /\ rec' = rec
      BY <2>3 DEF Yield
    <3> QED
      BY <1>1, <3>1, EndType, IdleShape
  <2>4. CASE other /\ ~WithinMinHold(i)
    <3>1. i \in Id /\ i \in byID
      BY <2>1, <2>4 DEF TypeOK, HolderOn, IndexesAgree
    <3> HIDE DEF i
    <3> DEFINE r == [req[s] EXCEPT !.pc = IF rec[i].revoking THEN "wait" ELSE "revoke", !.on = i]
    <3>2. /\ r \in YieldingWrite /\ r.op = "write" /\ r.pc # "commit"
          /\ r.fencedAtStart = req[s].fencedAtStart /\ r.session = req[s].session /\ r.alloc = req[s].alloc
      BY <1>3, <3>1 DEF YieldingWrite
    <3>3. req' = [req EXCEPT ![s] = r] /\ rec' = [rec EXCEPT ![i].revoking = TRUE]
      BY <2>4 DEF Yield, i
    <3> QED
      BY <1>1, <2>1, <3>1, <3>2, <3>3, RequestShapes
  <2> QED
    BY <2>2, <2>3, <2>4
<1> QED
  BY <1>1, <1>2, <1>3

\* What a request starts as.
LEMMA GrantStartType ==
    ASSUME TypeOK, NEW s \in Slot, NEW c \in open, NEW p \in Path, GrantStart(s, c, p)
    PROVE  /\ req' \in [Slot -> Requests]
           /\ req[s] = Idle /\ req'[s].pc # "idle" /\ req'[s].op = "grant"
           /\ \A t \in Slot \ {s} : req'[t] = req[t]
<1> DEFINE r == [op |-> "grant", pc |-> "yield", conn |-> c, path |-> p, on |-> None, again |-> FALSE]
<1>1. r \in GrantReq /\ r.pc = "yield" /\ r.op = "grant"
  BY DEF GrantReq, TypeOK
<1>2. req[s] = Idle /\ req' = [req EXCEPT ![s] = r]
  BY DEF GrantStart, Start
<1> QED
  BY <1>1, <1>2, RequestShapes DEF TypeOK

LEMMA WriteStartType ==
    ASSUME TypeOK, NEW s \in Slot, NEW c \in Conn, NEW first \in {"yield", "authorize"}, NEW p \in Path \union {Nobody}, NEW sess \in Id \union {None},
           NEW a \in Alloc \union {Nobody}, WriteStart(s, first, c, p, sess, a),
           (first = "yield" /\ p \in Path) \/ (first = "authorize" /\ p = Nobody)
    PROVE  /\ req' \in [Slot -> Requests]
           /\ req[s] = Idle /\ req'[s].op = "write" /\ req'[s].pc = first
           /\ req'[s].fencedAtStart => a \in Alloc /\ sess \in fenced[a] /\ req'[s].session = sess /\ req'[s].alloc = a
           /\ \A t \in Slot \ {s} : req'[t] = req[t]
           /\ UNCHANGED <<index, agentOf, open, issued, registry, server>>
<1> DEFINE f == a \in Alloc /\ sess \in fenced[a]
           b == a \in Alloc /\ sess \in banned[a]
<1>1. f \in BOOLEAN /\ b \in BOOLEAN
  OBVIOUS
<1>2. req[s] = Idle /\ req' = [req EXCEPT ![s] = [op |-> "write", pc |-> first, conn |-> c, path |-> p, on |-> None,
         again |-> FALSE, session |-> sess, alloc |-> a, fencedAtStart |-> f, bannedAtStart |-> b]]
  BY DEF WriteStart, Start
<1>3. f => a \in Alloc /\ sess \in fenced[a]
  OBVIOUS
<1> HIDE DEF f, b
<1> DEFINE r == [op |-> "write", pc |-> first, conn |-> c, path |-> p, on |-> None, again |-> FALSE,
                 session |-> sess, alloc |-> a, fencedAtStart |-> f, bannedAtStart |-> b]
<1>4. r \in YieldingWrite \union CheckedWrite
  BY <1>1 DEF YieldingWrite, CheckedWrite
<1>5. r.op = "write" /\ r.pc = first /\ r.fencedAtStart = f /\ r.session = sess /\ r.alloc = a
  OBVIOUS
<1>6. req' = [req EXCEPT ![s] = r]
  BY <1>2
<1> HIDE DEF r
<1>7. UNCHANGED <<index, agentOf, open, issued, registry, server>>
  BY DEF WriteStart, Start
<1>8. req \in [Slot -> Requests] /\ r \in Requests
  BY <1>4, RequestShapes DEF TypeOK
<1>9. req' \in [Slot -> Requests] /\ req'[s] = r /\ \A t \in Slot \ {s} : req'[t] = req[t]
  BY <1>6, <1>8
<1>10. req'[s].fencedAtStart = f
  BY <1>5, <1>9
<1>11. req'[s].fencedAtStart => a \in Alloc /\ sess \in fenced[a]
  BY <1>3, <1>10
<1> QED
  BY <1>2, <1>5, <1>7, <1>9, <1>11

\* A write of either kind starts like this.
LEMMA AnyWriteStartType ==
    ASSUME TypeOK, NEW s \in Slot, NEW c \in open,
           EditStart(s, c) \/ \E p \in Path : PutStart(s, c, p)
    PROVE  /\ req' \in [Slot -> Requests]
           /\ req[s] = Idle /\ req'[s].op = "write" /\ req'[s].pc \in {"yield", "authorize"}
           /\ req'[s].fencedAtStart =>
                 /\ req'[s].alloc \in Alloc
                 /\ req'[s].session \in fenced[req'[s].alloc]
           /\ \A t \in Slot \ {s} : req'[t] = req[t]
           /\ UNCHANGED <<index, agentOf, open, issued, registry, server>>
<1>1. PICK first \in {"yield", "authorize"}, p \in Path \union {Nobody}, sess \in Id \union {None}, a \in Alloc \union {Nobody} :
         /\ WriteStart(s, first, c, p, sess, a)
         /\ (first = "yield" /\ p \in Path) \/ (first = "authorize" /\ p = Nobody)
  <2>1. SessionsOf(c) \subseteq Id
    BY DEF SessionsOf
  <2> QED
    BY <2>1 DEF EditStart, PutStart
<1>2. c \in Conn
  BY DEF TypeOK
<1> QED
  BY <1>1, <1>2, WriteStartType

-----------------------------------------------------------------------------
(* The indexes.                                                            *)

LEMMA ConstantTypes == /\ TTL \in Nat /\ MinHold \in Nat /\ MaxConn \in Nat /\ MaxId \in Nat
                       /\ NoRec \in Records /\ None \notin Id /\ None \notin Conn
BY LeaseAssumption DEF NoRec, Records, None, Id, Conn

\* removeLocked keeps the indexes in step.
LEMMA RemoveKeeps ==
    ASSUME TypeOK, IndexesAgree, Placed, NEW gone \in SUBSET (Id \union {None}), RemoveLocked(gone)
    PROVE  /\ byPath' \in [Path -> Id \union {None}] /\ byID' \subseteq byID
           /\ rec' \in [Id -> Records] /\ \A i \in Id : rec'[i].expires <= clock + TTL
           /\ byConn' \in [Conn -> SUBSET Id]
           /\ IndexesAgree' /\ Placed'
           /\ \A i \in byID' : rec'[i] = rec[i]
<1> USE ConstantTypes
<1>1. /\ \A i \in Id : rec'[i] = IF i \in gone THEN NoRec ELSE rec[i]
      /\ rec' \in [Id -> Records]
      /\ byID' = byID \ gone
      /\ \A p \in Path : byPath'[p] = IF byPath[p] \in gone THEN None ELSE byPath[p]
      /\ byPath' \in [Path -> Id \union {None}]
      /\ \A c \in Conn : byConn'[c] = byConn[c] \ {i \in gone : rec[i].conn = c}
      /\ byConn' \in [Conn -> SUBSET Id]
  BY DEF RemoveLocked, TypeOK
<1>2. NoRec.expires = 0 /\ clock + TTL \in Nat /\ 0 <= clock + TTL
  BY DEF TypeOK, NoRec
<1>3. \A i \in Id : rec'[i].expires <= clock + TTL
  BY <1>1, <1>2 DEF TypeOK
<1>4. \A i \in byID' : i \in Id /\ i \in byID /\ i \notin gone /\ rec'[i] = rec[i]
  BY <1>1 DEF TypeOK
<1>5. Placed'
  BY <1>4 DEF Placed
<1>6. IndexesAgree'
  <2>1. ASSUME NEW p \in Path, byPath'[p] # None
        PROVE  byPath'[p] \in byID' /\ rec'[byPath'[p]].path = p
    BY <1>1, <1>4, <2>1 DEF IndexesAgree, TypeOK
  <2>2. ASSUME NEW i \in byID' PROVE byPath'[rec'[i].path] = i
    BY <1>1, <1>4 DEF IndexesAgree, Placed
  <2>3. ASSUME NEW i \in Id \ byID' PROVE rec'[i] = NoRec
    BY <1>1 DEF IndexesAgree
  <2>4. ASSUME NEW c \in Conn, NEW i \in Id PROVE i \in byConn'[c] <=> i \in byID' /\ rec'[i].conn = c
    BY <1>1 DEF IndexesAgree
  <2> QED
    BY <2>1, <2>2, <2>3, <2>4 DEF IndexesAgree
<1> QED
  BY <1>1, <1>3, <1>4, <1>5, <1>6

\* A grant draws an id that nothing knows yet.
LEMMA GrantDraws ==
    ASSUME LeaseInv, NEW s \in Slot, req[s].pc = "install"
    PROVE  /\ NextId \in Id /\ NextId \notin IssuedIds /\ NextId \notin byID
           /\ IssuedIds = 1 .. (NextId - 1) /\ NextId + Cardinality(Granting) <= MaxId + 1
           /\ s \in Granting /\ IsFiniteSet(Granting)
<1>1. req[s] \in GrantReq
  BY ShapeByPc DEF LeaseInv, TypeOK
<1>2. s \in Granting
  BY <1>1 DEF Granting, GrantReq
<1>3. IsFiniteSet(Granting) /\ Granting \subseteq Slot
  <2>1. Granting \in SUBSET Slot
    BY DEF Granting
  <2> QED
    BY <2>1, FS_Subset, LeaseAssumption
<1>4. Cardinality(Granting) \in Nat /\ Cardinality(Granting) # 0
  BY <1>2, <1>3, FS_CardinalityType, FS_EmptySet
<1>5. PICK n \in Nat : IssuedIds = 1 .. n /\ n + Cardinality(Granting) <= MaxId
  BY DEF LeaseInv, Room
<1>6. Cardinality(IssuedIds) = n
  BY <1>5, FS_Interval
<1>7. NextId = n + 1
  BY <1>6 DEF NextId, IssuedIds
<1>8. NextId \in Id /\ NextId \notin IssuedIds
  BY <1>4, <1>5, <1>7, ConstantTypes DEF Id
<1> QED
  BY <1>2, <1>3, <1>4, <1>5, <1>7, <1>8, ConstantTypes DEF LeaseInv, Known

\* installLocked keeps the indexes in step, with `old` the lease it replaces.
LEMMA InstallKeeps ==
    ASSUME LeaseInv, NEW s \in Slot, req[s].pc = "install",
           NEW c \in Conn, NEW p \in Path, NEW old, old = byPath[p], InstallLocked(c, p, old)
    PROVE  /\ byPath' \in [Path -> Id \union {None}]
           /\ byID' = (byID \ {old}) \union {NextId} /\ byID' \subseteq Id
           /\ rec' \in [Id -> Records] /\ \A i \in Id : rec'[i].expires <= clock + TTL
           /\ byConn' \in [Conn -> SUBSET Id]
           /\ issued' \in [Id -> [agent : Agent \union {Nobody}, path : Path \union {Nobody}]]
           /\ IssuedIds' = IssuedIds \union {NextId} /\ IssuedIds' = 1 .. NextId
           /\ IndexesAgree' /\ Placed'
           /\ \A i \in byID \intersect byID' : rec'[i] = rec[i]
<1> DEFINE new == NextId
           r == [path |-> p, holder |-> agentOf[c], conn |-> c, granted |-> clock,
                 expires |-> clock + TTL, revoking |-> FALSE]
<1>1. new \in Id /\ new \notin IssuedIds /\ new \notin byID /\ IssuedIds = 1 .. (new - 1) /\ new # old
  BY GrantDraws, ConstantTypes DEF LeaseInv, IndexesAgree
<1>2. TypeOK /\ IndexesAgree /\ Placed
  BY DEF LeaseInv
<1>3. r \in Records /\ r.expires = clock + TTL /\ r.path = p /\ r.conn = c
  BY <1>2, ConstantTypes DEF TypeOK, Records
<1>4. /\ byID' = (byID \ {old}) \union {new}
      /\ rec' = [i \in Id |-> IF i = new THEN r ELSE IF i = old THEN NoRec ELSE rec[i]]
      /\ byPath' = [byPath EXCEPT ![p] = new]
      /\ byConn' = [d \in Conn |-> (byConn[d] \ {old}) \union (IF d = c THEN {new} ELSE {})]
      /\ issued' = [issued EXCEPT ![new] = [agent |-> agentOf[c], path |-> p]]
  BY DEF InstallLocked
<1> HIDE DEF new, r
<1>5. /\ \A i \in Id : rec'[i] = IF i = new THEN r ELSE IF i = old THEN NoRec ELSE rec[i]
      /\ rec' \in [Id -> Records]
  BY <1>2, <1>3, <1>4, ConstantTypes DEF TypeOK
<1>6. /\ byPath' \in [Path -> Id \union {None}]
      /\ byPath'[p] = new /\ \A q \in Path \ {p} : byPath'[q] = byPath[q]
  BY <1>1, <1>2, <1>4 DEF TypeOK
<1>7. /\ \A d \in Conn : byConn'[d] = (byConn[d] \ {old}) \union (IF d = c THEN {new} ELSE {})
      /\ byConn' \in [Conn -> SUBSET Id]
  <2>1. \A d \in Conn : byConn'[d] = (byConn[d] \ {old}) \union (IF d = c THEN {new} ELSE {})
    BY <1>4
  <2>2. ASSUME NEW d \in Conn
        PROVE  (byConn[d] \ {old}) \union (IF d = c THEN {new} ELSE {}) \in SUBSET Id
    BY <1>1, <1>2 DEF TypeOK
  <2> QED
    BY <1>4, <2>1, <2>2
<1>8. byID' \subseteq Id
  BY <1>1, <1>2, <1>4 DEF TypeOK
<1>9. \A i \in Id : rec'[i].expires <= clock + TTL
  <2>1. NoRec.expires = 0 /\ clock + TTL \in Nat
    BY <1>2, ConstantTypes DEF TypeOK, NoRec
  <2> QED
    BY <1>2, <1>3, <1>5, <2>1 DEF TypeOK
<1>10. /\ issued' \in [Id -> [agent : Agent \union {Nobody}, path : Path \union {Nobody}]]
       /\ IssuedIds' = IssuedIds \union {new} /\ IssuedIds' = 1 .. new
  <2> DEFINE u == [agent |-> agentOf[c], path |-> p]
  <2>1. u \in [agent : Agent \union {Nobody}, path : Path \union {Nobody}]
    BY <1>2 DEF TypeOK
  <2>2. u # Unissued
    BY LeaseAssumption DEF Unissued
  <2>3. issued' = [issued EXCEPT ![new] = u]
    BY <1>4
  <2> HIDE DEF u
  <2>4. /\ issued' \in [Id -> [agent : Agent \union {Nobody}, path : Path \union {Nobody}]]
        /\ issued'[new] = u /\ \A i \in Id \ {new} : issued'[i] = issued[i]
    BY <1>1, <1>2, <2>1, <2>3 DEF TypeOK
  <2>5. IssuedIds' = IssuedIds \union {new}
    BY <1>1, <2>2, <2>4 DEF IssuedIds
  <2>6. (1 .. (new - 1)) \union {new} = 1 .. new
    BY <1>1 DEF Id
  <2> QED
    BY <1>1, <2>4, <2>5, <2>6
<1>11. \A i \in byID' : i = new \/ (i \in byID /\ i \in Id /\ i # old /\ i # new /\ rec'[i] = rec[i])
  BY <1>1, <1>2, <1>4, <1>5 DEF TypeOK
<1>12. Placed'
  BY <1>1, <1>2, <1>3, <1>5, <1>11 DEF Placed
<1>13. IndexesAgree'
  <2>1. ASSUME NEW q \in Path, byPath'[q] # None
        PROVE  byPath'[q] \in byID' /\ rec'[byPath'[q]].path = q
    <3>1. CASE q = p
      BY <1>1, <1>3, <1>4, <1>5, <1>6, <3>1
    <3>2. CASE q # p
      <4>1. byPath[q] # None /\ byPath[q] \in byID /\ rec[byPath[q]].path = q
        BY <1>2, <1>6, <2>1, <3>2 DEF IndexesAgree
      <4>2. byPath[q] # old /\ byPath[q] # new
        BY <1>1, <1>2, <3>2, <4>1 DEF IndexesAgree
      <4> QED
        BY <1>4, <1>6, <1>11, <3>2, <4>1, <4>2
    <3> QED
      BY <3>1, <3>2
  <2>2. ASSUME NEW i \in byID' PROVE byPath'[rec'[i].path] = i
    <3>1. CASE i = new
      BY <1>1, <1>3, <1>5, <1>6, <3>1
    <3>2. CASE i # new
      <4>1. i \in byID /\ i # old /\ rec'[i] = rec[i] /\ byPath[rec[i].path] = i /\ rec[i].path \in Path
        BY <1>2, <1>11, <3>2 DEF IndexesAgree, Placed
      <4> QED
        BY <1>6, <4>1
    <3> QED
      BY <3>1, <3>2
  <2>3. ASSUME NEW i \in Id \ byID' PROVE rec'[i] = NoRec
    BY <1>2, <1>4, <1>5 DEF IndexesAgree
  <2>4. ASSUME NEW d \in Conn, NEW i \in Id PROVE i \in byConn'[d] <=> i \in byID' /\ rec'[i].conn = d
    <3>1. CASE i = new
      <4>1. new \notin byConn[d]
        BY <1>1, <1>2 DEF IndexesAgree
      <4>2. new \in byConn'[d] <=> d = c
        BY <1>7, <4>1
      <4> QED
        BY <1>1, <1>3, <1>4, <1>5, <3>1, <4>2
    <3>2. CASE i # new
      <4>1. i \in byConn'[d] <=> i \in byConn[d] /\ i # old
        BY <1>7, <3>2
      <4>2. i \in byConn[d] <=> i \in byID /\ rec[i].conn = d
        BY <1>2 DEF IndexesAgree
      <4> QED
        BY <1>4, <1>5, <3>2, <4>1, <4>2
    <3> QED
      BY <3>1, <3>2
  <2> QED
    BY <2>1, <2>2, <2>3, <2>4 DEF IndexesAgree
<1> QED
  BY <1>1, <1>4, <1>5, <1>6, <1>7, <1>8, <1>9, <1>10, <1>11, <1>12, <1>13 DEF new

\* A lease that stays where it is, with another expiry or revoke flag.
LEMMA TouchKeeps ==
    ASSUME TypeOK, IndexesAgree, Placed, NEW i \in byID, NEW r \in Records,
           r.path = rec[i].path, r.conn = rec[i].conn, r.expires <= clock + TTL,
           rec' = [rec EXCEPT ![i] = r], UNCHANGED <<byPath, byID, byConn>>
    PROVE  /\ rec' \in [Id -> Records] /\ \A j \in Id : rec'[j].expires <= clock + TTL
           /\ IndexesAgree' /\ Placed'
           /\ \A j \in byID : rec'[j].conn = rec[j].conn
<1>1. /\ rec' \in [Id -> Records] /\ i \in Id
      /\ \A j \in Id : rec'[j] = IF j = i THEN r ELSE rec[j]
      /\ byID \subseteq Id
  BY DEF TypeOK
<1>2. \A j \in Id : rec'[j].path = rec[j].path /\ rec'[j].conn = rec[j].conn /\ rec'[j].expires <= clock + TTL
  BY <1>1 DEF TypeOK
<1>3. \A j \in Id \ byID : rec'[j] = rec[j]
  BY <1>1
<1>4. Placed'
  BY <1>1, <1>2 DEF Placed
<1>5. IndexesAgree'
  <2>1. ASSUME NEW p \in Path, byPath'[p] # None PROVE byPath'[p] \in byID' /\ rec'[byPath'[p]].path = p
    BY <1>1, <1>2, <2>1 DEF IndexesAgree
  <2>2. ASSUME NEW j \in byID' PROVE byPath'[rec'[j].path] = j
    BY <1>1, <1>2 DEF IndexesAgree
  <2>3. ASSUME NEW j \in Id \ byID' PROVE rec'[j] = NoRec
    BY <1>3 DEF IndexesAgree
  <2>4. ASSUME NEW c \in Conn, NEW j \in Id PROVE j \in byConn'[c] <=> j \in byID' /\ rec'[j].conn = c
    BY <1>2 DEF IndexesAgree
  <2> QED
    BY <2>1, <2>2, <2>3, <2>4 DEF IndexesAgree
<1> QED
  BY <1>1, <1>2, <1>4, <1>5

\* byConn lists lease i under c and nowhere else, and is otherwise as before.
Moved(i, c) ==
    /\ byConn' \in [Conn -> SUBSET Id]
    /\ \A d \in Conn, j \in Id : j \in byConn'[d] <=> IF j = i THEN d = c ELSE j \in byConn[d]

\* A lease that moves to connection c, in its record and in byConn.
LEMMA MoveKeeps ==
    ASSUME TypeOK, IndexesAgree, Placed, NEW i \in byID, NEW c \in Conn, NEW r \in Records,
           r.path = rec[i].path, r.conn = c, r.expires <= clock + TTL,
           rec' = [rec EXCEPT ![i] = r], UNCHANGED <<byPath, byID>>, Moved(i, c)
    PROVE  /\ rec' \in [Id -> Records] /\ \A j \in Id : rec'[j].expires <= clock + TTL
           /\ IndexesAgree' /\ Placed'
           /\ rec'[i].conn = c /\ \A j \in byID \ {i} : rec'[j] = rec[j]
<1>1. /\ rec' \in [Id -> Records] /\ i \in Id
      /\ \A j \in Id : rec'[j] = IF j = i THEN r ELSE rec[j]
      /\ byID \subseteq Id
  BY DEF TypeOK
<1>2. \A j \in Id : rec'[j].path = rec[j].path /\ rec'[j].expires <= clock + TTL
  BY <1>1 DEF TypeOK
<1>3. \A j \in Id \ byID : rec'[j] = rec[j]
  BY <1>1
<1>4. Placed'
  BY <1>1, <1>2 DEF Placed
<1>5. IndexesAgree'
  <2>1. ASSUME NEW p \in Path, byPath'[p] # None PROVE byPath'[p] \in byID' /\ rec'[byPath'[p]].path = p
    BY <1>1, <1>2, <2>1 DEF IndexesAgree
  <2>2. ASSUME NEW j \in byID' PROVE byPath'[rec'[j].path] = j
    BY <1>1, <1>2 DEF IndexesAgree
  <2>3. ASSUME NEW j \in Id \ byID' PROVE rec'[j] = NoRec
    BY <1>3 DEF IndexesAgree
  <2>4. ASSUME NEW d \in Conn, NEW j \in Id PROVE j \in byConn'[d] <=> j \in byID' /\ rec'[j].conn = d
    BY <1>1 DEF IndexesAgree, Moved
  <2> QED
    BY <2>1, <2>2, <2>3, <2>4 DEF IndexesAgree
<1> QED
  BY <1>1, <1>2, <1>4, <1>5

-----------------------------------------------------------------------------
(* What steps leave alone.                                                 *)

LEMMA SavedFrame ==
    ASSUME LeaseInv, UNCHANGED <<saved, clock>>
    PROVE  SavedBounded' /\ SavedApart' /\ saved' \in [Id -> Records]
BY DEF LeaseInv, TypeOK, SavedBounded, SavedApart

LEMMA RoomFrame ==
    ASSUME LeaseInv, issued' = issued, Granting' \subseteq Granting
    PROVE  Room'
<1>1. Granting \in SUBSET Slot
  BY DEF Granting
<1>2. IsFiniteSet(Granting)
  BY <1>1, FS_Subset, LeaseAssumption
<1>3. IsFiniteSet(Granting') /\ Cardinality(Granting') <= Cardinality(Granting)
  BY <1>2, FS_Subset
<1>4. Cardinality(Granting) \in Nat /\ Cardinality(Granting') \in Nat
  BY <1>2, <1>3, FS_CardinalityType
<1>5. PICK n \in Nat : IssuedIds = 1 .. n /\ n + Cardinality(Granting) <= MaxId
  BY DEF LeaseInv, Room
<1>6. IssuedIds' = 1 .. n
  BY <1>5 DEF IssuedIds
<1>7. n + Cardinality(Granting') <= MaxId
  BY <1>3, <1>4, <1>5, ConstantTypes
<1> QED
  BY <1>6, <1>7 DEF Room

\* A step of one request: it goes idle, stays the same write short of the
\* commit, or is no write.
LEMMA FencedFrame ==
    ASSUME FencedStays, NEW s \in Slot, \A t \in Slot \ {s} : req'[t] = req[t], fenced' = fenced,
           req'[s].pc # "idle" /\ req'[s].op = "write" /\ req'[s].fencedAtStart =>
              /\ req'[s].pc # "commit"
              /\ req'[s].alloc \in Alloc /\ req'[s].session \in fenced[req'[s].alloc]
    PROVE  FencedStays'
BY DEF FencedStays

\* A step that touches neither the leases nor what was handed out.
LEMMA IndexFrame ==
    ASSUME LeaseInv, UNCHANGED <<index, issued, saved, clock>>
    PROVE  /\ SavedBounded' /\ Known' /\ Placed' /\ SavedApart' /\ IndexesAgree'
           /\ byPath' \in [Path -> Id \union {None}] /\ byID' \subseteq Id
           /\ \A i \in Id : rec'[i].expires <= clock' + TTL
           /\ rec' \in [Id -> Records] /\ saved' \in [Id -> Records]
           /\ byConn' \in [Conn -> SUBSET Id]
           /\ issued' \in [Id -> [agent : Agent \union {Nobody}, path : Path \union {Nobody}]]
           /\ clock' \in Nat
BY DEF LeaseInv, TypeOK, index, SavedBounded, Known, Placed, SavedApart, IndexesAgree, IssuedIds

-----------------------------------------------------------------------------
(* Every step keeps the invariant.                                         *)

LEMMA LeaseInit == Init => LeaseInv
<1> SUFFICES ASSUME Init PROVE LeaseInv
  OBVIOUS
<1> USE ConstantTypes
<1>1. TypeOK
  <2>1. \A i \in Id : rec[i].expires <= clock + TTL
    BY DEF Init, NoRec
  <2>2. req \in [Slot -> Requests]
    BY IdleShape DEF Init
  <2>3. issued \in [Id -> [agent : Agent \union {Nobody}, path : Path \union {Nobody}]]
    BY DEF Init, Unissued
  <2> QED
    BY <2>1, <2>2, <2>3 DEF Init, TypeOK
<1>2. IssuedIds = {} /\ Granting = {}
  BY IdleShape DEF Init, IssuedIds, Granting
<1>3. Room
  <2>1. 1 .. 0 = {} /\ Cardinality(Granting) = 0
    BY <1>2, FS_EmptySet
  <2> QED
    BY <1>2, <2>1 DEF Room
<1>4. SavedBounded /\ Known /\ Placed /\ SavedApart /\ IndexesAgree
  <2>1. \A i \in Id : saved[i] = NoRec /\ saved[i].expires = 0
    BY DEF Init, NoRec
  <2>2. clock + TTL \in Nat
    BY DEF Init
  <2>3. SavedBounded /\ SavedApart
    BY <2>1, <2>2 DEF SavedBounded, SavedApart
  <2>4. Known /\ Placed
    BY <2>1 DEF Init, Known, Placed
  <2>5. IndexesAgree
    BY DEF Init, IndexesAgree
  <2> QED
    BY <2>3, <2>4, <2>5
<1>5. FencedStays
  BY IdleShape DEF Init, FencedStays
<1> QED
  BY <1>1, <1>3, <1>4, <1>5 DEF LeaseInv

\* Steps that change connections, requests or the registry only.
LEMMA ConnectKeeps == ASSUME LeaseInv, NEW a \in Agent, Connect(a) PROVE LeaseInv'
<1>1. UNCHANGED <<index, issued, saved, clock, req, fenced>>
  BY DEF Connect, server, registry
<1>2. Room'
  BY <1>1, RoomFrame DEF Granting
<1>3. FencedStays'
  BY <1>1 DEF LeaseInv, FencedStays
<1>4. TypeOK'
  <2>1. agentOf' \in [Conn -> Agent \union {Nobody}] /\ open' \subseteq Conn
    BY DEF LeaseInv, TypeOK, Connect
  <2>2. UNCHANGED <<req, active, fenced, banned, stopping, restarts>>
    BY DEF Connect, registry, server
  <2> QED
    BY <1>1, <2>1, <2>2, IndexFrame DEF LeaseInv, TypeOK
<1> QED
  BY <1>1, <1>2, <1>3, <1>4, IndexFrame DEF LeaseInv

\* A step of request s that leaves all but requests alone.
LEMMA RequestKeeps ==
    ASSUME LeaseInv, NEW s \in Slot, UNCHANGED <<index, agentOf, open, issued, fenced, banned, server>>,
           active' \in [Alloc -> Id \union {None}],
           req' \in [Slot -> Requests], \A t \in Slot \ {s} : req'[t] = req[t],
           req'[s].pc # "idle" /\ req'[s].op = "grant" => req[s].pc # "idle" /\ req[s].op = "grant",
           req'[s].pc # "idle" /\ req'[s].op = "write" /\ req'[s].fencedAtStart =>
              /\ req'[s].pc # "commit"
              /\ req'[s].alloc \in Alloc /\ req'[s].session \in fenced[req'[s].alloc]
    PROVE  LeaseInv'
<1>1. UNCHANGED <<index, issued, saved, clock>>
  BY DEF server
<1>2. Granting' \subseteq Granting
  BY DEF Granting
<1>3. Room' /\ FencedStays'
  BY <1>2, RoomFrame, FencedFrame DEF LeaseInv
<1>4. TypeOK'
  BY <1>1, IndexFrame DEF LeaseInv, TypeOK, server
<1> QED
  BY <1>1, <1>3, <1>4, IndexFrame DEF LeaseInv

LEMMA WriteStartKeeps ==
    ASSUME LeaseInv, NEW s \in Slot, NEW c \in open, EditStart(s, c) \/ \E p \in Path : PutStart(s, c, p)
    PROVE  LeaseInv'
<1>1. TypeOK
  BY DEF LeaseInv
<1>2. /\ req' \in [Slot -> Requests] /\ req'[s].op = "write" /\ req'[s].pc \in {"yield", "authorize"}
      /\ req'[s].fencedAtStart => req'[s].alloc \in Alloc /\ req'[s].session \in fenced[req'[s].alloc]
      /\ \A t \in Slot \ {s} : req'[t] = req[t]
      /\ UNCHANGED <<index, agentOf, open, issued, active, fenced, banned, server>>
  BY <1>1, AnyWriteStartType DEF registry
<1> QED
  BY <1>1, <1>2, RequestKeeps DEF TypeOK

LEMMA WokenKeeps == ASSUME LeaseInv, NEW s \in Slot, Woken(s) PROVE LeaseInv'
<1>1. TypeOK /\ FencedStays
  BY DEF LeaseInv
<1>2. /\ req' \in [Slot -> Requests]
      /\ req'[s].pc = "yield" /\ req'[s].op = req[s].op
      /\ req[s].op = "write" =>
            /\ req'[s].fencedAtStart = req[s].fencedAtStart
            /\ req'[s].session = req[s].session /\ req'[s].alloc = req[s].alloc
      /\ \A t \in Slot \ {s} : req'[t] = req[t]
  BY <1>1, NextTurnType DEF Woken, TypeOK
<1>3. UNCHANGED <<index, agentOf, open, issued, active, fenced, banned, server>> /\ req[s].pc # "idle"
  BY DEF Woken, registry
<1> QED
  BY <1>1, <1>2, <1>3, RequestKeeps DEF TypeOK, FencedStays

LEMMA EndKeeps ==
    ASSUME LeaseInv, NEW s \in Slot, End(s), UNCHANGED <<index, agentOf, open, issued, registry, server>>
    PROVE  LeaseInv'
<1>1. /\ req' \in [Slot -> Requests] /\ req'[s] = Idle
      /\ \A t \in Slot \ {s} : req'[t] = req[t]
  BY EndType DEF LeaseInv, TypeOK
<1> QED
  BY <1>1, IdleShape, RequestKeeps DEF LeaseInv, TypeOK, registry

LEMMA RegisterKeeps == ASSUME LeaseInv, NEW s \in Slot, Register(s) PROVE LeaseInv'
<1>1. TypeOK /\ FencedStays
  BY DEF LeaseInv
<1>2. req[s] \in CheckedWrite /\ req[s].pc = "register"
  BY <1>1, ShapeByPc DEF Register, TypeOK
<1>3. UNCHANGED <<index, agentOf, open, issued, fenced, banned, server>>
  BY DEF Register
<1>4. CASE Barred(req[s].session, req[s].alloc)
  <2>1. End(s) /\ active' = active
    BY <1>4 DEF Register
  <2> QED
    BY <1>3, <2>1, EndKeeps DEF registry
<1>5. CASE ~Barred(req[s].session, req[s].alloc)
  <2>1. Pass(s) /\ active' = [active EXCEPT ![req[s].alloc] = req[s].session]
    BY <1>5 DEF Register
  <2>2. req[s].op = "write" /\ req[s].session \in Id \union {None}
    BY <1>2 DEF CheckedWrite
  <2>3. /\ req' \in [Slot -> Requests]
        /\ req'[s].pc = "commit" /\ req'[s].op = "write" /\ req'[s].fencedAtStart = req[s].fencedAtStart
        /\ \A t \in Slot \ {s} : req'[t] = req[t]
    BY <1>1, <1>2, <2>1, PassType DEF TypeOK
  <2>4. ~req[s].fencedAtStart
    BY <1>1, <1>2, <1>5, <2>2, LeaseAssumption DEF FencedStays, Barred
  <2>5. active' \in [Alloc -> Id \union {None}]
    BY <1>1, <2>1, <2>2 DEF TypeOK
  <2> QED
    BY <1>3, <2>3, <2>4, <2>5, RequestKeeps
<1> QED
  BY <1>4, <1>5

LEMMA ClearKeeps == ASSUME LeaseInv, NEW a \in Alloc, Clear(a) PROVE LeaseInv'
<1>1. UNCHANGED <<index, agentOf, open, issued, req, saved, clock, stopping, restarts>>
  BY DEF Clear, server
<1>2. TypeOK /\ FencedStays
  BY DEF LeaseInv
<1>3. /\ active' \in [Alloc -> Id \union {None}] /\ fenced' \in [Alloc -> SUBSET Id]
      /\ banned' \in [Alloc -> SUBSET Id] /\ \A b \in Alloc : fenced[b] \subseteq fenced'[b]
  <2>1. active[a] \in Id
    BY <1>2 DEF Clear, TypeOK
  <2> QED
    BY <1>2, <2>1 DEF Clear, TypeOK
<1>4. TypeOK'
  BY <1>1, <1>2, <1>3, IndexFrame DEF TypeOK
<1>5. FencedStays'
  BY <1>1, <1>2, <1>3 DEF FencedStays
<1>6. Room'
  BY <1>1, RoomFrame DEF Granting
<1> QED
  BY <1>1, <1>4, <1>5, <1>6, IndexFrame DEF LeaseInv

\* A grant starts only while an id is left for it.
LEMMA GrantStartKeeps ==
    ASSUME LeaseInv, NEW s \in Slot, NEW c \in open, NEW p \in Path, GrantStart(s, c, p)
    PROVE  LeaseInv'
<1>1. TypeOK /\ FencedStays
  BY DEF LeaseInv
<1>2. /\ req' \in [Slot -> Requests]
      /\ req[s] = Idle /\ req'[s].pc # "idle" /\ req'[s].op = "grant"
      /\ \A t \in Slot \ {s} : req'[t] = req[t]
  BY <1>1, GrantStartType
<1>3. UNCHANGED <<index, agentOf, open, issued, registry, server>>
  BY DEF GrantStart, Start
<1>4. FencedStays'
  BY <1>1, <1>2, <1>3, FencedFrame DEF registry
<1>5. Granting' = Granting \union {s} /\ s \notin Granting
  BY <1>2, IdleShape DEF Granting
<1>6. Room'
  <2>1. Granting \in SUBSET Slot
    BY DEF Granting
  <2>2. IsFiniteSet(Granting)
    BY <2>1, FS_Subset, LeaseAssumption
  <2>3. Cardinality(Granting') = Cardinality(Granting) + 1 /\ Cardinality(Granting) \in Nat
    BY <1>5, <2>2, FS_AddElement, FS_CardinalityType
  <2>4. PICK n \in Nat : IssuedIds = 1 .. n
    BY DEF LeaseInv, Room
  <2>5. NextId = n + 1
    <3>1. Cardinality(IssuedIds) = n
      BY <2>4, FS_Interval
    <3> QED
      BY <3>1 DEF NextId, IssuedIds
  <2>6. NextId + Cardinality(Granting) <= MaxId
    BY DEF GrantStart, Granting
  <2>7. IssuedIds' = 1 .. n
    BY <1>3, <2>4 DEF IssuedIds
  <2>8. n + Cardinality(Granting') <= MaxId
    BY <2>3, <2>5, <2>6, ConstantTypes
  <2> QED
    BY <2>7, <2>8 DEF Room
<1>7. UNCHANGED <<index, issued, saved, clock>>
  BY <1>3 DEF server
<1>8. TypeOK'
  BY <1>1, <1>2, <1>3, <1>7, IndexFrame DEF TypeOK, registry, server
<1> QED
  BY <1>4, <1>6, <1>7, <1>8, IndexFrame DEF LeaseInv

\* A step that removes leases and moves at most request s, to a further turn.
LEMMA RemoveStepKeeps ==
    ASSUME LeaseInv, NEW gone \in SUBSET (Id \union {None}), RemoveLocked(gone),
           UNCHANGED <<agentOf, issued, registry, server>>, open' \subseteq Conn,
           req' \in [Slot -> Requests], Granting' \subseteq Granting, FencedStays'
    PROVE  LeaseInv'
<1>1. TypeOK /\ IndexesAgree /\ Placed /\ Known
  BY DEF LeaseInv
<1>2. /\ byPath' \in [Path -> Id \union {None}] /\ byID' \subseteq byID
      /\ rec' \in [Id -> Records] /\ \A i \in Id : rec'[i].expires <= clock + TTL
      /\ byConn' \in [Conn -> SUBSET Id]
      /\ IndexesAgree' /\ Placed'
  BY <1>1, RemoveKeeps
<1>3. UNCHANGED <<saved, clock>>
  BY DEF server
<1>4. TypeOK'
  BY <1>1, <1>2, <1>3 DEF TypeOK, registry, server
<1>5. Room'
  BY RoomFrame
<1>6. Known'
  BY <1>1, <1>2, <1>3 DEF Known, IssuedIds
<1> QED
  BY <1>2, <1>3, <1>4, <1>5, <1>6, SavedFrame DEF LeaseInv

LEMMA RemoveOnlyKeeps ==
    ASSUME LeaseInv, NEW gone \in SUBSET Id, RemoveLocked(gone),
           UNCHANGED <<agentOf, issued, req, registry, server>>, open' \subseteq open
    PROVE  LeaseInv'
<1>1. FencedStays' /\ Granting' \subseteq Granting
  BY DEF LeaseInv, FencedStays, Granting, registry
<1>2. req' \in [Slot -> Requests] /\ open' \subseteq Conn
  BY DEF LeaseInv, TypeOK
<1> QED
  BY <1>1, <1>2, RemoveStepKeeps

LEMMA EvictKeeps == ASSUME LeaseInv, NEW s \in Slot, Evict(s) PROVE LeaseInv'
<1>1. TypeOK /\ FencedStays /\ req[s].pc = "revoke"
  BY DEF LeaseInv, Evict
<1>2. /\ req' \in [Slot -> Requests]
      /\ req'[s].pc = "yield" /\ req'[s].op = req[s].op
      /\ req[s].op = "write" =>
            /\ req'[s].fencedAtStart = req[s].fencedAtStart
            /\ req'[s].session = req[s].session /\ req'[s].alloc = req[s].alloc
      /\ \A t \in Slot \ {s} : req'[t] = req[t]
  BY <1>1, NextTurnType DEF Evict, TypeOK
<1>3. fenced' = fenced
  BY DEF Evict, registry
<1>4. FencedStays'
  BY <1>1, <1>2, <1>3, FencedFrame DEF FencedStays
<1>5. Granting' \subseteq Granting
  BY <1>1, <1>2 DEF Granting
<1> DEFINE gone == {req[s].on} \intersect {byPath[req[s].path]}
<1>6. gone \in SUBSET (Id \union {None})
  <2>1. req[s] \in GrantReq \union YieldingWrite
    BY <1>1, ShapeByPc DEF TypeOK
  <2>2. req[s].on \in Id \union {None}
    BY <2>1 DEF GrantReq, YieldingWrite
  <2> QED
    BY <2>2
<1>7. RemoveLocked(gone) /\ UNCHANGED <<agentOf, issued, registry, server>> /\ open' \subseteq Conn
  BY <1>1 DEF Evict, TypeOK
<1> QED
  BY <1>2, <1>4, <1>5, <1>6, <1>7, RemoveStepKeeps

\* A step that changes records but neither the paths nor the ids.
LEMMA RecordStepKeeps ==
    ASSUME LeaseInv, UNCHANGED <<byPath, byID, agentOf, open, issued, registry, server>>,
           rec' \in [Id -> Records], \A i \in Id : rec'[i].expires <= clock + TTL,
           byConn' \in [Conn -> SUBSET Id], IndexesAgree', Placed',
           req' \in [Slot -> Requests], Granting' \subseteq Granting, FencedStays'
    PROVE  LeaseInv'
<1>1. UNCHANGED <<saved, clock>>
  BY DEF server
<1>2. TypeOK'
  BY <1>1 DEF LeaseInv, TypeOK, registry, server
<1>3. Room'
  BY RoomFrame
<1>4. Known'
  BY <1>1 DEF LeaseInv, Known, IssuedIds
<1> QED
  BY <1>1, <1>2, <1>3, <1>4, SavedFrame DEF LeaseInv

LEMMA YieldKeeps == ASSUME LeaseInv, NEW s \in Slot, Yield(s) PROVE LeaseInv'
<1>1. TypeOK /\ IndexesAgree /\ Placed /\ FencedStays
  BY DEF LeaseInv
<1>2. UNCHANGED <<byPath, byID, byConn, agentOf, open, issued, registry, server>>
  BY DEF Yield
<1>3. /\ req' \in [Slot -> Requests]
      /\ \A t \in Slot \ {s} : req'[t] = req[t]
      /\ req'[s].pc # "idle" /\ req'[s].op = "grant" => req[s].pc # "idle" /\ req[s].op = "grant"
      /\ req'[s].pc # "idle" /\ req'[s].op = "write" =>
            /\ req[s].pc # "idle" /\ req[s].op = "write" /\ req'[s].pc # "commit"
            /\ req'[s].fencedAtStart = req[s].fencedAtStart
            /\ req'[s].session = req[s].session /\ req'[s].alloc = req[s].alloc
  BY <1>1, YieldType
<1>4. Granting' \subseteq Granting
  BY <1>3 DEF Granting
<1>5. FencedStays'
  BY <1>1, <1>2, <1>3, FencedFrame DEF FencedStays, registry
<1>6. CASE rec' = rec
  <2>1. IndexesAgree' /\ Placed'
    BY <1>1, <1>2, <1>6 DEF IndexesAgree, Placed
  <2> QED
    BY <1>1, <1>2, <1>3, <1>4, <1>5, <1>6, <2>1, RecordStepKeeps DEF TypeOK
<1>7. ASSUME NEW i \in byID, rec' = [rec EXCEPT ![i].revoking = TRUE] PROVE LeaseInv'
  <2> DEFINE r == [rec[i] EXCEPT !.revoking = TRUE]
  <2>1. rec[i] \in Records /\ rec[i].expires <= clock + TTL
    BY <1>1 DEF TypeOK
  <2>2. r \in Records /\ r.path = rec[i].path /\ r.conn = rec[i].conn /\ r.expires <= clock + TTL
    BY <2>1 DEF Records
  <2>3. rec' = [rec EXCEPT ![i] = r]
    BY <1>7
  <2> HIDE DEF r
  <2>4. /\ rec' \in [Id -> Records] /\ \A j \in Id : rec'[j].expires <= clock + TTL
        /\ IndexesAgree' /\ Placed'
    BY <1>1, <1>2, <2>2, <2>3, TouchKeeps
  <2> QED
    BY <1>1, <1>2, <1>3, <1>4, <1>5, <2>4, RecordStepKeeps DEF TypeOK
<1> QED
  BY <1>1, <1>6, <1>7, YieldType

LEMMA RefreshKeeps == ASSUME LeaseInv, NEW c \in Conn, NEW i \in Id, Refresh(c, i) PROVE LeaseInv'
<1>1. TypeOK /\ IndexesAgree /\ Placed /\ FencedStays
  BY DEF LeaseInv
<1>2. UNCHANGED <<byPath, byID, byConn, agentOf, open, issued, req, registry, server>> /\ i \in byID
  BY DEF Refresh
<1> DEFINE r == [rec[i] EXCEPT !.expires = clock + TTL]
<1>3. rec[i] \in Records /\ clock + TTL \in Nat
  BY <1>1, ConstantTypes DEF TypeOK
<1>4. r \in Records /\ r.path = rec[i].path /\ r.conn = rec[i].conn /\ r.expires <= clock + TTL
  BY <1>3 DEF Records
<1>5. rec' = [rec EXCEPT ![i] = r]
  BY DEF Refresh, Renewed
<1> HIDE DEF r
<1>6. /\ rec' \in [Id -> Records] /\ \A j \in Id : rec'[j].expires <= clock + TTL
      /\ IndexesAgree' /\ Placed'
  BY <1>1, <1>2, <1>4, <1>5, TouchKeeps
<1>7. Granting' \subseteq Granting /\ FencedStays'
  BY <1>1, <1>2 DEF Granting, FencedStays, registry
<1> QED
  BY <1>1, <1>2, <1>6, <1>7, RecordStepKeeps DEF TypeOK

\* A grant that ends the request s, however it ends.
LEMMA GrantEnds ==
    ASSUME LeaseInv, NEW s \in Slot, req[s].pc = "install", End(s), fenced' = fenced
    PROVE  /\ req' \in [Slot -> Requests] /\ FencedStays'
           /\ Granting' = Granting \ {s}
<1>1. TypeOK /\ FencedStays
  BY DEF LeaseInv
<1>2. /\ req' \in [Slot -> Requests] /\ req'[s] = Idle
      /\ \A t \in Slot \ {s} : req'[t] = req[t]
  BY <1>1, EndType DEF TypeOK
<1>3. FencedStays'
  BY <1>1, <1>2, IdleShape, FencedFrame
<1>4. Granting' = Granting \ {s}
  BY <1>2, IdleShape DEF Granting
<1> QED
  BY <1>2, <1>3, <1>4

\* Grant puts a fresh lease in the place of `old`.
LEMMA GrantInstalls ==
    ASSUME LeaseInv, NEW s \in Slot, req[s].pc = "install",
           InstallLocked(req[s].conn, req[s].path, byPath[req[s].path]), End(s),
           UNCHANGED <<agentOf, open, registry, server>>
    PROVE  LeaseInv'
<1>1. TypeOK /\ Known
  BY DEF LeaseInv
<1>2. req[s] \in GrantReq
  BY <1>1, ShapeByPc DEF TypeOK
<1>3. req[s].conn \in Conn /\ req[s].path \in Path
  BY <1>2 DEF GrantReq
<1>4. /\ byPath' \in [Path -> Id \union {None}]
      /\ byID' = (byID \ {byPath[req[s].path]}) \union {NextId} /\ byID' \subseteq Id
      /\ rec' \in [Id -> Records] /\ \A i \in Id : rec'[i].expires <= clock + TTL
      /\ byConn' \in [Conn -> SUBSET Id]
      /\ issued' \in [Id -> [agent : Agent \union {Nobody}, path : Path \union {Nobody}]]
      /\ IssuedIds' = IssuedIds \union {NextId} /\ IssuedIds' = 1 .. NextId
      /\ IndexesAgree' /\ Placed'
  BY <1>3, InstallKeeps
<1>5. /\ NextId \in Id /\ NextId + Cardinality(Granting) <= MaxId + 1
      /\ s \in Granting /\ IsFiniteSet(Granting)
  BY GrantDraws
<1>6. req' \in [Slot -> Requests] /\ FencedStays' /\ Granting' = Granting \ {s}
  BY GrantEnds DEF registry
<1>7. UNCHANGED <<saved, clock>>
  BY DEF server
<1>8. TypeOK'
  BY <1>1, <1>4, <1>6, <1>7 DEF TypeOK, registry, server
<1>9. Room'
  <2>1. Cardinality(Granting') = Cardinality(Granting) - 1 /\ Cardinality(Granting) \in Nat
    BY <1>5, <1>6, FS_RemoveElement, FS_CardinalityType
  <2>2. NextId \in Nat /\ NextId + Cardinality(Granting') <= MaxId
    BY <1>5, <2>1, ConstantTypes DEF Id
  <2> QED
    BY <1>4, <2>2 DEF Room
<1>10. Known'
  BY <1>1, <1>4, <1>7 DEF Known
<1> QED
  BY <1>4, <1>6, <1>7, <1>8, <1>9, <1>10, SavedFrame DEF LeaseInv

\* A record bound to c that expires at e.
Bound(r, c, e) == [r EXCEPT !.conn = c, !.expires = e]

LEMMA BoundType ==
    ASSUME NEW r \in Records, NEW c \in Conn, NEW e \in Nat
    PROVE  /\ Bound(r, c, e) \in Records
           /\ Bound(r, c, e).path = r.path /\ Bound(r, c, e).conn = c /\ Bound(r, c, e).expires = e
BY DEF Records, Bound

\* Where byConn had the lease on c or nowhere, adding it is moving it.
LEMMA AddIsMove ==
    ASSUME TypeOK, IndexesAgree, NEW i \in byID, NEW c \in Conn, rec[i].conn \in {c, None},
           byConn' = [byConn EXCEPT ![c] = @ \union {i}]
    PROVE  Moved(i, c)
<1>1. i \in Id /\ byConn \in [Conn -> SUBSET Id]
  BY DEF TypeOK
<1>2. ASSUME NEW d \in Conn, d # c PROVE i \notin byConn[d]
  BY <1>1, <1>2, ConstantTypes DEF IndexesAgree
<1>3. /\ byConn' \in [Conn -> SUBSET Id]
      /\ \A d \in Conn : byConn'[d] = IF d = c THEN byConn[d] \union {i} ELSE byConn[d]
  BY <1>1
<1> QED
  BY <1>2, <1>3 DEF Moved

\* Grant renews the lease of the same holder, on its connection or restored.
LEMMA RenewKeeps ==
    ASSUME TypeOK, IndexesAgree, Placed, NEW i \in byID, NEW c \in Conn
    PROVE  /\ rec[i].conn \in {c, None}
           /\ rec' = [rec EXCEPT ![i].conn = c, ![i].expires = Renewed(i)]
           /\ byConn' = [byConn EXCEPT ![c] = @ \union {i}]
           /\ UNCHANGED <<byPath, byID>>
           =>
           /\ rec' \in [Id -> Records] /\ \A j \in Id : rec'[j].expires <= clock + TTL
           /\ byConn' \in [Conn -> SUBSET Id]
           /\ IndexesAgree' /\ Placed'
           /\ rec'[i].conn = c /\ \A j \in byID \ {i} : rec'[j] = rec[j]
<1>1. PICK e \in Nat : e = clock + TTL
  BY ConstantTypes DEF TypeOK
<1>2. PICK r \in Records : r = Bound(rec[i], c, e) /\ r.path = rec[i].path /\ r.conn = c /\ r.expires = e
  <2>1. rec[i] \in Records
    BY DEF TypeOK
  <2> QED
    BY <2>1, BoundType
<1>3. r.expires <= clock + TTL
  BY <1>1, <1>2
<1>4. rec[i].conn \in {c, None} /\ byConn' = [byConn EXCEPT ![c] = @ \union {i}] => Moved(i, c)
  BY AddIsMove
<1>5. rec' = [rec EXCEPT ![i].conn = c, ![i].expires = Renewed(i)] => rec' = [rec EXCEPT ![i] = r]
  BY <1>1, <1>2 DEF Renewed, Bound
<1>6. Moved(i, c) => byConn' \in [Conn -> SUBSET Id]
  BY DEF Moved
<1> QED
  BY ZenonT(60), <1>2, <1>3, <1>4, <1>5, <1>6, MoveKeeps

LEMMA GrantKeeps == ASSUME LeaseInv, NEW s \in Slot, Grant(s) PROVE LeaseInv'
<1>1. TypeOK /\ IndexesAgree /\ Placed /\ FencedStays /\ req[s].pc = "install"
  BY DEF LeaseInv, Grant
<1>2. req[s] \in GrantReq
  BY <1>1, ShapeByPc DEF TypeOK
<1>3. PICK c \in Conn, p \in Path : c = req[s].conn /\ p = req[s].path
  BY <1>2 DEF GrantReq
<1>4. PICK i : i = byPath[p]
  OBVIOUS
<1>5. UNCHANGED <<agentOf, open, registry, server>>
  BY DEF Grant
<1>6. CASE i = None /\ InstallLocked(c, p, None) /\ End(s)
  BY <1>1, <1>3, <1>4, <1>5, <1>6, GrantInstalls
<1>7. CASE i # None /\ InstallLocked(c, p, i) /\ End(s)
  BY <1>1, <1>3, <1>4, <1>5, <1>7, GrantInstalls
<1>8. CASE /\ i # None /\ rec[i].conn \in {c, None}
           /\ rec' = [rec EXCEPT ![i].conn = c, ![i].expires = Renewed(i)]
           /\ byConn' = [byConn EXCEPT ![c] = @ \union {i}]
           /\ End(s)
           /\ UNCHANGED <<byPath, byID, issued>>
  <2>1. i \in byID
    BY <1>1, <1>4, <1>8 DEF IndexesAgree
  <2>2. /\ rec' \in [Id -> Records] /\ \A j \in Id : rec'[j].expires <= clock + TTL
        /\ byConn' \in [Conn -> SUBSET Id]
        /\ IndexesAgree' /\ Placed'
    BY <1>1, <1>8, <2>1, RenewKeeps
  <2>3. req' \in [Slot -> Requests] /\ FencedStays' /\ Granting' \subseteq Granting
    BY <1>1, <1>5, <1>8, GrantEnds DEF registry
  <2> QED
    BY <1>5, <1>8, <2>2, <2>3, RecordStepKeeps
<1>9. CASE Goto(s, "yield") /\ UNCHANGED <<index, issued>>
  <2> DEFINE r == [req[s] EXCEPT !.pc = "yield"]
  <2>1. r \in GrantReq /\ r.op = "grant" /\ req[s].op = "grant"
    BY <1>2 DEF GrantReq
  <2>2. req' = [req EXCEPT ![s] = r]
    BY <1>9 DEF Goto
  <2> HIDE DEF r
  <2>3. /\ req' \in [Slot -> Requests] /\ req'[s].op = "grant"
        /\ \A t \in Slot \ {s} : req'[t] = req[t]
    BY <1>1, <2>1, <2>2, RequestShapes DEF TypeOK
  <2> QED
    BY <1>1, <1>5, <1>9, <2>1, <2>3, RequestKeeps DEF TypeOK, registry
<1> QED
  BY SMTT(30), <1>3, <1>4, <1>6, <1>7, <1>8, <1>9 DEF Grant

\* AuthorizeOrRebindSession moves the session to the asking connection.
LEMMA RebindKeeps ==
    ASSUME TypeOK, IndexesAgree, Placed, NEW i \in byID, NEW c \in Conn
    PROVE  /\ rec' = [rec EXCEPT ![i].conn = c]
           /\ byConn' = IF rec[i].conn = c THEN byConn ELSE Rebound(i, c)
           /\ UNCHANGED <<byPath, byID>>
           =>
           /\ rec' \in [Id -> Records] /\ \A j \in Id : rec'[j].expires <= clock + TTL
           /\ byConn' \in [Conn -> SUBSET Id]
           /\ IndexesAgree' /\ Placed'
           /\ rec'[i].conn = c /\ \A j \in byID \ {i} : rec'[j] = rec[j]
<1>1. i \in Id /\ rec[i] \in Records /\ rec[i].expires <= clock + TTL /\ byConn \in [Conn -> SUBSET Id]
  BY DEF TypeOK
<1> DEFINE r == [rec[i] EXCEPT !.conn = c]
<1>2. r \in Records /\ r.path = rec[i].path /\ r.conn = c /\ r.expires <= clock + TTL
  BY <1>1 DEF Records
<1>3. rec' = [rec EXCEPT ![i].conn = c] => rec' = [rec EXCEPT ![i] = r]
  OBVIOUS
<1> HIDE DEF r
<1>4. rec[i].conn = c /\ byConn' = byConn => Moved(i, c)
  BY <1>1 DEF Moved, IndexesAgree
<1>5. ASSUME byConn' = Rebound(i, c) PROVE Moved(i, c)
  <2>1. Without(i) \in [Conn -> SUBSET Id] /\ \A d \in Conn : Without(i)[d] = byConn[d] \ {i}
    BY <1>1 DEF Without
  <2>2. /\ byConn' \in [Conn -> SUBSET Id]
        /\ \A d \in Conn : byConn'[d] = IF d = c THEN Without(i)[d] \union {i} ELSE Without(i)[d]
    BY <1>1, <1>5, <2>1 DEF Rebound
  <2> QED
    BY <2>1, <2>2 DEF Moved
<1>6. Moved(i, c) => byConn' \in [Conn -> SUBSET Id]
  BY DEF Moved
<1> SUFFICES ASSUME rec' = [rec EXCEPT ![i].conn = c],
                    byConn' = IF rec[i].conn = c THEN byConn ELSE Rebound(i, c),
                    UNCHANGED <<byPath, byID>>
             PROVE  /\ rec' \in [Id -> Records] /\ \A j \in Id : rec'[j].expires <= clock + TTL
                    /\ byConn' \in [Conn -> SUBSET Id]
                    /\ IndexesAgree' /\ Placed'
                    /\ rec'[i].conn = c /\ \A j \in byID \ {i} : rec'[j] = rec[j]
  OBVIOUS
<1>7. Moved(i, c)
  BY <1>4, <1>5
<1>8. rec' = [rec EXCEPT ![i] = r]
  BY <1>3
<1> QED
  BY ZenonT(60), <1>2, <1>6, <1>7, <1>8, MoveKeeps

LEMMA AuthorizeKeeps == ASSUME LeaseInv, NEW s \in Slot, Authorize(s) PROVE LeaseInv'
<1>1. TypeOK /\ IndexesAgree /\ Placed /\ FencedStays /\ req[s].pc = "authorize"
  BY DEF LeaseInv, Authorize
<1>2. req[s] \in CheckedWrite
  BY <1>1, ShapeByPc DEF TypeOK
<1>3. PICK c \in Conn, i \in Id \union {None} : c = req[s].conn /\ i = req[s].session
  BY <1>2 DEF CheckedWrite
<1>4. UNCHANGED <<byPath, byID, agentOf, open, issued, registry, server>>
  BY DEF Authorize
<1>5. CASE i = None /\ Pass(s) /\ UNCHANGED <<rec, byConn>>
  <2>1. /\ req' \in [Slot -> Requests]
        /\ req'[s].pc = "commit" /\ req'[s].op = "write" /\ req'[s].fencedAtStart = req[s].fencedAtStart
        /\ \A t \in Slot \ {s} : req'[t] = req[t]
    BY <1>1, <1>5, PassType DEF TypeOK
  <2>2. ~req[s].fencedAtStart
    <3>1. req[s].op = "write" /\ req[s].pc # "idle"
      BY <1>1, <1>2 DEF CheckedWrite
    <3>2. req[s].alloc \in Alloc => None \notin fenced[req[s].alloc]
      BY <1>1, ConstantTypes DEF TypeOK
    <3> QED
      BY <1>1, <1>3, <1>5, <3>1, <3>2 DEF FencedStays
  <2> QED
    BY <1>1, <1>4, <1>5, <2>1, <2>2, RequestKeeps DEF TypeOK, registry, index
<1>6. CASE i # None /\ End(s) /\ UNCHANGED <<rec, byConn>>
  BY <1>4, <1>6, EndKeeps DEF index
<1>7. CASE /\ i # None /\ Live(i)
           /\ rec' = [rec EXCEPT ![i].conn = c]
           /\ byConn' = IF rec[i].conn = c THEN byConn ELSE Rebound(i, c)
           /\ Goto(s, "register")
  <2>1. i \in byID
    BY <1>7 DEF Live
  <2>2. /\ rec' \in [Id -> Records] /\ \A j \in Id : rec'[j].expires <= clock + TTL
        /\ byConn' \in [Conn -> SUBSET Id]
        /\ IndexesAgree' /\ Placed'
    BY <1>1, <1>4, <1>7, <2>1, RebindKeeps
  <2> DEFINE r == [req[s] EXCEPT !.pc = "register"]
  <2>3. /\ r \in CheckedWrite /\ r.pc = "register" /\ r.op = "write" /\ req[s].op = "write"
        /\ r.fencedAtStart = req[s].fencedAtStart /\ r.session = req[s].session /\ r.alloc = req[s].alloc
    BY <1>2 DEF CheckedWrite
  <2>4. req' = [req EXCEPT ![s] = r]
    BY <1>7 DEF Goto
  <2> HIDE DEF r
  <2>5. req' \in [Slot -> Requests] /\ req'[s] = r /\ \A t \in Slot \ {s} : req'[t] = req[t]
    BY <1>1, <2>3, <2>4, RequestShapes DEF TypeOK
  <2>6. FencedStays'
    <3>1. req[s].fencedAtStart => req[s].alloc \in Alloc /\ req[s].session \in fenced[req[s].alloc]
      BY <1>1, <2>3 DEF FencedStays
    <3>2. fenced' = fenced
      BY <1>4 DEF registry
    <3> QED
      BY <1>1, <2>3, <2>5, <3>1, <3>2, FencedFrame
  <2>7. Granting' \subseteq Granting
    BY <2>3, <2>5 DEF Granting
  <2> QED
    BY <1>4, <2>2, <2>5, <2>6, <2>7, RecordStepKeeps
<1> QED
  BY <1>3, <1>5, <1>6, <1>7 DEF Authorize

\* The snapshot takes over what the indexes guarantee.
LEMMA SnapshotKeeps == ASSUME LeaseInv, Snapshot PROVE LeaseInv'
<1>1. TypeOK /\ IndexesAgree /\ Placed /\ Known
  BY DEF LeaseInv
<1>2. saved' = rec /\ UNCHANGED <<index, agentOf, open, issued, req, registry, restarts, clock>> /\ stopping' = TRUE
  BY DEF Snapshot
<1>3. \A i \in Id : rec[i] # NoRec => i \in byID
  BY <1>1 DEF IndexesAgree
<1>4. SavedApart'
  BY <1>1, <1>2, <1>3 DEF SavedApart, IndexesAgree, Placed
<1>5. SavedBounded'
  BY <1>1, <1>2 DEF SavedBounded, TypeOK
<1>6. Known'
  BY <1>1, <1>2, <1>3 DEF Known, IssuedIds, index
<1>7. TypeOK'
  BY <1>1, <1>2 DEF TypeOK, index, registry
<1>8. Room'
  BY <1>2, RoomFrame DEF Granting
<1>9. Placed' /\ IndexesAgree' /\ FencedStays'
  BY <1>2 DEF LeaseInv, Placed, IndexesAgree, FencedStays, index, registry
<1> QED
  BY <1>4, <1>5, <1>6, <1>7, <1>8, <1>9 DEF LeaseInv

\* A restart rebuilds the indexes from the snapshot, which has one lease per
\* path: the path index is determined.
LEMMA RestartKeeps == ASSUME LeaseInv, Restart PROVE LeaseInv'
<1>1. TypeOK /\ Known /\ SavedApart /\ SavedBounded
  BY DEF LeaseInv
<1>2. PICK f \in [Path -> Restored \union {None}] :
         /\ \A p \in Path : f[p] = None <=> ~\E i \in Restored : saved[i].path = p
         /\ \A p \in Path : f[p] # None => saved[f[p]].path = p
         /\ byPath' = f
  BY DEF Restart
<1>3. /\ byID' = Restored /\ Restored \subseteq Id
      /\ rec' = [i \in Id |-> IF i \in Restored THEN RestoredRec(i) ELSE NoRec]
      /\ byConn' = [c \in Conn |-> {}]
      /\ UNCHANGED <<issued, banned, saved, clock>>
  BY DEF Restart, Restored
<1>4. ASSUME NEW i \in Restored
      PROVE  /\ RestoredRec(i) \in Records /\ RestoredRec(i).path = saved[i].path
             /\ RestoredRec(i).conn = None /\ RestoredRec(i).expires = saved[i].expires
             /\ saved[i] # NoRec /\ saved[i].path \in Path
  <2>1. saved[i] \in Records /\ i \in Id /\ saved[i] # NoRec
    BY <1>1, <1>3 DEF TypeOK, Restored
  <2>2. /\ RestoredRec(i) \in Records /\ RestoredRec(i).path = saved[i].path
        /\ RestoredRec(i).conn = None /\ RestoredRec(i).expires = saved[i].expires
    BY <2>1 DEF RestoredRec, Records
  <2> QED
    BY <1>1, <2>1, <2>2 DEF SavedApart
<1>5. rec' \in [Id -> Records] /\ \A i \in Id : rec'[i] = IF i \in Restored THEN RestoredRec(i) ELSE NoRec
  BY <1>3, <1>4, ConstantTypes
<1>6. \A i \in Id : rec'[i].expires <= clock' + TTL
  <2>1. NoRec.expires = 0 /\ clock + TTL \in Nat
    BY <1>1, ConstantTypes DEF TypeOK, NoRec
  <2> QED
    BY <1>1, <1>3, <1>4, <1>5, <2>1 DEF SavedBounded
<1>7. IndexesAgree'
  <2>1. ASSUME NEW p \in Path, byPath'[p] # None PROVE byPath'[p] \in byID' /\ rec'[byPath'[p]].path = p
    BY <1>2, <1>3, <1>4, <1>5, <2>1
  <2>2. ASSUME NEW i \in byID' PROVE byPath'[rec'[i].path] = i
    <3>1. i \in Restored /\ i \in Id /\ rec'[i].path = saved[i].path /\ saved[i].path \in Path /\ saved[i] # NoRec
      BY <1>3, <1>4, <1>5
    <3>2. f[saved[i].path] # None
      BY <1>2, <3>1
    <3>3. f[saved[i].path] \in Restored /\ saved[f[saved[i].path]].path = saved[i].path
      BY <1>2, <3>1, <3>2
    <3>4. saved[f[saved[i].path]] # NoRec /\ f[saved[i].path] \in Id
      BY <1>3, <1>4, <3>3
    <3>5. f[saved[i].path] = i
      BY <1>1, <3>1, <3>3, <3>4 DEF SavedApart
    <3> QED
      BY <1>2, <3>1, <3>5
  <2>3. ASSUME NEW i \in Id \ byID' PROVE rec'[i] = NoRec
    BY <1>3, <1>5
  <2>4. ASSUME NEW c \in Conn, NEW i \in Id PROVE i \in byConn'[c] <=> i \in byID' /\ rec'[i].conn = c
    BY <1>3, <1>4, <1>5, ConstantTypes
  <2> QED
    BY <2>1, <2>2, <2>3, <2>4 DEF IndexesAgree
<1>8. Placed'
  BY <1>3, <1>4, <1>5 DEF Placed
<1>9. Known'
  BY <1>1, <1>3, <1>4 DEF Known, IssuedIds
<1>10. TypeOK'
  <2>1. req' \in [Slot -> Requests]
    BY IdleShape DEF Restart
  <2>2. restarts' \in Nat /\ stopping' \in BOOLEAN
    <3>1. restarts' = restarts + 1
      BY Zenon DEF Restart
    <3>2. restarts \in Nat
      BY <1>1 DEF TypeOK
    <3>3. restarts' \in Nat
      BY <3>1, <3>2
    <3>4. stopping' \in BOOLEAN
      BY Zenon DEF Restart
    <3> QED
      BY <3>3, <3>4
  <2>3. byPath' \in [Path -> Id \union {None}]
    BY <1>2, <1>3
  <2> QED
    BY <1>1, <1>3, <1>5, <1>6, <2>1, <2>2, <2>3 DEF Restart, TypeOK
<1>11. Room'
  <2>1. Granting' = {}
    BY IdleShape DEF Restart, Granting
  <2> QED
    BY <1>3, <2>1, RoomFrame
<1>12. FencedStays'
  BY IdleShape DEF Restart, FencedStays
<1> QED
  BY <1>3, <1>7, <1>8, <1>9, <1>10, <1>11, <1>12, SavedFrame DEF LeaseInv

LEMMA TickKeeps == ASSUME LeaseInv, Tick PROVE LeaseInv'
<1>1. TypeOK /\ SavedBounded
  BY DEF LeaseInv
<1>2. clock' = clock + 1 /\ UNCHANGED <<index, agentOf, open, issued, req, registry, saved, stopping, restarts>>
  BY DEF Tick
<1>3. \A i \in Id : rec[i].expires <= clock' + TTL /\ saved[i].expires <= clock' + TTL
  <2>1. \A i \in Id : rec[i].expires \in Nat /\ saved[i].expires \in Nat
    BY <1>1 DEF TypeOK, Records
  <2> QED
    BY <1>1, <1>2, <2>1, ConstantTypes DEF TypeOK, SavedBounded
<1>4. TypeOK' /\ SavedBounded'
  BY <1>1, <1>2, <1>3 DEF TypeOK, SavedBounded, index, registry
<1>5. Room'
  BY <1>2, RoomFrame DEF Granting
<1>6. Known' /\ Placed' /\ SavedApart' /\ IndexesAgree' /\ FencedStays'
  BY <1>2 DEF LeaseInv, Known, Placed, SavedApart, IndexesAgree, FencedStays, IssuedIds, index, registry
<1> QED
  BY <1>4, <1>5, <1>6 DEF LeaseInv

LEMMA LeaseNext == LeaseInv /\ [Next]_vars => LeaseInv'
<1> SUFFICES ASSUME LeaseInv, [Next]_vars PROVE LeaseInv'
  OBVIOUS
<1>1. ASSUME NEW c \in Conn, Disconnect(c) PROVE LeaseInv'
  <2>1. byConn[c] \intersect byID \in SUBSET Id
    BY DEF LeaseInv, TypeOK
  <2> QED
    BY <1>1, <2>1, RemoveOnlyKeeps DEF Disconnect
<1>2. ASSUME NEW c \in Conn, NEW i \in Id, Release(c, i) PROVE LeaseInv'
  BY <1>2, RemoveOnlyKeeps DEF Release
<1>3. ASSUME SweepExpired PROVE LeaseInv'
  <2>1. Swept \in SUBSET Id
    BY DEF Swept, LeaseInv, TypeOK
  <2> QED
    BY <1>3, <2>1, RemoveOnlyKeeps DEF SweepExpired
<1>4. ASSUME NEW s \in Slot, GiveUp(s) \/ Commit(s) PROVE LeaseInv'
  BY <1>4, EndKeeps DEF GiveUp, Commit
<1>5. ASSUME NEW s \in Slot, Serve(s) PROVE LeaseInv'
  BY <1>4, <1>5, YieldKeeps, WokenKeeps, EvictKeeps, GrantKeeps, AuthorizeKeeps, RegisterKeeps DEF Serve
<1>6. CASE UNCHANGED vars
  <2>1. UNCHANGED <<index, agentOf, open, issued, req, registry, server>>
    BY <1>6 DEF vars
  <2>2. UNCHANGED <<index, issued, saved, clock>>
    BY <2>1 DEF server
  <2>3. TypeOK' /\ FencedStays'
    BY <2>1, <2>2, IndexFrame DEF LeaseInv, TypeOK, FencedStays, registry, server
  <2>4. Room'
    BY <2>1, RoomFrame DEF Granting
  <2> QED
    BY <2>2, <2>3, <2>4, IndexFrame DEF LeaseInv
<1> QED
  BY <1>1, <1>2, <1>3, <1>5, <1>6, ConnectKeeps, GrantStartKeeps, WriteStartKeeps, RefreshKeeps, ClearKeeps,
     SnapshotKeeps, RestartKeeps, TickKeeps DEF Next

LEMMA LeaseAlways == Spec => []LeaseInv
BY LeaseInit, LeaseNext, PTL DEF Spec

-----------------------------------------------------------------------------
(* The theorems.                                                           *)

\* The maps, the requests and the snapshot keep their shapes, and no lease
\* runs longer than one ttl from now, for any number of connections, agents,
\* requests and restarts.
THEOREM LeaseTypes == Spec => []TypeOK
<1>1. LeaseInv => TypeOK
  BY DEF LeaseInv
<1> QED
  BY <1>1, LeaseAlways, PTL

\* byPath, byID and byConn describe the same leases after every critical
\* section, evictions, takeovers, rebinds and restarts included.
THEOREM LeaseIndexesAgree == Spec => []IndexesAgree
<1>1. LeaseInv => IndexesAgree
  BY DEF LeaseInv
<1> QED
  BY <1>1, LeaseAlways, PTL

\* A write that arrived after its session was fenced never commits, whatever
\* other sessions install while it waits.
THEOREM FencedNeverCommit == Spec => []FencedWritesRejected
<1>1. LeaseInv => FencedWritesRejected
  BY DEF LeaseInv, FencedStays, FencedWritesRejected, Writing
<1> QED
  BY <1>1, LeaseAlways, PTL

\* The teardown of one connection leaves the leases of all others: byConn,
\* which it goes by, agrees with the records.
THEOREM TeardownIsLocal == Spec => TeardownSparesOthers
<1>1. LeaseInv /\ [Next]_vars =>
         [\A c \in Conn, i \in byID : Disconnect(c) /\ rec[i].conn # c => i \in byID']_vars
  <2> SUFFICES ASSUME LeaseInv, NEW c \in Conn, NEW i \in byID, Disconnect(c), rec[i].conn # c
               PROVE  i \in byID'
    OBVIOUS
  <2>1. i \in Id /\ i \notin byConn[c]
    BY DEF LeaseInv, TypeOK, IndexesAgree
  <2> QED
    BY <2>1 DEF Disconnect, RemoveLocked
<1> QED
  BY <1>1, LeaseAlways, PTL DEF Spec, TeardownSparesOthers

-----------------------------------------------------------------------------
(* Sessions move forward.                                                  *)

Forward == \A i \in byID \intersect byID' : rec'[i].conn >= rec[i].conn

LEMMA SameIsForward ==
    ASSUME TypeOK, \A i \in byID \intersect byID' : rec'[i].conn = rec[i].conn
    PROVE  Forward
<1>1. \A i \in byID : rec[i].conn \in Int
  BY DEF TypeOK, Records, Conn, None
<1> QED
  BY <1>1 DEF Forward

LEMMA RemoveForward ==
    ASSUME LeaseInv, NEW gone \in SUBSET (Id \union {None}), RemoveLocked(gone)
    PROVE  Forward
<1>1. TypeOK /\ \A i \in byID' : rec'[i] = rec[i]
  BY SMTT(30), RemoveKeeps DEF LeaseInv
<1> QED
  BY <1>1, SameIsForward

LEMMA GrantForward == ASSUME LeaseInv, NEW s \in Slot, Grant(s) PROVE Forward
<1>1. TypeOK /\ IndexesAgree /\ Placed /\ req[s].pc = "install"
  BY DEF LeaseInv, Grant
<1>2. req[s] \in GrantReq
  BY <1>1, ShapeByPc DEF TypeOK
<1>3. PICK c \in Conn, p \in Path : c = req[s].conn /\ p = req[s].path
  BY <1>2 DEF GrantReq
<1>4. PICK i : i = byPath[p]
  OBVIOUS
<1>5. CASE InstallLocked(c, p, i)
  <2>1. \A j \in byID \intersect byID' : rec'[j] = rec[j]
    BY <1>1, <1>3, <1>4, <1>5, InstallKeeps
  <2> QED
    BY <1>1, <2>1, SameIsForward
<1>6. CASE /\ i # None /\ rec[i].conn \in {c, None}
           /\ rec' = [rec EXCEPT ![i].conn = c, ![i].expires = Renewed(i)]
           /\ byConn' = [byConn EXCEPT ![c] = @ \union {i}]
           /\ UNCHANGED <<byPath, byID>>
  <2>1. i \in byID
    BY <1>1, <1>4, <1>6 DEF IndexesAgree
  <2>2. rec'[i].conn = c /\ \A j \in byID \ {i} : rec'[j] = rec[j]
    BY <1>1, <1>6, <2>1, RenewKeeps
  <2>3. c >= rec[i].conn
    BY <1>6 DEF Conn, None
  <2>4. \A j \in byID : rec[j].conn \in Int
    BY <1>1 DEF TypeOK, Records, Conn, None
  <2> QED
    BY <2>2, <2>3, <2>4 DEF Forward
<1>7. CASE UNCHANGED index
  BY <1>1, <1>7, SameIsForward DEF index
<1> QED
  BY SMTT(30), <1>3, <1>4, <1>5, <1>6, <1>7 DEF Grant

LEMMA AuthorizeForward == ASSUME LeaseInv, NEW s \in Slot, Authorize(s) PROVE Forward
<1>1. TypeOK /\ IndexesAgree /\ Placed /\ req[s].pc = "authorize"
  BY DEF LeaseInv, Authorize
<1>2. req[s] \in CheckedWrite
  BY <1>1, ShapeByPc DEF TypeOK
<1>3. PICK c \in Conn, i \in Id \union {None} : c = req[s].conn /\ i = req[s].session
  BY <1>2 DEF CheckedWrite
<1>4. UNCHANGED <<byPath, byID>>
  BY DEF Authorize
<1>5. CASE UNCHANGED rec
  BY <1>1, <1>5, SameIsForward
<1>6. CASE /\ i # None /\ Live(i) /\ MayRebind(i, c)
           /\ rec' = [rec EXCEPT ![i].conn = c]
           /\ byConn' = IF rec[i].conn = c THEN byConn ELSE Rebound(i, c)
  <2>1. i \in byID
    BY <1>6 DEF Live
  <2>2. rec'[i].conn = c /\ \A j \in byID \ {i} : rec'[j] = rec[j]
    BY <1>1, <1>4, <1>6, <2>1, RebindKeeps
  <2>3. \A j \in byID : rec[j].conn \in Int
    BY <1>1 DEF TypeOK, Records, Conn, None
  <2> QED
    BY <1>6, <2>2, <2>3 DEF Forward, MayRebind
<1> QED
  BY <1>3, <1>5, <1>6 DEF Authorize

LEMMA StepForward == LeaseInv /\ [Next]_vars => restarts' # restarts \/ Forward
<1> SUFFICES ASSUME LeaseInv, [Next]_vars PROVE restarts' # restarts \/ Forward
  OBVIOUS
<1>1. TypeOK /\ IndexesAgree
  BY DEF LeaseInv
<1>2. ASSUME UNCHANGED index PROVE Forward
  BY <1>1, <1>2, SameIsForward DEF index
<1>3. ASSUME NEW c \in Conn, Disconnect(c) PROVE Forward
  <2>1. byConn[c] \intersect byID \in SUBSET (Id \union {None})
    BY <1>1 DEF TypeOK
  <2> QED
    BY <1>3, <2>1, RemoveForward DEF Disconnect
<1>4. ASSUME NEW c \in Conn, NEW i \in Id, Release(c, i) PROVE Forward
  <2>1. {i} \in SUBSET (Id \union {None})
    OBVIOUS
  <2> QED
    BY <1>4, <2>1, RemoveForward DEF Release
<1>5. ASSUME SweepExpired PROVE Forward
  <2>1. Swept \in SUBSET (Id \union {None})
    BY <1>1 DEF Swept, TypeOK
  <2> QED
    BY <1>5, <2>1, RemoveForward DEF SweepExpired
<1>6. ASSUME NEW s \in Slot, Evict(s) PROVE Forward
  <2>1. req[s] \in GrantReq \union YieldingWrite
    BY <1>1, <1>6, ShapeByPc DEF Evict, TypeOK
  <2>2. {req[s].on} \intersect {byPath[req[s].path]} \in SUBSET (Id \union {None})
    BY <2>1 DEF GrantReq, YieldingWrite
  <2> QED
    BY <1>6, <2>2, RemoveForward DEF Evict
<1>7. ASSUME NEW s \in Slot, Yield(s) PROVE Forward
  <2>1. rec' = rec \/ \E i \in byID : rec' = [rec EXCEPT ![i].revoking = TRUE]
    BY <1>1, <1>7, YieldType
  <2>2. ASSUME NEW i \in byID, rec' = [rec EXCEPT ![i].revoking = TRUE], NEW j \in byID
        PROVE  rec'[j].conn = rec[j].conn
    BY <1>1, <2>2 DEF TypeOK, Records
  <2> QED
    BY <1>1, <2>1, <2>2, SameIsForward
<1>8. ASSUME NEW c \in Conn, NEW i \in Id, Refresh(c, i) PROVE Forward
  <2>1. \A j \in byID : rec'[j].conn = rec[j].conn
    BY <1>1, <1>8 DEF Refresh, TypeOK, Records
  <2> QED
    BY <1>1, <2>1, SameIsForward
<1>9. ASSUME NEW s \in Slot, Serve(s) PROVE Forward
  BY <1>2, <1>6, <1>7, <1>9, GrantForward, AuthorizeForward DEF Serve, Woken, GiveUp, Register, Commit
<1>10. ASSUME Restart PROVE restarts' # restarts
  <2>1. restarts' = restarts + 1
    BY <1>10, Zenon DEF Restart
  <2>2. restarts \in Nat
    BY <1>1 DEF TypeOK
  <2> QED
    BY <2>1, <2>2
<1>11. ASSUME \/ \E a \in Agent : Connect(a)
              \/ \E s \in Slot, c \in open, p \in Path : GrantStart(s, c, p)
              \/ \E a \in Alloc : Clear(a)
              \/ Snapshot \/ Tick \/ UNCHANGED vars
       PROVE  Forward
  BY <1>2, <1>11 DEF Connect, GrantStart, Start, Clear, Snapshot, Tick, vars
<1>12. ASSUME NEW s \in Slot, NEW c \in open, EditStart(s, c) \/ \E p \in Path : PutStart(s, c, p)
       PROVE  Forward
  BY <1>1, <1>2, <1>12, AnyWriteStartType
<1> QED
  BY <1>3, <1>4, <1>5, <1>8, <1>9, <1>10, <1>11, <1>12 DEF Next

\* Within one server process a lease that stays is bound to ever newer
\* connections: a delayed request on an old socket never takes a session back.
THEOREM SessionsMoveForward == Spec => SessionMovesForward
<1>1. LeaseInv /\ [Next]_vars =>
         [restarts' = restarts => \A i \in byID \intersect byID' : rec'[i].conn >= rec[i].conn]_vars
  BY StepForward DEF Forward
<1> QED
  BY <1>1, LeaseAlways, PTL DEF Spec, SessionMovesForward

=============================================================================
