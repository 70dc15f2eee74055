-------------------------- MODULE MountLease_proofs --------------------------
(***************************************************************************)
(* Theorems about MountLease, for any number of mount processes, of builds *)
(* with and without lease tokens, and of certificates.                     *)
(***************************************************************************)
EXTENDS MountLease, FiniteSetTheorems, TLAPS

-----------------------------------------------------------------------------
(* The inductive invariant.                                                *)

Carries(p) == req[p].pc \notin {"idle", "reply"}    \* the request names an enrolment
Asks(p) == req[p].pc \in {"refresh", "release"}     \* the request names a token
Leased(p) == req[p].pc = "reply" /\ req[p].result = "ok" /\ req[p].op # "release"
Winning(p) == req[p].op = "acquire" /\ (req[p].pc = "fence" \/ Leased(p))

\* Certificates are numbered in order.
Numbered == (\E n \in Nat : enrolled = 1 .. n) /\ row.bound \in enrolled \union {NoEnrol}

\* The row has a holder only while it is bound; its token tells who.
RowSound ==
    /\ row.expires <= clock + TTL
    /\ holder # None => row.bound # NoEnrol
    /\ row.token \in Proc => holder = row.token
    /\ row.token = Empty => holder \in Legacy

\* Whoever names a certificate names an issued one.
EnrolSound(p) ==
    /\ proc[p].enr \in enrolled \union {NoEnrol}
    /\ proc[p].st \in {"mounting", "up"} => proc[p].enr \in enrolled
    /\ Carries(p) => req[p].enr \in enrolled

\* A mount that is up has acquired and has not asked to release.
PhaseSound(p) == proc[p].st = "up" /\ req[p].pc # "idle" => req[p].op = "refresh"

\* A process knows no token but its own; one that knows tokens gets one.
TokenSound(p) ==
    /\ proc[p].token \in {None, p}
    /\ Asks(p) => req[p].token \in {None, p}
    /\ Leased(p) => req[p].token \in {None, p}
    /\ Leased(p) /\ req[p].op = "acquire" /\ p \notin Legacy => req[p].token = p

\* What the holder was told, or is about to be told, is what the row says.
BeliefSound(p) ==
    holder = p =>
        /\ proc[p].st = "up" => row.expires >= proc[p].until /\ proc[p].token \in {None, row.token}
        /\ Winning(p) => row.expires >= req[p].until /\ row.token = IF p \in Legacy THEN Empty ELSE p
        /\ Leased(p) => row.expires >= req[p].until /\ req[p].token \in {None, row.token}
        /\ req[p].pc = "refresh" => req[p].token \in {None, row.token}

\* A bound row without a token is from before there were tokens: its holder
\* is the one mount that knows tokens and has none, and still has the
\* enrolment of the row; while it is up nobody else has.
OldRow == row.token = Null /\ row.bound # NoEnrol

OldRowSound(p) ==
    OldRow =>
        /\ p \notin Legacy =>
              /\ proc[p].st = "up" /\ proc[p].token = None => holder = p
              /\ req[p].pc = "refresh" /\ req[p].token = None => holder = p
        /\ holder = p =>
              /\ proc[p].st = "up" => proc[p].enr = row.bound
              /\ req[p].pc = "refresh" => req[p].enr = row.bound

Other(q) == proc[q].enr # row.bound /\ (Carries(q) => req[q].enr # row.bound)
Alone == OldRow => \A p \in Proc : holder = p /\ proc[p].st = "up" => \A q \in Proc \ {p} : Other(q)

ProcessSound(p) ==
    EnrolSound(p) /\ PhaseSound(p) /\ TokenSound(p) /\ BeliefSound(p) /\ OldRowSound(p)

MountInv == TypeOK /\ Numbered /\ RowSound /\ Alone /\ \A p \in Proc : ProcessSound(p)

-----------------------------------------------------------------------------
(* Shapes.                                                                 *)

ProcShape == [st : {"new", "mounting", "up", "gone"}, enr : Enrol \union {NoEnrol},
              cert : Enrol \union {NoEnrol}, token : Tokens, until : Nat, terminal : BOOLEAN]
RowShape == [bound : Enrol \union {NoEnrol}, expires : Nat, token : Proc \union {Null, Empty}, revoked : BOOLEAN]

AcquireReq == [pc : {"acquire", "probe", "reclaim", "fence"}, op : {"acquire"}, enr : Enrol, force : BOOLEAN, until : Nat]
RefreshReq == [pc : {"refresh"}, op : {"refresh"}, enr : Enrol, token : Tokens]
ReleaseReq == [pc : {"release", "deny", "fence"}, op : {"release"}, enr : Enrol, token : Tokens]
MissReply == [pc : {"reply"}, op : {"acquire", "refresh", "release"}, result : Results \ {"ok"}]
LeaseReply == [pc : {"reply"}, op : {"acquire", "refresh"}, result : {"ok"}, until : Nat, token : Tokens]
ReleaseReply == [pc : {"reply"}, op : {"release"}, result : {"ok"}]

LEMMA RequestShapes ==
    Requests = [pc : {"idle"}] \union AcquireReq \union RefreshReq \union ReleaseReq
               \union MissReply \union LeaseReply \union ReleaseReply
BY DEF Requests, AcquireReq, RefreshReq, ReleaseReq, MissReply, LeaseReply, ReleaseReply

\* The program counter, the operation and the result tell the shape.
LEMMA ShapeByPc ==
    ASSUME NEW r \in Requests
    PROVE  /\ r.pc = "idle" => r = Idle
           /\ r.pc \in {"acquire", "probe", "reclaim"} => r \in AcquireReq
           /\ r.pc = "refresh" => r \in RefreshReq
           /\ r.pc \in {"release", "deny"} => r \in ReleaseReq
           /\ r.pc = "fence" => r \in AcquireReq \union ReleaseReq
           /\ r.pc \notin {"idle", "reply"} => r \in AcquireReq \union RefreshReq \union ReleaseReq
           /\ r.pc = "reply" => r \in MissReply \union LeaseReply \union ReleaseReply
           /\ r.pc = "reply" /\ r.result = "ok" /\ r.op # "release" => r \in LeaseReply
<1>1. r \in [pc : {"idle"}] => r.pc = "idle" /\ r = Idle
  BY DEF Idle
<1>2. r \in AcquireReq => r.pc \in {"acquire", "probe", "reclaim", "fence"}
  BY DEF AcquireReq
<1>3. r \in RefreshReq => r.pc = "refresh"
  BY DEF RefreshReq
<1>4. r \in ReleaseReq => r.pc \in {"release", "deny", "fence"}
  BY DEF ReleaseReq
<1>5. r \in MissReply => r.pc = "reply" /\ r.result # "ok"
  BY DEF MissReply
<1>6. r \in LeaseReply => r.pc = "reply"
  BY DEF LeaseReply
<1>7. r \in ReleaseReply => r.pc = "reply" /\ r.op = "release"
  BY DEF ReleaseReply
<1> QED
  BY <1>1, <1>2, <1>3, <1>4, <1>5, <1>6, <1>7, RequestShapes

LEMMA IdleShape == Idle \in Requests /\ Idle.pc = "idle"
BY RequestShapes DEF Idle

LEMMA Constants ==
    /\ None \notin Proc /\ Null \notin Proc /\ Empty \notin Proc
    /\ None # Null /\ None # Empty /\ Null # Empty
    /\ TTL \in Nat /\ CertTTL \in Nat /\ TTL # 0 /\ CertTTL # 0 /\ MaxEnrol \in Nat /\ MaxEnrol # 0
    /\ Legacy \subseteq Proc /\ NoEnrol \notin Enrol /\ 1 \in Enrol
BY MountAssumption DEF NoEnrol, Enrol

\* What a step of the process p may leave as its request.
LEMMA ReplyType ==
    ASSUME req \in [Proc -> Requests], NEW p \in Proc, req[p].pc \notin {"idle", "reply"},
           NEW result \in Results \ {"ok"}, Reply(p, result)
    PROVE  /\ req' \in [Proc -> Requests]
           /\ req'[p] \in MissReply /\ req'[p].pc = "reply" /\ req'[p].result = result /\ req'[p].op = req[p].op
           /\ \A q \in Proc \ {p} : req'[q] = req[q]
<1>1. req[p].op \in {"acquire", "refresh", "release"}
  <2>1. req[p] \in AcquireReq \union RefreshReq \union ReleaseReq
    BY ShapeByPc
  <2> QED
    BY <2>1 DEF AcquireReq, RefreshReq, ReleaseReq
<1> DEFINE r == [pc |-> "reply", op |-> req[p].op, result |-> result]
<1>2. r \in MissReply /\ r.pc = "reply" /\ r.result = result /\ r.op = req[p].op
  BY <1>1 DEF MissReply
<1>3. req' = [req EXCEPT ![p] = r]
  BY DEF Reply
<1> HIDE DEF r
<1> QED
  BY <1>2, <1>3, RequestShapes

LEMMA SendType ==
    ASSUME req \in [Proc -> Requests], NEW p \in Proc, NEW r \in Requests, Send(p, r)
    PROVE  req' \in [Proc -> Requests] /\ req'[p] = r /\ \A q \in Proc \ {p} : req'[q] = req[q]
BY DEF Send

LEMMA ExitedType ==
    ASSUME proc \in [Proc -> ProcShape], NEW p \in Proc
    PROVE  /\ Exited(p) \in ProcShape /\ Exited(p).st = "gone" /\ Exited(p).enr = proc[p].enr
           /\ Exited(p).token = None
<1>1. proc[p].enr \in Enrol \union {NoEnrol}
  BY DEF ProcShape
<1> QED
  BY <1>1 DEF Exited, NotStarted, ProcShape, Tokens

-----------------------------------------------------------------------------
(* Certificates.                                                           *)

LEMMA NextEnrolFresh ==
    ASSUME TypeOK, Numbered, MayEnrol
    PROVE  /\ NextEnrol \in Enrol /\ NextEnrol \notin enrolled /\ row.bound # NextEnrol
           /\ notAfter' = [notAfter EXCEPT ![NextEnrol] = clock + CertTTL] =>
                 /\ notAfter' \in [Enrol -> Nat]
                 /\ enrolled' = enrolled \union {NextEnrol} /\ enrolled' = 1 .. NextEnrol
<1>1. PICK n \in Nat : enrolled = 1 .. n
  BY DEF Numbered
<1>2. Cardinality(enrolled) = n
  BY <1>1, FS_Interval
<1>3. NextEnrol = n + 1 /\ NextEnrol \in Enrol
  BY <1>2 DEF NextEnrol, MayEnrol
<1>4. NextEnrol \notin enrolled /\ row.bound # NextEnrol
  BY <1>1, <1>3 DEF Numbered, NoEnrol
<1>5. ASSUME NEW e \in Enrol, notAfter' = [notAfter EXCEPT ![e] = clock + CertTTL]
      PROVE  notAfter' \in [Enrol -> Nat] /\ enrolled' = enrolled \union {e}
  <2>1. clock + CertTTL \in Nat /\ clock + CertTTL # 0
    BY Constants DEF TypeOK
  <2>2. notAfter \in [Enrol -> Nat]
    BY DEF TypeOK
  <2>3. /\ notAfter' \in [Enrol -> Nat] /\ notAfter'[e] # 0
        /\ \A f \in Enrol \ {e} : notAfter'[f] = notAfter[f]
    BY <1>5, <2>1, <2>2
  <2> QED
    BY <2>3 DEF enrolled
<1>6. (1 .. n) \union {NextEnrol} = 1 .. NextEnrol
  BY <1>3
<1> QED
  BY <1>1, <1>3, <1>4, <1>5, <1>6

-----------------------------------------------------------------------------
(* Frames.                                                                 *)

\* What a step of process p may leave alone: the other processes.
OnlyProc(p) ==
    /\ proc' \in [Proc -> ProcShape] /\ req' \in [Proc -> Requests]
    /\ \A q \in Proc \ {p} : proc'[q] = proc[q] /\ req'[q] = req[q]

SameRow == row'.bound = row.bound /\ row'.expires = row.expires /\ row'.token = row.token /\ holder' = holder

\* A process nothing happens to.
LEMMA UntouchedSound ==
    ASSUME NEW q, ProcessSound(q), SameRow, enrolled \subseteq enrolled',
           proc'[q] = proc[q], req'[q] = req[q]
    PROVE  ProcessSound(q)'
<1>1. Carries(q)' = Carries(q) /\ Asks(q)' = Asks(q) /\ Leased(q)' = Leased(q) /\ Winning(q)' = Winning(q)
  BY DEF Carries, Asks, Leased, Winning
<1>2. EnrolSound(q)'
  BY <1>1 DEF ProcessSound, EnrolSound
<1>3. PhaseSound(q)' /\ TokenSound(q)'
  BY <1>1 DEF ProcessSound, PhaseSound, TokenSound
<1>4. BeliefSound(q)' /\ OldRowSound(q)'
  BY <1>1 DEF ProcessSound, BeliefSound, OldRowSound, OldRow, SameRow
<1> QED
  BY <1>2, <1>3, <1>4 DEF ProcessSound

\* A step of process p that does not touch the row.
LEMMA ProcessStep ==
    ASSUME MountInv, NEW p \in Proc, OnlyProc(p), SameRow, enrolled \subseteq enrolled',
           ProcessSound(p)',
           OldRow => /\ holder = p /\ proc'[p].st = "up" => proc[p].st = "up"
                     /\ Other(p) => Other(p)'
    PROVE  Alone' /\ \A q \in Proc : ProcessSound(q)'
<1>1. \A q \in Proc : ProcessSound(q)'
  BY UntouchedSound DEF MountInv, OnlyProc
<1>2. ASSUME OldRow', NEW h \in Proc, holder' = h, proc'[h].st = "up", NEW q \in Proc \ {h} PROVE Other(q)'
  <2>1. OldRow /\ holder = h
    BY <1>2 DEF OldRow, SameRow
  <2>2. proc[h].st = "up"
    BY <1>2, <2>1 DEF OnlyProc
  <2>3. Other(q)
    BY <2>1, <2>2 DEF MountInv, Alone
  <2>4. CASE q = p
    BY <2>1, <2>3, <2>4
  <2>5. CASE q # p
    BY <2>3, <2>5 DEF Other, Carries, OnlyProc, SameRow
  <2> QED
    BY <2>4, <2>5
<1> QED
  BY <1>1, <1>2 DEF Alone

\* A step of no process at all.
LEMMA QuietStep ==
    ASSUME MountInv, UNCHANGED <<proc, req, notAfter>>, SameRow
    PROVE  Alone' /\ Numbered' /\ \A q \in Proc : ProcessSound(q)'
<1>1. enrolled' = enrolled
  BY DEF enrolled
<1>2. \A q \in Proc : ProcessSound(q)'
  BY <1>1, UntouchedSound DEF MountInv
<1>3. \A q \in Proc : Other(q) => Other(q)'
  BY DEF Other, Carries, SameRow
<1>4. Alone'
  BY <1>3 DEF MountInv, Alone, OldRow, SameRow
<1>5. Numbered'
  BY <1>1 DEF MountInv, Numbered, SameRow
<1> QED
  BY <1>2, <1>4, <1>5

-----------------------------------------------------------------------------
(* Steps of the owner, the server and time.                                *)

LEMMA TypeShapes ==
    TypeOK => row \in RowShape /\ proc \in [Proc -> ProcShape] /\ req \in [Proc -> Requests]
BY DEF TypeOK, RowShape, ProcShape

LEMMA RowFrame ==
    ASSUME MountInv, SameRow, clock' \in Nat, clock' >= clock
    PROVE  RowSound'
<1>1. row.expires \in Nat /\ clock \in Nat /\ TTL \in Nat
  BY Constants DEF MountInv, TypeOK
<1> QED
  BY <1>1 DEF MountInv, RowSound, SameRow

\* Neither the row nor a process changes.
LEMMA QuietKeeps ==
    ASSUME MountInv, UNCHANGED <<row, notAfter, proc, req, holder>>, TypeOK', clock' >= clock
    PROVE  MountInv'
<1>1. SameRow /\ clock' \in Nat
  BY DEF SameRow, TypeOK
<1> QED
  BY <1>1, QuietStep, RowFrame DEF MountInv

LEMMA ClearType ==
    ASSUME TypeOK, Clear \/ UNCHANGED server
    PROVE  /\ denyList' \subseteq Enrol /\ live' \subseteq Proc /\ fenced' \subseteq Proc
           /\ active' \in Proc \union {None}
<1>1. CASE Clear
  BY <1>1 DEF Clear, TypeOK
<1>2. CASE UNCHANGED server
  BY <1>2 DEF server, TypeOK
<1> QED
  BY <1>1, <1>2

LEMMA EventType ==
    ASSUME TypeOK, Event \/ Fine
    PROVE  events' \in Nat
BY DEF Event, Fine, TypeOK

OwnerShape == [pc : {"idle", "revoke", "fence"}] \union [pc : {"forced"}, prior : Enrol \union {NoEnrol}]
              \union [pc : {"deny"}, prior : Enrol]

LEMMA OwnerStartKeeps == ASSUME MountInv, NEW op \in {"unmount", "revoke"}, OwnerStart(op) PROVE MountInv'
<1>1. TypeOK /\ UNCHANGED <<control, clock, proc, req, server, holder, opens>> /\ Event
  BY DEF MountInv, OwnerStart
<1>2. owner' \in OwnerShape
  <2>1. row.bound \in Enrol \union {NoEnrol}
    BY <1>1 DEF TypeOK
  <2> QED
    BY <2>1 DEF OwnerStart, OwnerShape
<1>3. events' \in Nat
  BY <1>1, EventType
<1>4. TypeOK' /\ clock' >= clock
  BY <1>1, <1>2, <1>3 DEF TypeOK, control, server, OwnerShape
<1> QED
  BY <1>1, <1>4, QuietKeeps DEF control

LEMMA DenyPriorKeeps == ASSUME MountInv, DenyPrior PROVE MountInv'
<1>1. TypeOK /\ UNCHANGED <<row, notAfter, clock, proc, req, server, holder, opens>>
  BY DEF MountInv, DenyPrior
<1>2. owner.prior \in Enrol
  BY <1>1 DEF TypeOK, DenyPrior
<1>3. owner' \in OwnerShape
  BY DEF DenyPrior, OwnerShape
<1>4. events' \in Nat /\ denied' \subseteq Enrol
  BY <1>1, <1>2, EventType DEF DenyPrior, Deny, TypeOK
<1>5. TypeOK' /\ clock' >= clock
  BY <1>1, <1>3, <1>4 DEF TypeOK, server, OwnerShape
<1> QED
  BY <1>1, <1>5, QuietKeeps

LEMMA RevokeKeeps == ASSUME MountInv, Revoke PROVE MountInv'
<1>1. TypeOK /\ UNCHANGED <<notAfter, denied, clock, proc, req, server, holder, counts>>
  BY DEF MountInv, Revoke
<1>2. row' \in RowShape /\ SameRow
  <2>1. row \in RowShape
    BY <1>1, TypeShapes
  <2> QED
    BY <1>1, <2>1 DEF Revoke, RowShape, SameRow
<1>3. owner' \in OwnerShape
  BY DEF Revoke, OwnerShape
<1>4. TypeOK'
  BY <1>1, <1>2, <1>3 DEF TypeOK, server, counts, OwnerShape, RowShape
<1>5. RowSound'
  BY <1>1, <1>2, RowFrame DEF TypeOK
<1> QED
  BY <1>1, <1>2, <1>4, <1>5, QuietStep DEF MountInv

LEMMA OwnerFenceKeeps == ASSUME MountInv, OwnerFence PROVE MountInv'
<1>1. TypeOK /\ UNCHANGED <<control, clock, proc, req, holder, opens>>
  BY DEF MountInv, OwnerFence
<1>2. owner' \in OwnerShape
  BY DEF OwnerFence, OwnerShape, Idle
<1>3. events' \in Nat
  BY <1>1, EventType DEF OwnerFence
<1>4. /\ denyList' \subseteq Enrol /\ live' \subseteq Proc /\ fenced' \subseteq Proc
      /\ active' \in Proc \union {None}
  BY <1>1, ClearType DEF OwnerFence
<1>5. TypeOK' /\ clock' >= clock
  BY <1>1, <1>2, <1>3, <1>4 DEF TypeOK, control, OwnerShape
<1> QED
  BY <1>1, <1>5, QuietKeeps DEF control

LEMMA SessionKeeps ==
    ASSUME MountInv, NEW p \in Proc, OpenData(p) \/ Write(p) \/ DropData(p)
    PROVE  MountInv'
<1>1. TypeOK /\ UNCHANGED <<control, clock, proc, req, owner, denyList, holder, events>>
  BY DEF MountInv, OpenData, Write, DropData, counts
<1>2. /\ live' \subseteq Proc /\ fenced' \subseteq Proc /\ active' \in Proc \union {None} /\ opens' \in Nat
  <2>1. CASE OpenData(p)
    BY <1>1, <2>1 DEF OpenData, TypeOK
  <2>2. CASE Write(p)
    BY <1>1, <2>2 DEF Write, TypeOK, counts
  <2>3. CASE DropData(p)
    BY <1>1, <2>3 DEF DropData, TypeOK, counts
  <2> QED
    BY <2>1, <2>2, <2>3
<1>3. TypeOK' /\ clock' >= clock
  BY <1>1, <1>2 DEF TypeOK, control
<1> QED
  BY <1>1, <1>3, QuietKeeps DEF control

LEMMA ServerRestartKeeps == ASSUME MountInv, ServerRestart PROVE MountInv'
<1>1. TypeOK /\ UNCHANGED <<control, clock, proc, req, owner, holder, opens>>
  BY DEF MountInv, ServerRestart
<1>2. /\ live' \subseteq Proc /\ fenced' \subseteq Proc /\ active' \in Proc \union {None} /\ denyList' \subseteq Enrol
  BY <1>1 DEF ServerRestart, TypeOK
<1>3. events' \in Nat
  BY <1>1, EventType DEF ServerRestart
<1>4. TypeOK' /\ clock' >= clock
  BY <1>1, <1>2, <1>3 DEF TypeOK, control
<1> QED
  BY <1>1, <1>4, QuietKeeps DEF control

LEMMA ReconcileKeeps == ASSUME MountInv, Reconcile PROVE MountInv'
<1>1. TypeOK /\ UNCHANGED <<control, clock, proc, req, owner, live, active, fenced, holder, opens>>
  BY DEF MountInv, Reconcile
<1>2. denyList' \subseteq Enrol
  BY <1>1 DEF Reconcile, Pushed, TypeOK
<1>3. events' \in Nat
  BY <1>1, EventType DEF Reconcile
<1>4. TypeOK' /\ clock' >= clock
  BY <1>1, <1>2, <1>3 DEF TypeOK, control
<1> QED
  BY <1>1, <1>4, QuietKeeps DEF control

LEMMA TickKeeps == ASSUME MountInv, Tick PROVE MountInv'
<1>1. TypeOK /\ UNCHANGED <<control, proc, req, owner, server, holder, counts>> /\ clock' = clock + 1
  BY DEF MountInv, Tick
<1>2. clock' \in Nat /\ clock' >= clock
  BY <1>1 DEF TypeOK
<1>3. TypeOK'
  BY <1>1, <1>2 DEF TypeOK, control, server, counts
<1> QED
  BY <1>1, <1>2, <1>3, QuietKeeps DEF control

LEMMA StutterKeeps == ASSUME MountInv, UNCHANGED vars PROVE MountInv'
<1>1. TypeOK /\ UNCHANGED <<control, clock, proc, req, owner, server, holder, counts>>
  BY DEF MountInv, vars
<1>2. TypeOK' /\ clock' >= clock
  BY <1>1 DEF TypeOK, control, server, counts
<1> QED
  BY <1>1, <1>2, QuietKeeps DEF control

\* The row is freed: nobody holds it and nothing is believed.
LEMMA FreedSound ==
    ASSUME MountInv, row' = Released, holder' = None
    PROVE  /\ row' \in RowShape /\ row'.bound = NoEnrol
           /\ ~OldRow' /\ Alone' /\ \A p \in Proc : BeliefSound(p)' /\ OldRowSound(p)'
           /\ UNCHANGED clock => RowSound'
           /\ enrolled' = enrolled => Numbered'
<1>1. row \in RowShape /\ clock \in Nat
  BY TypeShapes DEF MountInv, TypeOK
<1>2. row' \in RowShape /\ row'.bound = NoEnrol /\ row'.token = Null /\ row'.expires = 0
  BY <1>1 DEF Released, RowShape
<1>3. ~OldRow'
  BY <1>2 DEF OldRow
<1>4. Alone' /\ \A p \in Proc : BeliefSound(p)' /\ OldRowSound(p)'
  BY <1>3, Constants DEF Alone, BeliefSound, OldRowSound
<1>5. UNCHANGED clock => RowSound'
  BY <1>1, <1>2, Constants DEF RowSound
<1>6. enrolled' = enrolled => Numbered'
  BY <1>2 DEF MountInv, Numbered
<1> QED
  BY <1>2, <1>3, <1>4, <1>5, <1>6

LEMMA ForceReleaseKeeps == ASSUME MountInv, ForceRelease PROVE MountInv'
<1>1. TypeOK /\ UNCHANGED <<notAfter, denied, clock, proc, req, server, counts>>
  BY DEF MountInv, ForceRelease
<1>2. owner' \in OwnerShape
  <2>1. owner \in [pc : {"forced"}, prior : Enrol \union {NoEnrol}]
    BY <1>1 DEF TypeOK, ForceRelease
  <2>2. owner.prior = NoEnrol \/ [owner EXCEPT !.pc = "deny"] \in OwnerShape
    BY <2>1 DEF OwnerShape
  <2> QED
    BY <2>2 DEF ForceRelease, OwnerShape, Idle
<1>3. CASE UNCHANGED <<row, holder>>
  <2>1. TypeOK' /\ clock' >= clock
    BY <1>1, <1>2, <1>3 DEF TypeOK, server, counts, OwnerShape
  <2> QED
    BY <1>1, <1>3, <2>1, QuietKeeps
<1>4. CASE row' = Released /\ holder' = None
  <2>1. enrolled' = enrolled
    BY <1>1 DEF enrolled
  <2>2. /\ row' \in RowShape /\ Alone' /\ \A p \in Proc : BeliefSound(p)' /\ OldRowSound(p)'
        /\ RowSound' /\ Numbered'
    BY <1>1, <1>4, <2>1, FreedSound
  <2>3. \A p \in Proc : ProcessSound(p)'
    BY <1>1, <2>1, <2>2 DEF MountInv, ProcessSound, EnrolSound, PhaseSound, TokenSound, Carries, Asks, Leased
  <2>4. TypeOK'
    BY <1>1, <1>2, <1>4, <2>2 DEF TypeOK, server, counts, OwnerShape, RowShape
  <2> QED
    BY <2>2, <2>3, <2>4 DEF MountInv
<1> QED
  BY <1>3, <1>4 DEF ForceRelease

-----------------------------------------------------------------------------
(* Steps of a process that leave the row alone.                            *)

SideTypes ==
    /\ denied \subseteq Enrol /\ denyList \subseteq Enrol /\ live \subseteq Proc /\ fenced \subseteq Proc
    /\ active \in Proc \union {None} /\ events \in Nat /\ opens \in Nat /\ notAfter \in [Enrol -> Nat]

LEMMA ProcessKeeps ==
    ASSUME MountInv, NEW p \in Proc, OnlyProc(p), UNCHANGED <<row, holder, clock, owner>>,
           SideTypes', enrolled \subseteq enrolled', Numbered', ProcessSound(p)',
           OldRow => /\ holder = p /\ proc'[p].st = "up" => proc[p].st = "up"
                     /\ Other(p) => Other(p)'
    PROVE  MountInv'
<1>1. SameRow /\ clock' \in Nat /\ clock' >= clock
  BY DEF SameRow, MountInv, TypeOK
<1>2. TypeOK'
  BY DEF MountInv, TypeOK, SideTypes, OnlyProc, ProcShape
<1> QED
  BY <1>1, <1>2, ProcessStep, RowFrame DEF MountInv

\* The request of p goes away or becomes an answer without a lease, and the
\* process stays as it is or exits.
LEMMA PlainSound ==
    ASSUME MountInv, NEW p \in Proc, SameRow, enrolled \subseteq enrolled',
           proc'[p] \in {proc[p], Exited(p)},
           req'[p] = Idle \/ req'[p] \in MissReply \union ReleaseReply,
           proc'[p].st = "up" /\ req'[p].pc # "idle" => req'[p].op = "refresh"
    PROVE  ProcessSound(p)' /\ (proc'[p].st = "up" => proc[p].st = "up") /\ (Other(p) => Other(p)')
<1>1. ProcessSound(p) /\ proc \in [Proc -> ProcShape]
  BY TypeShapes DEF MountInv
<1>2. /\ Exited(p).st = "gone" /\ Exited(p).enr = proc[p].enr /\ Exited(p).token = None
  BY <1>1, ExitedType
<1>3. req'[p].pc \in {"idle", "reply"} /\ (req'[p].pc = "reply" => req'[p].result # "ok" \/ req'[p].op = "release")
  BY IdleShape DEF MissReply, ReleaseReply
<1>4. ~Carries(p)' /\ ~Asks(p)' /\ ~Leased(p)' /\ ~Winning(p)' /\ req'[p].pc # "refresh"
  BY <1>3 DEF Carries, Asks, Leased, Winning
<1>5. EnrolSound(p)' /\ PhaseSound(p)' /\ TokenSound(p)'
  BY <1>1, <1>2, <1>4 DEF ProcessSound, EnrolSound, PhaseSound, TokenSound
<1>6. BeliefSound(p)' /\ OldRowSound(p)'
  BY <1>1, <1>2, <1>4 DEF ProcessSound, BeliefSound, OldRowSound, OldRow, SameRow
<1>7. Other(p) => Other(p)'
  BY <1>2, <1>4 DEF Other, SameRow
<1> QED
  BY <1>2, <1>5, <1>6, <1>7 DEF ProcessSound

LEMMA PlainKeeps ==
    ASSUME MountInv, NEW p \in Proc, OnlyProc(p), UNCHANGED <<row, holder, clock, owner, notAfter>>,
           SideTypes', proc'[p] \in {proc[p], Exited(p)},
           req'[p] = Idle \/ req'[p] \in MissReply \union ReleaseReply,
           proc'[p].st = "up" /\ req'[p].pc # "idle" => req'[p].op = "refresh"
    PROVE  MountInv'
<1>1. SameRow /\ enrolled' = enrolled
  BY DEF SameRow, enrolled
<1>2. ProcessSound(p)' /\ (proc'[p].st = "up" => proc[p].st = "up") /\ (Other(p) => Other(p)')
  BY <1>1, PlainSound
<1>3. Numbered'
  BY <1>1 DEF MountInv, Numbered
<1> QED
  BY <1>1, <1>2, <1>3, ProcessKeeps

\* An answer of Reply.
LEMMA MissKeeps ==
    ASSUME MountInv, NEW p \in Proc, req[p].pc \notin {"idle", "reply"},
           NEW result \in Results \ {"ok"}, Reply(p, result),
           UNCHANGED <<row, holder, clock, owner, notAfter, proc>>, SideTypes'
    PROVE  MountInv'
<1>1. proc \in [Proc -> ProcShape] /\ req \in [Proc -> Requests] /\ PhaseSound(p)
  BY TypeShapes DEF MountInv, ProcessSound
<1>2. /\ req' \in [Proc -> Requests]
      /\ req'[p] \in MissReply /\ req'[p].op = req[p].op
      /\ \A q \in Proc \ {p} : req'[q] = req[q]
  BY <1>1, ReplyType
<1>3. OnlyProc(p) /\ proc'[p] = proc[p]
  BY <1>1, <1>2 DEF OnlyProc
<1> QED
  BY <1>1, <1>2, <1>3, PlainKeeps DEF PhaseSound

LEMMA RefusedKeeps == ASSUME MountInv, NEW p \in Proc, Refused(p) PROVE MountInv'
<1>1. TypeOK /\ UNCHANGED <<control, clock, proc, owner, server, holder, opens>>
  BY DEF MountInv, Refused
<1>2. events' \in Nat
  BY <1>1, EventType DEF Refused
<1>3. SideTypes'
  BY <1>1, <1>2 DEF SideTypes, TypeOK, control, server
<1>4. PICK result \in {"stale", "error"} : Reply(p, result)
  BY DEF Refused
<1>5. req[p].pc \notin {"idle", "reply"} /\ result \in Results \ {"ok"}
  BY DEF Refused, Results
<1> QED
  BY <1>1, <1>3, <1>4, <1>5, MissKeeps DEF control

\* A move within the acquire, before the row is claimed.
LEMMA ProbingKeeps ==
    ASSUME MountInv, NEW p \in Proc, req[p].pc \in {"acquire", "probe"}, NEW pc \in {"probe", "reclaim"}, Goto(p, pc),
           UNCHANGED <<row, holder, clock, owner, notAfter, proc>>, SideTypes'
    PROVE  MountInv'
<1>1. proc \in [Proc -> ProcShape] /\ req \in [Proc -> Requests] /\ ProcessSound(p)
  BY TypeShapes DEF MountInv
<1>2. req[p] \in AcquireReq
  BY <1>1, ShapeByPc
<1> DEFINE r == [req[p] EXCEPT !.pc = pc]
<1>3. r \in AcquireReq /\ r.pc = pc /\ r.op = req[p].op /\ r.enr = req[p].enr
  BY <1>2 DEF AcquireReq
<1>4. req' = [req EXCEPT ![p] = r]
  BY DEF Goto
<1> HIDE DEF r
<1>5. req' \in [Proc -> Requests] /\ req'[p] = r /\ \A q \in Proc \ {p} : req'[q] = req[q]
  BY <1>1, <1>3, <1>4, RequestShapes
<1>6. OnlyProc(p) /\ SameRow /\ enrolled' = enrolled
  BY <1>1, <1>5 DEF OnlyProc, SameRow, enrolled
<1>7. Carries(p) /\ Carries(p)' /\ ~Asks(p)' /\ ~Leased(p)' /\ ~Winning(p)' /\ req'[p].pc \notin {"refresh", "fence"}
  BY <1>3, <1>5 DEF Carries, Asks, Leased, Winning
<1>8. EnrolSound(p)' /\ PhaseSound(p)' /\ TokenSound(p)'
  BY <1>1, <1>3, <1>5, <1>6, <1>7 DEF ProcessSound, EnrolSound, PhaseSound, TokenSound
<1>9. BeliefSound(p)' /\ OldRowSound(p)'
  BY <1>1, <1>6, <1>7 DEF ProcessSound, BeliefSound, OldRowSound, OldRow
<1>10. Other(p) => Other(p)'
  BY <1>3, <1>5, <1>7 DEF Other
<1>11. Numbered'
  BY <1>6 DEF MountInv, Numbered
<1> QED
  BY <1>6, <1>8, <1>9, <1>10, <1>11, ProcessKeeps DEF ProcessSound

LEMMA ProbeKeeps == ASSUME MountInv, NEW p \in Proc, Probe(p) PROVE MountInv'
<1>1. TypeOK /\ UNCHANGED <<control, clock, proc, owner, server, holder, opens>> /\ req[p].pc = "probe"
  BY DEF MountInv, Probe
<1>2. events' \in Nat
  BY <1>1, EventType DEF Probe
<1>3. SideTypes'
  BY <1>1, <1>2 DEF SideTypes, TypeOK, control, server
<1>4. CASE Reply(p, "evict")
  BY <1>1, <1>3, <1>4, MissKeeps DEF control, Results
<1>5. CASE Goto(p, "reclaim")
  BY <1>1, <1>3, <1>5, ProbingKeeps DEF control
<1> QED
  BY <1>4, <1>5 DEF Probe

-----------------------------------------------------------------------------
(* Acquiring.                                                              *)

\* The row is claimed for p: it belongs to p's token and to nobody else.
LEMMA ClaimKeeps ==
    ASSUME MountInv, NEW p \in Proc, req[p].pc \in {"acquire", "reclaim"},
           row' = Acquired(p, req[p].enr), holder' = p,
           req' = [req EXCEPT ![p].pc = "fence", ![p].until = clock + TTL],
           UNCHANGED <<notAfter, denied, clock, proc, owner, server, counts>>
    PROVE  MountInv'
<1>1. TypeOK /\ proc \in [Proc -> ProcShape] /\ req \in [Proc -> Requests] /\ row \in RowShape
  BY TypeShapes DEF MountInv
<1>2. req[p] \in AcquireReq
  BY <1>1, ShapeByPc
<1>3. clock + TTL \in Nat /\ clock \in Nat
  BY <1>1, Constants DEF TypeOK
<1> DEFINE r == [req[p] EXCEPT !.pc = "fence", !.until = clock + TTL]
<1>4. r \in AcquireReq /\ r.pc = "fence" /\ r.op = "acquire" /\ r.enr = req[p].enr /\ r.until = clock + TTL
      /\ req[p].op = "acquire" /\ req[p].enr \in Enrol
  BY <1>2, <1>3 DEF AcquireReq
<1>5. req' = [req EXCEPT ![p] = r]
  OBVIOUS
<1> HIDE DEF r
<1>6. req' \in [Proc -> Requests] /\ req'[p] = r /\ \A q \in Proc \ {p} : req'[q] = req[q]
  BY <1>1, <1>4, <1>5, RequestShapes
<1> DEFINE e == req[p].enr
           t == IF p \in Legacy THEN Empty ELSE p
<1>7. row' = [row EXCEPT !.bound = e, !.expires = clock + TTL, !.token = t]
  BY DEF Acquired
<1>8. e \in Enrol /\ e \in enrolled /\ t \in Proc \union {Null, Empty} /\ t # Null
  BY <1>2, <1>4, Constants DEF MountInv, ProcessSound, EnrolSound, Carries
<1> HIDE DEF e, t
<1>9. row' \in RowShape /\ row'.bound = e /\ row'.expires = clock + TTL /\ row'.token = t
  BY <1>1, <1>3, <1>7, <1>8 DEF RowShape
<1>10. ~OldRow' /\ Alone'
  BY <1>8, <1>9 DEF OldRow, Alone
<1>11. enrolled' = enrolled
  BY DEF enrolled
<1>12. Numbered'
  BY <1>8, <1>9, <1>11 DEF MountInv, Numbered
<1>13. RowSound'
  <2>1. row'.expires <= clock' + TTL
    BY <1>3, <1>9
  <2>2. e # NoEnrol
    BY <1>8, Constants
  <2>3. /\ t \in Proc => t = p
        /\ t = Empty => p \in Legacy
    BY Constants DEF t
  <2> QED
    BY <1>9, <2>1, <2>2, <2>3 DEF RowSound
<1>14. ASSUME NEW q \in Proc \ {p} PROVE ProcessSound(q)'
  <2>1. ProcessSound(q) /\ req'[q] = req[q] /\ proc'[q] = proc[q] /\ holder' # q
    BY <1>6 DEF MountInv
  <2>2. EnrolSound(q)' /\ PhaseSound(q)' /\ TokenSound(q)'
    BY <1>11, <2>1 DEF ProcessSound, EnrolSound, PhaseSound, TokenSound, Carries, Asks, Leased
  <2>3. BeliefSound(q)' /\ OldRowSound(q)'
    BY <1>10, <2>1 DEF BeliefSound, OldRowSound
  <2> QED
    BY <2>2, <2>3 DEF ProcessSound
<1>15. ProcessSound(p)'
  <2>1. ProcessSound(p) /\ proc'[p] = proc[p] /\ proc[p].st # "up"
    BY <1>4 DEF MountInv, ProcessSound, PhaseSound
  <2>2. ~Asks(p)' /\ ~Leased(p)' /\ req'[p].pc = "fence"
    BY <1>4, <1>6 DEF Asks, Leased
  <2>3. EnrolSound(p)' /\ PhaseSound(p)' /\ TokenSound(p)'
    BY <1>4, <1>6, <1>8, <1>11, <2>1, <2>2 DEF ProcessSound, EnrolSound, PhaseSound, TokenSound, e
  <2>4. row'.expires >= req'[p].until
    BY <1>3, <1>4, <1>6, <1>9
  <2>5. BeliefSound(p)'
    BY <1>9, <2>1, <2>2, <2>4 DEF BeliefSound, Winning, t
  <2>6. OldRowSound(p)'
    BY <1>10 DEF OldRowSound
  <2> QED
    BY <2>3, <2>5, <2>6 DEF ProcessSound
<1>16. TypeOK'
  BY <1>1, <1>6, <1>9 DEF TypeOK, server, counts, RowShape
<1> QED
  BY <1>10, <1>12, <1>13, <1>14, <1>15, <1>16 DEF MountInv

LEMMA AcquireKeeps == ASSUME MountInv, NEW p \in Proc, Acquire(p) \/ Reclaim(p) PROVE MountInv'
<1>1. /\ TypeOK /\ UNCHANGED <<notAfter, denied, clock, proc, owner, server, counts>>
      /\ req[p].pc \in {"acquire", "reclaim"}
  BY DEF MountInv, Acquire, Reclaim
<1>2. SideTypes'
  BY <1>1 DEF SideTypes, TypeOK, server, counts
<1>3. CASE /\ row' = Acquired(p, req[p].enr) /\ holder' = p
           /\ req' = [req EXCEPT ![p].pc = "fence", ![p].until = clock + TTL]
  BY <1>1, <1>3, ClaimKeeps
<1>4. CASE UNCHANGED <<row, holder>> /\ Reply(p, "evict")
  BY <1>1, <1>2, <1>4, MissKeeps DEF Results
<1>5. CASE UNCHANGED <<row, holder>> /\ Goto(p, "probe") /\ req[p].pc = "acquire"
  BY <1>1, <1>2, <1>5, ProbingKeeps
<1> QED
  BY <1>3, <1>4, <1>5 DEF Acquire, Reclaim

\* The fence answers with the lease that the row had when it was claimed.
LEMMA FenceKeeps == ASSUME MountInv, NEW p \in Proc, Fence(p) PROVE MountInv'
<1>1. TypeOK /\ UNCHANGED <<control, clock, proc, owner, holder, opens>> /\ req[p].pc = "fence"
  BY DEF MountInv, Fence
<1>2. proc \in [Proc -> ProcShape] /\ req \in [Proc -> Requests] /\ ProcessSound(p)
  BY <1>1, TypeShapes DEF MountInv
<1>3. events' \in Nat
  BY <1>1, EventType DEF Fence
<1>4. SideTypes'
  <2>1. /\ denyList' \subseteq Enrol /\ live' \subseteq Proc /\ fenced' \subseteq Proc
        /\ active' \in Proc \union {None}
    BY <1>1, ClearType DEF Fence
  <2> QED
    BY <1>1, <1>3, <2>1 DEF SideTypes, TypeOK, control
<1>5. req[p] \in AcquireReq \union ReleaseReq
  BY <1>1, <1>2, ShapeByPc
<1>6. CASE req[p] \in ReleaseReq
  <2> DEFINE r == [pc |-> "reply", op |-> "release", result |-> "ok"]
  <2>1. r \in ReleaseReply
    BY DEF ReleaseReply
  <2>2. req[p].op = "release" /\ req' = [req EXCEPT ![p] = r]
    BY <1>6 DEF Fence, ReleaseReq
  <2>3. req' \in [Proc -> Requests] /\ req'[p] = r /\ \A q \in Proc \ {p} : req'[q] = req[q]
    BY <1>2, <2>1, <2>2, RequestShapes
  <2>4. proc[p].st # "up"
    BY <1>1, <1>2, <2>2 DEF ProcessSound, PhaseSound
  <2>5. OnlyProc(p) /\ proc'[p] = proc[p]
    BY <1>1, <1>2, <2>3 DEF OnlyProc
  <2> QED
    BY <1>1, <1>4, <2>1, <2>3, <2>4, <2>5, PlainKeeps DEF control
<1>7. CASE req[p] \in AcquireReq
  <2> DEFINE tok == IF p \in Legacy THEN None ELSE p
             r == [pc |-> "reply", op |-> "acquire", result |-> "ok", until |-> req[p].until, token |-> tok]
  <2>1. tok \in Tokens /\ tok \in {None, p} /\ (p \notin Legacy => tok = p)
    BY DEF Tokens
  <2>2. req[p].op = "acquire" /\ req[p].until \in Nat
    BY <1>7 DEF AcquireReq
  <2>3. req' = [req EXCEPT ![p] = r]
    BY <2>2 DEF Fence
  <2> HIDE DEF tok
  <2>4. /\ r \in LeaseReply /\ r.pc = "reply" /\ r.op = "acquire" /\ r.result = "ok"
        /\ r.until = req[p].until /\ r.token = tok
    BY <2>1, <2>2 DEF LeaseReply
  <2> HIDE DEF r
  <2>5. req' \in [Proc -> Requests] /\ req'[p] = r /\ \A q \in Proc \ {p} : req'[q] = req[q]
    BY <1>2, <2>3, <2>4, RequestShapes
  <2>6. OnlyProc(p) /\ SameRow /\ enrolled' = enrolled /\ proc'[p] = proc[p]
    BY <1>1, <1>2, <2>5 DEF OnlyProc, SameRow, enrolled, control
  <2>7. proc[p].st # "up" /\ Winning(p)
    BY <1>1, <1>2, <2>2 DEF ProcessSound, PhaseSound, Winning
  <2>8. ~Carries(p)' /\ ~Asks(p)' /\ Leased(p)' /\ req'[p].pc # "refresh"
    BY <2>4, <2>5 DEF Carries, Asks, Leased
  <2>9. EnrolSound(p)' /\ PhaseSound(p)'
    BY <1>2, <2>6, <2>7, <2>8 DEF ProcessSound, EnrolSound, PhaseSound
  <2>10. TokenSound(p)'
    BY <1>2, <2>1, <2>4, <2>5, <2>6, <2>8 DEF ProcessSound, TokenSound
  <2>11. BeliefSound(p)'
    <3>1. holder = p => row.expires >= req[p].until /\ row.token = IF p \in Legacy THEN Empty ELSE p
      BY <1>2, <2>7 DEF ProcessSound, BeliefSound
    <3>2. holder = p => tok \in {None, row.token}
      BY <3>1 DEF tok
    <3> QED
      BY <2>4, <2>5, <2>6, <2>7, <2>8, <3>1, <3>2 DEF BeliefSound, SameRow
  <2>12. OldRowSound(p)'
    BY <1>2, <2>6, <2>7, <2>8 DEF ProcessSound, OldRowSound, OldRow, SameRow
  <2>13. Other(p) => Other(p)'
    BY <2>6, <2>8 DEF Other, SameRow
  <2>14. Numbered'
    BY <2>6 DEF MountInv, Numbered, SameRow
  <2> QED
    BY <1>1, <1>4, <2>6, <2>9, <2>10, <2>11, <2>12, <2>13, <2>14, ProcessKeeps DEF ProcessSound, control
<1> QED
  BY <1>5, <1>6, <1>7

-----------------------------------------------------------------------------
(* Refreshing and releasing.                                               *)

\* Whose row a hit refreshes: the holder's by its token, or an old one by
\* its enrolment, which becomes the holder's if the caller knows tokens.
LEMMA HitOwner ==
    ASSUME MountInv, NEW p \in Proc, Asks(p), Owns(req[p].enr, req[p].token)
    PROVE  /\ \/ req[p].token = None /\ OldRow /\ row.bound = req[p].enr
              \/ req[p].token = p /\ row.token = p /\ holder = p
           /\ req[p].token = None /\ req[p].pc = "refresh" /\ p \notin Legacy => holder = p
<1>1. ProcessSound(p) /\ RowSound /\ req[p] \in RefreshReq \union ReleaseReq
  BY TypeShapes, ShapeByPc DEF MountInv, Asks
<1>2. req[p].enr \in Enrol
  BY <1>1 DEF RefreshReq, ReleaseReq
<1>3. req[p].token \in {None, p}
  BY <1>1 DEF ProcessSound, TokenSound
<1>4. CASE req[p].token = None
  <2>1. OldRow /\ row.bound = req[p].enr
    BY <1>2, <1>4, Constants DEF Owns, OldRow
  <2> QED
    BY <1>1, <1>4, <2>1, Constants DEF ProcessSound, OldRowSound
<1>5. CASE req[p].token = p
  BY <1>1, <1>5, Constants DEF Owns, RowSound
<1> QED
  BY <1>3, <1>4, <1>5

LEMMA RefreshHitKeeps ==
    ASSUME MountInv, NEW p \in Proc, req[p].pc = "refresh", RefreshHits(req[p].enr, req[p].token),
           row' = Refreshed(p, req[p].enr, req[p].token), ReplyLease(p, Issued(p, req[p].token)),
           UNCHANGED <<notAfter, denied, clock, proc, owner, server, holder, counts>>
    PROVE  MountInv'
<1>1. /\ TypeOK /\ proc \in [Proc -> ProcShape] /\ req \in [Proc -> Requests] /\ row \in RowShape
      /\ ProcessSound(p) /\ RowSound
  BY TypeShapes DEF MountInv
<1>2. req[p] \in RefreshReq
  BY <1>1, ShapeByPc
<1>3. clock + TTL \in Nat /\ clock \in Nat /\ row.expires \in Nat /\ clock + TTL >= row.expires
  BY <1>1, Constants DEF TypeOK, RowSound
<1> DEFINE e == req[p].enr
           t == req[p].token
           new == Issued(p, t)
           tok == IF new # None THEN p ELSE row.token
           r == [pc |-> "reply", op |-> "refresh", result |-> "ok", until |-> clock + TTL, token |-> new]
<1>4. /\ new \in Tokens /\ new \in {None, p} /\ tok \in Proc \union {Null, Empty}
      /\ (new = p => tok = p) /\ (new # p => tok = row.token)
      /\ new = p <=> t = None /\ p \notin Legacy
  BY <1>1, Constants DEF Issued, Tokens, RowShape
<1>5. e \in Enrol /\ e \in enrolled /\ req[p].op = "refresh"
  BY <1>1, <1>2 DEF RefreshReq, ProcessSound, EnrolSound, Carries
<1>6. /\ \/ t = None /\ OldRow /\ row.bound = e
         \/ t = p /\ row.token = p /\ holder = p
      /\ t = None /\ p \notin Legacy => holder = p
  BY HitOwner DEF Asks, RefreshHits
<1>7. row' = [row EXCEPT !.bound = e, !.expires = clock + TTL, !.token = tok] /\ req' = [req EXCEPT ![p] = r]
  BY <1>5 DEF Refreshed, ReplyLease
<1> HIDE DEF new, tok
<1>8. row' \in RowShape /\ row'.bound = e /\ row'.expires = clock + TTL /\ row'.token = tok
  BY <1>1, <1>3, <1>4, <1>5, <1>7 DEF RowShape
<1>9. /\ r \in LeaseReply /\ r.pc = "reply" /\ r.op = "refresh" /\ r.result = "ok"
      /\ r.until = clock + TTL /\ r.token = new
  BY <1>3, <1>4 DEF LeaseReply
<1> HIDE DEF r, e, t
<1>10. req' \in [Proc -> Requests] /\ req'[p] = r /\ \A q \in Proc \ {p} : req'[q] = req[q]
  BY <1>1, <1>7, <1>9, RequestShapes
<1>11. enrolled' = enrolled
  BY DEF enrolled
<1>12. Numbered'
  BY <1>5, <1>8, <1>11 DEF MountInv, Numbered
<1>13. TypeOK'
  BY <1>1, <1>8, <1>10 DEF TypeOK, server, counts, RowShape
<1>14. RowSound'
  <2>1. row'.expires <= clock' + TTL
    BY <1>3, <1>8
  <2>2. row'.bound # NoEnrol
    BY <1>5, <1>8, Constants
  <2>3. row'.token \in Proc => holder' = row'.token
    BY <1>1, <1>4, <1>6, <1>8 DEF RowSound
  <2>4. row'.token = Empty => holder' \in Legacy
    BY <1>1, <1>4, <1>8, Constants DEF RowSound
  <2> QED
    BY <2>1, <2>2, <2>3, <2>4 DEF RowSound
\* Seen from anybody else who holds the row, or from an old row, only the
\* expiry has moved.
<1>15. ASSUME OldRow' \/ holder # p PROVE row'.bound = row.bound /\ row'.token = row.token
  BY <1>4, <1>6, <1>8, <1>15, Constants DEF OldRow
<1>16. ASSUME NEW q \in Proc \ {p} PROVE ProcessSound(q)'
  <2>1. ProcessSound(q) /\ req'[q] = req[q] /\ proc'[q] = proc[q]
    BY <1>10 DEF MountInv
  <2>2. Leased(q)' = Leased(q) /\ Winning(q)' = Winning(q)
    BY <2>1 DEF Leased, Winning
  <2>3. EnrolSound(q)' /\ PhaseSound(q)' /\ TokenSound(q)'
    BY <1>11, <2>1 DEF ProcessSound, EnrolSound, PhaseSound, TokenSound, Carries, Asks, Leased
  <2>4. OldRowSound(q)'
    BY <1>15, <2>1 DEF ProcessSound, OldRowSound, OldRow
  <2>5. BeliefSound(q)'
    <3> SUFFICES ASSUME holder = q PROVE BeliefSound(q)'
      BY DEF BeliefSound
    <3>1. row'.token = row.token
      BY <1>15
    <3>2. proc[q].until \in Nat /\ (Leased(q) \/ Winning(q) => req[q].until \in Nat)
      <4>1. proc[q] \in ProcShape /\ req[q] \in Requests
        BY <1>1
      <4>2. Leased(q) => req[q] \in LeaseReply
        BY <4>1, ShapeByPc DEF Leased
      <4>3. req[q].pc = "fence" /\ req[q].op = "acquire" => req[q] \in AcquireReq
        BY <4>1, ShapeByPc DEF ReleaseReq
      <4> QED
        BY <4>1, <4>2, <4>3 DEF ProcShape, LeaseReply, AcquireReq, Winning
    <3>3. proc[q].st = "up" => row'.expires >= proc[q].until /\ proc[q].token \in {None, row'.token}
      BY <1>3, <1>8, <2>1, <3>1, <3>2 DEF ProcessSound, BeliefSound
    <3>4. Leased(q) => row'.expires >= req[q].until /\ req[q].token \in {None, row'.token}
      BY <1>3, <1>8, <2>1, <3>1, <3>2 DEF ProcessSound, BeliefSound
    <3>5. Winning(q) => row'.expires >= req[q].until /\ row'.token = IF q \in Legacy THEN Empty ELSE q
      BY <1>3, <1>8, <2>1, <3>1, <3>2 DEF ProcessSound, BeliefSound
    <3>6. req[q].pc = "refresh" => req[q].token \in {None, row'.token}
      BY <2>1, <3>1 DEF ProcessSound, BeliefSound
    <3> QED
      BY <2>1, <2>2, <3>3, <3>4, <3>5, <3>6 DEF BeliefSound
  <2> QED
    BY <2>3, <2>4, <2>5 DEF ProcessSound
<1>17. ProcessSound(p)'
  <2>1. ~Carries(p)' /\ ~Asks(p)' /\ Leased(p)' /\ ~Winning(p)' /\ req'[p].pc # "refresh"
    BY <1>9, <1>10 DEF Carries, Asks, Leased, Winning
  <2>2. EnrolSound(p)' /\ PhaseSound(p)' /\ TokenSound(p)'
    BY <1>1, <1>4, <1>9, <1>10, <1>11, <2>1 DEF ProcessSound, EnrolSound, PhaseSound, TokenSound
  <2>3. OldRowSound(p)'
    BY <1>1, <1>15, <2>1 DEF ProcessSound, OldRowSound, OldRow
  <2>4. ASSUME holder = p
        PROVE  /\ proc[p].st = "up" => row'.expires >= proc[p].until /\ proc[p].token \in {None, row'.token}
               /\ row'.expires >= req'[p].until /\ req'[p].token \in {None, row'.token}
    <3>1. proc[p].until \in Nat
      BY <1>1 DEF ProcShape
    <3>2. proc[p].st = "up" => row'.expires >= proc[p].until
      BY <1>1, <1>3, <1>8, <2>4, <3>1 DEF ProcessSound, BeliefSound
    <3>3. proc[p].st = "up" => proc[p].token \in {None, row'.token}
      BY <1>1, <1>4, <1>8, <2>4 DEF ProcessSound, BeliefSound, TokenSound
    <3>4. row'.expires >= req'[p].until /\ req'[p].token \in {None, row'.token}
      BY <1>3, <1>4, <1>8, <1>9, <1>10
    <3> QED
      BY <3>2, <3>3, <3>4
  <2>5. BeliefSound(p)'
    BY <2>1, <2>4 DEF BeliefSound
  <2> QED
    BY <2>2, <2>3, <2>5 DEF ProcessSound
<1>18. Alone'
  <2> SUFFICES ASSUME OldRow', NEW h \in Proc, holder = h, proc[h].st = "up", NEW q \in Proc \ {h} PROVE Other(q)'
    BY DEF Alone
  <2>1. row'.bound = row.bound /\ row'.token = row.token /\ OldRow
    BY <1>15 DEF OldRow
  <2>2. Other(q)
    BY <2>1 DEF MountInv, Alone
  <2>3. Carries(q)' => Carries(q) /\ req'[q] = req[q]
    BY <1>9, <1>10 DEF Carries
  <2> QED
    BY <2>1, <2>2, <2>3 DEF Other
<1> QED
  BY <1>12, <1>13, <1>14, <1>16, <1>17, <1>18 DEF MountInv

LEMMA RefreshKeeps == ASSUME MountInv, NEW p \in Proc, Refresh(p) PROVE MountInv'
<1>1. TypeOK /\ UNCHANGED <<notAfter, denied, clock, proc, owner, server, holder, counts>> /\ req[p].pc = "refresh"
  BY DEF MountInv, Refresh
<1>2. SideTypes'
  BY <1>1 DEF SideTypes, TypeOK, server, counts
<1>3. CASE RefreshHits(req[p].enr, req[p].token)
  BY <1>1, <1>3, RefreshHitKeeps DEF Refresh
<1>4. CASE ~RefreshHits(req[p].enr, req[p].token)
  BY <1>1, <1>2, <1>4, MissKeeps DEF Refresh, Results
<1> QED
  BY <1>3, <1>4

\* Within a release.
LEMMA ReleaseMoves ==
    ASSUME TypeOK, NEW p \in Proc, req[p].pc \in {"release", "deny"}, NEW pc \in {"deny", "fence"}, Goto(p, pc)
    PROVE  /\ req' \in [Proc -> Requests] /\ \A q \in Proc \ {p} : req'[q] = req[q]
           /\ req'[p].pc = pc /\ req'[p].op = "release" /\ req[p].op = "release"
           /\ req'[p].enr = req[p].enr /\ req[p].enr \in Enrol
<1>1. req \in [Proc -> Requests] /\ req[p] \in ReleaseReq
  BY TypeShapes, ShapeByPc
<1> DEFINE r == [req[p] EXCEPT !.pc = pc]
<1>2. r \in ReleaseReq /\ r.pc = pc /\ r.op = "release" /\ r.enr = req[p].enr
  BY <1>1 DEF ReleaseReq
<1>3. req' = [req EXCEPT ![p] = r]
  BY DEF Goto
<1> HIDE DEF r
<1>4. req[p].op = "release" /\ req[p].enr \in Enrol
  BY <1>1 DEF ReleaseReq
<1> QED
  BY <1>1, <1>2, <1>3, <1>4, RequestShapes

LEMMA ReleaseKeeps == ASSUME MountInv, NEW p \in Proc, Release(p) PROVE MountInv'
<1>1. TypeOK /\ UNCHANGED <<notAfter, denied, clock, proc, owner, server, counts>> /\ req[p].pc = "release"
  BY DEF MountInv, Release
<1>2. SideTypes' /\ proc \in [Proc -> ProcShape]
  BY <1>1, TypeShapes DEF SideTypes, TypeOK, server, counts
<1>3. CASE UNCHANGED <<row, holder>> /\ Reply(p, "evict")
  BY <1>1, <1>2, <1>3, MissKeeps DEF Results
<1>4. CASE row' = Released /\ holder' = None /\ Goto(p, "deny")
  <2>1. enrolled' = enrolled
    BY <1>1 DEF enrolled
  <2>2. /\ row' \in RowShape /\ Alone' /\ \A q \in Proc : BeliefSound(q)' /\ OldRowSound(q)'
        /\ RowSound' /\ Numbered'
    BY <1>1, <1>4, <2>1, FreedSound
  <2>3. /\ req' \in [Proc -> Requests] /\ \A q \in Proc \ {p} : req'[q] = req[q]
        /\ req'[p].pc = "deny" /\ req'[p].op = "release" /\ req[p].op = "release"
        /\ req'[p].enr = req[p].enr
    BY <1>1, <1>4, ReleaseMoves
  <2>4. ProcessSound(p) /\ \A q \in Proc : ProcessSound(q)
    BY DEF MountInv
  <2>5. EnrolSound(p)' /\ PhaseSound(p)' /\ TokenSound(p)'
    BY <1>1, <2>1, <2>3, <2>4 DEF ProcessSound, EnrolSound, PhaseSound, TokenSound, Carries, Asks, Leased
  <2>6. ASSUME NEW q \in Proc \ {p} PROVE EnrolSound(q)' /\ PhaseSound(q)' /\ TokenSound(q)'
    BY <1>1, <2>1, <2>3, <2>4 DEF ProcessSound, EnrolSound, PhaseSound, TokenSound, Carries, Asks, Leased
  <2>7. \A q \in Proc : ProcessSound(q)'
    BY <2>2, <2>5, <2>6 DEF ProcessSound
  <2>8. TypeOK'
    BY <1>1, <1>4, <2>2, <2>3 DEF TypeOK, server, counts, RowShape
  <2> QED
    BY <2>2, <2>7, <2>8 DEF MountInv
<1> QED
  BY <1>3, <1>4 DEF Release

LEMMA DenyReleasedKeeps == ASSUME MountInv, NEW p \in Proc, DenyReleased(p) PROVE MountInv'
<1>1. TypeOK /\ UNCHANGED <<row, notAfter, clock, proc, owner, server, holder, opens>> /\ req[p].pc = "deny"
  BY DEF MountInv, DenyReleased
<1>2. /\ req' \in [Proc -> Requests] /\ \A q \in Proc \ {p} : req'[q] = req[q]
      /\ req'[p].pc = "fence" /\ req'[p].op = "release" /\ req[p].op = "release"
      /\ req'[p].enr = req[p].enr /\ req[p].enr \in Enrol
  BY <1>1, ReleaseMoves DEF DenyReleased
<1>3. events' \in Nat
  BY <1>1, EventType DEF DenyReleased, Deny
<1>4. denied' \subseteq Enrol
  BY <1>1, <1>2 DEF DenyReleased, Deny, TypeOK
<1>5. SideTypes' /\ proc \in [Proc -> ProcShape]
  BY <1>1, <1>3, <1>4, TypeShapes DEF SideTypes, TypeOK, server
<1>6. OnlyProc(p) /\ SameRow /\ enrolled' = enrolled
  BY <1>1, <1>2, <1>5 DEF OnlyProc, SameRow, enrolled
<1>7. ProcessSound(p)
  BY DEF MountInv
<1>8. Carries(p) /\ Carries(p)' /\ ~Asks(p)' /\ ~Leased(p)' /\ ~Winning(p)' /\ req'[p].pc # "refresh"
  BY <1>1, <1>2 DEF Carries, Asks, Leased, Winning
<1>9. EnrolSound(p)' /\ PhaseSound(p)' /\ TokenSound(p)'
  BY <1>1, <1>2, <1>6, <1>7, <1>8 DEF ProcessSound, EnrolSound, PhaseSound, TokenSound
<1>10. BeliefSound(p)' /\ OldRowSound(p)'
  BY <1>1, <1>7, <1>8 DEF ProcessSound, BeliefSound, OldRowSound, OldRow
<1>11. Other(p) => Other(p)'
  BY <1>1, <1>2, <1>8 DEF Other
<1>12. Numbered'
  BY <1>1, <1>6 DEF MountInv, Numbered
<1> QED
  BY <1>1, <1>5, <1>6, <1>9, <1>10, <1>11, <1>12, ProcessKeeps DEF ProcessSound

-----------------------------------------------------------------------------
(* The mount process.                                                      *)

\* A mount starts with a new certificate or with one that a process left
\* behind; of the holder that is up it is neither.
LEMMA BootKeeps == ASSUME MountInv, NEW p \in Proc, NEW e \in Enrol, NEW force \in BOOLEAN, Boot(p, e, force) PROVE MountInv'
<1>1. TypeOK /\ UNCHANGED <<row, denied, clock, owner, server, holder, counts>> /\ proc[p] = NotStarted
  BY DEF MountInv, Boot
<1>2. proc \in [Proc -> ProcShape] /\ req \in [Proc -> Requests] /\ ProcessSound(p) /\ Numbered
  BY <1>1, TypeShapes DEF MountInv
<1> DEFINE r == [op |-> "acquire", pc |-> "acquire", enr |-> e, force |-> force, until |-> 0]
           m == [NotStarted EXCEPT !.st = "mounting", !.enr = e, !.cert = e]
<1>3. r \in AcquireReq /\ r.pc = "acquire" /\ r.op = "acquire" /\ r.enr = e
  BY DEF AcquireReq
<1>4. m \in ProcShape /\ m.st = "mounting" /\ m.enr = e /\ m.token = None
  BY DEF NotStarted, ProcShape, Tokens
<1>5. Send(p, r) /\ proc' = [proc EXCEPT ![p] = m]
  BY DEF Boot
<1> HIDE DEF r, m
<1>6. /\ req' \in [Proc -> Requests] /\ req'[p] = r /\ \A q \in Proc \ {p} : req'[q] = req[q]
      /\ proc' \in [Proc -> ProcShape] /\ proc'[p] = m /\ \A q \in Proc \ {p} : proc'[q] = proc[q]
  BY <1>2, <1>3, <1>4, <1>5, SendType, RequestShapes
<1>7. OnlyProc(p)
  BY <1>6 DEF OnlyProc
<1>8. /\ enrolled \subseteq enrolled' /\ e \in enrolled' /\ notAfter' \in [Enrol -> Nat] /\ Numbered'
      /\ OldRow => \A h \in Proc \ {p} : holder = h /\ proc[h].st = "up" => e # row.bound
  <2>1. CASE e \in enrolled
    <3>1. notAfter' = notAfter /\ enrolled' = enrolled
      BY <2>1 DEF Boot, enrolled
    <3>2. PICK g \in Proc : proc[g].st = "gone" /\ proc[g].enr = e
      <4>1. ~(MayEnrol /\ e = NextEnrol)
        BY <1>1, <1>2, <2>1, NextEnrolFresh
      <4> QED
        BY <4>1 DEF Boot
    <3>3. ASSUME OldRow, NEW h \in Proc, holder = h, proc[h].st = "up" PROVE e # row.bound
      BY <3>2, <3>3 DEF MountInv, Alone, Other
    <3> QED
      BY <1>1, <1>2, <2>1, <3>1, <3>3 DEF TypeOK, Numbered
  <2>2. CASE e \notin enrolled
    <3>1. MayEnrol /\ e = NextEnrol /\ notAfter' = [notAfter EXCEPT ![e] = clock + CertTTL]
      BY <2>2 DEF Boot
    <3>2. /\ row.bound # e /\ notAfter' \in [Enrol -> Nat]
          /\ enrolled' = enrolled \union {e} /\ enrolled' = 1 .. e
      BY <1>1, <1>2, <3>1, NextEnrolFresh
    <3>3. Numbered'
      BY <1>1, <1>2, <3>2 DEF Numbered, Enrol
    <3> QED
      BY <3>2, <3>3
  <2> QED
    BY <2>1, <2>2
<1>9. SideTypes'
  BY <1>1, <1>8 DEF SideTypes, TypeOK, server, counts
<1>10. Carries(p)' /\ ~Asks(p)' /\ ~Leased(p)' /\ ~Winning(p)' /\ req'[p].pc # "refresh"
  BY <1>3, <1>6 DEF Carries, Asks, Leased, Winning
<1>11. EnrolSound(p)' /\ PhaseSound(p)' /\ TokenSound(p)'
  BY <1>3, <1>4, <1>6, <1>8, <1>10 DEF EnrolSound, PhaseSound, TokenSound
<1>12. BeliefSound(p)' /\ OldRowSound(p)'
  BY <1>4, <1>6, <1>10 DEF BeliefSound, OldRowSound
<1>13. SameRow /\ RowSound'
  <2>1. SameRow /\ clock' \in Nat /\ clock' >= clock
    BY <1>1 DEF SameRow, TypeOK
  <2> QED
    BY <2>1, RowFrame
<1>14. \A q \in Proc : ProcessSound(q)'
  <2>1. ASSUME NEW q \in Proc \ {p} PROVE ProcessSound(q)'
    BY <1>6, <1>8, <1>13, UntouchedSound DEF MountInv
  <2> QED
    BY <1>11, <1>12, <2>1 DEF ProcessSound
<1>15. Alone'
  <2> SUFFICES ASSUME OldRow, NEW h \in Proc, holder = h, proc'[h].st = "up", NEW q \in Proc \ {h} PROVE Other(q)'
    BY <1>1 DEF Alone, OldRow
  <2>1. h # p /\ proc[h].st = "up"
    BY <1>4, <1>6
  <2>2. CASE q = p
    BY <1>1, <1>3, <1>4, <1>6, <1>8, <2>1, <2>2 DEF Other
  <2>3. CASE q # p
    <3>1. Other(q)
      BY <2>1 DEF MountInv, Alone
    <3> QED
      BY <1>1, <1>6, <2>3, <3>1 DEF Other, Carries
  <2> QED
    BY <2>2, <2>3
<1>16. TypeOK'
  BY <1>1, <1>6, <1>9 DEF TypeOK, SideTypes, ProcShape
<1> QED
  BY <1>8, <1>13, <1>14, <1>15, <1>16 DEF MountInv

LEMMA SideSame ==
    ASSUME TypeOK, UNCHANGED <<control, clock, server>>, events' \in Nat, opens' = opens
    PROVE  SideTypes' /\ enrolled' = enrolled
BY DEF TypeOK, SideTypes, control, server, enrolled

LEMMA RefreshStartKeeps == ASSUME MountInv, NEW p \in Proc, RefreshStart(p) PROVE MountInv'
<1>1. TypeOK /\ UNCHANGED <<control, clock, proc, owner, server, holder, counts>> /\ proc[p].st = "up"
  BY DEF MountInv, RefreshStart
<1>2. proc \in [Proc -> ProcShape] /\ req \in [Proc -> Requests] /\ ProcessSound(p)
  BY <1>1, TypeShapes DEF MountInv
<1>3. proc[p].enr \in enrolled /\ proc[p].token \in Tokens /\ proc[p].token \in {None, p} /\ enrolled \subseteq Enrol
  BY <1>1, <1>2 DEF ProcessSound, EnrolSound, TokenSound, ProcShape, enrolled
<1> DEFINE r == [op |-> "refresh", pc |-> "refresh", enr |-> proc[p].enr, token |-> proc[p].token]
<1>4. r \in RefreshReq /\ r.pc = "refresh" /\ r.op = "refresh" /\ r.enr = proc[p].enr /\ r.token = proc[p].token
  BY <1>3 DEF RefreshReq
<1>5. Send(p, r)
  BY DEF RefreshStart
<1> HIDE DEF r
<1>6. req' \in [Proc -> Requests] /\ req'[p] = r /\ \A q \in Proc \ {p} : req'[q] = req[q]
  BY <1>2, <1>4, <1>5, SendType, RequestShapes
<1>7. SideTypes' /\ enrolled' = enrolled
  BY <1>1, SideSame DEF counts, TypeOK
<1>8. OnlyProc(p) /\ SameRow /\ Numbered'
  BY <1>1, <1>2, <1>6, <1>7 DEF OnlyProc, SameRow, control, MountInv, Numbered
<1>9. ~Leased(p)' /\ ~Winning(p)' /\ req'[p].pc = "refresh"
  BY <1>4, <1>6 DEF Leased, Winning
<1>10. EnrolSound(p)' /\ PhaseSound(p)' /\ TokenSound(p)'
  BY <1>1, <1>2, <1>3, <1>4, <1>6, <1>7, <1>9 DEF ProcessSound, EnrolSound, PhaseSound, TokenSound
<1>11. BeliefSound(p)'
  BY <1>1, <1>2, <1>4, <1>6, <1>8, <1>9 DEF ProcessSound, BeliefSound, SameRow
<1>12. OldRowSound(p)'
  BY <1>1, <1>2, <1>4, <1>6, <1>8, <1>9 DEF ProcessSound, OldRowSound, OldRow, SameRow
<1>13. Other(p) => Other(p)'
  BY <1>1, <1>4, <1>6, <1>8 DEF Other, SameRow
<1> QED
  BY <1>1, <1>7, <1>8, <1>10, <1>11, <1>12, <1>13, ProcessKeeps DEF ProcessSound, control

\* The process exits, and a release goes out with its enrolment, and with its
\* token or without.
LEMMA ExitReleaseKeeps ==
    ASSUME MountInv, NEW p \in Proc, proc[p].st \in {"mounting", "up"}, NEW tok \in {None, proc[p].token},
           proc' = [proc EXCEPT ![p] = Exited(p)], Send(p, ReleaseOf(p, tok)),
           UNCHANGED <<control, clock, owner, server, holder, counts>>
    PROVE  MountInv'
<1>1. TypeOK
  BY DEF MountInv
<1>2. proc \in [Proc -> ProcShape] /\ req \in [Proc -> Requests] /\ ProcessSound(p)
  BY <1>1, TypeShapes DEF MountInv
<1>3. proc[p].enr \in enrolled /\ tok \in Tokens /\ tok \in {None, p} /\ enrolled \subseteq Enrol
  BY <1>1, <1>2 DEF ProcessSound, EnrolSound, TokenSound, ProcShape, enrolled, Tokens
<1> DEFINE r == ReleaseOf(p, tok)
<1>4. r \in ReleaseReq /\ r.pc = "release" /\ r.op = "release" /\ r.enr = proc[p].enr /\ r.token = tok
  BY <1>3 DEF ReleaseReq, ReleaseOf
<1> HIDE DEF r
<1>5. req' \in [Proc -> Requests] /\ req'[p] = r /\ \A q \in Proc \ {p} : req'[q] = req[q]
  BY <1>2, <1>4, SendType, RequestShapes DEF r
<1>6. /\ proc' \in [Proc -> ProcShape] /\ \A q \in Proc \ {p} : proc'[q] = proc[q]
      /\ proc'[p].st = "gone" /\ proc'[p].enr = proc[p].enr /\ proc'[p].token = None
  BY <1>2, ExitedType
<1>7. SideTypes' /\ enrolled' = enrolled
  BY <1>1, SideSame DEF counts, TypeOK
<1>8. OnlyProc(p) /\ SameRow /\ Numbered'
  BY <1>5, <1>6, <1>7 DEF OnlyProc, SameRow, control, MountInv, Numbered
<1>9. ~Leased(p)' /\ ~Winning(p)' /\ req'[p].pc # "refresh"
  BY <1>4, <1>5 DEF Leased, Winning
<1>10. EnrolSound(p)' /\ PhaseSound(p)' /\ TokenSound(p)'
  BY <1>3, <1>4, <1>5, <1>6, <1>7, <1>9 DEF EnrolSound, PhaseSound, TokenSound
<1>11. BeliefSound(p)' /\ OldRowSound(p)'
  BY <1>6, <1>9 DEF BeliefSound, OldRowSound
<1>12. Other(p) => Other(p)'
  BY <1>4, <1>5, <1>6, <1>8 DEF Other, SameRow
<1> QED
  BY <1>6, <1>7, <1>8, <1>10, <1>11, <1>12, ProcessKeeps DEF ProcessSound, control

LEMMA CrashKeeps == ASSUME MountInv, NEW p \in Proc, Crash(p) \/ Stop(p) PROVE MountInv'
<1>1. /\ TypeOK /\ UNCHANGED <<control, clock, owner, server, holder, counts>>
      /\ proc[p].st \in {"mounting", "up"} /\ proc' = [proc EXCEPT ![p] = Exited(p)]
  BY DEF MountInv, Crash, Stop
<1>2. CASE Send(p, ReleaseOf(p, None)) \/ Send(p, ReleaseOf(p, proc[p].token))
  BY <1>1, <1>2, ExitReleaseKeeps
<1>3. CASE UNCHANGED req
  <2>1. proc \in [Proc -> ProcShape] /\ req \in [Proc -> Requests] /\ ProcessSound(p)
    BY <1>1, TypeShapes DEF MountInv
  <2>2. /\ proc' \in [Proc -> ProcShape] /\ \A q \in Proc \ {p} : proc'[q] = proc[q]
        /\ proc'[p].st = "gone" /\ proc'[p].enr = proc[p].enr /\ proc'[p].token = None
    BY <1>1, <2>1, ExitedType
  <2>3. SideTypes' /\ enrolled' = enrolled
    BY <1>1, SideSame DEF counts, TypeOK
  <2>4. OnlyProc(p) /\ SameRow /\ Numbered'
    BY <1>1, <1>3, <2>1, <2>2, <2>3 DEF OnlyProc, SameRow, control, MountInv, Numbered
  <2>5. /\ Carries(p)' = Carries(p) /\ Asks(p)' = Asks(p) /\ Leased(p)' = Leased(p) /\ Winning(p)' = Winning(p)
        /\ req'[p] = req[p]
    BY <1>3 DEF Carries, Asks, Leased, Winning
  <2>6. EnrolSound(p)' /\ PhaseSound(p)' /\ TokenSound(p)'
    BY <2>1, <2>2, <2>3, <2>5 DEF ProcessSound, EnrolSound, PhaseSound, TokenSound
  <2>7. BeliefSound(p)' /\ OldRowSound(p)'
    BY <2>1, <2>2, <2>4, <2>5 DEF ProcessSound, BeliefSound, OldRowSound, OldRow, SameRow
  <2>8. Other(p) => Other(p)'
    BY <2>2, <2>4, <2>5 DEF Other, SameRow
  <2> QED
    BY <1>1, <2>2, <2>3, <2>4, <2>6, <2>7, <2>8, ProcessKeeps DEF ProcessSound, control
<1> QED
  BY <1>2, <1>3 DEF Crash, Stop

\* The request is over, and the process stays or exits.
LEMMA OverKeeps ==
    ASSUME MountInv, NEW p \in Proc, Send(p, Idle),
           proc' = proc \/ proc' = [proc EXCEPT ![p] = Exited(p)],
           UNCHANGED <<control, clock, owner, server, holder, opens>>, events' \in Nat
    PROVE  MountInv'
<1>1. TypeOK /\ proc \in [Proc -> ProcShape] /\ req \in [Proc -> Requests]
  BY TypeShapes DEF MountInv
<1>2. req' \in [Proc -> Requests] /\ req'[p] = Idle /\ \A q \in Proc \ {p} : req'[q] = req[q]
  BY <1>1, IdleShape, SendType
<1>3. /\ proc' \in [Proc -> ProcShape] /\ proc'[p] \in {proc[p], Exited(p)}
      /\ \A q \in Proc \ {p} : proc'[q] = proc[q]
  BY <1>1, ExitedType
<1>4. SideTypes'
  BY <1>1, SideSame
<1> QED
  BY <1>2, <1>3, <1>4, IdleShape, PlainKeeps DEF OnlyProc, control

LEMMA LoseKeeps == ASSUME MountInv, NEW p \in Proc, Lose(p) PROVE MountInv'
<1>1. TypeOK /\ proc \in [Proc -> ProcShape] /\ UNCHANGED <<control, clock, owner, server, holder, opens>> /\ Send(p, Idle)
  BY TypeShapes DEF MountInv, Lose
<1>2. events' \in Nat
  BY <1>1, EventType DEF Lose
<1>3. proc' = proc \/ proc' = [proc EXCEPT ![p] = Exited(p)]
  <2>1. CASE proc[p].st = "mounting"
    BY <2>1 DEF Lose
  <2>2. CASE proc[p].st # "mounting"
    BY <1>1, <2>2 DEF Lose
  <2> QED
    BY <2>1, <2>2
<1> QED
  BY <1>1, <1>2, <1>3, OverKeeps

\* A lease is delivered: the process is up and believes what it was told.
LEMMA LeaseDelivered ==
    ASSUME MountInv, NEW p \in Proc, Leased(p), Send(p, Idle),
           NEW m \in ProcShape, proc' = [proc EXCEPT ![p] = m],
           m.st = "up", m.enr = proc[p].enr, m.until = req[p].until,
           \/ proc[p].st = "mounting" /\ req[p].op = "acquire" /\ m.token = req[p].token
           \/ proc[p].st = "up" /\ m.token = IF req[p].token = None THEN proc[p].token ELSE req[p].token,
           UNCHANGED <<control, clock, owner, server, holder, counts>>
    PROVE  MountInv'
<1>1. TypeOK /\ proc \in [Proc -> ProcShape] /\ req \in [Proc -> Requests] /\ ProcessSound(p)
  BY TypeShapes DEF MountInv
<1>2. req' \in [Proc -> Requests] /\ req'[p] = Idle /\ \A q \in Proc \ {p} : req'[q] = req[q]
  BY <1>1, IdleShape, SendType
<1>3. proc' \in [Proc -> ProcShape] /\ proc'[p] = m /\ \A q \in Proc \ {p} : proc'[q] = proc[q]
  BY <1>1
<1>4. SideTypes' /\ enrolled' = enrolled
  BY <1>1, SideSame DEF counts, TypeOK
<1>5. OnlyProc(p) /\ SameRow /\ Numbered'
  BY <1>2, <1>3, <1>4 DEF OnlyProc, SameRow, control, MountInv, Numbered
<1>6. ~Carries(p)' /\ ~Asks(p)' /\ ~Leased(p)' /\ ~Winning(p)' /\ req'[p].pc = "idle"
  BY <1>2, IdleShape DEF Carries, Asks, Leased, Winning
<1>7. proc[p].st = "mounting" /\ holder = p => ~OldRow
  BY <1>1, Constants DEF ProcessSound, BeliefSound, Winning, OldRow
<1>8. m.token \in {None, p}
  BY <1>1 DEF ProcessSound, TokenSound
<1>9. EnrolSound(p)' /\ PhaseSound(p)' /\ TokenSound(p)'
  BY <1>1, <1>3, <1>4, <1>6, <1>8 DEF ProcessSound, EnrolSound, PhaseSound, TokenSound
<1>10. BeliefSound(p)'
  BY <1>1, <1>3, <1>5, <1>6 DEF ProcessSound, BeliefSound, SameRow
<1>11. OldRowSound(p)'
  <2> SUFFICES ASSUME OldRow PROVE OldRowSound(p)'
    BY <1>5 DEF OldRowSound, OldRow, SameRow
  <2>1. CASE proc[p].st = "mounting"
    <3>1. holder # p
      BY <1>7, <2>1
    <3>2. p \notin Legacy => m.token = p /\ m.token # None
      BY <1>1, <2>1, Constants DEF ProcessSound, TokenSound
    <3> QED
      BY <1>3, <1>5, <1>6, <3>1, <3>2 DEF OldRowSound, SameRow
  <2>2. CASE proc[p].st = "up"
    <3>1. m.token = None => proc[p].token = None
      BY <2>2
    <3> QED
      BY <1>1, <1>3, <1>5, <1>6, <2>2, <3>1 DEF ProcessSound, OldRowSound, SameRow
  <2> QED
    BY <2>1, <2>2
<1>12. Other(p) => Other(p)'
  BY <1>3, <1>5, <1>6 DEF Other, SameRow
<1> QED
  BY <1>4, <1>5, <1>7, <1>9, <1>10, <1>11, <1>12, ProcessKeeps DEF ProcessSound, control

LEMMA DeliverKeeps == ASSUME MountInv, NEW p \in Proc, Deliver(p) PROVE MountInv'
<1>1. TypeOK /\ UNCHANGED <<control, clock, owner, server, holder, counts>> /\ req[p].pc = "reply"
  BY DEF MountInv, Deliver
<1>2. proc \in [Proc -> ProcShape] /\ req \in [Proc -> Requests] /\ events' \in Nat /\ opens' = opens
  BY <1>1, TypeShapes DEF TypeOK, counts
<1>3. CASE (proc' = proc \/ proc' = [proc EXCEPT ![p] = Exited(p)]) /\ Send(p, Idle)
  BY <1>1, <1>2, <1>3, OverKeeps
<1>4. CASE /\ proc[p].st = "up" /\ proc' = [proc EXCEPT ![p] = Exited(p)]
           /\ Send(p, ReleaseOf(p, proc[p].token))
  BY <1>1, <1>4, ExitReleaseKeeps
<1>5. CASE /\ proc[p].st = "mounting" /\ req[p].op = "acquire" /\ req[p].result = "ok" /\ Send(p, Idle)
           /\ proc' = [proc EXCEPT ![p] = [@ EXCEPT !.st = "up", !.token = req[p].token, !.until = req[p].until]]
  <2>1. Leased(p)
    BY <1>1, <1>5 DEF Leased
  <2>2. req[p].token \in Tokens /\ req[p].until \in Nat
    BY <1>2, <2>1, ShapeByPc DEF Leased, LeaseReply
  <2> DEFINE m == [proc[p] EXCEPT !.st = "up", !.token = req[p].token, !.until = req[p].until]
  <2>3. m \in ProcShape /\ m.st = "up" /\ m.enr = proc[p].enr /\ m.until = req[p].until /\ m.token = req[p].token
    BY <1>2, <2>2 DEF ProcShape
  <2>4. proc' = [proc EXCEPT ![p] = m]
    BY <1>5
  <2> HIDE DEF m
  <2> QED
    BY <1>1, <1>5, <2>1, <2>3, <2>4, LeaseDelivered
<1>6. CASE /\ proc[p].st = "up" /\ req[p].op = "refresh" /\ req[p].result = "ok" /\ Send(p, Idle)
           /\ proc' = [proc EXCEPT ![p].until = req[p].until,
                                   ![p].token = IF req[p].token = None THEN proc[p].token ELSE req[p].token]
  <2>1. Leased(p)
    BY <1>1, <1>6 DEF Leased
  <2> DEFINE kept == IF req[p].token = None THEN proc[p].token ELSE req[p].token
  <2>2. kept \in Tokens /\ req[p].until \in Nat
    <3>1. req[p].token \in Tokens /\ req[p].until \in Nat
      BY <1>2, <2>1, ShapeByPc DEF Leased, LeaseReply
    <3>2. proc[p].token \in Tokens
      BY <1>2 DEF ProcShape
    <3> QED
      BY <3>1, <3>2
  <2> DEFINE m == [proc[p] EXCEPT !.until = req[p].until, !.token = kept]
  <2>3. proc' = [proc EXCEPT ![p] = m]
    BY <1>6
  <2> HIDE DEF kept
  <2>4. m \in ProcShape /\ m.st = "up" /\ m.enr = proc[p].enr /\ m.until = req[p].until /\ m.token = kept
    BY <1>2, <1>6, <2>2 DEF ProcShape
  <2> HIDE DEF m
  <2> QED
    BY <1>1, <1>6, <2>1, <2>3, <2>4, LeaseDelivered DEF kept
<1>7. CASE proc[p].st = "mounting" /\ req[p].op = "acquire" /\ Send(p, Idle)
           /\ proc' = [proc EXCEPT ![p] = IF req[p].result = "ok"
                          THEN [@ EXCEPT !.st = "up", !.token = req[p].token, !.until = req[p].until]
                          ELSE Exited(p)]
  <2>1. CASE req[p].result = "ok"
    BY <1>5, <1>7, <2>1
  <2>2. CASE req[p].result # "ok"
    BY <1>3, <1>7, <2>2
  <2> QED
    BY <2>1, <2>2
<1> QED
  BY <1>3, <1>4, <1>6, <1>7 DEF Deliver

LEMMA RenewKeeps == ASSUME MountInv, NEW p \in Proc, Renew(p) PROVE MountInv'
<1>1. TypeOK /\ UNCHANGED <<row, denied, clock, req, owner, server, holder, counts>> /\ proc[p].st = "up"
  BY DEF MountInv, Renew
<1>2. proc \in [Proc -> ProcShape] /\ req \in [Proc -> Requests] /\ ProcessSound(p) /\ Numbered
  BY <1>1, TypeShapes DEF MountInv
<1>3. ASSUME NEW m \in ProcShape, proc' = [proc EXCEPT ![p] = m],
             m.st = "up", m.token = proc[p].token, m.until = proc[p].until,
             m.enr = proc[p].enr \/ (proc[p].token # None /\ m.enr # row.bound),
             m.enr \in enrolled', enrolled \subseteq enrolled', notAfter' \in [Enrol -> Nat], Numbered'
      PROVE  MountInv'
  <2>1. proc' \in [Proc -> ProcShape] /\ proc'[p] = m /\ \A q \in Proc \ {p} : proc'[q] = proc[q]
    BY <1>2, <1>3
  <2>2. OnlyProc(p) /\ SameRow
    BY <1>1, <1>2, <2>1 DEF OnlyProc, SameRow
  <2>3. SideTypes'
    BY <1>1, <1>3 DEF SideTypes, TypeOK, server, counts
  <2>4. /\ Carries(p)' = Carries(p) /\ Asks(p)' = Asks(p) /\ Leased(p)' = Leased(p) /\ Winning(p)' = Winning(p)
        /\ req'[p] = req[p]
    BY <1>1 DEF Carries, Asks, Leased, Winning
  <2>5. EnrolSound(p)' /\ PhaseSound(p)' /\ TokenSound(p)'
    BY <1>1, <1>2, <1>3, <2>1, <2>4 DEF ProcessSound, EnrolSound, PhaseSound, TokenSound
  <2>6. BeliefSound(p)'
    BY <1>1, <1>2, <1>3, <2>1, <2>2, <2>4 DEF ProcessSound, BeliefSound, SameRow
  <2>7. OldRow /\ holder = p => proc[p].token = None
    BY <1>1, <1>2, Constants DEF ProcessSound, BeliefSound, TokenSound, OldRow
  <2>8. OldRowSound(p)'
    BY <1>1, <1>2, <1>3, <2>1, <2>2, <2>4, <2>7 DEF ProcessSound, OldRowSound, OldRow, SameRow
  <2>9. Other(p) => Other(p)'
    BY <1>3, <2>1, <2>2, <2>4 DEF Other, SameRow
  <2> QED
    BY <1>1, <1>3, <2>2, <2>3, <2>5, <2>6, <2>8, <2>9, ProcessKeeps DEF ProcessSound
<1>4. CASE UNCHANGED notAfter /\ proc' = [proc EXCEPT ![p].terminal = TRUE]
  <2> DEFINE m == [proc[p] EXCEPT !.terminal = TRUE]
  <2>1. m \in ProcShape /\ m.st = "up" /\ m.token = proc[p].token /\ m.until = proc[p].until /\ m.enr = proc[p].enr
    BY <1>1, <1>2 DEF ProcShape
  <2>2. proc' = [proc EXCEPT ![p] = m]
    BY <1>4
  <2> HIDE DEF m
  <2>3. enrolled' = enrolled /\ notAfter' \in [Enrol -> Nat]
    BY <1>1, <1>4 DEF enrolled, TypeOK
  <2>4. m.enr \in enrolled' /\ Numbered'
    BY <1>1, <1>2, <2>1, <2>3 DEF ProcessSound, EnrolSound, Numbered
  <2> QED
    BY <1>3, <2>1, <2>2, <2>3, <2>4
<1>5. CASE /\ MayEnrol /\ notAfter' = [notAfter EXCEPT ![NextEnrol] = clock + CertTTL]
           /\ proc' = [proc EXCEPT ![p].cert = NextEnrol,
                                   ![p].enr = IF proc[p].token = None THEN @ ELSE NextEnrol]
  <2>1. PICK n : n = NextEnrol
    OBVIOUS
  <2>2. /\ n \in Enrol /\ row.bound # n
        /\ notAfter' \in [Enrol -> Nat] /\ enrolled' = enrolled \union {n} /\ enrolled' = 1 .. n
    BY <1>1, <1>2, <1>5, <2>1, NextEnrolFresh
  <2> DEFINE f == IF proc[p].token = None THEN proc[p].enr ELSE n
             m == [proc[p] EXCEPT !.cert = n, !.enr = f]
  <2>3. f \in enrolled' /\ f \in Enrol
    BY <1>1, <1>2, <2>2 DEF ProcessSound, EnrolSound, enrolled
  <2>4. proc' = [proc EXCEPT ![p] = m]
    BY <1>5, <2>1
  <2>5. f = proc[p].enr \/ (proc[p].token # None /\ f # row.bound)
    BY <2>2
  <2> HIDE DEF f
  <2>6. m \in ProcShape /\ m.st = "up" /\ m.token = proc[p].token /\ m.until = proc[p].until /\ m.enr = f
    BY <1>1, <1>2, <2>2, <2>3 DEF ProcShape
  <2> HIDE DEF m
  <2>7. Numbered'
    BY <1>1, <1>2, <2>2 DEF Numbered, Enrol
  <2> QED
    BY <1>3, <2>2, <2>3, <2>4, <2>5, <2>6, <2>7
<1> QED
  BY <1>4, <1>5 DEF Renew

-----------------------------------------------------------------------------
(* The invariant.                                                          *)

LEMMA MountInit == Init => MountInv
<1> SUFFICES ASSUME Init PROVE MountInv
  OBVIOUS
<1>1. /\ clock = 0 /\ req = [p \in Proc |-> Idle] /\ owner = Idle
      /\ denied = {} /\ denyList = {} /\ live = {} /\ active = None /\ fenced = {} /\ events = 0 /\ opens = 0
  BY DEF Init
<1>2. /\ req \in [Proc -> Requests] /\ owner \in OwnerShape
      /\ \A p \in Proc : req[p].pc = "idle" /\ ~Carries(p) /\ ~Asks(p) /\ ~Leased(p) /\ ~Winning(p)
  <2>1. req \in [Proc -> Requests] /\ \A p \in Proc : req[p].pc = "idle"
    BY <1>1, IdleShape
  <2>2. owner \in OwnerShape
    BY <1>1 DEF OwnerShape, Idle
  <2> QED
    BY <2>1, <2>2 DEF Carries, Asks, Leased, Winning
<1>3. ASSUME row \in RowShape, proc \in [Proc -> ProcShape], notAfter \in [Enrol -> Nat], holder \in Proc \union {None}
      PROVE  TypeOK
  BY <1>1, <1>2, <1>3 DEF TypeOK, RowShape, ProcShape, OwnerShape
<1>4. NotStarted \in ProcShape /\ NotStarted.st = "new" /\ NotStarted.enr = NoEnrol /\ NotStarted.token = None
  BY DEF NotStarted, ProcShape, Tokens
<1>5. Free \in RowShape /\ Free.bound = NoEnrol /\ Free.expires = 0 /\ Free.token = Null
  BY DEF Free, RowShape
<1>6. CASE /\ row = Free /\ holder = None /\ notAfter = [e \in Enrol |-> 0]
           /\ proc = [p \in Proc |-> NotStarted]
  <2>1. TypeOK
    BY <1>3, <1>4, <1>5, <1>6
  <2>2. enrolled = 1 .. 0
    BY <1>6 DEF enrolled
  <2>3. Numbered
    BY <1>5, <1>6, <2>2 DEF Numbered
  <2>4. RowSound
    BY <1>1, <1>5, <1>6, Constants DEF RowSound
  <2>5. ~OldRow /\ Alone
    BY <1>5, <1>6 DEF OldRow, Alone
  <2>6. ASSUME NEW p \in Proc PROVE ProcessSound(p)
    <3>1. proc[p].st = "new" /\ proc[p].enr = NoEnrol /\ proc[p].token = None /\ holder # p
      BY <1>4, <1>6, Constants
    <3> QED
      BY <1>2, <2>5, <3>1
      DEF ProcessSound, EnrolSound, PhaseSound, TokenSound, BeliefSound, OldRowSound
  <2> QED
    BY <2>1, <2>3, <2>4, <2>5, <2>6 DEF MountInv
<1> DEFINE Held(h, left, valid, token) ==
      /\ row = [Free EXCEPT !.bound = 1, !.expires = left, !.token = token]
      /\ holder = h /\ notAfter = [e \in Enrol |-> IF e = 1 THEN valid ELSE 0]
      /\ proc = [q \in Proc |-> IF q # h THEN NotStarted
                                ELSE [st |-> "up", enr |-> 1, cert |-> 1, until |-> left, terminal |-> FALSE,
                                      token |-> IF token = Null THEN None ELSE h]]
<1>7. ASSUME NEW h \in Proc, NEW left \in 1 .. TTL, NEW valid \in 1 .. CertTTL, NEW token \in {Null, h} \ Legacy,
             Held(h, left, valid, token)
      PROVE  MountInv
  <2> DEFINE tok == IF token = Null THEN None ELSE h
             m == [st |-> "up", enr |-> 1, cert |-> 1, until |-> left, terminal |-> FALSE, token |-> tok]
  <2>1. left \in Nat /\ left <= TTL /\ valid \in Nat /\ valid # 0 /\ 1 \in Enrol /\ TTL \in Nat
    BY Constants
  <2>2. tok \in Tokens /\ tok \in {None, token} /\ tok \in {None, h} /\ (token # Null => tok = h)
    BY <1>7 DEF Tokens
  <2> HIDE DEF tok
  <2>3. m \in ProcShape /\ m.st = "up" /\ m.enr = 1 /\ m.until = left /\ m.token = tok
    BY <2>1, <2>2 DEF ProcShape
  <2>4. proc = [q \in Proc |-> IF q # h THEN NotStarted ELSE m]
    BY <1>7 DEF tok
  <2> HIDE DEF m
  <2>5. proc \in [Proc -> ProcShape] /\ proc[h] = m /\ \A q \in Proc \ {h} : proc[q] = NotStarted
    BY <1>4, <2>3, <2>4
  <2>6. row \in RowShape /\ row.bound = 1 /\ row.expires = left /\ row.token = token
    BY <1>5, <1>7, <2>1 DEF RowShape
  <2>7. notAfter \in [Enrol -> Nat] /\ enrolled = {1}
    BY <1>7, <2>1 DEF enrolled
  <2>8. TypeOK
    BY <1>3, <1>7, <2>5, <2>6, <2>7
  <2>9. Numbered
    <3>1. enrolled = 1 .. 1
      BY <2>7
    <3> QED
      BY <2>6, <2>7, <3>1 DEF Numbered
  <2>10. RowSound
    <3>1. row.expires <= clock + TTL
      BY <1>1, <2>1, <2>6
    <3>2. row.bound # NoEnrol
      BY <2>6 DEF NoEnrol
    <3> QED
      BY <1>7, <2>6, <3>1, <3>2, Constants DEF RowSound
  <2>11. Alone
    BY <1>2, <1>4, <1>7, <2>5, <2>6 DEF Alone, Other, NoEnrol
  <2>12. ASSUME NEW p \in Proc PROVE ProcessSound(p)
    <3>1. CASE p = h
      <4>1. proc[p].st = "up" /\ proc[p].enr = 1 /\ proc[p].until = left /\ proc[p].token = tok
        BY <2>3, <2>5, <3>1
      <4>2. EnrolSound(p) /\ PhaseSound(p) /\ TokenSound(p)
        BY <1>2, <2>2, <2>7, <3>1, <4>1 DEF EnrolSound, PhaseSound, TokenSound
      <4>3. BeliefSound(p)
        BY <1>2, <2>1, <2>2, <2>6, <4>1 DEF BeliefSound
      <4>4. OldRowSound(p)
        BY <1>2, <1>7, <2>6, <3>1, <4>1 DEF OldRowSound
      <4> QED
        BY <4>2, <4>3, <4>4 DEF ProcessSound
    <3>2. CASE p # h
      <4>1. proc[p].st = "new" /\ proc[p].enr = NoEnrol /\ proc[p].token = None /\ holder # p
        BY <1>4, <1>7, <2>5, <3>2
      <4> QED
        BY <1>2, <4>1 DEF ProcessSound, EnrolSound, PhaseSound, TokenSound, BeliefSound, OldRowSound
    <3> QED
      BY <3>1, <3>2
  <2> QED
    BY <2>8, <2>9, <2>10, <2>11, <2>12 DEF MountInv
<1>8. \/ /\ row = Free /\ holder = None /\ notAfter = [e \in Enrol |-> 0]
         /\ proc = [p \in Proc |-> NotStarted]
      \/ \E h \in Proc, left \in 1 .. TTL, valid \in 1 .. CertTTL : \E token \in {Null, h} \ Legacy :
            Held(h, left, valid, token)
  BY DEF Init
<1> HIDE DEF Held
<1> QED
  BY <1>6, <1>7, <1>8

LEMMA MountNext == MountInv /\ [Next]_vars => MountInv'
<1> SUFFICES ASSUME MountInv, [Next]_vars PROVE MountInv'
  OBVIOUS
<1>1. ASSUME NEW p \in Proc, NEW e \in Enrol, NEW force \in BOOLEAN, Boot(p, e, force) PROVE MountInv'
  BY <1>1, BootKeeps
<1>2. ASSUME NEW p \in Proc,
             RefreshStart(p) \/ Stop(p) \/ Crash(p) \/ Deliver(p) \/ Lose(p) \/ Renew(p)
             \/ OpenData(p) \/ Write(p) \/ DropData(p)
      PROVE  MountInv'
  BY <1>2, RefreshStartKeeps, CrashKeeps, DeliverKeeps, LoseKeeps, RenewKeeps, SessionKeeps
<1>3. ASSUME NEW p \in Proc, Handle(p) PROVE MountInv'
  BY <1>3, RefusedKeeps, AcquireKeeps, ProbeKeeps, RefreshKeeps, ReleaseKeeps, DenyReleasedKeeps, FenceKeeps
  DEF Handle
<1>4. ASSUME NEW op \in {"unmount", "revoke"}, OwnerStart(op) PROVE MountInv'
  BY <1>4, OwnerStartKeeps
<1>5. CASE OwnerHandle
  BY <1>5, ForceReleaseKeeps, DenyPriorKeeps, RevokeKeeps, OwnerFenceKeeps DEF OwnerHandle
<1>6. CASE ServerRestart \/ Reconcile \/ Tick
  BY <1>6, ServerRestartKeeps, ReconcileKeeps, TickKeeps
<1>7. CASE UNCHANGED vars
  BY <1>7, StutterKeeps
<1> QED
  BY <1>1, <1>2, <1>3, <1>4, <1>5, <1>6, <1>7 DEF Next

LEMMA MountAlways == Spec => []MountInv
BY MountInit, MountNext, PTL DEF Spec

-----------------------------------------------------------------------------
(* Theorems.                                                               *)

\* The shapes of the lease columns, the processes and the requests, for any
\* number of mounts and certificates.
THEOREM MountTypes == Spec => []TypeOK
<1>1. MountInv => TypeOK
  BY DEF MountInv
<1> QED
  BY <1>1, MountAlways, PTL

\* While a mount is up and nobody has displaced it, mount_lease_expires_at is
\* no earlier than what it was told, whichever replies of acquire and refresh
\* were lost and however often its certificate was renewed.
THEOREM MountBeliefBacked == Spec => []BeliefBacked
<1>1. MountInv => BeliefBacked
  BY Constants DEF MountInv, RowSound, ProcessSound, BeliefSound, BeliefBacked
<1> QED
  BY <1>1, MountAlways, PTL

\* Who answers a refresh or a release, or changes the row with it.
LEMMA Answers ==
    ASSUME TypeOK, [Next]_vars, NEW p \in Proc, req[p].pc \in {"refresh", "release"}, req'[p] # req[p],
           row' # row \/ req'[p].pc = "reply"
    PROVE  Refused(p) \/ Refresh(p) \/ Release(p)
<1>1. req \in [Proc -> Requests]
  BY DEF TypeOK
<1>2. ASSUME NEW q \in Proc, NEW e \in Enrol, NEW force \in BOOLEAN, Boot(q, e, force), q # p PROVE FALSE
  BY <1>1, <1>2 DEF Boot, Send
<1>3. ASSUME NEW q \in Proc, RefreshStart(q) \/ Stop(q) \/ Crash(q) \/ Deliver(q) \/ Lose(q), q # p PROVE FALSE
  BY <1>1, <1>3 DEF RefreshStart, Stop, Crash, Deliver, Lose, Send
<1>4. ASSUME NEW q \in Proc, Handle(q), q # p PROVE FALSE
  BY <1>1, <1>4 DEF Handle, Refused, Acquire, Probe, Reclaim, Refresh, Release, DenyReleased, Fence,
                    Reply, ReplyLease, Goto
<1>5. ASSUME NEW q \in Proc, Renew(q) \/ OpenData(q) \/ Write(q) \/ DropData(q) PROVE FALSE
  BY <1>5 DEF Renew, OpenData, Write, DropData
<1>6. ASSUME (\E op \in {"unmount", "revoke"} : OwnerStart(op)) \/ OwnerHandle \/ ServerRestart \/ Reconcile \/ Tick
             \/ UNCHANGED vars
      PROVE  FALSE
  BY <1>6 DEF OwnerStart, OwnerHandle, ForceRelease, DenyPrior, Revoke, OwnerFence, ServerRestart, Reconcile, Tick, vars
<1>7. ASSUME NEW e \in Enrol, NEW force \in BOOLEAN, Boot(p, e, force) PROVE FALSE
  BY <1>1, <1>7 DEF Boot, Send
<1>8. ASSUME RefreshStart(p) \/ Stop(p) \/ Crash(p) \/ Deliver(p) \/ Lose(p) PROVE FALSE
  BY <1>8, IdleShape DEF RefreshStart, Stop, Crash, Deliver, Lose
<1>9. ASSUME Handle(p) PROVE Refused(p) \/ Refresh(p) \/ Release(p)
  BY <1>9 DEF Handle, Acquire, Probe, Reclaim, DenyReleased, Fence
<1> QED
  BY <1>2, <1>3, <1>4, <1>5, <1>6, <1>7, <1>8, <1>9 DEF Next

\* A displaced mount cannot touch the lease of its successor: its refresh and
\* its late release change a bound row only by the token of the row, or by
\* the enrolment of a row from before there were tokens.
THEOREM DisplacedCannotTouch == Spec => DisplacedStaysOut
<1>1. ASSUME MountInv, [Next]_vars, NEW p \in Proc, Calls(p), row' # row, row.bound # NoEnrol
      PROVE  holder = p \/ (row.token = Null /\ row.bound = req[p].enr)
  <2>1. (Refused(p) \/ Refresh(p) \/ Release(p)) /\ Asks(p)
    BY <1>1, Answers DEF MountInv, Calls, Asks
  <2>2. ~Refused(p)
    BY <1>1 DEF Refused, control
  <2>3. Owns(req[p].enr, req[p].token)
    BY <1>1, <2>1, <2>2 DEF Refresh, Release, RefreshHits, ReleaseHits
  <2> QED
    BY <1>1, <2>1, <2>3, HitOwner DEF OldRow
<1>2. MountInv /\ [Next]_vars =>
        [\A p \in Proc : Calls(p) /\ row' # row /\ row.bound # NoEnrol =>
            holder = p \/ (row.token = Null /\ row.bound = req[p].enr)]_vars
  BY <1>1
<1> QED
  BY <1>2, MountAlways, PTL DEF Spec, DisplacedStaysOut

\* A mount that knows tokens is told "evict" by a refresh only when its lease
\* is gone, whatever certificate it now has, unless it missed the reply that
\* gave it its token.
THEOREM EvictionIsTrue == Spec => EvictedOnlyWhenLost
<1>1. ASSUME MountInv, [Next]_vars, NEW p \in Proc \ Legacy, Evicted(p), HoldsRow(p) PROVE MissedToken(p)
  <2>1. Refused(p) \/ Refresh(p) \/ Release(p)
    <3>1. req'[p] # req[p] /\ req'[p].pc = "reply"
      BY <1>1 DEF Evicted
    <3> QED
      BY <1>1, <3>1, Answers DEF MountInv, Evicted
  <2>2. ~Refused(p)
    <3>1. req \in [Proc -> Requests]
      BY <1>1 DEF MountInv, TypeOK
    <3>2. ASSUME NEW result \in {"stale", "error"}, Reply(p, result) PROVE req'[p].result = result
      BY <3>1, <3>2 DEF Reply
    <3> QED
      BY <1>1, <3>2 DEF Refused, Evicted
  <2>3. Refresh(p) /\ req[p].pc = "refresh"
    BY <1>1, <2>1, <2>2 DEF Evicted, Release
  <2>4. ~RefreshHits(req[p].enr, req[p].token)
    <3>1. req \in [Proc -> Requests]
      BY <1>1 DEF MountInv, TypeOK
    <3>2. ASSUME ReplyLease(p, Issued(p, req[p].token)) PROVE req'[p].result = "ok"
      BY <3>1, <3>2 DEF ReplyLease
    <3> QED
      BY <1>1, <2>3, <3>2 DEF Refresh, Evicted
  <2>5. ~Owns(req[p].enr, req[p].token)
    BY <1>1, <2>4 DEF RefreshHits, HoldsRow
  <2>6. /\ holder = p /\ RowSound /\ BeliefSound(p) /\ OldRowSound(p)
        /\ row.token \in Proc \union {Null, Empty}
    BY <1>1 DEF MountInv, ProcessSound, HoldsRow, TypeOK
  <2>7. req[p].token = None
    BY <2>3, <2>5, <2>6 DEF Owns, BeliefSound
  <2>8. row.token # Empty
    BY <2>6 DEF RowSound
  <2>9. row.token # Null
    <3>1. row.bound # NoEnrol
      BY <2>6, Constants DEF RowSound
    <3> QED
      BY <2>3, <2>5, <2>6, <2>7, <3>1 DEF Owns, OldRowSound, OldRow
  <2> QED
    BY <2>6, <2>7, <2>8, <2>9 DEF RowSound, MissedToken
<1>2. MountInv /\ [Next]_vars =>
        [\A p \in Proc \ Legacy : Evicted(p) => ~HoldsRow(p) \/ MissedToken(p)]_vars
  BY <1>1
<1> QED
  BY <1>2, MountAlways, PTL DEF Spec, EvictedOnlyWhenLost

\* Who takes the row from its holder.
LEMMA HolderMoves ==
    ASSUME [Next]_vars, holder' # holder
    PROVE  ForceRelease \/ \E q \in Proc : Acquire(q) \/ Reclaim(q) \/ Release(q)
<1>1. ASSUME NEW q \in Proc, Handle(q) PROVE Acquire(q) \/ Reclaim(q) \/ Release(q)
  BY <1>1 DEF Handle, Refused, Probe, Refresh, DenyReleased, Fence
<1>2. ASSUME NEW q \in Proc, NEW e \in Enrol, NEW force \in BOOLEAN, Boot(q, e, force) PROVE FALSE
  BY <1>2 DEF Boot
<1>3. ASSUME NEW q \in Proc,
             RefreshStart(q) \/ Stop(q) \/ Crash(q) \/ Deliver(q) \/ Lose(q) \/ Renew(q)
             \/ OpenData(q) \/ Write(q) \/ DropData(q)
      PROVE  FALSE
  BY <1>3 DEF RefreshStart, Stop, Crash, Deliver, Lose, Renew, OpenData, Write, DropData
<1>4. ASSUME (\E op \in {"unmount", "revoke"} : OwnerStart(op)) \/ ServerRestart \/ Reconcile \/ Tick \/ UNCHANGED vars
      PROVE  FALSE
  BY <1>4 DEF OwnerStart, ServerRestart, Reconcile, Tick, vars
<1>5. ASSUME OwnerHandle PROVE ForceRelease
  BY <1>5 DEF OwnerHandle, DenyPrior, Revoke, OwnerFence
<1> QED
  BY <1>1, <1>2, <1>3, <1>4, <1>5 DEF Next

\* A mount that believes in its lease loses it only to --takeover, to a
\* reclaim after orlop-server called its session dead, to a mount with its
\* own certificate, or to the owner: neither by the clock of the control
\* plane nor by the release of an earlier mount.
THEOREM TakeoverIsOverruled == Spec => NoSilentTakeover
<1>1. ASSUME MountInv, [Next]_vars, NEW p \in Proc,
             proc[p].st = "up", holder = p, holder' # p, proc[p].until > clock
      PROVE  Overruled(p)
  <2>1. ForceRelease \/ \E q \in Proc : Acquire(q) \/ Reclaim(q) \/ Release(q)
    BY <1>1, HolderMoves
  <2>2. RowSound /\ ProcessSound(p) /\ TypeOK /\ row.bound # NoEnrol
    BY <1>1, Constants DEF MountInv, RowSound
  <2>3. CASE ForceRelease
    BY <2>3 DEF ForceRelease, Overruled
  <2>4. ASSUME NEW q \in Proc, Reclaim(q) PROVE Overruled(p)
    BY <1>1, <2>4 DEF Reclaim, Overruled
  <2>5. ASSUME NEW q \in Proc, Acquire(q) PROVE Overruled(p)
    <3>1. q # p /\ req[q].pc = "acquire" /\ AcquireHits(req[q].enr, req[q].force)
      BY <1>1, <2>5 DEF Acquire
    <3>2. ~(row.expires <= clock)
      <4>1. proc[p].until \in Nat /\ clock \in Nat /\ row.expires \in Nat
        BY <2>2 DEF TypeOK
      <4> QED
        BY <1>1, <2>2, <4>1 DEF ProcessSound, BeliefSound
    <3>3. req[q].force \/ req[q].enr = row.bound
      BY <2>2, <3>1, <3>2 DEF AcquireHits
    <3> QED
      BY <3>1, <3>3 DEF Overruled
  <2>6. ASSUME NEW q \in Proc, Release(q) PROVE FALSE
    <3>1. req[q].pc = "release" /\ Asks(q) /\ Carries(q) /\ Owns(req[q].enr, req[q].token)
      BY <1>1, <2>2, <2>6 DEF Release, ReleaseHits, Asks, Carries
    <3>2. q # p
      <4>1. req[p].pc = "release" => req[p] \in ReleaseReq
        BY <2>2, TypeShapes, ShapeByPc
      <4> QED
        BY <1>1, <2>2, <3>1, <4>1 DEF ProcessSound, PhaseSound, ReleaseReq
    <3>3. OldRow /\ row.bound = req[q].enr
      BY <1>1, <3>1, <3>2, HitOwner
    <3> QED
      BY <1>1, <3>1, <3>2, <3>3 DEF MountInv, Alone, Other
  <2> QED
    BY <2>1, <2>3, <2>4, <2>5, <2>6
<1>2. MountInv /\ [Next]_vars =>
        [\A p \in Proc : proc[p].st = "up" /\ holder = p /\ holder' # p /\ proc[p].until > clock => Overruled(p)]_vars
  BY <1>1
<1> QED
  BY <1>2, MountAlways, PTL DEF Spec, NoSilentTakeover

=============================================================================
