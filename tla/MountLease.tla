----------------------------- MODULE MountLease -----------------------------
(***************************************************************************)
(* The mount lease of one allocation: the row in orlop-control's database, *)
(* the mount processes that acquire, refresh and release it, the owner who *)
(* unmounts or revokes, the session fence and the certificate deny-list    *)
(* that orlop-control keeps on orlop-server by best-effort calls.          *)
(*                                                                         *)
(* A handler is a sequence of statements and remote calls, one step each;  *)
(* every process has at most one request in flight and may die meanwhile,  *)
(* the handler then runs on.  A reply, a remote call or a statement may    *)
(* fail.                                                                   *)
(*                                                                         *)
(* Abstractions.  A process acquires once, so its lease token is named     *)
(* after it.  The lookup of the caller's enrolment and the statement that  *)
(* follows are one step; so are a statement that matches no row and the    *)
(* read that classifies the miss.  A session on orlop-server is named      *)
(* after its process and forgotten with its data-plane lease, since a new  *)
(* connection gets a new one; LeaseManager has what happens inside.        *)
(***************************************************************************)
EXTENDS Integers, FiniteSets

CONSTANTS
    Proc,        \* mount processes
    Legacy,      \* those of builds that know no lease token
    None,        \* no process, no enrolment, no token
    Null, Empty, \* the column mount_lease_token_hash: NULL and ''
    TTL,         \* ttl of the mount lease
    CertTTL,     \* life of a certificate
    MaxEnrol,    \* bound: certificates ever issued
    MaxClock,    \* bound: the clock stops here
    MaxEvent,    \* bound: owner operations, failed calls, lost replies and restarts
    MaxOpen      \* bound: data-plane connections

ASSUME MountAssumption ==
    /\ Legacy \subseteq Proc
    /\ {None, Null, Empty} \intersect Proc = {}
    /\ None # Null /\ None # Empty /\ Null # Empty
    /\ TTL \in Nat \ {0} /\ CertTTL \in Nat \ {0}
    /\ MaxEnrol \in Nat \ {0} /\ {MaxClock, MaxEvent, MaxOpen} \subseteq Nat

Enrol == 1 .. MaxEnrol
NoEnrol == 0

VARIABLES
    row,        \* the allocation's lease columns; expires = 0 is NULL
    clock,
    proc,       \* the mount processes
    req,        \* the request of each process in orlop-control
    owner,      \* the request of the owner's dashboard
    notAfter,   \* agent_enrollments: when each certificate expires, 0 if not issued
    denied,     \* cert_revocations
    denyList,   \* certRevocationRegistry of orlop-server, in memory
    live,       \* processes whose session has a live data-plane lease
    active,     \* mountLeaseRegistry: the active session
    fenced,     \* mountLeaseRegistry: the fenced ones
    holder,     \* history: whose acquire, or adoption, the row stands for
    events, opens  \* how many there were

control == <<row, notAfter, denied>>
server == <<denyList, live, active, fenced>>
counts == <<events, opens>>
vars == <<control, clock, proc, req, owner, server, holder, counts>>

enrolled == {e \in Enrol : notAfter[e] # 0}
expired == {e \in enrolled : notAfter[e] <= clock}

Idle == [pc |-> "idle"]
NotStarted == [st |-> "new", enr |-> NoEnrol, cert |-> NoEnrol, token |-> None, until |-> 0, terminal |-> FALSE]
Exited(p) == [NotStarted EXCEPT !.st = "gone", !.enr = proc[p].enr]
Free == [bound |-> NoEnrol, expires |-> 0, token |-> Null, revoked |-> FALSE]

-----------------------------------------------------------------------------
(* The guarded updates of the row.                                         *)

BugAcquireHits(e, force) == ~row.revoked
AcquireHits(e, force) == ~row.revoked /\ (force \/ row.bound \in {NoEnrol, e} \/ row.expires <= clock)

Acquired(p, e) ==
    [row EXCEPT !.bound = e, !.expires = clock + TTL, !.token = IF p \in Legacy THEN Empty ELSE p]

(* A token proves continuity; a client without one is known by enrolment,  *)
(* on a row whose column is NULL.                                          *)
Owns(e, t) == IF t = None THEN row.token = Null /\ row.bound = e ELSE row.token = t

BugRefreshHits(e, t) == ~row.revoked /\ row.expires > clock /\ Owns(e, t) /\ row.bound = e
RefreshHits(e, t) == ~row.revoked /\ row.expires > clock /\ Owns(e, t)

(* A client that could keep a token and has none is issued one.            *)
Issued(p, t) == IF t = None /\ p \notin Legacy THEN p ELSE None

BugRefreshed(p, e, t) ==
    [row EXCEPT !.bound = e, !.token = IF Issued(p, t) # None THEN p ELSE @]
Refreshed(p, e, t) ==
    [row EXCEPT !.bound = e, !.expires = clock + TTL, !.token = IF Issued(p, t) # None THEN p ELSE @]

BugReleaseHits(e, t) == row.bound \in {NoEnrol, e} \/ Owns(e, t)
ReleaseHits(e, t) == row.bound = NoEnrol \/ Owns(e, t)

Released == [row EXCEPT !.bound = NoEnrol, !.expires = 0, !.token = Null]

-----------------------------------------------------------------------------
(* Requests.  "reply" carries the answer back.                             *)

Send(p, request) == req' = [req EXCEPT ![p] = request]
Goto(p, pc) == req' = [req EXCEPT ![p].pc = pc]

Reply(p, result) == req' = [req EXCEPT ![p] = [pc |-> "reply", op |-> @.op, result |-> result]]
ReplyLease(p, token) ==
    req' = [req EXCEPT ![p] = [pc |-> "reply", op |-> @.op, result |-> "ok", until |-> clock + TTL, token |-> token]]

Event == events < MaxEvent /\ events' = events + 1
Fine == UNCHANGED events

(* The call is refused before it reaches a statement: the certificate has  *)
(* expired (401 expired_client), or a lookup fails (500).                  *)
Refused(p) ==
    /\ req[p].pc \in {"acquire", "refresh", "release"}
    /\ \/ req[p].enr \in expired /\ Reply(p, "stale") /\ Fine
       \/ req[p].enr \notin expired /\ Reply(p, "error") /\ Event
    /\ UNCHANGED <<control, clock, proc, owner, server, holder, opens>>

(* AcquireMountLease: claims the row, or finds it live for another and     *)
(* asks orlop-server before giving up.                                     *)
Acquire(p) ==
    LET e == req[p].enr IN
    /\ req[p].pc = "acquire" /\ e \notin expired
    /\ IF AcquireHits(e, req[p].force)
       THEN row' = Acquired(p, e) /\ holder' = p
            /\ req' = [req EXCEPT ![p].pc = "fence", ![p].until = clock + TTL]
       ELSE UNCHANGED <<row, holder>>
            /\ IF row.revoked \/ req[p].force THEN Reply(p, "evict") ELSE Goto(p, "probe")
    /\ UNCHANGED <<notAfter, denied, clock, proc, owner, server, counts>>

(* mountSessionLive on orlop-server; deadHolder turns a failed call into   *)
(* "alive".                                                                *)
SessionLive == active \in live

Probe(p) ==
    /\ req[p].pc = "probe"
    /\ \/ SessionLive /\ Reply(p, "evict") /\ Fine
       \/ ~SessionLive /\ Goto(p, "reclaim") /\ Fine
       \/ Reply(p, "evict") /\ Event
    /\ UNCHANGED <<control, clock, proc, owner, server, holder, opens>>

(* The second AcquireMountLease, with force.                               *)
Reclaim(p) ==
    LET e == req[p].enr IN
    /\ req[p].pc = "reclaim"
    /\ IF AcquireHits(e, TRUE)
       THEN row' = Acquired(p, e) /\ holder' = p
            /\ req' = [req EXCEPT ![p].pc = "fence", ![p].until = clock + TTL]
       ELSE UNCHANGED <<row, holder>> /\ Reply(p, "evict")
    /\ UNCHANGED <<notAfter, denied, clock, proc, owner, server, counts>>

(* mountLeaseRegistry.Clear.                                               *)
Clear ==
    /\ active' = None
    /\ fenced' = fenced \union ({active} \intersect Proc)
    /\ UNCHANGED <<denyList, live>>

(* fenceAllocationBestEffort, after an acquire or a release.               *)
Fence(p) ==
    /\ req[p].pc = "fence"
    /\ (Clear /\ Fine) \/ (UNCHANGED server /\ Event)
    /\ req' = [req EXCEPT ![p] =
                 IF @.op = "acquire"
                 THEN [pc |-> "reply", op |-> "acquire", result |-> "ok", until |-> @.until,
                       token |-> IF p \in Legacy THEN None ELSE p]
                 ELSE [pc |-> "reply", op |-> "release", result |-> "ok"]]
    /\ UNCHANGED <<control, clock, proc, owner, holder, opens>>

Refresh(p) ==
    LET e == req[p].enr
        t == req[p].token
    IN /\ req[p].pc = "refresh" /\ e \notin expired
       /\ IF RefreshHits(e, t)
          THEN row' = Refreshed(p, e, t) /\ ReplyLease(p, Issued(p, t))
          ELSE row' = row /\ Reply(p, "evict")
       /\ UNCHANGED <<notAfter, denied, clock, proc, owner, server, holder, counts>>

Release(p) ==
    LET e == req[p].enr
        t == req[p].token
    IN /\ req[p].pc = "release" /\ e \notin expired
       /\ IF ReleaseHits(e, t)
          THEN row' = Released /\ holder' = None /\ Goto(p, "deny")
          ELSE UNCHANGED <<row, holder>> /\ Reply(p, "evict")
       /\ UNCHANGED <<notAfter, denied, clock, proc, owner, server, counts>>

(* revokeReleasedAgentCert, best effort.                                   *)
Deny(e) == (denied' = denied \union {e} /\ Fine) \/ (denied' = denied /\ Event)

DenyReleased(p) ==
    /\ req[p].pc = "deny"
    /\ Deny(req[p].enr)
    /\ Goto(p, "fence")
    /\ UNCHANGED <<row, notAfter, clock, proc, owner, server, holder, opens>>

-----------------------------------------------------------------------------
(* The owner's dashboard.                                                  *)

OwnerStart(op) ==
    /\ owner = Idle /\ Event
    /\ owner' = IF op = "unmount"
                THEN [pc |-> "forced", prior |-> row.bound]
                ELSE [pc |-> "revoke"]
    /\ UNCHANGED <<control, clock, proc, req, server, holder, opens>>

(* ForceReleaseMountLease refuses a revoked row.                           *)
ForceRelease ==
    /\ owner.pc = "forced"
    /\ IF row.revoked
       THEN owner' = Idle /\ UNCHANGED <<row, holder>>
       ELSE /\ row' = Released /\ holder' = None
            /\ owner' = IF owner.prior = NoEnrol THEN [pc |-> "fence"] ELSE [owner EXCEPT !.pc = "deny"]
    /\ UNCHANGED <<notAfter, denied, clock, proc, req, server, counts>>

DenyPrior ==
    /\ owner.pc = "deny"
    /\ Deny(owner.prior)
    /\ owner' = [pc |-> "fence"]
    /\ UNCHANGED <<row, notAfter, clock, proc, req, server, holder, opens>>

Revoke ==
    /\ owner.pc = "revoke"
    /\ row' = [row EXCEPT !.revoked = TRUE]
    /\ owner' = [pc |-> "fence"]
    /\ UNCHANGED <<notAfter, denied, clock, proc, req, server, holder, counts>>

OwnerFence ==
    /\ owner.pc = "fence"
    /\ (Clear /\ Fine) \/ (UNCHANGED server /\ Event)
    /\ owner' = Idle
    /\ UNCHANGED <<control, clock, proc, req, holder, opens>>

-----------------------------------------------------------------------------
(* The mount process.                                                      *)

NextEnrol == Cardinality(enrolled) + 1
MayEnrol == NextEnrol \in Enrol

(* A mount enrols afresh, or finds a certificate of an earlier one on its  *)
(* disk, and acquires; force is --takeover.                                *)
Boot(p, e, force) ==
    /\ proc[p] = NotStarted
    /\ (MayEnrol /\ e = NextEnrol) \/ (e \in enrolled \ expired /\ \E q \in Proc : proc[q].st = "gone" /\ proc[q].enr = e)
    /\ notAfter' = IF e \in enrolled THEN notAfter ELSE [notAfter EXCEPT ![e] = clock + CertTTL]
    /\ proc' = [proc EXCEPT ![p] = [NotStarted EXCEPT !.st = "mounting", !.enr = e, !.cert = e]]
    /\ Send(p, [op |-> "acquire", pc |-> "acquire", enr |-> e, force |-> force, until |-> 0])
    /\ UNCHANGED <<row, denied, clock, owner, server, holder, counts>>

(* The refresh loop comes round.                                           *)
RefreshStart(p) ==
    /\ proc[p].st = "up" /\ req[p] = Idle
    /\ Send(p, [op |-> "refresh", pc |-> "refresh", enr |-> proc[p].enr, token |-> proc[p].token])
    /\ UNCHANGED <<control, clock, proc, owner, server, holder, counts>>

ReleaseOf(p, token) == [op |-> "release", pc |-> "release", enr |-> proc[p].enr, token |-> token]

(* An unmount or a signal: the process releases and exits.                 *)
Stop(p) ==
    /\ proc[p].st = "up" /\ req[p] = Idle
    /\ proc' = [proc EXCEPT ![p] = Exited(p)]
    /\ Send(p, ReleaseOf(p, proc[p].token))
    /\ UNCHANGED <<control, clock, owner, server, holder, counts>>

(* The process dies.  `orlop unmount` may then release on its behalf, with *)
(* its certificate and without its token.                                  *)
Crash(p) ==
    /\ proc[p].st \in {"mounting", "up"}
    /\ proc' = [proc EXCEPT ![p] = Exited(p)]
    /\ UNCHANGED req \/ (req[p] = Idle /\ Send(p, ReleaseOf(p, None)))
    /\ UNCHANGED <<control, clock, owner, server, holder, counts>>

(* classify_refresh_failure: what the loop does about an answer that is    *)
(* not a lease.  Only an expired identity is judged by the clock.          *)
BugTerminal(p, result) == result = "evict"
Terminal(p, result) ==
    result = "evict" \/ (result = "stale" /\ (proc[p].terminal \/ clock >= proc[p].until))

(* The answer arrives.  An eviction that unmounts raises SIGTERM, and the  *)
(* signal handler releases like any other stop; one that aborts does not.  *)
Deliver(p) ==
    LET r == req[p]
        kept == IF r.token = None THEN proc[p].token ELSE r.token
    IN
    /\ r.pc = "reply"
    /\ \/ /\ proc[p].st = "gone" \/ r.op = "release"
          /\ UNCHANGED proc
          /\ Send(p, Idle)
       \/ /\ proc[p].st = "mounting" /\ r.op = "acquire"
          /\ proc' = [proc EXCEPT ![p] = IF r.result = "ok"
                                         THEN [@ EXCEPT !.st = "up", !.token = r.token, !.until = r.until]
                                         ELSE Exited(p)]
          /\ Send(p, Idle)
       \/ /\ proc[p].st = "up" /\ r.op = "refresh" /\ r.result = "ok"
          /\ proc' = [proc EXCEPT ![p].until = r.until, ![p].token = kept]
          /\ Send(p, Idle)
       \/ /\ proc[p].st = "up" /\ r.op = "refresh" /\ r.result # "ok" /\ ~Terminal(p, r.result)
          /\ UNCHANGED proc
          /\ Send(p, Idle)
       \/ /\ proc[p].st = "up" /\ r.op = "refresh" /\ Terminal(p, r.result)
          /\ proc' = [proc EXCEPT ![p] = Exited(p)]
          /\ Send(p, Idle) \/ Send(p, ReleaseOf(p, proc[p].token))
    /\ UNCHANGED <<control, clock, owner, server, holder, counts>>

(* The answer is lost: a mount that was acquiring gives up, the refresh    *)
(* loop tries again.                                                       *)
Lose(p) ==
    /\ req[p].pc = "reply" /\ Event
    /\ Send(p, Idle)
    /\ proc' = [proc EXCEPT ![p] = IF @.st = "mounting" THEN Exited(p) ELSE @]
    /\ UNCHANGED <<control, clock, owner, server, holder, opens>>

(* The certificate renewal loop publishes a new identity, to the lease     *)
(* client only when it has a token; or it fails for good.                  *)
Renew(p) ==
    /\ proc[p].st = "up" /\ ~proc[p].terminal
    /\ \/ /\ MayEnrol
          /\ notAfter' = [notAfter EXCEPT ![NextEnrol] = clock + CertTTL]
          /\ proc' = [proc EXCEPT ![p].cert = NextEnrol,
                                  ![p].enr = IF proc[p].token = None THEN @ ELSE NextEnrol]
       \/ /\ UNCHANGED notAfter
          /\ proc' = [proc EXCEPT ![p].terminal = TRUE]
    /\ UNCHANGED <<row, denied, clock, req, owner, server, holder, counts>>

-----------------------------------------------------------------------------
(* orlop-server: connections, sessions and the deny-list.                  *)

Admits(e) == e \notin expired /\ e \notin denyList

(* A connection and the session lease that it is granted.                  *)
OpenData(p) ==
    /\ opens < MaxOpen /\ opens' = opens + 1
    /\ proc[p].st = "up" /\ p \notin live /\ Admits(proc[p].cert)
    /\ live' = live \union {p}
    /\ UNCHANGED <<control, clock, proc, req, owner, denyList, active, fenced, holder, events>>

(* A write that passes checkSessionFence installs its session.             *)
Write(p) ==
    /\ proc[p].st = "up" /\ p \in live /\ p \notin fenced
    /\ active' = p
    /\ UNCHANGED <<control, clock, proc, req, owner, denyList, live, fenced, holder, counts>>

DropData(p) ==
    /\ p \in live
    /\ live' = live \ {p}
    /\ fenced' = fenced \ {p}
    /\ active' = IF active = p THEN None ELSE active
    /\ UNCHANGED <<control, clock, proc, req, owner, denyList, holder, counts>>

(* The registries are in memory only; the data-plane leases are restored   *)
(* after a graceful stop.                                                  *)
ServerRestart ==
    /\ Event
    /\ live' \in {live, {}}
    /\ active' = None /\ fenced' = {} /\ denyList' = {}
    /\ UNCHANGED <<control, clock, proc, req, owner, holder, opens>>

(* certRevocationReconciler pushes what has not expired, every minute.     *)
BugPushed == denied \intersect expired
Pushed == denied \ expired

Reconcile ==
    /\ Pushed # {}
    /\ (denyList' = (denyList \ expired) \union Pushed /\ Fine) \/ (UNCHANGED denyList /\ Event)
    /\ UNCHANGED <<control, clock, proc, req, owner, live, active, fenced, holder, opens>>

Tick ==
    /\ clock < MaxClock
    /\ clock' = clock + 1
    /\ UNCHANGED <<control, proc, req, owner, server, holder, counts>>

(* Nobody has mounted yet, or a process that mounted some time ago holds   *)
(* the lease, without a token when it did so before the column existed.    *)
Init ==
    /\ clock = 0
    /\ req = [p \in Proc |-> Idle] /\ owner = Idle
    /\ \/ /\ row = Free /\ holder = None /\ notAfter = [e \in Enrol |-> 0]
          /\ proc = [p \in Proc |-> NotStarted]
       \/ \E p \in Proc, left \in 1 .. TTL, valid \in 1 .. CertTTL : \E token \in {Null, p} \ Legacy :
             /\ row = [Free EXCEPT !.bound = 1, !.expires = left, !.token = token]
             /\ holder = p /\ notAfter = [e \in Enrol |-> IF e = 1 THEN valid ELSE 0]
             /\ proc = [q \in Proc |-> IF q # p THEN NotStarted
                                       ELSE [st |-> "up", enr |-> 1, cert |-> 1, until |-> left, terminal |-> FALSE,
                                             token |-> IF token = Null THEN None ELSE p]]
    /\ denied = {} /\ denyList = {}
    /\ live = {} /\ active = None /\ fenced = {}
    /\ events = 0 /\ opens = 0

Handle(p) ==
    Refused(p) \/ Acquire(p) \/ Probe(p) \/ Reclaim(p) \/ Refresh(p) \/ Release(p) \/ DenyReleased(p) \/ Fence(p)

OwnerHandle == ForceRelease \/ DenyPrior \/ Revoke \/ OwnerFence

Next ==
    \/ \E p \in Proc, e \in Enrol, force \in BOOLEAN : Boot(p, e, force)
    \/ \E p \in Proc : RefreshStart(p) \/ Stop(p) \/ Crash(p) \/ Handle(p)
                       \/ Deliver(p) \/ Lose(p) \/ Renew(p) \/ OpenData(p) \/ Write(p) \/ DropData(p)
    \/ \E op \in {"unmount", "revoke"} : OwnerStart(op)
    \/ OwnerHandle
    \/ ServerRestart \/ Reconcile \/ Tick

Spec == Init /\ [][Next]_vars

(* Handlers run on, replies arrive unless they are lost, the refresh and   *)
(* renewal loops and the reconciler come round, time passes.               *)
Fairness ==
    /\ \A p \in Proc : /\ WF_vars(RefreshStart(p) \/ Handle(p) \/ Deliver(p))
                       /\ WF_vars(Renew(p) /\ proc[p].cert \in expired)
    /\ WF_vars(OwnerHandle) /\ WF_vars(Reconcile) /\ WF_vars(Tick)

FairSpec == Spec /\ Fairness

-----------------------------------------------------------------------------
(* Properties.                                                             *)

Results == {"ok", "evict", "stale", "error"}
Tokens == Proc \union {None}

Requests ==
    [pc : {"idle"}]
    \union [pc : {"acquire", "probe", "reclaim", "fence"}, op : {"acquire"}, enr : Enrol, force : BOOLEAN, until : Nat]
    \union [pc : {"refresh"}, op : {"refresh"}, enr : Enrol, token : Tokens]
    \union [pc : {"release", "deny", "fence"}, op : {"release"}, enr : Enrol, token : Tokens]
    \union [pc : {"reply"}, op : {"acquire", "refresh", "release"}, result : Results \ {"ok"}]
    \union [pc : {"reply"}, op : {"acquire", "refresh"}, result : {"ok"}, until : Nat, token : Tokens]
    \union [pc : {"reply"}, op : {"release"}, result : {"ok"}]

(* The shapes of the row, the processes and the requests.                  *)
TypeOK ==
    /\ row \in [bound : Enrol \union {NoEnrol}, expires : Nat, token : Proc \union {Null, Empty}, revoked : BOOLEAN]
    /\ proc \in [Proc -> [st : {"new", "mounting", "up", "gone"}, enr : Enrol \union {NoEnrol},
                         cert : Enrol \union {NoEnrol}, token : Tokens, until : Nat, terminal : BOOLEAN]]
    /\ req \in [Proc -> Requests]
    /\ owner \in [pc : {"idle", "revoke", "fence"}] \union [pc : {"forced"}, prior : Enrol \union {NoEnrol}]
                 \union [pc : {"deny"}, prior : Enrol]
    /\ notAfter \in [Enrol -> Nat]
    /\ denied \subseteq Enrol /\ denyList \subseteq Enrol
    /\ live \subseteq Proc /\ fenced \subseteq Proc /\ active \in Proc \union {None}
    /\ holder \in Proc \union {None}
    /\ clock \in Nat /\ events \in Nat /\ opens \in Nat

(* What a mount believes is backed by the row: while a process is up and   *)
(* nobody has displaced it, the row reserves the allocation at least until *)
(* the time the process was told, whichever replies were lost and however  *)
(* often its certificate was renewed.                                      *)
BeliefBacked ==
    \A p \in Proc : proc[p].st = "up" /\ holder = p =>
        /\ row.bound # NoEnrol /\ row.expires >= proc[p].until
        /\ proc[p].token \in {None, row.token}

(* A mount that believes in its lease loses it only to a forced acquire,   *)
(* to a reclaim after orlop-server called its session dead, to a mount     *)
(* with its own certificate, or to the owner.                              *)
Overruled(p) ==
    \/ \E q \in Proc \ {p} : /\ req[q].pc \in {"acquire", "reclaim"}
                             /\ req[q].force \/ req[q].pc = "reclaim" \/ req[q].enr = row.bound
    \/ owner.pc = "forced"

NoSilentTakeover ==
    [][\A p \in Proc : proc[p].st = "up" /\ holder = p /\ holder' # p /\ proc[p].until > clock => Overruled(p)]_vars

(* A displaced mount cannot touch the lease of its successor: neither its  *)
(* refresh nor its late or repeated release changes a bound row, except a  *)
(* row from before there were tokens, which belongs to a certificate.      *)
Calls(p) == req[p].pc \in {"refresh", "release"} /\ req'[p] # req[p]

DisplacedStaysOut ==
    [][\A p \in Proc : Calls(p) /\ row' # row /\ row.bound # NoEnrol =>
        holder = p \/ (row.token = Null /\ row.bound = req[p].enr)]_vars

(* A mount that knows tokens is told that it lost the lease only when it   *)
(* did: it was displaced, its lease ran out, or the owner revoked.  The    *)
(* one exception is the mount that had no token and missed the reply that  *)
(* gave it one.                                                            *)
Evicted(p) == req[p].pc = "refresh" /\ req'[p].pc = "reply" /\ req'[p].result = "evict"
HoldsRow(p) == holder = p /\ row.expires > clock /\ ~row.revoked
MissedToken(p) == req[p].token = None /\ row.token = p

EvictedOnlyWhenLost ==
    [][\A p \in Proc \ Legacy : Evicted(p) => ~HoldsRow(p) \/ MissedToken(p)]_vars

(* Displaced mounts stop serving: their refresh loops find out, although   *)
(* replies get lost, certificates expire and renewals fail.                *)
DisplacedUp == \E p \in Proc : proc[p].st = "up" /\ holder # p
DisplacedStops == DisplacedUp ~> ~DisplacedUp

(* Revoked certificates are refused in the end, whenever the deny-list was *)
(* lost in a restart or a push failed.                                     *)
RevokedAdmitted == \E e \in denied : Admits(e)
RevokedCertsRefused == RevokedAdmitted ~> ~RevokedAdmitted

(* An acquire without force never displaces a mount that is there: up,     *)
(* connected, and in possession of an unexpired lease.                     *)
Present(p) == proc[p].st = "up" /\ p \in live /\ HoldsRow(p)
LiveMountProtected ==
    [][\A p, q \in Proc : Present(p) /\ req[q].pc = "reclaim" /\ holder' = q => p = q]_vars

(* The session of the mount that holds the lease is never fenced.          *)
HolderNotFenced == \A p \in Proc : Present(p) => p \notin fenced

(* A client without tokens keeps its lease by its enrolment.               *)
LegacyKeepsLease == [][\A p \in Legacy : Evicted(p) => ~HoldsRow(p)]_vars
=============================================================================
