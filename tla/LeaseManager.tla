---------------------------- MODULE LeaseManager ----------------------------
(***************************************************************************)
(* The per-path leases of one tenant of orlop-server, the connections that *)
(* hold them, the mount-session registry that fences a displaced mount,    *)
(* the expiry sweeper, and the snapshot of leases over a restart.          *)
(*                                                                         *)
(* Every frame of a connection is served by a goroutine of its own, which  *)
(* outlives the connection.  lease_grant and the writes are processes with *)
(* several critical sections; the other handlers have one.  The two timers *)
(* of a waiting request fire at some time after it started to wait.        *)
(*                                                                         *)
(* Abstractions.  Lease ids are drawn at random; here they count up.  A    *)
(* revoke frame that is pushed to a holder is answered by a release at any *)
(* time or never, like any release.  Every client of the repository asks   *)
(* for LeaseExclusiveWrite, so the mode is left out.  What a write does    *)
(* after the fence belongs to the content store.                           *)
(***************************************************************************)
EXTENDS Integers, FiniteSets

CONSTANTS
    Path, Root,    \* leased paths; Root is the one a mount session leases
    Agent,         \* authenticated agents
    Alloc,         \* allocations a write may name
    Nobody,        \* no agent, no path, no allocation
    Slot,          \* goroutines that serve lease grants and writes
    TTL, MinHold,  \* lease.ttl_ms and lease.min_hold_ms, in clock units
    MaxConn,       \* bound: connections per server process
    MaxId,         \* bound: leases ever granted
    MaxClock,      \* bound: the clock stops here
    MaxRestart     \* bound: how often the server process starts again

ASSUME LeaseAssumption == /\ Root \in Path /\ Nobody \notin Agent \union Path \union Alloc
                          /\ {TTL, MinHold, MaxConn, MaxId, MaxClock, MaxRestart} \subseteq Nat
                          /\ IsFiniteSet(Slot)

Id == 1 .. MaxId
Conn == 1 .. MaxConn
None == 0

VARIABLES
    byPath,     \* leaseManager.byPath: the lease on each path, or None
    byID,       \* leaseManager.byID: the ids with a record
    rec,        \* the records, NoRec where there is none
    byConn,     \* leaseManager.byConn
    agentOf,    \* the agent of every connection made so far, Nobody for the rest
    open,       \* connections whose read loop runs
    issued,     \* which agent was told which id, and for which path
    req,        \* the request each goroutine serves
    active,     \* mountLeaseRegistry: the installed session of each allocation
    fenced,     \* mountLeaseRegistry: the displaced ones
    banned,     \* history: ids that were fenced for an allocation, in any process
    saved,      \* leases.db
    stopping,   \* the listener is closed and the snapshot taken
    restarts,
    clock

index == <<byPath, byID, rec, byConn>>
registry == <<active, fenced, banned>>
server == <<saved, stopping, restarts, clock>>
vars == <<index, agentOf, open, issued, req, registry, server>>

NoRec == [path |-> Nobody, holder |-> Nobody, conn |-> None, granted |-> 0, expires |-> 0, revoking |-> FALSE]
Unissued == [agent |-> Nobody, path |-> Nobody]
Idle == [pc |-> "idle"]

NextId == Cardinality({i \in Id : issued[i] # Unissued}) + 1
NextConn == Cardinality({c \in Conn : agentOf[c] # Nobody}) + 1
Live(i) == i \in byID /\ ~rec[i].revoking /\ rec[i].expires > clock

-----------------------------------------------------------------------------
(* removeLocked and installLocked.                                         *)

Without(i) == [c \in Conn |-> byConn[c] \ {i}]

RemoveLocked(gone) ==
    /\ byID' = byID \ gone
    /\ rec' = [i \in Id |-> IF i \in gone THEN NoRec ELSE rec[i]]
    /\ byPath' = [p \in Path |-> IF byPath[p] \in gone THEN None ELSE byPath[p]]
    /\ byConn' = [c \in Conn |-> byConn[c] \ {i \in gone : rec[i].conn = c}]

(* A fresh lease on p for connection c, in place of `old` if there is one. *)
InstallLocked(c, p, old) ==
    /\ byID' = (byID \ {old}) \union {NextId}
    /\ rec' = [i \in Id |->
                 IF i = NextId THEN [path |-> p, holder |-> agentOf[c], conn |-> c, granted |-> clock,
                                     expires |-> clock + TTL, revoking |-> FALSE]
                 ELSE IF i = old THEN NoRec ELSE rec[i]]
    /\ byPath' = [byPath EXCEPT ![p] = NextId]
    /\ byConn' = [d \in Conn |-> (byConn[d] \ {old}) \union (IF d = c THEN {NextId} ELSE {})]
    /\ issued' = [issued EXCEPT ![NextId] = [agent |-> agentOf[c], path |-> p]]

-----------------------------------------------------------------------------
(* Connections.                                                             *)

Connect(a) ==
    /\ ~stopping
    /\ NextConn \in Conn
    /\ agentOf' = [agentOf EXCEPT ![NextConn] = a]
    /\ open' = open \union {NextConn}
    /\ UNCHANGED <<index, issued, req, registry, server>>

(* The end of serveFrames: ReleaseAllForConn.                              *)
Disconnect(c) ==
    /\ c \in open
    /\ open' = open \ {c}
    /\ RemoveLocked(byConn[c] \intersect byID)
    /\ UNCHANGED <<agentOf, issued, req, registry, server>>

-----------------------------------------------------------------------------
(* lease_grant and the writes.                                              *)

Start(s, request) ==
    /\ req[s] = Idle
    /\ req' = [req EXCEPT ![s] = request]
    /\ UNCHANGED <<index, agentOf, open, issued, registry, server>>

GrantStart(s, c, p) ==
    /\ NextId + Cardinality({t \in Slot : req[t].pc # "idle" /\ req[t].op = "grant"}) <= MaxId
    /\ Start(s, [op |-> "grant", pc |-> "yield", conn |-> c, path |-> p, on |-> None, again |-> FALSE])

(* A write names a session that its agent was given, and an allocation.    *)
(* manifest_put yields to a lease holder first, with a session or without; *)
(* delete, rename, link, setattr and mknod go straight to the session      *)
(* check, which passes over a write without a session.  dir_create,        *)
(* dir_remove and symlink make no check and do not appear here.            *)
SessionsOf(c) == {i \in Id : issued[i] = [agent |-> agentOf[c], path |-> Root]}

WriteStart(s, first, c, p, sess, a) ==
    Start(s, [op |-> "write", pc |-> first, conn |-> c, path |-> p, on |-> None, again |-> FALSE,
              session |-> sess, alloc |-> a,
              fencedAtStart |-> a \in Alloc /\ sess \in fenced[a],
              bannedAtStart |-> a \in Alloc /\ sess \in banned[a]])

PutStart(s, c, p) ==
    \/ WriteStart(s, "yield", c, p, None, Nobody)
    \/ \E sess \in SessionsOf(c), a \in Alloc \union {Nobody} : WriteStart(s, "yield", c, p, sess, a)

EditStart(s, c) ==
    \E sess \in SessionsOf(c), a \in Alloc \union {Nobody} : WriteStart(s, "authorize", c, Nobody, sess, a)

Goto(s, pc) == req' = [req EXCEPT ![s].pc = pc]
End(s) == req' = [req EXCEPT ![s] = Idle]
Pass(s) == req' = [req EXCEPT ![s] = [op |-> "write", pc |-> "commit", fencedAtStart |-> @.fencedAtStart,
                                      bannedAtStart |-> @.bannedAtStart]]
Holder(s) == agentOf[req[s].conn]
HolderOn(p) == IF byPath[p] = None THEN Nobody ELSE rec[byPath[p]].holder

(* One turn of YieldFor's loop: the path is free or ours; or its holder is *)
(* within min-hold; or we ask the holder to yield; or somebody has.        *)
WithinMinHold(i) == clock - rec[i].granted < MinHold

Yield(s) ==
    LET i == byPath[req[s].path]
        other == HolderOn(req[s].path) \notin {Nobody, Holder(s)}
    IN
    /\ req[s].pc = "yield"
    /\ \/ /\ ~other
          /\ IF req[s].op = "grant"
             THEN Goto(s, "install")
             ELSE req' = [req EXCEPT ![s].pc = "authorize", ![s].path = Nobody, ![s].again = FALSE]
          /\ rec' = rec
       \/ /\ other /\ WithinMinHold(i)
          /\ End(s)
          /\ rec' = rec
       \/ /\ other /\ ~WithinMinHold(i)
          /\ req' = [req EXCEPT ![s].pc = IF rec[i].revoking THEN "wait" ELSE "revoke", ![s].on = i]
          /\ rec' = [rec EXCEPT ![i].revoking = TRUE]
    /\ UNCHANGED <<byPath, byID, byConn, agentOf, open, issued, registry, server>>

NextTurn(s) == req' = [req EXCEPT ![s].pc = "yield", ![s].on = None, ![s].again = TRUE]

(* removeLocked closed the channel of the record we wait for.              *)
Woken(s) ==
    /\ req[s].pc \in {"revoke", "wait"}
    /\ req[s].on \notin byID
    /\ NextTurn(s)
    /\ UNCHANGED <<index, agentOf, open, issued, registry, server>>

(* revokeTimeout: evict the holder if it still holds the path.  The timer  *)
(* starts when the revoke frame is in the holder's queue of 256 frames,    *)
(* and putting it there waits, without a timeout, while that queue is      *)
(* full.                                                                   *)
Evict(s) ==
    /\ req[s].pc = "revoke"
    /\ RemoveLocked({req[s].on} \intersect {byPath[req[s].path]})
    /\ NextTurn(s)
    /\ UNCHANGED <<agentOf, open, issued, registry, server>>

(* The request's own context ends: revokeTimeout and a second after its    *)
(* start, hence never in the first turn of a request that revokes.         *)
BugGiveUp(s) ==
    /\ req[s].pc = "revoke" /\ req[s].again
    /\ End(s)
    /\ UNCHANGED <<index, agentOf, open, issued, registry, server>>

GiveUp(s) ==
    /\ req[s].pc = "wait" \/ (req[s].pc = "revoke" /\ req[s].again)
    /\ End(s)
    /\ UNCHANGED <<index, agentOf, open, issued, registry, server>>

(* A renewed lease expires one ttl from now.                               *)
Renewed(i) == clock + TTL

(* Grant, after YieldFor.  The same holder on the same connection, or on a *)
(* restored lease, keeps the id; on another connection the old id dies.    *)
Grant(s) ==
    LET c == req[s].conn
        p == req[s].path
        i == byPath[p]
    IN /\ req[s].pc = "install"
       /\ \/ /\ i = None
             /\ InstallLocked(c, p, None)
             /\ End(s)
          \/ /\ i # None /\ rec[i].holder = Holder(s) /\ rec[i].conn \in {c, None}
             /\ rec' = [rec EXCEPT ![i].conn = c, ![i].expires = Renewed(i)]
             /\ byConn' = [byConn EXCEPT ![c] = @ \union {i}]
             /\ End(s)
             /\ UNCHANGED <<byPath, byID, issued>>
          \/ /\ i # None /\ rec[i].holder = Holder(s) /\ rec[i].conn \notin {c, None}
             /\ InstallLocked(c, p, i)
             /\ End(s)
          \/ /\ i # None /\ rec[i].holder # Holder(s)
             /\ Goto(s, "yield")
             /\ UNCHANGED <<index, issued>>
       /\ UNCHANGED <<agentOf, open, registry, server>>

(* AuthorizeOrRebindSession.  A successor connection of the same agent     *)
(* takes the session over; a predecessor may not take it back.             *)
BugMayRebind(i, c) == TRUE
MayRebind(i, c) == c >= rec[i].conn

BugRebound(i, c) == [byConn EXCEPT ![c] = @ \union {i}]
Rebound(i, c) == [Without(i) EXCEPT ![c] = @ \union {i}]

Authorize(s) ==
    LET i == req[s].session
        c == req[s].conn
    IN /\ req[s].pc = "authorize"
       /\ \/ /\ i = None
             /\ Pass(s)
             /\ UNCHANGED <<rec, byConn>>
          \/ /\ i # None /\ Live(i) /\ rec[i].holder = Holder(s) /\ MayRebind(i, c)
             /\ rec' = [rec EXCEPT ![i].conn = c]
             /\ byConn' = IF rec[i].conn = c THEN byConn ELSE Rebound(i, c)
             /\ Goto(s, "register")
          \/ /\ i # None /\ ~(Live(i) /\ rec[i].holder = Holder(s) /\ MayRebind(i, c))
             /\ End(s)
             /\ UNCHANGED <<rec, byConn>>
       /\ UNCHANGED <<byPath, byID, agentOf, open, issued, registry, server>>

(* mountLeaseRegistry.Install needs an allocation and takes any slot over  *)
(* unless the id is fenced.                                                *)
BugBarred(i, a) == a = Nobody
Barred(i, a) == IF a = Nobody THEN TRUE ELSE i \in fenced[a]

Register(s) ==
    LET i == req[s].session
        a == req[s].alloc
    IN /\ req[s].pc = "register"
       /\ IF Barred(i, a)
          THEN End(s) /\ active' = active
          ELSE Pass(s) /\ active' = [active EXCEPT ![a] = i]
       /\ UNCHANGED <<index, agentOf, open, issued, fenced, banned, server>>

Commit(s) ==
    /\ req[s].pc = "commit"
    /\ End(s)
    /\ UNCHANGED <<index, agentOf, open, issued, registry, server>>

-----------------------------------------------------------------------------
(* Handlers of one critical section.                                        *)

(* An open connection of the agent that was told the id, or the last       *)
(* frames of one that has just been closed.                                *)
MayName(c, i) == issued[i] # Unissued /\ agentOf[c] = issued[i].agent

Owns(c, i) == rec[i].conn \in {c, None}

Refresh(c, i) ==
    /\ MayName(c, i)
    /\ i \in byID /\ Owns(c, i)
    /\ rec' = [rec EXCEPT ![i].expires = Renewed(i)]
    /\ UNCHANGED <<byPath, byID, byConn, agentOf, open, issued, req, registry, server>>

Release(c, i) ==
    /\ MayName(c, i)
    /\ i \in byID /\ Owns(c, i)
    /\ RemoveLocked({i})
    /\ UNCHANGED <<agentOf, open, issued, req, registry, server>>

(* A lease mid-revoke is left to whoever revokes it.                       *)
BugSwept == {i \in byID : ~rec[i].revoking /\ rec[i].expires < clock - TTL}
Swept == {i \in byID : ~rec[i].revoking /\ rec[i].expires <= clock}

SweepExpired ==
    /\ ~stopping
    /\ Swept # {}
    /\ RemoveLocked(Swept)
    /\ UNCHANGED <<agentOf, open, issued, req, registry, server>>

(* orlop-control displaces the mount of an allocation.                     *)
Clear(a) ==
    /\ ~stopping
    /\ active[a] # None
    /\ fenced' = [fenced EXCEPT ![a] = @ \union {active[a]}]
    /\ banned' = [banned EXCEPT ![a] = @ \union {active[a]}]
    /\ active' = [active EXCEPT ![a] = None]
    /\ UNCHANGED <<index, agentOf, open, issued, req, server>>

-----------------------------------------------------------------------------
(* Restart.  A graceful stop closes the listeners and ends the sweeper,    *)
(* then takes the snapshot while requests of open connections still run; a *)
(* crash leaves whatever snapshot there was.                               *)

Snapshot ==
    /\ ~stopping
    /\ restarts < MaxRestart
    /\ stopping' = TRUE
    /\ saved' = rec
    /\ UNCHANGED <<index, agentOf, open, issued, req, registry, restarts, clock>>

Restored == {i \in Id : saved[i] # NoRec /\ saved[i].expires > clock}

BugRestoredRec(i) == [saved[i] EXCEPT !.revoking = FALSE]
RestoredRec(i) == [saved[i] EXCEPT !.conn = None, !.revoking = FALSE]

Restart ==
    /\ restarts < MaxRestart
    /\ restarts' = restarts + 1
    /\ stopping' = FALSE
    /\ byID' = Restored
    /\ rec' = [i \in Id |-> IF i \in Restored THEN RestoredRec(i) ELSE NoRec]
    /\ \E f \in [Path -> Restored \union {None}] :
          /\ \A p \in Path : f[p] = None <=> ~\E i \in Restored : saved[i].path = p
          /\ \A p \in Path : f[p] # None => saved[f[p]].path = p
          /\ byPath' = f
    /\ byConn' = [c \in Conn |-> {}]
    /\ agentOf' = [c \in Conn |-> Nobody]
    /\ open' = {}
    /\ req' = [s \in Slot |-> Idle]
    /\ active' = [a \in Alloc |-> None]
    /\ fenced' = [a \in Alloc |-> {}]
    /\ UNCHANGED <<issued, banned, saved, clock>>

Tick ==
    /\ clock < MaxClock
    /\ clock' = clock + 1
    /\ UNCHANGED <<index, agentOf, open, issued, req, registry, saved, stopping, restarts>>

Init ==
    /\ byPath = [p \in Path |-> None]
    /\ byID = {}
    /\ rec = [i \in Id |-> NoRec]
    /\ byConn = [c \in Conn |-> {}]
    /\ agentOf = [c \in Conn |-> Nobody]
    /\ open = {}
    /\ issued = [i \in Id |-> Unissued]
    /\ req = [s \in Slot |-> Idle]
    /\ active = [a \in Alloc |-> None]
    /\ fenced = [a \in Alloc |-> {}]
    /\ banned = [a \in Alloc |-> {}]
    /\ saved = [i \in Id |-> NoRec]
    /\ stopping = FALSE
    /\ restarts = 0
    /\ clock = 0

Serve(s) == Yield(s) \/ Woken(s) \/ Evict(s) \/ GiveUp(s) \/ Grant(s) \/ Authorize(s) \/ Register(s) \/ Commit(s)

Next ==
    \/ \E a \in Agent : Connect(a)
    \/ \E c \in Conn : Disconnect(c)
    \/ \E s \in Slot, c \in open, p \in Path : GrantStart(s, c, p)
    \/ \E s \in Slot, c \in open, p \in Path : PutStart(s, c, p)
    \/ \E s \in Slot, c \in open : EditStart(s, c)
    \/ \E s \in Slot : Serve(s)
    \/ \E c \in Conn, i \in Id : Refresh(c, i) \/ Release(c, i)
    \/ SweepExpired
    \/ \E a \in Alloc : Clear(a)
    \/ Snapshot \/ Restart \/ Tick

Spec == Init /\ [][Next]_vars

(* Goroutines run on, the sweeper's ticker fires, time passes.  That a     *)
(* request in Yield goes on assumes that no client stops reading with a    *)
(* full queue and yet keeps its connection open for ever.                  *)
Fairness == (\A s \in Slot : WF_vars(Serve(s))) /\ WF_vars(SweepExpired) /\ WF_vars(Tick)

FairSpec == Spec /\ Fairness

-----------------------------------------------------------------------------
(* Properties.                                                             *)

Records == [path : Path \union {Nobody}, holder : Agent \union {Nobody}, conn : Conn \union {None},
            granted : Nat, expires : Nat, revoking : BOOLEAN]

Requests ==
    [pc : {"idle"}]
    \union [op : {"grant"}, pc : {"yield", "revoke", "wait", "install"}, conn : Conn, path : Path,
            on : Id \union {None}, again : BOOLEAN]
    \union [op : {"write"}, pc : {"yield", "revoke", "wait"}, conn : Conn, path : Path,
            on : Id \union {None}, again : BOOLEAN, session : Id \union {None}, alloc : Alloc \union {Nobody},
            fencedAtStart : BOOLEAN, bannedAtStart : BOOLEAN]
    \union [op : {"write"}, pc : {"authorize", "register"}, conn : Conn, path : {Nobody},
            on : Id \union {None}, again : BOOLEAN, session : Id \union {None}, alloc : Alloc \union {Nobody},
            fencedAtStart : BOOLEAN, bannedAtStart : BOOLEAN]
    \union [op : {"write"}, pc : {"commit"}, fencedAtStart : BOOLEAN, bannedAtStart : BOOLEAN]

(* The shapes of the maps, the requests and the saved table; no lease runs *)
(* longer than one ttl from now.                                           *)
TypeOK ==
    /\ byPath \in [Path -> Id \union {None}] /\ byID \subseteq Id
    /\ \A i \in Id : rec[i].expires <= clock + TTL
    /\ rec \in [Id -> Records] /\ saved \in [Id -> Records]
    /\ byConn \in [Conn -> SUBSET Id] /\ open \subseteq Conn
    /\ agentOf \in [Conn -> Agent \union {Nobody}]
    /\ issued \in [Id -> [agent : Agent \union {Nobody}, path : Path \union {Nobody}]]
    /\ req \in [Slot -> Requests]
    /\ active \in [Alloc -> Id \union {None}]
    /\ fenced \in [Alloc -> SUBSET Id] /\ banned \in [Alloc -> SUBSET Id]
    /\ stopping \in BOOLEAN /\ restarts \in Nat /\ clock \in Nat

(* The three indexes of leaseManager describe the same leases: one lease   *)
(* per path, and each lease listed under exactly the connection it is      *)
(* bound to, through takeovers, rebinds, evictions, sweeps and restarts.   *)
(* A lease missing from byConn would outlive its connection; one left in   *)
(* an old connection's set would die with it.                              *)
IndexesAgree ==
    /\ \A p \in Path : byPath[p] # None => byPath[p] \in byID /\ rec[byPath[p]].path = p
    /\ \A i \in byID : byPath[rec[i].path] = i
    /\ \A i \in Id \ byID : rec[i] = NoRec
    /\ \A c \in Conn, i \in Id : i \in byConn[c] <=> i \in byID /\ rec[i].conn = c

(* The end of a connection takes away the leases bound to it and no other: *)
(* the teardown of a replaced mount never kills its successor's lease.     *)
TeardownSparesOthers ==
    [][\A c \in Conn, i \in byID : Disconnect(c) /\ rec[i].conn # c => i \in byID']_vars

(* A live session moves from connection to connection only forwards: a     *)
(* delayed request on an old socket never takes it back from the new one.  *)
SessionMovesForward ==
    [][restarts' = restarts => \A i \in byID \intersect byID' : rec'[i].conn >= rec[i].conn]_vars

(* A write that arrives after its session was fenced, of a kind that makes *)
(* the session check, does not get through, whatever other sessions        *)
(* install in the meantime.                                                *)
Writing(s) == req[s].pc = "commit" /\ req[s].op = "write"
FencedWritesRejected == \A s \in Slot : Writing(s) => ~req[s].fencedAtStart

(* Every request ends although holders need not answer a revoke and        *)
(* whoever sent the revoke may go away before the eviction.                *)
RequestsEnd == \A s \in Slot : req[s] # Idle ~> req[s] = Idle

(* A lease whose connection is gone, the late product of a grant on a      *)
(* closed socket or one restored after a restart, does not stay unless     *)
(* somebody takes it over, refreshes it beyond the horizon or revokes it.  *)
Forsaken(i) == ~stopping /\ i \in byID /\ rec[i].conn \notin open /\ ~rec[i].revoking /\ rec[i].expires <= MaxClock
ForsakenLeasesGo == \A i \in Id : Forsaken(i) ~> ~Forsaken(i)

(* A session that was fenced, in this server process or an earlier one,    *)
(* never writes again without a new lease_grant.                           *)
DisplacedNeverWrites == \A s \in Slot : Writing(s) => ~req[s].bannedAtStart
=============================================================================
