---------------------------- MODULE Capacity ----------------------------
(* Disks, placements and pool capacity: the agent disk's life cycle in     *)
(* orlop-control (provision, enrol, resize, budget, reassign, delete,      *)
(* purge) against the tenants registered on the orlop-servers.             *)
(*                                                                         *)
(* A request is a job held by a worker. Every database statement or        *)
(* transaction is one step, and so is every call to a server; a job may    *)
(* die between two steps (a crash of orlop-control, an ended context).     *)
EXTENDS Integers, FiniteSets, Sequences, FiniteSetsExt

CONSTANTS
    Owner,      \* accounts (users)
    Agent,      \* agents; agent a's disk is the tenant a_<a>
    Server,     \* rows of server_pool
    None,       \* no server, no row
    Size,       \* the sizes requests name (bytes, in units)
    Total,      \* total_bytes of a server
    MaxRow,     \* bound: disk_allocations rows ever inserted
    MaxJob,     \* bound: multi-step requests ever started
    MaxMove,    \* bound: changes of owner, size, budget and server status, restarts of
                \* a server, erasures that fail
    Worker      \* requests in flight at once

ASSUME CapacityAssumption ==
    /\ Size \subseteq Nat \ {0} /\ IsFiniteSet(Size)
    /\ Total \in Nat
    /\ MaxRow \in Nat /\ MaxJob \in Nat /\ MaxMove \in Nat
    /\ IsFiniteSet(Owner) /\ IsFiniteSet(Server)
    /\ None \notin Server \cup Nat

VARIABLES
    free,       \* server_pool.free_bytes
    draining,   \* servers whose status is 'draining': no new placement
    res,        \* owner_capacity_reservations: size of (owner, server), 0 if none
    rows,       \* disk_allocations, in order of insertion
    vm,         \* server_vms: the server of agent a's tenant, or None
    disk,       \* the tenants each server has loaded
    filed,      \* the tenants of each server's registered_tenants.json
    data,       \* where each row's pod wrote what is still there
    mounted,    \* the mounts: a row's pod with a session on a server
    job,        \* what each worker is doing
    jobs, moves,\* how many of the bounds are used up
    enrolled,   \* rows whose pod holds a certificate
    moved,      \* agents whose disk changed owners, owners that lost one
    raced,      \* agents an enrolment served after their row was revoked or moved, their owners
    reused,     \* agents provisioned again before the purge of their disk was over
    left,       \* data and mounts an unregistration left behind
    patched     \* servers whose free bytes a PATCH of one disk moved

vars == <<free, draining, res, rows, vm, disk, filed, data, mounted, job, jobs, moves,
          enrolled, moved, raced, reused, left, patched>>
Ghosts == <<moved, raced, reused, left, patched>>

Row == 1 .. MaxRow
Rows == DOMAIN rows

----------------------------------------------------------------------------
(* The tables.                                                             *)

Live(r) == rows[r].state = "live"

(* The live row of agent a, or None: at most one by the partial index.     *)
GetAllocationByAgent(a) ==
    LET mine == {r \in Rows : rows[r].agent = a /\ Live(r)}
    IN  IF mine = {} THEN None ELSE CHOOSE r \in mine : TRUE

CountActive(o) == Cardinality({r \in Rows : rows[r].owner = o /\ Live(r)})

(* Tenants on s of the owner's unpurged rows.                              *)
CountPlaced(o, s, place) ==
    Cardinality({a \in Agent :
        /\ place[a] = s
        /\ \E r \in Rows : rows[r].agent = a /\ rows[r].owner = o /\ rows[r].state # "purged"})

Reservations(o) == {s \in Server : res[o][s] > 0}

(* 'available' servers with room, the most free bytes first; equal ones in *)
(* address order, which is any fixed order.                                *)
PickBest(size) ==
    LET fits == {s \in Server : s \notin draining /\ free[s] >= size}
    IN  IF fits = {} THEN None
        ELSE CHOOSE s \in fits : \A t \in fits : free[s] >= free[t]

(* ReserveCapacityForGrowth also takes a draining server.                  *)
CanGrow(s, bytes) == free[s] >= bytes

ReserveCapacity(s, bytes) == [free EXCEPT ![s] = @ - bytes]

Capped(bytes) == IF bytes > Total THEN Total ELSE bytes
ReleaseCapacity(s, bytes) == [free EXCEPT ![s] = Capped(@ + bytes)]

CreateReservation(o, s, size) == [res EXCEPT ![o][s] = size]

CreateServerVM(a, s) == [vm EXCEPT ![a] = IF @ = None THEN s ELSE @]
DeleteServerVM(a) == [vm EXCEPT ![a] = None]

(* The owner's reservations at a new size.                                 *)
BugResized(o, size) == res
Resized(o, size) ==
    [res EXCEPT ![o] = [s \in Server |-> IF @[s] > 0 THEN size ELSE 0]]

(* UPDATE ... WHERE id AND user_id AND revoked_at IS NULL                   *)
SizeUpdates(r, o) == Live(r) /\ rows[r].owner = o
UpdateAllocationSize(r, size) == [rows EXCEPT ![r].size = size]

MarkPurged(r) ==
    [rows EXCEPT ![r].state = IF @ = "revoked" THEN "purged" ELSE @]

----------------------------------------------------------------------------
(* Jobs.                                                                   *)

Idle == [pc |-> "idle"]
Begin(w, j) ==
    /\ job[w] = Idle /\ jobs < MaxJob
    /\ job' = [job EXCEPT ![w] = j]
    /\ jobs' = jobs + 1
Move == moves < MaxMove /\ moves' = moves + 1
Goto(w, pc) == job' = [job EXCEPT ![w].pc = pc]
Become(w, j) == job' = [job EXCEPT ![w] = j]
Done(w) == job' = [job EXCEPT ![w] = Idle]
At(w, pc) == job[w].pc = pc

(* Row r waits for a purge, or has one at work.                            *)
Purging(w) == job[w].pc \in {"purge", "unregister", "cleanup", "mark"}
Owed(r) == rows[r].state # "purged" \/ \E w \in Worker : Purging(w) /\ job[w].row = r

Database == <<free, draining, res, rows, vm>>
Servers == <<disk, filed, data, mounted>>

(* The process dies, or the request's context ends, between two steps.     *)
Die(w) ==
    /\ job[w] # Idle
    /\ Done(w)
    /\ UNCHANGED <<Database, Servers, enrolled, jobs, moves, Ghosts>>

----------------------------------------------------------------------------
(* The entity API.                                                         *)

(* POST /v1/entities: the live row of the agent, with its owner set to the *)
(* caller's, or a new row. The size counts only for a new row.             *)
handleProvision(a, o, size) ==
    /\ IF GetAllocationByAgent(a) = None
         THEN /\ Len(rows) < MaxRow
              /\ rows' = Append(rows, [agent |-> a, owner |-> o, size |-> size,
                                       state |-> "live"])
              /\ moved' = moved \cup
                    UNION {{a, rows[r].owner} :
                             r \in {q \in Rows : rows[q].agent = a /\ rows[q].owner # o}}
              /\ reused' = reused \cup (IF \E q \in Rows : rows[q].agent = a /\ Owed(q) THEN {a} ELSE {})
              /\ UNCHANGED moves
         ELSE /\ Move
              /\ rows[GetAllocationByAgent(a)].owner # o
              /\ rows' = [rows EXCEPT ![GetAllocationByAgent(a)].owner = o]
              /\ moved' = moved \cup {a, rows[GetAllocationByAgent(a)].owner}
              /\ UNCHANGED reused
    /\ UNCHANGED <<free, draining, res, vm, Servers, enrolled, job, jobs, raced, left, patched>>

(* POST /v1/entities/{id}/reassign: the row changes hands, and nothing else. *)
handleReassign(a, o) ==
    /\ GetAllocationByAgent(a) # None
    /\ rows[GetAllocationByAgent(a)].owner # o
    /\ Move
    /\ rows' = [rows EXCEPT ![GetAllocationByAgent(a)].owner = o]
    /\ moved' = moved \cup {a, rows[GetAllocationByAgent(a)].owner}
    /\ UNCHANGED <<free, draining, res, vm, Servers, enrolled, job, jobs, raced, reused, left, patched>>

(* DELETE /v1/entities/{id}: revoke the row, then purge it in the same     *)
(* request; RevokeAllocation needs the owner the lookup saw.               *)
handleDelete(w, a) ==
    /\ GetAllocationByAgent(a) # None
    /\ LET r == GetAllocationByAgent(a)
       IN  /\ rows' = [rows EXCEPT ![r].state = "revoked"]
           /\ Begin(w, [pc |-> "purge", row |-> r])
    /\ UNCHANGED <<free, draining, res, vm, Servers, enrolled, moves, Ghosts>>

(* The sweeper, or an operator's sweep, takes a revoked, unpurged row.     *)
sweep(w, r) ==
    /\ rows[r].state = "revoked"
    /\ Begin(w, [pc |-> "purge", row |-> r])
    /\ UNCHANGED <<Database, Servers, enrolled, moves, Ghosts>>

----------------------------------------------------------------------------
(* Enrolment and placement.                                                *)

(* handleEnroll reads the allocation: refused when it is revoked, or is no *)
(* longer the token's owner's, so that the owner the request goes on with  *)
(* is the row's. A token for a live row can be had at any time; tokens are *)
(* Enrolment's subject. The size read is used for the whole request.       *)
handleEnroll(w, r) ==
    /\ Live(r)
    /\ Begin(w, [pc |-> "reserve", row |-> r, owner |-> rows[r].owner,
                 size |-> rows[r].size])
    /\ UNCHANGED <<Database, Servers, enrolled, moves, Ghosts>>

Raced(j) == IF Live(j.row) /\ rows[j.row].owner = j.owner THEN raced
            ELSE raced \cup {rows[j.row].agent, j.owner}
                       \cup {rows[q].owner : q \in {p \in Rows : rows[p].agent = rows[j.row].agent}}

(* The server an account's disks go to: where it has a reservation, or the *)
(* best one.                                                               *)
BugHomeOf(o, size) == PickBest(size)
HomeOf(o, size) ==
    IF Reservations(o) # {} THEN CHOOSE s \in Reservations(o) : TRUE
    ELSE PickBest(size)

(* Reserve, up to the commit: an existing placement is returned as it is;  *)
(* else the owner's reservation is reused, or made on the best server.     *)
Reserve(w) ==
    /\ At(w, "reserve")
    /\ LET j == job[w]
           a == rows[j.row].agent
           s == HomeOf(j.owner, j.size)
       IN  IF vm[a] # None
             THEN /\ Become(w, [pc |-> "mint", row |-> j.row, owner |-> j.owner])
                  /\ UNCHANGED <<free, res, raced>>
             ELSE IF s = None                    \* ErrNoCapacity: 503, retried
             THEN Done(w) /\ UNCHANGED <<free, res, raced>>
             ELSE /\ Become(w, [pc |-> "register", row |-> j.row, owner |-> j.owner,
                                server |-> s])
                  /\ raced' = Raced(j)
                  /\ IF res[j.owner][s] > 0
                       THEN UNCHANGED <<free, res>>
                       ELSE /\ free' = ReserveCapacity(s, j.size)
                            /\ res' = CreateReservation(j.owner, s, j.size)
    /\ UNCHANGED <<draining, rows, vm, Servers, enrolled, jobs, moves, moved, reused, left, patched>>

(* The tenant is live on the server and in its file; its reply may be      *)
(* lost. (A save that failed is a restart that skips the tenant.)          *)
registerTenant(w, answered) ==
    /\ At(w, "register")
    /\ disk' = [disk EXCEPT ![job[w].server] = @ \cup {rows[job[w].row].agent}]
    /\ filed' = [filed EXCEPT ![job[w].server] = @ \cup {rows[job[w].row].agent}]
    /\ IF answered THEN Goto(w, "place") ELSE Done(w)
    /\ UNCHANGED <<Database, data, mounted, enrolled, jobs, moves, Ghosts>>

(* The binding; the loser of a race for it keeps the winner's.             *)
Place(w) ==
    /\ At(w, "place")
    /\ vm' = CreateServerVM(rows[job[w].row].agent, job[w].server)
    /\ raced' = Raced(job[w])
    /\ Become(w, [pc |-> "mint", row |-> job[w].row, owner |-> job[w].owner])
    /\ UNCHANGED <<free, draining, res, rows, Servers, enrolled, jobs, moves, moved, reused, left, patched>>

(* The pod gets its certificate; a token spent meanwhile is a request that *)
(* dies here.                                                              *)
Mint(w) ==
    /\ At(w, "mint")
    /\ enrolled' = enrolled \cup {job[w].row}
    /\ Done(w)
    /\ UNCHANGED <<Database, Servers, jobs, moves, Ghosts>>

(* The pod of a live row mounts its disk where the placement says it is.   *)
Mount(r) ==
    /\ r \in enrolled /\ Live(r)
    /\ LET s == vm[rows[r].agent]
       IN  /\ s # None
           /\ rows[r].agent \in disk[s]
           /\ mounted' = mounted \cup {[row |-> r, server |-> s]}
    /\ UNCHANGED <<Database, disk, filed, data, enrolled, job, jobs, moves, Ghosts>>

(* A mount writes as long as the server has its tenant: nothing on the     *)
(* server looks at the row, so that the pod of a revoked one goes on.      *)
WriteData(m) ==
    /\ rows[m.row].agent \in disk[m.server]
    /\ data' = data \cup {m}
    /\ UNCHANGED <<Database, disk, filed, mounted, enrolled, job, jobs, moves, Ghosts>>

(* A server restarts and opens the tenants of its file that it can; the    *)
(* others are skipped with a warning, and their directories stay. Sessions *)
(* are saved with the tenant and restored.                                 *)
Reboot(s) ==
    /\ Move
    /\ \E skipped \in SUBSET filed[s] : disk' = [disk EXCEPT ![s] = filed[s] \ skipped]
    /\ UNCHANGED <<Database, filed, data, mounted, enrolled, job, jobs, Ghosts>>

----------------------------------------------------------------------------
(* Purge.                                                                  *)

BugPurgeAllocation(w) ==
    /\ At(w, "purge")
    /\ Become(w, [pc |-> "cleanup", row |-> job[w].row, server |-> None,
                  erased |-> vm[rows[job[w].row].agent] # None])
    /\ UNCHANGED <<Database, Servers, enrolled, jobs, moves, Ghosts>>

(* PurgeAllocation reads the row again, then the placement. The session is *)
(* fenced before the erase, best effort, which changes nothing here.       *)
PurgeAllocation(w) ==
    /\ At(w, "purge")
    /\ LET r == job[w].row
           s == vm[rows[r].agent]
       IN  IF rows[r].state # "revoked" THEN Done(w)
           ELSE Become(w, [pc |-> IF s = None THEN "cleanup" ELSE "unregister",
                           row |-> r, server |-> s, erased |-> FALSE])
    /\ UNCHANGED <<Database, Servers, enrolled, jobs, moves, Ghosts>>

(* What row r's agent has on server s.                                     *)
Belongings(r, s) == {d \in data \cup mounted : d.server = s /\ rows[d.row].agent = rows[r].agent}

(* A loaded tenant goes, with its directory and its sessions and with its  *)
(* entry in the file; that the directory could not be removed or the entry *)
(* not dropped is only logged.  A tenant that is not loaded is answered    *)
(* with 404, which counts as done, and nothing is erased. The reply may be *)
(* lost.                                                                   *)
unregisterTenant(w, answered, removed, dropped) ==
    /\ At(w, "unregister")
    /\ LET s == job[w].server
           a == rows[job[w].row].agent
           loaded == a \in disk[s]
           mine == Belongings(job[w].row, s)
       IN  /\ disk' = [disk EXCEPT ![s] = @ \ {a}]
           /\ filed' = [filed EXCEPT ![s] = IF loaded /\ dropped THEN @ \ {a} ELSE @]
           /\ IF loaded /\ removed
                THEN /\ data' = data \ mine /\ mounted' = mounted \ mine
                     /\ left' = left \ mine
                ELSE left' = left \cup mine /\ UNCHANGED <<data, mounted>>
           /\ IF loaded /\ ~(removed /\ dropped) THEN Move ELSE UNCHANGED moves
    /\ IF answered
         THEN job' = [job EXCEPT ![w].pc = "cleanup", ![w].erased = TRUE]
         ELSE Done(w)
    /\ UNCHANGED <<Database, enrolled, jobs, moved, raced, reused, patched>>

(* The reservations of an account with no live disk and no placement.      *)
BugUnused(w, o, place) ==
    {s \in Reservations(o) :
        job[w].erased /\ CountActive(o) = 0 /\ CountPlaced(o, s, place) = 0}
Unused(w, o, place) ==
    {s \in Reservations(o) : CountActive(o) = 0 /\ CountPlaced(o, s, place) = 0}

(* releaseUnusedOwnerCapacity: one transaction under the owner's row lock. *)
ReleaseUnused(w) ==
    /\ At(w, "cleanup")
    /\ LET r == job[w].row
           o == rows[r].owner
           place == IF job[w].erased THEN DeleteServerVM(rows[r].agent) ELSE vm
           unused == Unused(w, o, place)
       IN  /\ vm' = place
           /\ res' = [res EXCEPT ![o] = [s \in Server |-> IF s \in unused THEN 0 ELSE @[s]]]
           /\ free' = [s \in Server |-> IF s \in unused THEN ReleaseCapacity(s, res[o][s])[s]
                                        ELSE free[s]]
    /\ Goto(w, "mark")
    /\ UNCHANGED <<draining, rows, Servers, enrolled, jobs, moves, Ghosts>>

markPurged(w) ==
    /\ At(w, "mark")
    /\ rows' = MarkPurged(job[w].row)
    /\ Done(w)
    /\ UNCHANGED <<free, draining, res, vm, Servers, enrolled, jobs, moves, Ghosts>>

----------------------------------------------------------------------------
(* Resize and budget.                                                      *)

(* PATCH /v1/entities/{id}: an unplaced disk only changes size; for a      *)
(* placed one the pool moves first.                                        *)
Resize(w, a, size) ==
    /\ GetAllocationByAgent(a) # None
    /\ LET r == GetAllocationByAgent(a)
           s == vm[a]
           delta == size - rows[r].size
       IN  /\ delta # 0
           /\ IF s = None
                THEN /\ rows' = UpdateAllocationSize(r, size)
                     /\ UNCHANGED <<free, patched, job, jobs>>
                ELSE /\ delta > 0 => CanGrow(s, delta)
                     /\ free' = IF delta > 0 THEN ReserveCapacity(s, delta)
                                ELSE ReleaseCapacity(s, -delta)
                     /\ patched' = patched \cup {s}
                     /\ Begin(w, [pc |-> "undo", server |-> s, delta |-> delta])
                     /\ UNCHANGED rows
    /\ Move
    /\ UNCHANGED <<draining, res, vm, Servers, enrolled, moved, raced, reused, left>>

(* ResizeTenant answers 404: quota records are kept per owner tenant, so   *)
(* an agent's tenant has none. The pool delta is compensated, if the space *)
(* a shrink gave back is still there.                                      *)
compensatePoolDelta(w) ==
    /\ At(w, "undo")
    /\ LET s == job[w].server
           delta == job[w].delta
       IN  free' = IF delta > 0 THEN ReleaseCapacity(s, delta)
                   ELSE IF CanGrow(s, -delta) THEN ReserveCapacity(s, -delta)
                   ELSE free
    /\ Done(w)
    /\ UNCHANGED <<draining, res, rows, vm, Servers, enrolled, jobs, moves, Ghosts>>

(* ResizeOwnerCapacity: every reservation of the owner to the new size, or *)
(* none of them.                                                           *)
ResizeOwnerCapacity(w, o, size) ==
    /\ job[w] = Idle
    /\ \A s \in Reservations(o) : CanGrow(s, size - res[o][s])
    /\ free' = [s \in Server |->
                  IF s \in Reservations(o)
                    THEN Capped(free[s] + res[o][s] - size) ELSE free[s]]
    /\ res' = Resized(o, size)
    /\ Begin(w, [pc |-> "stamp", owner |-> o, size |-> size,
                 todo |-> {r \in Rows : SizeUpdates(r, o)}])
    /\ Move
    /\ UNCHANGED <<draining, rows, vm, Servers, enrolled, Ghosts>>

(* The budget is stamped on the rows that were listed, newest first; a row *)
(* revoked or reassigned meanwhile ends the request there.                 *)
StampBudget(w) ==
    /\ At(w, "stamp")
    /\ IF job[w].todo = {}
         THEN Done(w) /\ UNCHANGED rows
         ELSE LET r == Max(job[w].todo)
              IN  IF SizeUpdates(r, job[w].owner)
                    THEN /\ rows' = UpdateAllocationSize(r, job[w].size)
                         /\ job' = [job EXCEPT ![w].todo = @ \ {r}]
                    ELSE Done(w) /\ UNCHANGED rows
    /\ UNCHANGED <<free, draining, res, vm, Servers, enrolled, jobs, moves, Ghosts>>

(* An operator takes a server out of placement, or back.                   *)
SetStatus(s) ==
    /\ Move
    /\ draining' = IF s \in draining THEN draining \ {s} ELSE draining \cup {s}
    /\ UNCHANGED <<free, res, rows, vm, Servers, enrolled, job, jobs, Ghosts>>
----------------------------------------------------------------------------
Init ==
    /\ free = [s \in Server |-> Total] /\ draining = {}
    /\ res = [o \in Owner |-> [s \in Server |-> 0]]
    /\ rows = <<>> /\ vm = [a \in Agent |-> None]
    /\ disk = [s \in Server |-> {}] /\ filed = disk /\ data = {} /\ mounted = {}
    /\ job = [w \in Worker |-> Idle] /\ jobs = 0 /\ moves = 0
    /\ enrolled = {}
    /\ moved = {} /\ raced = {} /\ reused = {} /\ left = {} /\ patched = {}

Entities ==
    \/ \E a \in Agent, o \in Owner, size \in Size : handleProvision(a, o, size)
    \/ \E a \in Agent, o \in Owner : handleReassign(a, o)
    \/ \E r \in Rows : Mount(r)
    \/ \E m \in mounted : WriteData(m)
    \/ \E s \in Server : SetStatus(s) \/ Reboot(s)

Start(w) ==
    \/ \E a \in Agent : handleDelete(w, a)
    \/ \E r \in Rows : sweep(w, r)
    \/ \E r \in Rows : handleEnroll(w, r)
    \/ \E a \in Agent, size \in Size : Resize(w, a, size)
    \/ \E o \in Owner, size \in Size : ResizeOwnerCapacity(w, o, size)

Step(w) ==
    \/ Reserve(w) \/ Place(w) \/ Mint(w)
    \/ \E answered \in BOOLEAN : registerTenant(w, answered)
    \/ \E answered, removed, dropped \in BOOLEAN : unregisterTenant(w, answered, removed, dropped)
    \/ PurgeAllocation(w) \/ ReleaseUnused(w) \/ markPurged(w)
    \/ compensatePoolDelta(w) \/ StampBudget(w)

Next == Entities \/ \E w \in Worker : Start(w) \/ Step(w) \/ Die(w)

Spec == Init /\ [][Next]_vars

----------------------------------------------------------------------------
(* Properties.                                                             *)

(* The rows, and the jobs that name rows of R.                             *)
RowShape == [agent : Agent, owner : Owner, size : Size, state : {"live", "revoked", "purged"}]
EnrolJobs(R) ==
    [pc : {"reserve"}, row : R, owner : Owner, size : Size]
    \cup [pc : {"register", "place"}, row : R, owner : Owner, server : Server]
    \cup [pc : {"mint"}, row : R, owner : Owner]
PurgeJobs(R) ==
    [pc : {"purge"}, row : R]
    \cup [pc : {"unregister"}, row : R, server : Server, erased : BOOLEAN]
    \cup [pc : {"cleanup", "mark"}, row : R, server : Server \cup {None}, erased : BOOLEAN]
SizeJobs(R) ==
    [pc : {"undo"}, server : Server, delta : Int]
    \cup [pc : {"stamp"}, owner : Owner, size : Size, todo : SUBSET R]
Jobs(R) == {Idle} \cup EnrolJobs(R) \cup PurgeJobs(R) \cup SizeJobs(R)

(* Every variable holds a value of its type; in particular free bytes stay *)
(* between zero and the server's total, whatever is reserved and released. *)
TypeOK ==
    /\ free \in [Server -> 0 .. Total] /\ draining \subseteq Server
    /\ res \in [Owner -> [Server -> Size \cup {0}]]
    /\ rows \in Seq(RowShape)
    /\ vm \in [Agent -> Server \cup {None}]
    /\ disk \in [Server -> SUBSET Agent] /\ filed \in [Server -> SUBSET Agent]
    /\ data \cup mounted \subseteq [row : Rows, server : Server]
    /\ job \in [Worker -> Jobs(Rows)]
    /\ enrolled \subseteq Rows

(* The bytes the accounts have reserved on s, each a pair of the account   *)
(* and a number up to the size of its reservation.                         *)
Reserved(s) == Cardinality(UNION {{o} \X (1 .. res[o][s]) : o \in Owner})

(* Unless a PATCH of one disk has moved it, a server's free bytes are its  *)
(* total less what the accounts have reserved there: no crash, race or     *)
(* retry of enrolment, purge or budget change loses or invents capacity.   *)
PoolConserved == \A s \in Server \ patched : free[s] + Reserved(s) = Total

(* A live, placed disk has its owner's capacity reserved on the server it  *)
(* is on and nowhere else: an account's agents are kept together, however  *)
(* many enrol or are purged at once, unless a disk changed owners or an    *)
(* enrolment outlived its row (reserve.go, purge.go).                      *)
PlacementsBacked ==
    \A r \in Rows :
        LET a == rows[r].agent
        IN  Live(r) /\ vm[a] # None /\ a \notin moved \cup raced
              => Reservations(rows[r].owner) = {vm[a]}

(* What a disk's pod wrote is gone from every server once its row is       *)
(* marked purged, although the pod may write on after the revocation,      *)
(* unless an unregistration left it behind (the directory could not be     *)
(* removed, or the server had not loaded the tenant), or the agent was     *)
(* provisioned again before the purge of its last disk was over: that      *)
(* purge, or a second one of the same row, then forgets the placement of   *)
(* the new disk.                                                           *)
ErasedWhenPurged ==
    \A d \in data \ left : rows[d.row].agent \notin reused => rows[d.row].state # "purged"

(* When all of an account's disks are purged its capacity is back in the   *)
(* pool, whatever crashed on the way, unless it gave a disk away or an     *)
(* enrolment outlived the row of one of its agents.                        *)
CapacityReturned ==
    \A o \in Owner \ (moved \cup raced) :
        (\A r \in Rows : rows[r].owner = o => rows[r].state = "purged")
          => Reservations(o) = {}

(* "purge only ever erases data whose allocation was already revoked": no  *)
(* step removes what the pod of a live disk wrote.                         *)
LiveDataSurvives ==
    [][\A d \in data \ data' : rows[d.row].state # "live"]_vars
============================================================================
