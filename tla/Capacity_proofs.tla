-------------------------- MODULE Capacity_proofs --------------------------
(***************************************************************************)
(* Theorems about Capacity, for any accounts, agents, servers, sizes and   *)
(* workers, and any number of rows, jobs and changes.                      *)
(***************************************************************************)
EXTENDS Capacity, FiniteSetTheorems, WellFoundedInduction, TLAPS

-----------------------------------------------------------------------------
(* Types of the jobs and the rows.                                         *)

Pcs == {"idle", "reserve", "register", "place", "mint", "purge", "unregister", "cleanup", "mark", "undo", "stamp"}

LEMMA Constants ==
    /\ Size \subseteq Nat /\ 0 \notin Size /\ Total \in Nat /\ IsFiniteSet(Owner)
    /\ None \notin Server /\ None \notin Nat
BY CapacityAssumption

\* The fields of a job, by where it is.
LEMMA JobFields ==
    ASSUME NEW R, NEW j \in Jobs(R)
    PROVE  /\ j.pc \in Pcs
           /\ j.pc = "idle" => j = Idle
           /\ j.pc \in {"reserve", "register", "place", "mint"} => j.row \in R /\ j.owner \in Owner
           /\ j.pc = "reserve" => j.size \in Size
           /\ j.pc \in {"register", "place", "unregister"} => j.server \in Server
           /\ j.pc \in {"purge", "unregister", "cleanup", "mark"} => j.row \in R
           /\ j.pc = "unregister" => j \in [pc : {"unregister"}, row : R, server : Server, erased : BOOLEAN]
           /\ j.pc \in {"cleanup", "mark"} =>
                j \in [pc : {"cleanup", "mark"}, row : R, server : Server \cup {None}, erased : BOOLEAN]
           /\ j.pc = "undo" => j.server \in Server /\ j.delta \in Int
           /\ j.pc = "stamp" => j \in [pc : {"stamp"}, owner : Owner, size : Size, todo : SUBSET R]
           /\ j.pc = "register" => j \in [pc : {"register", "place"}, row : R, owner : Owner, server : Server]
<1>1. CASE j = Idle
  BY <1>1 DEF Idle, Pcs
<1>2. CASE j \in EnrolJobs(R)
  BY <1>2 DEF EnrolJobs, Pcs
<1>3. CASE j \in PurgeJobs(R)
  BY <1>3 DEF PurgeJobs, Pcs
<1>4. CASE j \in SizeJobs(R)
  BY <1>4 DEF SizeJobs, Pcs
<1> QED
  BY <1>1, <1>2, <1>3, <1>4 DEF Jobs

LEMMA JobsGrow == ASSUME NEW R, NEW S, R \subseteq S PROVE Jobs(R) \subseteq Jobs(S)
<1>1. EnrolJobs(R) \subseteq EnrolJobs(S)
  BY DEF EnrolJobs
<1>2. PurgeJobs(R) \subseteq PurgeJobs(S)
  BY DEF PurgeJobs
<1>3. SizeJobs(R) \subseteq SizeJobs(S)
  BY DEF SizeJobs
<1> QED
  BY <1>1, <1>2, <1>3 DEF Jobs

\* The job of w is j now, and the others go on.
OnlyJob(w, j) == job'[w] = j /\ \A i \in Worker \ {w} : job'[i] = job[i]

LEMMA JobSet ==
    ASSUME job \in [Worker -> Jobs(Rows)], NEW w \in Worker, NEW j, j \in Jobs(Rows'), Rows \subseteq Rows',
           job' = [job EXCEPT ![w] = j]
    PROVE  job' \in [Worker -> Jobs(Rows')] /\ OnlyJob(w, j)
BY JobsGrow DEF OnlyJob

\* One row changes.
LEMMA RowSet ==
    ASSUME rows \in Seq(RowShape), NEW r \in Rows, NEW x \in RowShape, rows' = [rows EXCEPT ![r] = x]
    PROVE  rows' \in Seq(RowShape) /\ Rows' = Rows /\ rows'[r] = x /\ \A q \in Rows \ {r} : rows'[q] = rows[q]
BY DEF Rows

\* One row is added.
LEMMA RowAdd ==
    ASSUME rows \in Seq(RowShape), NEW x \in RowShape, rows' = Append(rows, x)
    PROVE  \E n \in Nat : /\ rows' \in Seq(RowShape) /\ Rows' = Rows \cup {n} /\ rows'[n] = x
                          /\ \A q \in Rows : q \in Nat /\ q < n /\ rows'[q] = rows[q]
<1>1. Len(rows) + 1 \in Nat
  OBVIOUS
<1>2. rows' \in Seq(RowShape) /\ rows'[Len(rows) + 1] = x
  OBVIOUS
<1>3. Rows' = Rows \cup {Len(rows) + 1}
  BY DEF Rows
<1>4. \A q \in Rows : q \in Nat /\ q < Len(rows) + 1 /\ rows'[q] = rows[q]
  BY DEF Rows
<1> QED
  BY <1>1, <1>2, <1>3, <1>4

LEMMA RowsAre == ASSUME rows \in Seq(RowShape) PROVE Rows \subseteq Nat /\ \A r \in Rows : rows[r] \in RowShape
BY DEF Rows

\* The live row of an agent.
LEMMA LiveRow ==
    ASSUME rows \in Seq(RowShape), NEW a
    PROVE  /\ GetAllocationByAgent(a) # None =>
                /\ GetAllocationByAgent(a) \in Rows /\ rows[GetAllocationByAgent(a)].agent = a
                /\ Live(GetAllocationByAgent(a))
           /\ GetAllocationByAgent(a) = None => \A r \in Rows : rows[r].agent = a => ~Live(r)
<1> DEFINE mine == {r \in Rows : rows[r].agent = a /\ Live(r)}
<1>1. mine # {} => GetAllocationByAgent(a) \in mine
  BY DEF GetAllocationByAgent
<1>2. mine = {} => GetAllocationByAgent(a) = None
  BY DEF GetAllocationByAgent
<1>3. None \notin Rows
  BY RowsAre, Constants
<1> QED
  BY <1>1, <1>2, <1>3

-----------------------------------------------------------------------------
(* Type correctness, one step at a time.                                   *)

PoolTypes ==
    /\ free \in [Server -> 0 .. Total] /\ draining \subseteq Server
    /\ res \in [Owner -> [Server -> Size \cup {0}]]
HostTypes ==
    /\ vm \in [Agent -> Server \cup {None}]
    /\ disk \in [Server -> SUBSET Agent] /\ filed \in [Server -> SUBSET Agent]
RefTypes(R) ==
    /\ data \cup mounted \subseteq [row : R, server : Server] /\ enrolled \subseteq R
JobTypes(R) == job \in [Worker -> Jobs(R)]

LEMMA TypeParts == TypeOK <=> PoolTypes /\ HostTypes /\ rows \in Seq(RowShape) /\ RefTypes(Rows) /\ JobTypes(Rows)
BY DEF TypeOK, PoolTypes, HostTypes, RefTypes, JobTypes

LEMMA TypesNow ==
    ASSUME PoolTypes', HostTypes', (rows \in Seq(RowShape))', RefTypes(Rows)', JobTypes(Rows)'
    PROVE  TypeOK'
BY DEF TypeOK, PoolTypes, HostTypes, RefTypes, JobTypes

\* What does not refer to more than before.
LEMMA RefFrame ==
    ASSUME RefTypes(Rows), Rows \subseteq Rows', UNCHANGED <<data, mounted, enrolled>>
    PROVE  RefTypes(Rows)'
BY DEF RefTypes

LEMMA FreeDown ==
    ASSUME PoolTypes, NEW s \in Server, NEW n \in Nat, CanGrow(s, n)
    PROVE  ReserveCapacity(s, n) \in [Server -> 0 .. Total]
<1>1. free[s] \in 0 .. Total /\ free[s] >= n /\ Total \in Nat
  BY Constants DEF PoolTypes, CanGrow
<1>2. free[s] - n \in 0 .. Total
  BY <1>1
<1> QED
  BY <1>2 DEF ReserveCapacity, PoolTypes

LEMMA FreeUp ==
    ASSUME PoolTypes, NEW s \in Server, NEW n \in Nat
    PROVE  ReleaseCapacity(s, n) \in [Server -> 0 .. Total]
<1>1. free[s] \in 0 .. Total /\ Total \in Nat
  BY Constants DEF PoolTypes
<1>2. Capped(free[s] + n) \in 0 .. Total
  BY <1>1 DEF Capped
<1> QED
  BY <1>2 DEF ReleaseCapacity, PoolTypes

LEMMA ResNat == ASSUME PoolTypes, NEW o \in Owner, NEW s \in Server PROVE res[o][s] \in Nat
<1>1. res[o][s] \in Size \cup {0}
  BY DEF PoolTypes
<1>2. \A n \in Size \cup {0} : n \in Nat
  BY CapacityAssumption
<1> QED
  BY <1>1, <1>2

Harmless == {"idle", "reserve", "mint", "undo", "stamp"}

\* Nothing happens that the placements and the data depend on: rows keep their
\* agents, owners and states, accounts their homes, and jobs go on where they
\* are, end, or are of another kind.
SameRows ==
    /\ Rows' = Rows
    /\ \A r \in Rows : rows'[r].agent = rows[r].agent /\ rows'[r].owner = rows[r].owner /\ rows'[r].state = rows[r].state
Registered(w) ==
    /\ job[w].pc = "register" /\ job'[w].pc = "place"
    /\ job'[w].row = job[w].row /\ job'[w].owner = job[w].owner /\ job'[w].server = job[w].server
SameHomes == \A o \in Owner : Reservations(o)' = Reservations(o)
SameJob(w) == job'[w] = job[w] \/ job'[w].pc \in Harmless \/ Registered(w)
Calm ==
    /\ SameRows /\ SameHomes /\ UNCHANGED <<vm, moved, reused>> /\ raced \subseteq raced'
    /\ \A w \in Worker : SameJob(w)
\* What the pods have on the servers, but for what an unregistration has left
\* behind: the mounts can still write.
Held == (data \cup mounted) \ left

Quiet == Calm /\ Held' \subseteq Held

LEMMA QuietFrame ==
    ASSUME UNCHANGED <<rows, vm, moved, reused>>, raced \subseteq raced', Held' \subseteq Held, SameHomes, \A w \in Worker : SameJob(w)
    PROVE  Quiet
BY DEF Quiet, Calm, SameRows, Rows

LEMMA HomesFrame == ASSUME res' = res PROVE SameHomes
BY DEF SameHomes, Reservations

\* The job of w takes another turn that does not matter here.
LEMMA JobQuiet ==
    ASSUME JobTypes(Rows), NEW w \in Worker, NEW j, j \in Jobs(Rows'), Rows \subseteq Rows', job' = [job EXCEPT ![w] = j], j.pc \in Harmless
    PROVE  JobTypes(Rows)' /\ \A i \in Worker : SameJob(i)
<1>1. job' \in [Worker -> Jobs(Rows')] /\ OnlyJob(w, j)
  BY JobSet DEF JobTypes
<1> QED
  BY <1>1 DEF JobTypes, OnlyJob, SameJob

LEMMA IdleJob == ASSUME NEW R PROVE Idle \in Jobs(R) /\ Idle.pc = "idle"
BY DEF Jobs, Idle

LEMMA DoneQuiet ==
    ASSUME JobTypes(Rows), NEW w \in Worker, Done(w), Rows \subseteq Rows'
    PROVE  JobTypes(Rows)' /\ \A i \in Worker : SameJob(i)
<1>1. Idle \in Jobs(Rows') /\ Idle.pc \in Harmless /\ job' = [job EXCEPT ![w] = Idle]
  BY IdleJob DEF Done, Harmless
<1> QED
  BY <1>1, JobQuiet

LEMMA EntityQuiet ==
    ASSUME TypeOK,
           \/ \E m \in mounted : WriteData(m)
           \/ \E s \in Server : SetStatus(s) \/ Reboot(s)
           \/ UNCHANGED vars
    PROVE  TypeOK' /\ Quiet
<1>1. PoolTypes /\ HostTypes /\ rows \in Seq(RowShape) /\ RefTypes(Rows) /\ JobTypes(Rows)
  BY TypeParts
<1>2. UNCHANGED <<free, res, rows, vm, filed, mounted, job, enrolled, moved, raced, reused, left>>
  BY DEF WriteData, SetStatus, Reboot, vars, Database, Servers, Ghosts
<1>3. data' \subseteq data \cup mounted
  BY DEF WriteData, SetStatus, Reboot, vars, Servers
<1>4. Held' \subseteq Held
  BY <1>2, <1>3 DEF Held
<1>5. Quiet
  BY <1>2, <1>4, HomesFrame, QuietFrame DEF SameJob
<1>6. draining' \subseteq Server
  BY <1>1 DEF PoolTypes, WriteData, Reboot, SetStatus, vars, Database
<1>7. disk' \in [Server -> SUBSET Agent]
  <2>1. CASE disk' = disk
    BY <1>1, <2>1 DEF HostTypes
  <2>2. ASSUME NEW s \in Server, Reboot(s) PROVE disk' \in [Server -> SUBSET Agent]
    <3>1. PICK T \in SUBSET filed[s] : disk' = [disk EXCEPT ![s] = filed[s] \ T]
      BY <2>2 DEF Reboot
    <3>2. filed[s] \in SUBSET Agent
      BY <1>1 DEF HostTypes
    <3> QED
      BY <1>1, <3>1, <3>2 DEF HostTypes
  <2> QED
    BY <2>1, <2>2 DEF WriteData, SetStatus, Servers, vars
<1>8. PoolTypes' /\ HostTypes' /\ JobTypes(Rows)' /\ RefTypes(Rows)'
  BY <1>1, <1>2, <1>3, <1>6, <1>7 DEF PoolTypes, HostTypes, JobTypes, RefTypes, Rows
<1> QED
  BY <1>1, <1>2, <1>5, <1>8, TypesNow

\* The steps of a job that end it or that only touch sizes, the servers'
\* registrations or the certificates.
LEMMA DieQuiet == ASSUME TypeOK, NEW w \in Worker, Die(w) PROVE TypeOK' /\ Quiet
<1>1. PoolTypes /\ HostTypes /\ rows \in Seq(RowShape) /\ RefTypes(Rows) /\ JobTypes(Rows)
  BY TypeParts
<1>2. UNCHANGED <<free, draining, res, rows, vm, disk, filed, data, mounted, enrolled, left, Held, moved, raced, reused>> /\ Rows' = Rows
  BY DEF Die, Database, Servers, Ghosts, Rows, Held
<1>3. JobTypes(Rows)' /\ \A i \in Worker : SameJob(i)
  BY <1>1, <1>2, DoneQuiet DEF Die
<1>4. Quiet
  BY <1>2, <1>3, HomesFrame, QuietFrame
<1>5. PoolTypes' /\ HostTypes' /\ RefTypes(Rows)'
  BY <1>1, <1>2, RefFrame DEF PoolTypes, HostTypes
<1> QED
  BY <1>1, <1>2, <1>3, <1>4, <1>5, TypesNow

LEMMA EnrollQuiet ==
    ASSUME TypeOK, NEW w \in Worker, NEW r \in Rows, handleEnroll(w, r)
    PROVE  TypeOK' /\ Quiet
<1>1. PoolTypes /\ HostTypes /\ rows \in Seq(RowShape) /\ RefTypes(Rows) /\ JobTypes(Rows)
  BY TypeParts
<1>2. UNCHANGED <<free, draining, res, rows, vm, disk, filed, data, mounted, enrolled, left, Held, moved, raced, reused>> /\ Rows' = Rows
  BY DEF handleEnroll, Database, Servers, Ghosts, Rows, Held
<1> DEFINE j == [pc |-> "reserve", row |-> r, owner |-> rows[r].owner, size |-> rows[r].size]
<1>3. rows[r].owner \in Owner /\ rows[r].size \in Size
  BY <1>1, RowsAre DEF RowShape
<1>4. j \in Jobs(Rows) /\ j.pc \in Harmless
  BY <1>3 DEF Jobs, EnrolJobs, Harmless
<1>5. job' = [job EXCEPT ![w] = j]
  BY DEF handleEnroll, Begin
<1> HIDE DEF j
<1>6. JobTypes(Rows)' /\ \A i \in Worker : SameJob(i)
  BY <1>1, <1>2, <1>4, <1>5, JobQuiet
<1>7. Quiet
  BY <1>2, <1>6, HomesFrame, QuietFrame
<1>8. PoolTypes' /\ HostTypes' /\ RefTypes(Rows)'
  BY <1>1, <1>2, RefFrame DEF PoolTypes, HostTypes
<1> QED
  BY <1>1, <1>2, <1>6, <1>7, <1>8, TypesNow

LEMMA RegisterQuiet ==
    ASSUME TypeOK, NEW w \in Worker, NEW ok \in BOOLEAN, registerTenant(w, ok)
    PROVE  TypeOK' /\ Quiet
<1>1. PoolTypes /\ HostTypes /\ rows \in Seq(RowShape) /\ RefTypes(Rows) /\ JobTypes(Rows)
  BY TypeParts
<1>2. UNCHANGED <<free, draining, res, rows, vm, data, mounted, enrolled, left, Held, moved, raced, reused>> /\ Rows' = Rows
  BY DEF registerTenant, Database, Ghosts, Rows, Held
<1>3. /\ job[w].pc = "register" /\ job[w].row \in Rows /\ job[w].server \in Server
      /\ job[w] \in [pc : {"register", "place"}, row : Rows, owner : Owner, server : Server]
  BY <1>1, JobFields DEF registerTenant, At, JobTypes
<1>4. JobTypes(Rows)' /\ \A i \in Worker : SameJob(i)
  <2>1. CASE Done(w)
    BY <1>1, <1>2, <2>1, DoneQuiet
  <2>2. CASE Goto(w, "place")
    <3> DEFINE j == [job[w] EXCEPT !.pc = "place"]
    <3>1. /\ j \in [pc : {"register", "place"}, row : Rows, owner : Owner, server : Server]
          /\ j.pc = "place" /\ j.row = job[w].row /\ j.owner = job[w].owner /\ j.server = job[w].server
      BY <1>3
    <3>2. job' = [job EXCEPT ![w] = j]
      BY <2>2 DEF Goto
    <3> HIDE DEF j
    <3>3. j \in Jobs(Rows)
      BY <3>1 DEF Jobs, EnrolJobs
    <3>4. job' \in [Worker -> Jobs(Rows')] /\ OnlyJob(w, j)
      BY <1>1, <1>2, <3>2, <3>3, JobSet DEF JobTypes
    <3> QED
      BY <1>3, <3>1, <3>4 DEF JobTypes, OnlyJob, SameJob, Registered
  <2> QED
    BY <2>1, <2>2 DEF registerTenant
<1>5. Quiet
  BY <1>2, <1>4, HomesFrame, QuietFrame
<1>6. HostTypes'
  <2>1. rows[job[w].row].agent \in Agent
    BY <1>1, <1>3, RowsAre DEF RowShape
  <2> QED
    BY <1>1, <1>2, <1>3, <2>1 DEF HostTypes, registerTenant
<1>7. PoolTypes' /\ RefTypes(Rows)'
  BY <1>1, <1>2, RefFrame DEF PoolTypes
<1> QED
  BY <1>1, <1>2, <1>4, <1>5, <1>6, <1>7, TypesNow

LEMMA MintQuiet == ASSUME TypeOK, NEW w \in Worker, Mint(w) PROVE TypeOK' /\ Quiet
<1>1. PoolTypes /\ HostTypes /\ rows \in Seq(RowShape) /\ RefTypes(Rows) /\ JobTypes(Rows)
  BY TypeParts
<1>2. UNCHANGED <<free, draining, res, rows, vm, disk, filed, data, mounted, Held, moved, raced, reused>> /\ Rows' = Rows /\ Done(w)
  BY DEF Mint, Database, Servers, Ghosts, Rows, Held
<1>3. JobTypes(Rows)' /\ \A i \in Worker : SameJob(i)
  BY <1>1, <1>2, DoneQuiet
<1>4. Quiet
  BY <1>2, <1>3, HomesFrame, QuietFrame
<1>5. job[w].row \in Rows
  BY <1>1, JobFields DEF Mint, At, JobTypes
<1>6. enrolled' = enrolled \cup {job[w].row}
  BY DEF Mint
<1>7. RefTypes(Rows)'
  BY <1>1, <1>2, <1>5, <1>6 DEF RefTypes
<1>8. PoolTypes' /\ HostTypes'
  BY <1>1, <1>2 DEF PoolTypes, HostTypes
<1> QED
  BY <1>1, <1>2, <1>3, <1>4, <1>7, <1>8, TypesNow

LEMMA UndoQuiet == ASSUME TypeOK, NEW w \in Worker, compensatePoolDelta(w) PROVE TypeOK' /\ Quiet
<1>1. PoolTypes /\ HostTypes /\ rows \in Seq(RowShape) /\ RefTypes(Rows) /\ JobTypes(Rows)
  BY TypeParts
<1>2. UNCHANGED <<draining, res, rows, vm, disk, filed, data, mounted, enrolled, left, Held, moved, raced, reused>> /\ Rows' = Rows /\ Done(w)
  BY DEF compensatePoolDelta, Servers, Ghosts, Rows, Held
<1>3. JobTypes(Rows)' /\ \A i \in Worker : SameJob(i)
  BY <1>1, <1>2, DoneQuiet
<1>4. Quiet
  BY <1>2, <1>3, HomesFrame, QuietFrame
<1>5. PICK s \in Server, delta \in Int : s = job[w].server /\ delta = job[w].delta
  BY <1>1, JobFields DEF compensatePoolDelta, At, JobTypes
<1>6. free' \in [Server -> 0 .. Total]
  <2>1. free' = IF delta > 0 THEN ReleaseCapacity(s, delta)
                ELSE IF CanGrow(s, -delta) THEN ReserveCapacity(s, -delta) ELSE free
    BY <1>5 DEF compensatePoolDelta
  <2>2. CASE delta > 0
    BY <1>1, <2>1, <2>2, FreeUp
  <2>3. CASE ~(delta > 0)
    <3>1. -delta \in Nat
      BY <2>3
    <3> QED
      BY <1>1, <2>1, <2>3, <3>1, FreeDown DEF PoolTypes
  <2> QED
    BY <2>2, <2>3
<1>7. PoolTypes' /\ HostTypes' /\ RefTypes(Rows)'
  BY <1>1, <1>2, <1>6, RefFrame DEF PoolTypes, HostTypes
<1> QED
  BY <1>1, <1>2, <1>3, <1>4, <1>7, TypesNow

\* A row's size is all that changes.
LEMMA SizeSet ==
    ASSUME rows \in Seq(RowShape), NEW r, NEW size \in Size, rows' = UpdateAllocationSize(r, size)
    PROVE  rows' \in Seq(RowShape) /\ SameRows
<1>1. CASE r \in Rows
  <2> DEFINE x == [rows[r] EXCEPT !.size = size]
  <2>1. x \in RowShape /\ x.agent = rows[r].agent /\ x.owner = rows[r].owner /\ x.state = rows[r].state
    BY <1>1, RowsAre DEF RowShape
  <2>2. rows' = [rows EXCEPT ![r] = x]
    BY DEF UpdateAllocationSize
  <2> HIDE DEF x
  <2> QED
    BY ZenonT(60), <1>1, <2>1, <2>2, RowSet DEF SameRows
<1>2. CASE r \notin Rows
  <2>1. rows' = rows
    BY <1>2 DEF UpdateAllocationSize, Rows
  <2> QED
    BY <2>1 DEF SameRows, Rows
<1> QED
  BY <1>1, <1>2

LEMMA StampQuiet == ASSUME TypeOK, NEW w \in Worker, StampBudget(w) PROVE TypeOK' /\ Quiet
<1>1. PoolTypes /\ HostTypes /\ rows \in Seq(RowShape) /\ RefTypes(Rows) /\ JobTypes(Rows)
  BY TypeParts
<1>2. UNCHANGED <<free, draining, res, vm, disk, filed, data, mounted, enrolled, left, Held, moved, raced, reused>>
  BY DEF StampBudget, Servers, Ghosts, Held
<1>3. job[w] \in [pc : {"stamp"}, owner : Owner, size : Size, todo : SUBSET Rows] /\ job[w].size \in Size
  BY <1>1, JobFields DEF StampBudget, At, JobTypes
<1>4. PICK r : \/ Done(w) /\ rows' = rows
               \/ rows' = UpdateAllocationSize(r, job[w].size) /\ job' = [job EXCEPT ![w].todo = @ \ {r}]
  BY DEF StampBudget
<1>5. rows' \in Seq(RowShape) /\ SameRows
  BY <1>1, <1>3, <1>4, SizeSet DEF SameRows, Rows
<1>6. Rows' = Rows
  BY <1>5 DEF SameRows
<1>7. JobTypes(Rows)' /\ \A i \in Worker : SameJob(i)
  <2>1. CASE Done(w)
    BY <1>1, <1>6, <2>1, DoneQuiet
  <2>2. CASE job' = [job EXCEPT ![w].todo = @ \ {r}]
    <3> DEFINE j == [job[w] EXCEPT !.todo = job[w].todo \ {r}]
    <3>1. j \in [pc : {"stamp"}, owner : Owner, size : Size, todo : SUBSET Rows]
      BY <1>3
    <3>2. job' = [job EXCEPT ![w] = j]
      BY <2>2
    <3> HIDE DEF j
    <3>3. j \in Jobs(Rows) /\ j.pc \in Harmless
      BY <3>1 DEF Jobs, SizeJobs, Harmless
    <3> QED
      BY <1>1, <1>6, <3>2, <3>3, JobQuiet
  <2> QED
    BY <1>4, <2>1, <2>2
<1>8. Quiet
  BY <1>2, <1>5, <1>7, HomesFrame DEF Quiet, Calm
<1>9. PoolTypes' /\ HostTypes' /\ RefTypes(Rows)'
  BY <1>1, <1>2, <1>6, RefFrame DEF PoolTypes, HostTypes
<1> QED
  BY <1>5, <1>7, <1>8, <1>9, TypesNow

LEMMA ResizeQuiet ==
    ASSUME TypeOK, NEW w \in Worker, NEW a \in Agent, NEW size \in Size, Resize(w, a, size)
    PROVE  /\ TypeOK' /\ Quiet /\ res' = res
           /\ \/ UNCHANGED <<free, patched>>
              \/ \E s \in Server : patched' = patched \cup {s} /\ \A t \in Server \ {s} : free'[t] = free[t]
<1>1. PoolTypes /\ HostTypes /\ rows \in Seq(RowShape) /\ RefTypes(Rows) /\ JobTypes(Rows)
  BY TypeParts
<1>2. UNCHANGED <<draining, res, vm, disk, filed, data, mounted, enrolled, left, Held, moved, raced, reused>>
  BY DEF Resize, Servers, Held
<1>3. PICK r \in Rows : r = GetAllocationByAgent(a)
  BY <1>1, LiveRow DEF Resize
<1>4. PICK delta \in Int : delta = size - rows[r].size
  <2>1. rows[r].size \in Nat /\ size \in Nat
    BY <1>1, <1>3, RowsAre, Constants DEF RowShape
  <2> QED
    BY <2>1
<1>5. CASE vm[a] = None
  <2>1. rows' = UpdateAllocationSize(r, size) /\ UNCHANGED <<free, patched, job>>
    BY <1>3, <1>5 DEF Resize
  <2>2. rows' \in Seq(RowShape) /\ SameRows /\ Rows' = Rows
    BY <1>1, <2>1, SizeSet DEF SameRows
  <2>3. JobTypes(Rows)' /\ \A i \in Worker : SameJob(i)
    BY <1>1, <2>1, <2>2 DEF JobTypes, SameJob
  <2>4. PoolTypes' /\ HostTypes' /\ RefTypes(Rows)'
    BY <1>1, <1>2, <2>1, <2>2, RefFrame DEF PoolTypes, HostTypes
  <2>5. Quiet
    BY <1>2, <2>2, <2>3, HomesFrame DEF Quiet, Calm
  <2> QED
    BY <1>2, <2>1, <2>2, <2>3, <2>4, <2>5, TypesNow
<1>6. CASE vm[a] # None
  <2>1. PICK s \in Server : s = vm[a]
    BY <1>1, <1>6 DEF HostTypes
  <2> DEFINE j == [pc |-> "undo", server |-> s, delta |-> delta]
  <2>2. /\ delta > 0 => CanGrow(s, delta)
        /\ free' = IF delta > 0 THEN ReserveCapacity(s, delta) ELSE ReleaseCapacity(s, -delta)
        /\ patched' = patched \cup {s} /\ job' = [job EXCEPT ![w] = j] /\ rows' = rows
    BY <1>3, <1>4, <1>6, <2>1 DEF Resize, Begin
  <2>3. free' \in [Server -> 0 .. Total]
    <3>1. CASE delta > 0
      BY <1>1, <2>2, <3>1, FreeDown
    <3>2. CASE ~(delta > 0)
      <4>1. -delta \in Nat
        BY <3>2
      <4> QED
        BY <1>1, <2>2, <3>2, <4>1, FreeUp
    <3> QED
      BY <3>1, <3>2
  <2>4. \A t \in Server \ {s} : free'[t] = free[t]
    BY <1>1, <2>2 DEF ReserveCapacity, ReleaseCapacity, PoolTypes
  <2>5. j \in Jobs(Rows) /\ j.pc \in Harmless
    BY DEF Jobs, SizeJobs, Harmless
  <2> HIDE DEF j
  <2>6. Rows' = Rows /\ (rows \in Seq(RowShape))'
    BY <1>1, <2>2 DEF Rows
  <2>7. JobTypes(Rows)' /\ \A i \in Worker : SameJob(i)
    BY <1>1, <2>2, <2>5, <2>6, JobQuiet
  <2>8. PoolTypes' /\ HostTypes' /\ RefTypes(Rows)'
    BY <1>1, <1>2, <2>3, <2>6, RefFrame DEF PoolTypes, HostTypes
  <2>9. Quiet
    BY <1>2, <2>2, <2>7, HomesFrame, QuietFrame
  <2> QED
    BY <1>2, <2>2, <2>4, <2>6, <2>7, <2>8, <2>9, TypesNow
<1> QED
  BY <1>5, <1>6

\* A new budget: what an account has reserved changes, not where.
LEMMA BudgetQuiet ==
    ASSUME TypeOK, NEW w \in Worker, NEW o \in Owner, NEW size \in Size, ResizeOwnerCapacity(w, o, size)
    PROVE  TypeOK' /\ Quiet
<1>1. PoolTypes /\ HostTypes /\ rows \in Seq(RowShape) /\ RefTypes(Rows) /\ JobTypes(Rows)
  BY TypeParts
<1>2. /\ UNCHANGED <<draining, rows, vm, disk, filed, data, mounted, enrolled, left, Held, moved, raced, reused>> /\ Rows' = Rows
      /\ res' = Resized(o, size)
  BY DEF ResizeOwnerCapacity, Servers, Ghosts, Rows, Held
<1>3. size \in Nat /\ size > 0 /\ Total \in Nat
  BY Constants
<1>4. \A s \in Server : res[o][s] \in Nat
  BY <1>1, ResNat
<1>5. /\ res' \in [Owner -> [Server -> Size \cup {0}]] /\ \A p \in Owner \ {o} : res'[p] = res[p]
      /\ \A s \in Server : res'[o][s] = IF res[o][s] > 0 THEN size ELSE 0
  BY <1>1, <1>2 DEF PoolTypes, Resized
<1>6. SameHomes
  <2>1. \A s \in Server : res'[o][s] > 0 <=> res[o][s] > 0
    BY <1>3, <1>5
  <2>2. ASSUME NEW p \in Owner PROVE Reservations(p)' = Reservations(p)
    BY <1>5, <2>1 DEF Reservations
  <2> QED
    BY <2>2 DEF SameHomes
<1>7. free' \in [Server -> 0 .. Total]
  <2>1. ASSUME NEW s \in Reservations(o) PROVE Capped(free[s] + res[o][s] - size) \in 0 .. Total
    <3>1. s \in Server /\ free[s] \in 0 .. Total /\ free[s] >= size - res[o][s] /\ res[o][s] \in Nat
      BY <1>1, <1>4 DEF PoolTypes, ResizeOwnerCapacity, Reservations, CanGrow
    <3> QED
      BY <1>3, <3>1 DEF Capped
  <2>2. free' = [s \in Server |-> IF s \in Reservations(o) THEN Capped(free[s] + res[o][s] - size) ELSE free[s]]
    BY DEF ResizeOwnerCapacity
  <2> QED
    BY <1>1, <2>1, <2>2 DEF PoolTypes
<1> DEFINE j == [pc |-> "stamp", owner |-> o, size |-> size, todo |-> {r \in Rows : SizeUpdates(r, o)}]
<1>8. j \in Jobs(Rows) /\ j.pc \in Harmless
  BY DEF Jobs, SizeJobs, Harmless
<1>9. job' = [job EXCEPT ![w] = j]
  BY DEF ResizeOwnerCapacity, Begin
<1> HIDE DEF j
<1>10. JobTypes(Rows)' /\ \A i \in Worker : SameJob(i)
  BY <1>1, <1>2, <1>8, <1>9, JobQuiet
<1>11. PoolTypes' /\ HostTypes' /\ RefTypes(Rows)'
  BY <1>1, <1>2, <1>5, <1>7, RefFrame DEF PoolTypes, HostTypes
<1>12. Quiet
  BY <1>2, <1>6, <1>10, QuietFrame
<1> QED
  BY <1>1, <1>2, <1>10, <1>11, <1>12, TypesNow

-----------------------------------------------------------------------------
(* The inductive invariant.                                                *)

\* An account has one home at most.
OneHome == \A o \in Owner : \A s, t \in Reservations(o) : s = t

Last(r) == \A q \in Rows : rows[q].agent = rows[r].agent => q <= r

\* A live row is the agent's last one, and no purge works on it.
LiveLast == \A r, q \in Rows : rows[r].agent = rows[q].agent /\ Live(r) => q <= r
NotLive == \A w \in Worker : Purging(w) => ~Live(job[w].row)

HasLast == \A r \in Rows : \E l \in Rows : rows[l].agent = rows[r].agent /\ Last(l)
HasRow == \A a \in Agent : vm[a] # None => \E r \in Rows : rows[r].agent = a

\* Rows of one agent belong to one account, or the agent and the earlier
\* account are known to have parted.
OwnersSame ==
    \A r, q \in Rows : rows[r].agent = rows[q].agent /\ r < q /\ rows[r].owner # rows[q].owner
        => rows[r].agent \in moved /\ rows[r].owner \in moved

\* A placed agent's last row is not purged, and a purge of it that is past the
\* server has erased the tenant and is about to drop the placement.
AgentsRow(r) == vm[rows[r].agent] # None /\ ~(rows[r].agent \in raced /\ rows[r].owner \in raced)
Dropping(w, r) ==
    job[w].pc \in {"cleanup", "mark"} /\ job[w].row = r => job[w].pc = "cleanup" /\ job[w].erased
LastSound ==
    \A r \in Rows : Last(r) /\ AgentsRow(r) => rows[r].state # "purged" /\ \A w \in Worker : Dropping(w, r)

\* An enrolment under way goes to the home of its owner, and so has every
\* placement gone.
JobHome ==
    \A w \in Worker :
        job[w].pc \in {"register", "place"} /\ Live(job[w].row) /\ rows[job[w].row].agent \notin moved \cup raced
        => rows[job[w].row].owner = job[w].owner /\ Reservations(job[w].owner) = {job[w].server}
HomeSound ==
    \A r \in Rows : rows[r].agent \notin moved \cup raced /\ vm[rows[r].agent] # None
        => Reservations(rows[r].owner) = {vm[rows[r].agent]}

\* Some row will give back what an account has reserved.
Backs(r, o) ==
    /\ rows[r].owner = o /\ rows[r].state # "purged"
    /\ \A w \in Worker : job[w].pc = "mark" => job[w].row # r
Backed == \A o \in Owner \ (moved \cup raced) : Reservations(o) # {} => \E r \in Rows : Backs(r, o)

\* What an agent's pods wrote is where the agent is placed, on rows that are
\* not purged; a purge that is past the server has left nothing of it.
DataSound ==
    \A d \in Held : rows[d.row].agent \notin reused =>
        vm[rows[d.row].agent] = d.server /\ rows[d.row].state # "purged"
GoneSound ==
    \A w \in Worker, d \in Held :
        Purging(w) /\ rows[d.row].agent = rows[job[w].row].agent /\ rows[d.row].agent \notin reused
        => job[w].pc \notin {"cleanup", "mark"} /\ (job[w].pc = "unregister" => job[w].server = d.server)
Alone(r, q) ==
    Live(r) /\ rows[q].agent = rows[r].agent /\ q # r /\ rows[r].agent \notin reused => ~Owed(q)
ReuseSound == \A r, q \in Rows : Alone(r, q)

RowInv == LiveLast /\ NotLive /\ HasLast /\ HasRow /\ OwnersSame
HomeInv == OneHome /\ LastSound /\ JobHome /\ HomeSound /\ Backed
DataInv == DataSound /\ GoneSound /\ ReuseSound
PlaceInv == RowInv /\ HomeInv /\ DataInv

\* The rows that the types speak of.
LEMMA RefRows ==
    ASSUME TypeOK
    PROVE  /\ \A w \in Worker : Purging(w) \/ job[w].pc \in {"register", "place"} => job[w].row \in Rows
           /\ \A d \in Held : d.row \in Rows /\ d.server \in Server
           /\ \A w \in Worker : job[w].pc = "register" \/ job[w].pc = "place" => job[w].owner \in Owner
           /\ \A r \in Rows : rows[r].agent \in Agent /\ rows[r].owner \in Owner /\ r \in Nat
<1>1. RefTypes(Rows) /\ JobTypes(Rows) /\ rows \in Seq(RowShape)
  BY TypeParts
<1>2. \A w \in Worker : job[w] \in Jobs(Rows)
  BY <1>1 DEF JobTypes
<1>3. \A w \in Worker : Purging(w) \/ job[w].pc \in {"register", "place"} => job[w].row \in Rows
  BY <1>2, JobFields DEF Purging
<1>4. \A w \in Worker : job[w].pc = "register" \/ job[w].pc = "place" => job[w].owner \in Owner
  BY <1>2, JobFields
<1>5. \A d \in Held : d.row \in Rows /\ d.server \in Server
  BY <1>1 DEF RefTypes, Held
<1>6. \A r \in Rows : rows[r].agent \in Agent /\ rows[r].owner \in Owner /\ r \in Nat
  BY <1>1, RowsAre DEF RowShape
<1> QED
  BY <1>3, <1>4, <1>5, <1>6

\* Jobs of a kind that the invariant speaks of were there before, or have
\* gone from the registration to the placement.
LEMMA QuietJobs ==
    ASSUME NEW w \in Worker, SameJob(w)
    PROVE  /\ Purging(w)' => job'[w] = job[w] /\ Purging(w)
           /\ job'[w].pc \in {"register", "place"} =>
                /\ job[w].pc \in {"register", "place"} /\ job'[w].row = job[w].row
                /\ job'[w].owner = job[w].owner /\ job'[w].server = job[w].server
BY DEF SameJob, Harmless, Registered, Purging

LEMMA CalmRows == ASSUME TypeOK, RowInv, Calm PROVE RowInv'
<1>1. SameRows /\ UNCHANGED <<vm, moved>> /\ \A w \in Worker : SameJob(w)
  BY DEF Calm
<1>2. LiveLast'
  BY <1>1 DEF RowInv, LiveLast, SameRows, Live
<1>3. NotLive'
  <2> SUFFICES ASSUME NEW w \in Worker, Purging(w)' PROVE ~Live(job[w].row)'
    BY DEF NotLive
  <2>1. job'[w] = job[w] /\ Purging(w) /\ job[w].row \in Rows
    BY <1>1, QuietJobs, RefRows
  <2> QED
    BY <1>1, <2>1 DEF RowInv, NotLive, Live, SameRows
<1>4. HasRow'
  BY <1>1 DEF RowInv, HasRow, SameRows
<1>5. OwnersSame'
  BY <1>1 DEF RowInv, OwnersSame, SameRows
<1>6. HasLast'
  BY <1>1 DEF RowInv, HasLast, Last, SameRows
<1> QED
  BY <1>2, <1>3, <1>4, <1>5, <1>6 DEF RowInv

LEMMA CalmHomes == ASSUME TypeOK, HomeInv, Calm PROVE HomeInv'
<1>1. SameRows /\ SameHomes /\ UNCHANGED <<vm, moved>> /\ raced \subseteq raced' /\ \A w \in Worker : SameJob(w)
  BY DEF Calm
<1>2. OneHome'
  BY <1>1 DEF HomeInv, OneHome, SameHomes
<1>3. LastSound'
  <2> SUFFICES ASSUME NEW r \in Rows', Last(r)', AgentsRow(r)'
               PROVE  (rows[r].state # "purged")' /\ \A w \in Worker : Dropping(w, r)'
    BY DEF LastSound
  <2>1. r \in Rows /\ Last(r) /\ AgentsRow(r)
    BY <1>1 DEF SameRows, Last, AgentsRow
  <2>2. ASSUME NEW w \in Worker PROVE Dropping(w, r)'
    BY <1>1, <2>1, QuietJobs DEF HomeInv, LastSound, Dropping, Purging
  <2> QED
    BY <1>1, <2>1, <2>2 DEF HomeInv, LastSound, SameRows
<1>4. JobHome'
  <2> SUFFICES ASSUME NEW w \in Worker, (job[w].pc \in {"register", "place"})', Live(job[w].row)',
                      (rows[job[w].row].agent \notin moved \cup raced)'
               PROVE  (rows[job[w].row].owner = job[w].owner /\ Reservations(job[w].owner) = {job[w].server})'
    BY DEF JobHome
  <2>1. /\ job[w].pc \in {"register", "place"} /\ job'[w].row = job[w].row
        /\ job'[w].owner = job[w].owner /\ job'[w].server = job[w].server
        /\ job[w].row \in Rows /\ job[w].owner \in Owner
    BY <1>1, QuietJobs, RefRows
  <2>2. Live(job[w].row) /\ rows[job[w].row].agent \notin moved \cup raced
    BY <1>1, <2>1 DEF SameRows, Live
  <2>3. rows[job[w].row].owner = job[w].owner /\ Reservations(job[w].owner) = {job[w].server}
    BY <2>1, <2>2 DEF HomeInv, JobHome
  <2>4. PICK o \in Owner : o = job[w].owner
    BY <2>1
  <2>5. Reservations(o)' = Reservations(o)
    BY <1>1 DEF SameHomes
  <2> QED
    BY <1>1, <2>1, <2>3, <2>4, <2>5 DEF SameRows, Reservations
<1>5. HomeSound'
  <2> SUFFICES ASSUME NEW r \in Rows', (rows[r].agent \notin moved \cup raced)', (vm[rows[r].agent] # None)'
               PROVE  (Reservations(rows[r].owner) = {vm[rows[r].agent]})'
    BY DEF HomeSound
  <2>1. PICK o \in Owner : o = rows[r].owner
    BY <1>1, RefRows DEF SameRows
  <2>2. r \in Rows /\ Reservations(o) = {vm[rows[r].agent]} /\ Reservations(o)' = Reservations(o)
    BY <1>1, <2>1 DEF SameRows, SameHomes, HomeInv, HomeSound
  <2> QED
    BY <1>1, <2>1, <2>2 DEF SameRows, Reservations
<1>6. Backed'
  <2> SUFFICES ASSUME NEW o \in Owner, o \notin moved' \cup raced', (Reservations(o) # {})' PROVE (\E r \in Rows : Backs(r, o))'
    BY DEF Backed
  <2>1. PICK r \in Rows : Backs(r, o)
    BY <1>1 DEF SameHomes, HomeInv, Backed
  <2>2. \A w \in Worker : job'[w].pc = "mark" => job'[w].row # r
    BY <1>1, <2>1, QuietJobs DEF Backs, Purging
  <2> QED
    BY <1>1, <2>1, <2>2 DEF SameRows, Backs
<1> QED
  BY <1>2, <1>3, <1>4, <1>5, <1>6 DEF HomeInv

LEMMA QuietData == ASSUME TypeOK, DataInv, Quiet PROVE DataInv'
<1>1. SameRows /\ UNCHANGED <<vm, reused>> /\ Held' \subseteq Held /\ \A w \in Worker : SameJob(w)
  BY DEF Quiet, Calm
<1>2. DataSound'
  BY <1>1, RefRows DEF DataInv, DataSound, SameRows
<1>3. GoneSound'
  <2> SUFFICES ASSUME NEW w \in Worker, NEW d \in Held', Purging(w)', (rows[d.row].agent = rows[job[w].row].agent)',
                      (rows[d.row].agent \notin reused)'
               PROVE  (job[w].pc \notin {"cleanup", "mark"} /\ (job[w].pc = "unregister" => job[w].server = d.server))'
    BY DEF GoneSound
  <2>1. job'[w] = job[w] /\ Purging(w) /\ d \in Held /\ d.row \in Rows /\ job[w].row \in Rows
    BY <1>1, QuietJobs, RefRows
  <2> QED
    BY <1>1, <2>1 DEF DataInv, GoneSound, SameRows
<1>4. ReuseSound'
  <2> SUFFICES ASSUME NEW r \in Rows', NEW q \in Rows' PROVE Alone(r, q)'
    BY DEF ReuseSound
  <2>1. r \in Rows /\ q \in Rows /\ Alone(r, q)
    BY <1>1 DEF SameRows, DataInv, ReuseSound
  <2>2. Owed(q)' => Owed(q)
    BY <1>1, <2>1, QuietJobs DEF Owed, SameRows
  <2> QED
    BY <1>1, <2>1, <2>2 DEF Alone, SameRows, Live
<1> QED
  BY <1>2, <1>3, <1>4 DEF DataInv

LEMMA QuietKeeps == ASSUME TypeOK, PlaceInv, Quiet PROVE PlaceInv'
BY CalmRows, CalmHomes, QuietData DEF PlaceInv, Quiet

-----------------------------------------------------------------------------
(* The steps that matter.                                                  *)

\* A purge of row r begins; r is revoked, now or before.
LEMMA PurgeBegins ==
    ASSUME TypeOK, PlaceInv, NEW w \in Worker, NEW r \in Rows, NEW j, j.pc = "purge", j.row = r, OnlyJob(w, j),
           Rows' = Rows, \A q \in Rows \ {r} : rows'[q] = rows[q],
           rows'[r].agent = rows[r].agent, rows'[r].owner = rows[r].owner,
           rows'[r].state = "revoked", rows[r].state # "purged", job[w] = Idle,
           UNCHANGED <<res, vm, Held, moved, raced, reused>>
    PROVE  PlaceInv'
<1>1. /\ \A q \in Rows : /\ rows'[q].agent = rows[q].agent /\ rows'[q].owner = rows[q].owner /\ (Live(q)' => Live(q))
                         /\ (rows'[q].state = "purged" <=> rows[q].state = "purged")
      /\ ~Live(r)'
  BY DEF Live
<1>2. /\ Purging(w)' /\ job'[w].pc = "purge" /\ job'[w].row = r
      /\ \A i \in Worker \ {w} : job'[i] = job[i] /\ (Purging(i)' <=> Purging(i))
      /\ job[w].pc = "idle" /\ ~Purging(w)
  BY DEF OnlyJob, Purging, Idle
<1>3. RowInv'
  <2>1. LiveLast' /\ HasLast' /\ HasRow' /\ OwnersSame'
    BY SMTT(30), <1>1 DEF PlaceInv, RowInv, LiveLast, HasLast, HasRow, OwnersSame, Last
  <2>2. NotLive'
    BY <1>1, <1>2, RefRows DEF PlaceInv, RowInv, NotLive
  <2> QED
    BY <2>1, <2>2 DEF RowInv
<1>4. HomeInv'
  <2>1. OneHome' /\ \A o \in Owner : Reservations(o)' = Reservations(o)
    BY DEF PlaceInv, HomeInv, OneHome, Reservations
  <2>2. LastSound'
    <3> SUFFICES ASSUME NEW q \in Rows, Last(q)', AgentsRow(q)'
                 PROVE  (rows[q].state # "purged")' /\ \A i \in Worker : Dropping(i, q)'
      BY DEF LastSound
    <3>1. Last(q) /\ AgentsRow(q)
      BY <1>1 DEF Last, AgentsRow
    <3> QED
      BY <1>1, <1>2, <3>1 DEF PlaceInv, HomeInv, LastSound, Dropping
  <2>3. JobHome'
    <3> SUFFICES ASSUME NEW i \in Worker, (job[i].pc \in {"register", "place"})', Live(job[i].row)',
                        (rows[job[i].row].agent \notin moved \cup raced)'
                 PROVE  (rows[job[i].row].owner = job[i].owner /\ Reservations(job[i].owner) = {job[i].server})'
      BY DEF JobHome
    <3>1. job'[i] = job[i] /\ job[i].row \in Rows /\ job[i].owner \in Owner
      BY <1>2, RefRows
    <3>2. rows[job[i].row].owner = job[i].owner /\ Reservations(job[i].owner) = {job[i].server}
      BY <1>1, <3>1 DEF PlaceInv, HomeInv, JobHome
    <3> QED
      BY <1>1, <3>1, <3>2 DEF Reservations
  <2>4. HomeSound'
    BY <1>1 DEF PlaceInv, HomeInv, HomeSound, Reservations
  <2>5. Backed'
    <3> SUFFICES ASSUME NEW o \in Owner \ (moved \cup raced), (Reservations(o) # {})' PROVE (\E q \in Rows : Backs(q, o))'
      BY DEF Backed
    <3>1. PICK q \in Rows : Backs(q, o)
      BY <2>1 DEF PlaceInv, HomeInv, Backed
    <3> QED
      BY <1>1, <1>2, <3>1 DEF Backs
  <2> QED
    BY <2>1, <2>2, <2>3, <2>4, <2>5 DEF HomeInv
<1>5. DataInv'
  <2>1. DataSound'
    BY <1>1, RefRows DEF PlaceInv, DataInv, DataSound
  <2>2. GoneSound'
    <3> SUFFICES ASSUME NEW i \in Worker, NEW d \in Held, Purging(i)', (rows[d.row].agent = rows[job[i].row].agent)',
                        rows'[d.row].agent \notin reused
                 PROVE  (job[i].pc \notin {"cleanup", "mark"} /\ (job[i].pc = "unregister" => job[i].server = d.server))'
      BY DEF GoneSound
    <3>1. CASE i = w
      BY <1>2, <3>1
    <3>2. CASE i # w
      <4>1. job'[i] = job[i] /\ Purging(i) /\ job[i].row \in Rows /\ d.row \in Rows
        BY <1>2, <3>2, RefRows
      <4> QED
        BY <1>1, <4>1 DEF PlaceInv, DataInv, GoneSound
    <3> QED
      BY <3>1, <3>2
  <2>3. ReuseSound'
    <3> SUFFICES ASSUME NEW p \in Rows, NEW q \in Rows PROVE Alone(p, q)'
      BY DEF ReuseSound
    <3>1. Alone(p, q)
      BY DEF PlaceInv, DataInv, ReuseSound
    <3>2. q # r => (Owed(q)' => Owed(q))
      BY <1>1, <1>2 DEF Owed
    <3>3. Owed(r)
      BY DEF Owed
    <3> QED
      BY <1>1, <3>1, <3>2, <3>3 DEF Alone
  <2> QED
    BY <2>1, <2>2, <2>3 DEF DataInv
<1> QED
  BY <1>3, <1>4, <1>5 DEF PlaceInv

LEMMA DeleteKeeps ==
    ASSUME TypeOK, PlaceInv, NEW w \in Worker, NEW a \in Agent, handleDelete(w, a)
    PROVE  TypeOK' /\ PlaceInv'
<1>1. PoolTypes /\ HostTypes /\ rows \in Seq(RowShape) /\ RefTypes(Rows) /\ JobTypes(Rows)
  BY TypeParts
<1>2. PICK r \in Rows : r = GetAllocationByAgent(a) /\ Live(r)
  BY <1>1, LiveRow DEF handleDelete
<1> DEFINE j == [pc |-> "purge", row |-> r]
           x == [rows[r] EXCEPT !.state = "revoked"]
<1>3. /\ rows' = [rows EXCEPT ![r].state = "revoked"] /\ job' = [job EXCEPT ![w] = j] /\ job[w] = Idle
      /\ UNCHANGED <<free, draining, res, vm, disk, filed, data, mounted, enrolled, left, Held, moved, raced, reused>>
  BY <1>2 DEF handleDelete, Begin, Servers, Ghosts, Held
<1>4. /\ x \in RowShape /\ x.agent = rows[r].agent /\ x.owner = rows[r].owner /\ x.state = "revoked"
      /\ rows' = [rows EXCEPT ![r] = x] /\ rows[r].state # "purged"
  BY <1>1, <1>2, <1>3, RowsAre DEF RowShape, Live
<1>5. j \in Jobs(Rows) /\ j.pc = "purge" /\ j.row = r
  BY DEF Jobs, PurgeJobs
<1> HIDE DEF j, x
<1>6. rows' \in Seq(RowShape) /\ Rows' = Rows /\ rows'[r] = x /\ \A q \in Rows \ {r} : rows'[q] = rows[q]
  BY <1>1, <1>4, RowSet
<1>7. JobTypes(Rows)' /\ OnlyJob(w, j)
  BY <1>1, <1>3, <1>5, <1>6, JobSet DEF JobTypes
<1>8. PoolTypes' /\ HostTypes' /\ RefTypes(Rows)'
  BY <1>1, <1>3, <1>6, RefFrame DEF PoolTypes, HostTypes
<1>9. PlaceInv'
  BY <1>3, <1>4, <1>5, <1>6, <1>7, PurgeBegins
<1> QED
  BY <1>6, <1>7, <1>8, <1>9, TypesNow

LEMMA SweepKeeps ==
    ASSUME TypeOK, PlaceInv, NEW w \in Worker, NEW r \in Rows, sweep(w, r)
    PROVE  TypeOK' /\ PlaceInv'
<1>1. PoolTypes /\ HostTypes /\ rows \in Seq(RowShape) /\ RefTypes(Rows) /\ JobTypes(Rows)
  BY TypeParts
<1> DEFINE j == [pc |-> "purge", row |-> r]
<1>2. /\ rows[r].state = "revoked" /\ job' = [job EXCEPT ![w] = j] /\ job[w] = Idle
      /\ UNCHANGED <<free, draining, res, rows, vm, disk, filed, data, mounted, enrolled, left, Held, moved, raced, reused>> /\ Rows' = Rows
  BY DEF sweep, Begin, Database, Servers, Ghosts, Rows, Held
<1>3. j \in Jobs(Rows) /\ j.pc = "purge" /\ j.row = r
  BY DEF Jobs, PurgeJobs
<1> HIDE DEF j
<1>4. JobTypes(Rows)' /\ OnlyJob(w, j)
  BY <1>1, <1>2, <1>3, JobSet DEF JobTypes
<1>5. PoolTypes' /\ HostTypes' /\ RefTypes(Rows)'
  BY <1>1, <1>2, RefFrame DEF PoolTypes, HostTypes
<1>6. PlaceInv'
  BY <1>2, <1>3, <1>4, PurgeBegins
<1> QED
  BY <1>1, <1>2, <1>4, <1>5, <1>6, TypesNow

\* A purge goes on: the job of w keeps its row, and rows and homes stay.
LEMMA PurgeGoesOn ==
    ASSUME TypeOK, PlaceInv, NEW w \in Worker, NEW j, Purging(w), j.pc \in {"unregister", "cleanup"}, j.row = job[w].row,
           OnlyJob(w, j), UNCHANGED <<res, rows, vm, moved, raced, reused>>, Held' \subseteq Held,
           j.pc = "cleanup" => j.erased \/ vm[rows[j.row].agent] = None,
           j.pc = "cleanup" => \A d \in Held' : rows[d.row].agent = rows[j.row].agent => rows[d.row].agent \in reused,
           j.pc = "unregister" => j.server = vm[rows[j.row].agent]
    PROVE  PlaceInv'
<1>1. /\ Purging(w)' /\ job'[w].pc \in {"unregister", "cleanup"} /\ job'[w].row = job[w].row /\ job'[w] = j
      /\ \A i \in Worker \ {w} : job'[i] = job[i] /\ (Purging(i)' <=> Purging(i))
  BY DEF OnlyJob, Purging
<1>2. Rows' = Rows /\ \A q \in Rows : Live(q)' <=> Live(q)
  BY DEF Rows, Live
<1>3. RowInv'
  <2>1. LiveLast' /\ HasLast' /\ HasRow' /\ OwnersSame'
    BY <1>2 DEF PlaceInv, RowInv, LiveLast, HasLast, HasRow, OwnersSame, Last
  <2>2. NotLive'
    BY <1>1, <1>2, RefRows DEF PlaceInv, RowInv, NotLive, Live
  <2> QED
    BY <2>1, <2>2 DEF RowInv
<1>4. HomeInv'
  <2>1. OneHome' /\ \A o \in Owner : Reservations(o)' = Reservations(o)
    BY DEF PlaceInv, HomeInv, OneHome, Reservations
  <2>2. LastSound'
    <3> SUFFICES ASSUME NEW q \in Rows, Last(q)', AgentsRow(q)'
                 PROVE  (rows[q].state # "purged")' /\ \A i \in Worker : Dropping(i, q)'
      BY <1>2 DEF LastSound
    <3>1. Last(q) /\ AgentsRow(q)
      BY <1>2 DEF Last, AgentsRow
    <3> QED
      BY <1>1, <3>1 DEF PlaceInv, HomeInv, LastSound, Dropping, AgentsRow
  <2>3. JobHome'
    <3> SUFFICES ASSUME NEW i \in Worker, (job[i].pc \in {"register", "place"})', Live(job[i].row)',
                        (rows[job[i].row].agent \notin moved \cup raced)'
                 PROVE  (rows[job[i].row].owner = job[i].owner /\ Reservations(job[i].owner) = {job[i].server})'
      BY DEF JobHome
    <3>1. job'[i] = job[i]
      BY <1>1
    <3> QED
      BY <3>1 DEF PlaceInv, HomeInv, JobHome, Live, Reservations
  <2>4. HomeSound'
    BY <1>2 DEF PlaceInv, HomeInv, HomeSound, Reservations
  <2>5. Backed'
    <3> SUFFICES ASSUME NEW o \in Owner \ (moved \cup raced), (Reservations(o) # {})' PROVE (\E q \in Rows : Backs(q, o))'
      BY DEF Backed
    <3>1. PICK q \in Rows : Backs(q, o)
      BY <2>1 DEF PlaceInv, HomeInv, Backed
    <3> QED
      BY <1>1, <1>2, <3>1 DEF Backs
  <2> QED
    BY <2>1, <2>2, <2>3, <2>4, <2>5 DEF HomeInv
<1>5. DataInv'
  <2>1. DataSound'
    BY DEF PlaceInv, DataInv, DataSound
  <2>2. GoneSound'
    <3> SUFFICES ASSUME NEW i \in Worker, NEW d \in Held', Purging(i)', rows[d.row].agent = rows[job'[i].row].agent,
                        rows[d.row].agent \notin reused
                 PROVE  (job[i].pc \notin {"cleanup", "mark"} /\ (job[i].pc = "unregister" => job[i].server = d.server))'
      BY DEF GoneSound
    <3>1. CASE i = w
      BY <1>1, <3>1 DEF PlaceInv, DataInv, DataSound
    <3>2. CASE i # w
      BY <1>1, <3>2 DEF PlaceInv, DataInv, GoneSound
    <3> QED
      BY <3>1, <3>2
  <2>3. ReuseSound'
    <3> SUFFICES ASSUME NEW p \in Rows, NEW q \in Rows PROVE Alone(p, q)'
      BY <1>2 DEF ReuseSound
    <3>1. Alone(p, q)
      BY DEF PlaceInv, DataInv, ReuseSound
    <3>2. Owed(q)' => Owed(q)
      BY <1>1 DEF Owed
    <3> QED
      BY <1>2, <3>1, <3>2 DEF Alone
  <2> QED
    BY <2>1, <2>2, <2>3 DEF DataInv
<1> QED
  BY <1>3, <1>4, <1>5 DEF PlaceInv

LEMMA PurgeReads ==
    ASSUME TypeOK, PlaceInv, NEW w \in Worker, PurgeAllocation(w)
    PROVE  TypeOK' /\ PlaceInv'
<1>1. PoolTypes /\ HostTypes /\ rows \in Seq(RowShape) /\ RefTypes(Rows) /\ JobTypes(Rows)
  BY TypeParts
<1>2. /\ UNCHANGED <<free, draining, res, rows, vm, disk, filed, data, mounted, enrolled, left, Held, moved, raced, reused>> /\ Rows' = Rows
      /\ job[w].pc = "purge"
  BY DEF PurgeAllocation, At, Database, Servers, Ghosts, Rows, Held
<1>3. PICK r \in Rows : r = job[w].row
  BY <1>2, RefRows DEF Purging
<1>4. PoolTypes' /\ HostTypes' /\ RefTypes(Rows)'
  BY <1>1, <1>2, RefFrame DEF PoolTypes, HostTypes
<1>5. CASE Done(w)
  <2>1. JobTypes(Rows)' /\ \A i \in Worker : SameJob(i)
    BY <1>1, <1>2, <1>5, DoneQuiet
  <2>2. Quiet
    BY <1>2, <2>1, HomesFrame, QuietFrame
  <2> QED
    BY <1>1, <1>2, <1>4, <2>1, <2>2, QuietKeeps, TypesNow
<1>6. CASE ~Done(w)
  <2>1. PICK s \in Server \cup {None} : s = vm[rows[r].agent]
    <3>1. rows[r].agent \in Agent
      BY RefRows
    <3> QED
      BY <1>1, <3>1 DEF HostTypes
  <2> DEFINE j == [pc |-> IF s = None THEN "cleanup" ELSE "unregister", row |-> r, server |-> s, erased |-> FALSE]
  <2>2. job' = [job EXCEPT ![w] = j]
    BY <1>3, <1>6, <2>1 DEF PurgeAllocation, Become
  <2>3. /\ j \in Jobs(Rows) /\ j.pc \in {"unregister", "cleanup"} /\ j.row = r /\ j.server = s
        /\ (j.pc = "cleanup" <=> s = None)
    <3>1. CASE s = None
      BY <3>1 DEF Jobs, PurgeJobs
    <3>2. CASE s # None
      BY <3>2 DEF Jobs, PurgeJobs
    <3> QED
      BY <3>1, <3>2
  <2> HIDE DEF j
  <2>4. JobTypes(Rows)' /\ OnlyJob(w, j)
    BY <1>1, <1>2, <2>2, <2>3, JobSet DEF JobTypes
  <2>5. j.pc = "cleanup" => \A d \in Held' : rows[d.row].agent = rows[r].agent => rows[d.row].agent \in reused
    BY <1>2, <2>1, <2>3, RefRows, Constants DEF PlaceInv, DataInv, DataSound
  <2>6. Purging(w)
    BY <1>2 DEF Purging
  <2>7. PlaceInv'
    BY <1>2, <1>3, <2>1, <2>3, <2>4, <2>5, <2>6, PurgeGoesOn
  <2> QED
    BY <1>1, <1>2, <1>4, <2>4, <2>7, TypesNow
<1> QED
  BY <1>5, <1>6

LEMMA UnregisterKeeps ==
    ASSUME TypeOK, PlaceInv, NEW w \in Worker, NEW ok \in BOOLEAN, NEW removed \in BOOLEAN, NEW dropped \in BOOLEAN,
           unregisterTenant(w, ok, removed, dropped)
    PROVE  TypeOK' /\ PlaceInv'
<1>1. PoolTypes /\ HostTypes /\ rows \in Seq(RowShape) /\ RefTypes(Rows) /\ JobTypes(Rows)
  BY TypeParts
<1>2. /\ UNCHANGED <<free, draining, res, rows, vm, enrolled, moved, raced, reused>> /\ Rows' = Rows
      /\ job[w].pc = "unregister"
  BY DEF unregisterTenant, At, Database, Rows
<1>3. /\ job[w] \in [pc : {"unregister"}, row : Rows, server : Server, erased : BOOLEAN]
      /\ job[w].row \in Rows /\ job[w].server \in Server /\ Purging(w)
  BY <1>1, <1>2, JobFields DEF JobTypes, Purging
<1> DEFINE mine == Belongings(job[w].row, job[w].server)
<1>4. /\ disk' = [disk EXCEPT ![job[w].server] = @ \ {rows[job[w].row].agent}]
      /\ \E T \in SUBSET filed[job[w].server] : filed' = [filed EXCEPT ![job[w].server] = T]
      /\ \/ data' = data \ mine /\ mounted' = mounted \ mine /\ left' = left \ mine
         \/ data' = data /\ mounted' = mounted /\ left' = left \cup mine
  BY DEF unregisterTenant
<1>5. Held' = Held \ mine
  BY <1>4 DEF Held
<1>6. \A d \in Held' : d.server = job[w].server => rows[d.row].agent # rows[job[w].row].agent
  BY <1>5 DEF Held, Belongings
<1>7. HostTypes'
  <2>1. filed[job[w].server] \in SUBSET Agent
    BY <1>1, <1>3 DEF HostTypes
  <2> QED
    BY <1>1, <1>2, <1>3, <1>4, <2>1 DEF HostTypes
<1>8. PoolTypes' /\ RefTypes(Rows)' /\ Held' \subseteq Held
  BY <1>1, <1>2, <1>4, <1>5 DEF PoolTypes, RefTypes
<1>9. CASE Done(w)
  <2>1. JobTypes(Rows)' /\ \A i \in Worker : SameJob(i)
    BY <1>1, <1>2, <1>9, DoneQuiet
  <2>2. Quiet
    BY <1>2, <1>8, <2>1, HomesFrame, QuietFrame
  <2> QED
    BY <1>1, <1>2, <1>7, <1>8, <2>1, <2>2, QuietKeeps, TypesNow
<1>10. CASE job' = [job EXCEPT ![w].pc = "cleanup", ![w].erased = TRUE]
  <2> DEFINE j == [job[w] EXCEPT !.pc = "cleanup", !.erased = TRUE]
  <2>1. job' = [job EXCEPT ![w] = j]
    BY <1>1, <1>10 DEF JobTypes
  <2>2. /\ j \in [pc : {"cleanup", "mark"}, row : Rows, server : Server \cup {None}, erased : BOOLEAN]
        /\ j.pc = "cleanup" /\ j.row = job[w].row /\ j.erased
    BY <1>3
  <2> HIDE DEF j
  <2>3. j \in Jobs(Rows)
    BY <2>2 DEF Jobs, PurgeJobs
  <2>4. JobTypes(Rows)' /\ OnlyJob(w, j)
    BY <1>1, <1>2, <2>1, <2>3, JobSet DEF JobTypes
  <2>5. \A d \in Held' : rows[d.row].agent = rows[j.row].agent => rows[d.row].agent \in reused
    BY <1>2, <1>3, <1>6, <1>8, <2>2 DEF PlaceInv, DataInv, GoneSound
  <2>6. PlaceInv'
    BY <1>2, <1>3, <1>8, <2>2, <2>4, <2>5, PurgeGoesOn
  <2> QED
    BY <1>1, <1>2, <1>7, <1>8, <2>4, <2>6, TypesNow
<1> QED
  BY <1>9, <1>10 DEF unregisterTenant

\* The row is marked.  It is not the last of a placed agent, it backs no
\* reservation, and none of its data is left.
LEMMA MarkKeeps ==
    ASSUME TypeOK, PlaceInv, NEW w \in Worker, markPurged(w)
    PROVE  TypeOK' /\ PlaceInv'
<1>1. PoolTypes /\ HostTypes /\ rows \in Seq(RowShape) /\ RefTypes(Rows) /\ JobTypes(Rows)
  BY TypeParts
<1>2. /\ UNCHANGED <<free, draining, res, vm, disk, filed, data, mounted, enrolled, left, Held, moved, raced, reused>>
      /\ job[w].pc = "mark" /\ Purging(w) /\ job' = [job EXCEPT ![w] = Idle]
  BY DEF markPurged, At, Purging, Done, Servers, Ghosts, Held
<1>3. PICK r \in Rows : r = job[w].row
  BY <1>2, RefRows
<1> DEFINE x == [rows[r] EXCEPT !.state = IF @ = "revoked" THEN "purged" ELSE @]
<1>4. rows' = [rows EXCEPT ![r] = x]
  BY <1>3 DEF markPurged, MarkPurged
<1>5. x \in RowShape /\ x.agent = rows[r].agent /\ x.owner = rows[r].owner /\ (x.state = rows[r].state \/ x.state = "purged")
  BY <1>1, RowsAre DEF RowShape
<1> HIDE DEF x
<1>6. rows' \in Seq(RowShape) /\ Rows' = Rows /\ rows'[r] = x /\ \A q \in Rows \ {r} : rows'[q] = rows[q]
  BY <1>1, <1>4, <1>5, RowSet
<1>7. JobTypes(Rows)' /\ OnlyJob(w, Idle)
  BY <1>1, <1>2, <1>6, JobSet, IdleJob DEF JobTypes
<1>8. PoolTypes' /\ HostTypes' /\ RefTypes(Rows)'
  BY <1>1, <1>2, <1>6, RefFrame DEF PoolTypes, HostTypes
<1>9. /\ \A i \in Worker : Purging(i)' => i # w /\ Purging(i) /\ job'[i] = job[i]
      /\ \A i \in Worker \ {w} : job'[i] = job[i]
      /\ job'[w].pc = "idle"
  BY <1>7, IdleJob DEF OnlyJob, Purging
<1>10. /\ \A q \in Rows : /\ rows'[q].agent = rows[q].agent /\ rows'[q].owner = rows[q].owner /\ (Live(q)' => Live(q))
                          /\ (q # r => rows'[q].state = rows[q].state)
                          /\ (rows[q].state = "purged" => rows'[q].state = "purged")
  BY <1>5, <1>6 DEF Live
<1>11. RowInv'
  <2>1. LiveLast'
    BY <1>6, <1>10 DEF PlaceInv, RowInv, LiveLast
  <2>2. HasLast'
    <3>1. \A q \in Rows : Last(q) => Last(q)'
      BY <1>6, <1>10 DEF Last
    <3> QED
      BY <1>6, <1>10, <3>1 DEF PlaceInv, RowInv, HasLast
  <2>3. HasRow'
    BY <1>2, <1>6, <1>10 DEF PlaceInv, RowInv, HasRow
  <2>4. OwnersSame'
    BY <1>2, <1>6, <1>10 DEF PlaceInv, RowInv, OwnersSame
  <2>5. NotLive'
    BY <1>9, <1>10, RefRows DEF PlaceInv, RowInv, NotLive
  <2> QED
    BY <2>1, <2>2, <2>3, <2>4, <2>5 DEF RowInv
<1>12. HomeInv'
  <2>1. OneHome' /\ \A o \in Owner : Reservations(o)' = Reservations(o)
    BY <1>2 DEF PlaceInv, HomeInv, OneHome, Reservations
  <2>2. LastSound'
    <3> SUFFICES ASSUME NEW q \in Rows, Last(q)', AgentsRow(q)'
                 PROVE  (rows[q].state # "purged")' /\ \A i \in Worker : Dropping(i, q)'
      BY <1>6 DEF LastSound
    <3>1. Last(q) /\ AgentsRow(q)
      BY <1>2, <1>6, <1>10 DEF Last, AgentsRow
    <3>2. rows[q].state # "purged" /\ \A i \in Worker : Dropping(i, q)
      BY <3>1 DEF PlaceInv, HomeInv, LastSound
    <3>3. q # r
      BY <1>2, <1>3, <3>2 DEF Dropping
    <3> QED
      BY <1>9, <1>10, <3>2, <3>3 DEF Dropping
  <2>3. JobHome'
    <3> SUFFICES ASSUME NEW i \in Worker, (job[i].pc \in {"register", "place"})', Live(job[i].row)',
                        (rows[job[i].row].agent \notin moved \cup raced)'
                 PROVE  (rows[job[i].row].owner = job[i].owner /\ Reservations(job[i].owner) = {job[i].server})'
      BY DEF JobHome
    <3>1. job'[i] = job[i] /\ job[i].row \in Rows /\ job[i].owner \in Owner
      BY <1>9, RefRows
    <3>2. rows[job[i].row].owner = job[i].owner /\ Reservations(job[i].owner) = {job[i].server}
      BY <1>2, <1>10, <3>1 DEF PlaceInv, HomeInv, JobHome
    <3> QED
      BY <1>2, <1>10, <3>1, <3>2 DEF Reservations
  <2>4. HomeSound'
    BY <1>2, <1>6, <1>10 DEF PlaceInv, HomeInv, HomeSound, Reservations
  <2>5. Backed'
    <3> SUFFICES ASSUME NEW o \in Owner \ (moved \cup raced), (Reservations(o) # {})' PROVE (\E q \in Rows : Backs(q, o))'
      BY <1>2 DEF Backed
    <3>1. PICK q \in Rows : Backs(q, o)
      BY <2>1 DEF PlaceInv, HomeInv, Backed
    <3>2. q # r
      BY <1>2, <1>3, <3>1 DEF Backs
    <3> QED
      BY <1>6, <1>9, <1>10, <3>1, <3>2 DEF Backs
  <2> QED
    BY <2>1, <2>2, <2>3, <2>4, <2>5 DEF HomeInv
<1>13. DataInv'
  <2>1. DataSound'
    <3> SUFFICES ASSUME NEW d \in Held, rows'[d.row].agent \notin reused
                 PROVE  vm[rows'[d.row].agent] = d.server /\ rows'[d.row].state # "purged"
      BY <1>2 DEF DataSound
    <3>1. d.row \in Rows /\ rows'[d.row].agent = rows[d.row].agent
      BY <1>10, RefRows
    <3>2. rows[d.row].agent # rows[r].agent
      BY <1>2, <1>3, <3>1 DEF PlaceInv, DataInv, GoneSound
    <3> QED
      BY <1>10, <3>1, <3>2 DEF PlaceInv, DataInv, DataSound
  <2>2. GoneSound'
    <3> SUFFICES ASSUME NEW i \in Worker, NEW d \in Held, Purging(i)', (rows[d.row].agent = rows[job[i].row].agent)',
                        rows'[d.row].agent \notin reused
                 PROVE  (job[i].pc \notin {"cleanup", "mark"} /\ (job[i].pc = "unregister" => job[i].server = d.server))'
      BY <1>2 DEF GoneSound
    <3>1. job'[i] = job[i] /\ Purging(i) /\ job[i].row \in Rows /\ d.row \in Rows
      BY <1>9, RefRows
    <3> QED
      BY <1>10, <3>1 DEF PlaceInv, DataInv, GoneSound
  <2>3. ReuseSound'
    <3> SUFFICES ASSUME NEW p \in Rows, NEW q \in Rows PROVE Alone(p, q)'
      BY <1>6 DEF ReuseSound
    <3>1. Alone(p, q)
      BY DEF PlaceInv, DataInv, ReuseSound
    <3>2. Owed(q)' => Owed(q)
      BY <1>9, <1>10 DEF Owed
    <3> QED
      BY <1>2, <1>10, <3>1, <3>2 DEF Alone
  <2> QED
    BY <2>1, <2>2, <2>3 DEF DataInv
<1> QED
  BY <1>6, <1>7, <1>8, <1>11, <1>12, <1>13, TypesNow DEF PlaceInv

\* Two rows of one agent that has not moved have one owner.
LEMMA OneOwner ==
    ASSUME TypeOK, PlaceInv, NEW r \in Rows, NEW q \in Rows, rows[r].agent = rows[q].agent,
           rows[r].agent \notin moved \/ (r <= q /\ rows[r].owner \notin moved)
    PROVE  rows[r].owner = rows[q].owner
<1>1. r \in Nat /\ q \in Nat
  BY RefRows
<1>2. r < q \/ q < r \/ r = q
  BY <1>1
<1>3. r <= q => ~(q < r)
  BY <1>1
<1> QED
  BY <1>2, <1>3 DEF PlaceInv, RowInv, OwnersSame

\* What keeps an account's capacity: a live disk, or one placed on s that is
\* not purged.
Lives(o) == \E r \in Rows : rows[r].owner = o /\ Live(r)
Stays(o, s, place) ==
    \E a \in Agent : /\ place[a] = s
                     /\ \E r \in Rows : rows[r].agent = a /\ rows[r].owner = o /\ rows[r].state # "purged"

LEMMA Counted ==
    ASSUME TypeOK, NEW o, NEW s, NEW place
    PROVE  (CountActive(o) = 0 <=> ~Lives(o)) /\ (CountPlaced(o, s, place) = 0 <=> ~Stays(o, s, place))
<1> DEFINE A == {r \in Rows : rows[r].owner = o /\ Live(r)}
           P == {a \in Agent : /\ place[a] = s
                               /\ \E r \in Rows : rows[r].agent = a /\ rows[r].owner = o /\ rows[r].state # "purged"}
           G == {rows[r].agent : r \in Rows}
           f == [r \in Rows |-> rows[r].agent]
<1>1. IsFiniteSet(Rows)
  <2>1. rows \in Seq(RowShape)
    BY TypeParts
  <2>2. Rows = 1 .. Len(rows) /\ Len(rows) \in Int
    BY <2>1 DEF Rows
  <2>3. 1 \in Int /\ IsFiniteSet(1 .. Len(rows))
    BY <2>2, FS_Interval
  <2> QED
    BY <2>2, <2>3
<1>2. IsFiniteSet(A)
  BY <1>1, FS_Subset
<1>3. IsFiniteSet(P)
  <2>1. f \in Surjection(Rows, G)
    BY DEF Surjection
  <2>2. IsFiniteSet(G)
    BY <1>1, <2>1, FS_Surjection
  <2> QED
    BY <2>2, FS_Subset
<1>4. (Cardinality(A) = 0 <=> A = {}) /\ (Cardinality(P) = 0 <=> P = {})
  BY <1>2, <1>3, FS_EmptySet
<1>5. CountActive(o) = Cardinality(A) /\ CountPlaced(o, s, place) = Cardinality(P)
  BY DEF CountActive, CountPlaced
<1> QED
  BY <1>4, <1>5 DEF Lives, Stays

\* A pod mounts where its agent is placed.  No purge of the agent's rows is
\* near, or the agent was provisioned again too early.
LEMMA MountKeeps ==
    ASSUME TypeOK, PlaceInv, NEW r \in Rows, Mount(r)
    PROVE  TypeOK' /\ PlaceInv'
<1>1. PoolTypes /\ HostTypes /\ rows \in Seq(RowShape) /\ RefTypes(Rows) /\ JobTypes(Rows)
  BY TypeParts
<1>2. PICK s \in Server : s = vm[rows[r].agent] /\ mounted' = mounted \cup {[row |-> r, server |-> s]}
  BY <1>1, RefRows DEF Mount, HostTypes
<1>3. /\ UNCHANGED <<free, draining, res, rows, vm, disk, filed, data, enrolled, job, moved, raced, reused, left>>
      /\ Rows' = Rows /\ Live(r)
  BY DEF Mount, Database, Ghosts, Rows
<1>held. Held' \subseteq Held \cup {[row |-> r, server |-> s]}
  BY <1>2, <1>3 DEF Held
<1>4. PoolTypes' /\ HostTypes' /\ RefTypes(Rows)' /\ JobTypes(Rows)'
  BY <1>1, <1>2, <1>3 DEF PoolTypes, HostTypes, RefTypes, JobTypes
<1>5. Calm
  BY <1>3, HomesFrame DEF Calm, SameRows, SameJob
<1>6. DataSound'
  BY <1>2, <1>3, <1>held DEF PlaceInv, DataInv, DataSound, Live
<1>7. GoneSound'
  <2> SUFFICES ASSUME NEW i \in Worker, NEW d \in Held', Purging(i), rows[d.row].agent = rows[job[i].row].agent,
                      rows[d.row].agent \notin reused
               PROVE  job[i].pc \notin {"cleanup", "mark"} /\ (job[i].pc = "unregister" => job[i].server = d.server)
    BY <1>3 DEF GoneSound, Purging
  <2>1. CASE d \in Held
    BY <2>1 DEF PlaceInv, DataInv, GoneSound
  <2>2. CASE d.row = r
    <3>1. job[i].row \in Rows /\ ~Live(job[i].row) /\ job[i].row # r /\ Owed(job[i].row)
      BY <1>3, RefRows DEF PlaceInv, RowInv, NotLive, Owed
    <3>2. Alone(r, job[i].row)
      BY <3>1 DEF PlaceInv, DataInv, ReuseSound
    <3> QED
      BY <1>3, <2>2, <3>1, <3>2 DEF Alone
  <2> QED
    BY <1>held, <2>1, <2>2
<1>8. ReuseSound'
  BY <1>3 DEF PlaceInv, DataInv, ReuseSound, Alone, Owed, Live, Purging
<1> QED
  BY <1>1, <1>3, <1>4, <1>5, <1>6, <1>7, <1>8, CalmRows, CalmHomes, TypesNow DEF PlaceInv, DataInv

\* A disk changes hands; its row is the agent's last.
LEMMA OwnerKeeps ==
    ASSUME TypeOK, PlaceInv, NEW r \in Rows, Live(r), NEW o \in Owner, rows' = [rows EXCEPT ![r].owner = o],
           moved' = moved \cup {rows[r].agent, rows[r].owner},
           UNCHANGED <<free, draining, res, vm, disk, filed, data, mounted, Held, job, enrolled, raced, reused>>
    PROVE  TypeOK' /\ PlaceInv'
<1>1. PoolTypes /\ HostTypes /\ rows \in Seq(RowShape) /\ RefTypes(Rows) /\ JobTypes(Rows)
  BY TypeParts
<1> DEFINE x == [rows[r] EXCEPT !.owner = o]
<1>2. x \in RowShape /\ x.agent = rows[r].agent /\ x.owner = o /\ x.state = rows[r].state /\ rows' = [rows EXCEPT ![r] = x]
  BY <1>1, RowsAre DEF RowShape
<1> HIDE DEF x
<1>3. rows' \in Seq(RowShape) /\ Rows' = Rows /\ rows'[r] = x /\ \A q \in Rows \ {r} : rows'[q] = rows[q]
  BY <1>1, <1>2, RowSet
<1>4. PoolTypes' /\ HostTypes' /\ RefTypes(Rows)' /\ JobTypes(Rows)'
  BY <1>1, <1>3, RefFrame DEF PoolTypes, HostTypes, JobTypes
<1>5. /\ \A q \in Rows : rows'[q].agent = rows[q].agent /\ rows'[q].state = rows[q].state /\ (Live(q)' <=> Live(q))
      /\ \A q \in Rows : q # r => rows'[q].owner = rows[q].owner
      /\ \A i \in Worker : Purging(i)' <=> Purging(i)
  BY <1>2, <1>3 DEF Live, Purging
<1>6. RowInv'
  <2>1. LiveLast'
    BY <1>3, <1>5 DEF PlaceInv, RowInv, LiveLast
  <2>2. HasLast'
    <3>1. \A q \in Rows : Last(q) => Last(q)'
      BY <1>3, <1>5 DEF Last
    <3> QED
      BY <1>3, <1>5, <3>1 DEF PlaceInv, RowInv, HasLast
  <2>3. HasRow'
    BY <1>3, <1>5 DEF PlaceInv, RowInv, HasRow
  <2>4. NotLive'
    BY <1>5, RefRows DEF PlaceInv, RowInv, NotLive
  <2>5. OwnersSame'
    <3> SUFFICES ASSUME NEW p \in Rows, NEW q \in Rows, rows'[p].agent = rows'[q].agent, p < q, rows'[p].owner # rows'[q].owner
                 PROVE  rows'[p].agent \in moved' /\ rows'[p].owner \in moved'
      BY <1>3 DEF OwnersSame
    <3>1. p # r
      <4>1. p \in Nat /\ q \in Nat
        BY RefRows
      <4>2. p = r => q <= p
        BY <1>5 DEF PlaceInv, RowInv, LiveLast
      <4> QED
        BY <4>1, <4>2
    <3>2. CASE rows[p].owner = rows[q].owner
      BY <1>5, <3>1, <3>2
    <3>3. CASE rows[p].owner # rows[q].owner
      BY <1>5, <3>1, <3>3 DEF PlaceInv, RowInv, OwnersSame
    <3> QED
      BY <3>2, <3>3
  <2> QED
    BY <2>1, <2>2, <2>3, <2>4, <2>5 DEF RowInv
<1>7. HomeInv'
  <2>1. OneHome'
    BY DEF PlaceInv, HomeInv, OneHome, Reservations
  <2>2. LastSound'
    <3> SUFFICES ASSUME NEW q \in Rows, Last(q)', AgentsRow(q)'
                 PROVE  (rows[q].state # "purged")' /\ \A i \in Worker : Dropping(i, q)'
      BY <1>3 DEF LastSound
    <3>1. CASE q = r
      BY <1>5, <3>1 DEF PlaceInv, RowInv, NotLive, Dropping, Live, Purging
    <3>2. CASE q # r
      <4>1. Last(q) /\ AgentsRow(q)
        BY <1>3, <1>5, <3>2 DEF Last, AgentsRow
      <4> QED
        BY <1>5, <4>1 DEF PlaceInv, HomeInv, LastSound, Dropping
    <3> QED
      BY <3>1, <3>2
  <2>3. JobHome'
    <3> SUFFICES ASSUME NEW i \in Worker, job[i].pc \in {"register", "place"}, Live(job[i].row)',
                        rows'[job[i].row].agent \notin moved' \cup raced
                 PROVE  rows'[job[i].row].owner = job[i].owner /\ Reservations(job[i].owner)' = {job[i].server}
      BY DEF JobHome
    <3>1. job[i].row \in Rows /\ job[i].row # r
      BY <1>2, <1>3, RefRows
    <3> QED
      BY <1>5, <3>1 DEF PlaceInv, HomeInv, JobHome, Reservations
  <2>4. HomeSound'
    <3> SUFFICES ASSUME NEW q \in Rows, rows'[q].agent \notin moved' \cup raced, vm[rows'[q].agent] # None
                 PROVE  (Reservations(rows[q].owner) = {vm[rows[q].agent]})'
      BY <1>3 DEF HomeSound
    <3>1. q # r
      BY <1>2, <1>3
    <3> QED
      BY <1>3, <3>1 DEF PlaceInv, HomeInv, HomeSound, Reservations
  <2>5. Backed'
    <3> SUFFICES ASSUME NEW p \in Owner \ (moved' \cup raced), (Reservations(p) # {})' PROVE (\E q \in Rows : Backs(q, p))'
      BY DEF Backed
    <3>1. PICK q \in Rows : Backs(q, p)
      BY DEF PlaceInv, HomeInv, Backed, Reservations
    <3>2. q # r
      BY <3>1 DEF Backs
    <3> QED
      BY <1>3, <3>1, <3>2 DEF Backs
  <2> QED
    BY <2>1, <2>2, <2>3, <2>4, <2>5 DEF HomeInv
<1>8. DataInv'
  <2>1. DataSound'
    BY <1>5, RefRows DEF PlaceInv, DataInv, DataSound
  <2>2. GoneSound'
    <3>1. ASSUME NEW i \in Worker, Purging(i) PROVE job[i].row \in Rows
      BY <3>1, RefRows
    <3>2. \A d \in Held : d.row \in Rows
      BY RefRows
    <3> QED
      BY <1>5, <3>1, <3>2 DEF PlaceInv, DataInv, GoneSound
  <2>3. ReuseSound'
    <3>1. \A q \in Rows : Owed(q)' => Owed(q)
      BY <1>5 DEF Owed
    <3> QED
      BY <1>3, <1>5, <3>1 DEF PlaceInv, DataInv, ReuseSound, Alone
  <2> QED
    BY <2>1, <2>2, <2>3 DEF DataInv
<1> QED
  BY <1>3, <1>4, <1>6, <1>7, <1>8, TypesNow DEF PlaceInv
LEMMA ReassignKeeps ==
    ASSUME TypeOK, PlaceInv, NEW a \in Agent, NEW o \in Owner, handleReassign(a, o)
    PROVE  TypeOK' /\ PlaceInv'
<1>1. rows \in Seq(RowShape)
  BY TypeParts
<1>2. PICK r \in Rows : r = GetAllocationByAgent(a) /\ rows[r].agent = a /\ Live(r)
  BY <1>1, LiveRow DEF handleReassign
<1>3. /\ rows' = [rows EXCEPT ![r].owner = o] /\ moved' = moved \cup {rows[r].agent, rows[r].owner}
      /\ UNCHANGED <<free, draining, res, vm, disk, filed, data, mounted, Held, job, enrolled, raced, reused>>
  BY <1>2 DEF handleReassign, Servers, Held
<1> QED
  BY <1>2, <1>3, OwnerKeeps

\* An agent without a live row gets a new one.
LEMMA ProvisionKeeps ==
    ASSUME TypeOK, PlaceInv, NEW a \in Agent, NEW o \in Owner, NEW size \in Size, handleProvision(a, o, size)
    PROVE  TypeOK' /\ PlaceInv'
<1>1. PoolTypes /\ HostTypes /\ rows \in Seq(RowShape) /\ RefTypes(Rows) /\ JobTypes(Rows)
  BY TypeParts
<1>2. UNCHANGED <<free, draining, res, vm, disk, filed, data, mounted, Held, job, enrolled, raced>>
  BY DEF handleProvision, Servers, Held
<1>3. CASE GetAllocationByAgent(a) # None
  <2>1. PICK r \in Rows : r = GetAllocationByAgent(a) /\ rows[r].agent = a /\ Live(r)
    BY <1>1, <1>3, LiveRow
  <2>2. rows' = [rows EXCEPT ![r].owner = o] /\ moved' = moved \cup {rows[r].agent, rows[r].owner} /\ reused' = reused
    BY <1>3, <2>1 DEF handleProvision
  <2> QED
    BY <1>2, <2>1, <2>2, OwnerKeeps
<1>4. CASE GetAllocationByAgent(a) = None
  <2> DEFINE x == [agent |-> a, owner |-> o, size |-> size, state |-> "live"]
  <2>1. /\ rows' = Append(rows, x)
        /\ moved' = moved \cup UNION {{a, rows[r].owner} : r \in {q \in Rows : rows[q].agent = a /\ rows[q].owner # o}}
        /\ reused' = reused \cup (IF \E q \in Rows : rows[q].agent = a /\ Owed(q) THEN {a} ELSE {})
    BY <1>4 DEF handleProvision
  <2>2. x \in RowShape /\ x.agent = a /\ x.owner = o /\ x.state = "live"
    BY DEF RowShape
  <2> HIDE DEF x
  <2>3. PICK n \in Nat : /\ rows' \in Seq(RowShape) /\ Rows' = Rows \cup {n} /\ rows'[n] = x
                         /\ \A q \in Rows : q \in Nat /\ q < n /\ rows'[q] = rows[q]
    BY <1>1, <2>1, <2>2, RowAdd
  <2>4. n \notin Rows /\ (\A q \in Rows : ~(n <= q) /\ ~(n < q) /\ q <= n) /\ n <= n /\ ~(n < n)
    BY <2>3
  <2>5. /\ \A q \in Rows : rows[q].agent = a => ~Live(q)
        /\ \A q \in Rows : (Live(q)' <=> Live(q)) /\ (Owed(q)' <=> Owed(q))
        /\ Live(n)' /\ rows'[n].agent = a /\ rows'[n].owner = o /\ rows'[n].state = "live"
        /\ \A i \in Worker : Purging(i)' <=> Purging(i)
    BY <1>1, <1>2, <1>4, <2>2, <2>3, LiveRow DEF Live, Owed, Purging
  <2>6. /\ \A q \in Rows : rows[q].agent = a /\ rows[q].owner # o => a \in moved' /\ rows[q].owner \in moved'
        /\ \A q \in Rows : rows[q].agent = a /\ Owed(q) => a \in reused'
        /\ moved \subseteq moved' /\ reused \subseteq reused'
    BY <2>1
  <2>7. PoolTypes' /\ HostTypes' /\ RefTypes(Rows)' /\ JobTypes(Rows)'
    BY <1>1, <1>2, <2>3, RefFrame, JobsGrow DEF PoolTypes, HostTypes, JobTypes
  <2>8. RowInv'
    <3>1. LiveLast'
      <4> SUFFICES ASSUME NEW r \in Rows', NEW q \in Rows', rows'[r].agent = rows'[q].agent, Live(r)' PROVE q <= r
        BY DEF LiveLast
      <4>1. CASE r = n
        BY <2>3, <2>4, <4>1
      <4>2. CASE r \in Rows /\ q = n
        BY <2>3, <2>5, <4>2
      <4>3. CASE r \in Rows /\ q \in Rows
        BY <2>3, <2>5, <4>3 DEF PlaceInv, RowInv, LiveLast
      <4> QED
        BY <2>3, <4>1, <4>2, <4>3
    <3>2. NotLive'
      BY <1>2, <2>5, RefRows DEF PlaceInv, RowInv, NotLive
    <3>3. HasLast'
      <4>1. Last(n)'
        BY <2>3, <2>4 DEF Last
      <4>2. \A q \in Rows : Last(q) /\ rows[q].agent # a => Last(q)'
        BY <2>3, <2>5 DEF Last
      <4>3. ASSUME NEW r \in Rows' PROVE \E l \in Rows' : rows'[l].agent = rows'[r].agent /\ Last(l)'
        <5>1. CASE rows'[r].agent = a
          BY <2>3, <2>5, <4>1, <5>1
        <5>2. CASE rows'[r].agent # a
          <6>1. r \in Rows /\ rows'[r] = rows[r]
            BY <2>3, <2>5, <5>2
          <6>2. PICK l \in Rows : rows[l].agent = rows[r].agent /\ Last(l)
            BY <6>1 DEF PlaceInv, RowInv, HasLast
          <6> QED
            BY <2>3, <4>2, <5>2, <6>1, <6>2
        <5> QED
          BY <5>1, <5>2
      <4> QED
        BY <4>3 DEF HasLast
    <3>4. HasRow'
      BY <1>2, <2>3 DEF PlaceInv, RowInv, HasRow
    <3>5. OwnersSame'
      <4> SUFFICES ASSUME NEW r \in Rows', NEW q \in Rows', rows'[r].agent = rows'[q].agent, r < q, rows'[r].owner # rows'[q].owner
                   PROVE  rows'[r].agent \in moved' /\ rows'[r].owner \in moved'
        BY DEF OwnersSame
      <4>1. r \in Rows /\ rows'[r] = rows[r]
        BY <2>3, <2>4
      <4>2. CASE q = n
        BY <2>5, <2>6, <4>1, <4>2
      <4>3. CASE q \in Rows
        BY <2>3, <2>6, <4>1, <4>3 DEF PlaceInv, RowInv, OwnersSame
      <4> QED
        BY <2>3, <4>2, <4>3
    <3> QED
      BY <3>1, <3>2, <3>3, <3>4, <3>5 DEF RowInv
  <2>9. HomeInv'
    <3>1. OneHome'
      BY <1>2 DEF PlaceInv, HomeInv, OneHome, Reservations
    <3>2. LastSound'
      <4> SUFFICES ASSUME NEW r \in Rows', Last(r)', AgentsRow(r)'
                   PROVE  rows'[r].state # "purged" /\ \A i \in Worker : Dropping(i, r)'
        BY DEF LastSound
      <4>1. CASE r = n
        <5>1. \A i \in Worker : job[i].pc \in {"cleanup", "mark"} => job[i].row # n
          BY <2>4, RefRows DEF Purging
        <5> QED
          BY <1>2, <2>5, <4>1, <5>1 DEF Dropping
      <4>2. CASE r \in Rows
        <5>1. Last(r) /\ AgentsRow(r)
          BY <1>2, <2>3, <4>2 DEF Last, AgentsRow
        <5> QED
          BY <1>2, <2>3, <4>2, <5>1 DEF PlaceInv, HomeInv, LastSound, Dropping
      <4> QED
        BY <2>3, <4>1, <4>2
    <3>3. JobHome'
      <4> SUFFICES ASSUME NEW i \in Worker, job[i].pc \in {"register", "place"}, Live(job[i].row)',
                          rows'[job[i].row].agent \notin moved' \cup raced
                   PROVE  rows'[job[i].row].owner = job[i].owner /\ Reservations(job[i].owner)' = {job[i].server}
        BY <1>2 DEF JobHome, Reservations
      <4>1. job[i].row \in Rows
        BY RefRows
      <4> QED
        BY <1>2, <2>3, <2>5, <2>6, <4>1 DEF PlaceInv, HomeInv, JobHome, Reservations
    <3>4. HomeSound'
      <4> SUFFICES ASSUME NEW r \in Rows', rows'[r].agent \notin moved' \cup raced, vm[rows'[r].agent] # None
                   PROVE  (Reservations(rows[r].owner) = {vm[rows[r].agent]})'
        BY <1>2 DEF HomeSound
      <4>1. CASE r = n
        <5>1. PICK q \in Rows : rows[q].agent = a
          BY <2>5, <4>1 DEF PlaceInv, RowInv, HasRow
        <5>2. rows[q].owner = o
          BY <2>5, <2>6, <4>1, <5>1
        <5>3. Reservations(o) = {vm[a]}
          BY <2>5, <2>6, <4>1, <5>1, <5>2 DEF PlaceInv, HomeInv, HomeSound
        <5> QED
          BY <1>2, <2>5, <4>1, <5>3 DEF Reservations
      <4>2. CASE r \in Rows
        BY <1>2, <2>3, <2>6, <4>2 DEF PlaceInv, HomeInv, HomeSound, Reservations
      <4> QED
        BY <2>3, <4>1, <4>2
    <3>5. Backed'
      BY <1>2, <2>3, <2>6 DEF PlaceInv, HomeInv, Backed, Backs, Reservations
    <3> QED
      BY <3>1, <3>2, <3>3, <3>4, <3>5 DEF HomeInv
  <2>10. DataInv'
    <3>1. DataSound'
      BY <1>2, <2>3, <2>6, RefRows DEF PlaceInv, DataInv, DataSound
    <3>2. GoneSound'
      <4>1. ASSUME NEW i \in Worker, Purging(i) PROVE job[i].row \in Rows
        BY <4>1, RefRows
      <4>2. \A d \in Held : d.row \in Rows
        BY RefRows
      <4> QED
        BY <1>2, <2>3, <2>5, <2>6, <4>1, <4>2 DEF PlaceInv, DataInv, GoneSound
    <3>3. ReuseSound'
      <4> SUFFICES ASSUME NEW r \in Rows', NEW q \in Rows', Live(r)', rows'[q].agent = rows'[r].agent, q # r,
                          rows'[r].agent \notin reused'
                   PROVE  ~Owed(q)'
        BY DEF ReuseSound, Alone
      <4>1. CASE r = n
        BY <2>3, <2>5, <2>6, <4>1
      <4>2. CASE r \in Rows /\ q = n
        BY <2>3, <2>5, <4>2
      <4>3. CASE r \in Rows /\ q \in Rows
        BY <2>3, <2>5, <2>6, <4>3 DEF PlaceInv, DataInv, ReuseSound, Alone
      <4> QED
        BY <2>3, <4>1, <4>2, <4>3
    <3> QED
      BY <3>1, <3>2, <3>3 DEF DataInv
  <2> QED
    BY <2>3, <2>7, <2>8, <2>9, <2>10, TypesNow DEF PlaceInv
<1> QED
  BY <1>3, <1>4

\* What an enrolment adds to the races: nothing if its row is still live and
\* its owner's, else the agent and every account it has been with.
LEMMA RaceFacts ==
    ASSUME NEW j
    PROVE  /\ raced \subseteq Raced(j)
           /\ \/ Live(j.row) /\ rows[j.row].owner = j.owner
              \/ /\ rows[j.row].agent \in Raced(j) /\ j.owner \in Raced(j)
                 /\ \A q \in Rows : rows[q].agent = rows[j.row].agent => rows[q].owner \in Raced(j)
<1>1. CASE Live(j.row) /\ rows[j.row].owner = j.owner
  BY <1>1 DEF Raced
<1>2. CASE ~(Live(j.row) /\ rows[j.row].owner = j.owner)
  BY <1>2 DEF Raced
<1> QED
  BY <1>1, <1>2

\* An agent is placed where its enrolment has taken it.
LEMMA PlaceKeeps ==
    ASSUME TypeOK, PlaceInv, NEW w \in Worker, Place(w)
    PROVE  TypeOK' /\ PlaceInv'
<1>1. PoolTypes /\ HostTypes /\ rows \in Seq(RowShape) /\ RefTypes(Rows) /\ JobTypes(Rows)
  BY TypeParts
<1>2. PICK k \in Jobs(Rows) : k = job[w] /\ k.pc = "place"
  BY <1>1 DEF JobTypes, Place, At
<1>3. PICK r \in Rows, o \in Owner, s \in Server, a \in Agent :
        r = k.row /\ o = k.owner /\ s = k.server /\ a = rows[r].agent
  <2>1. k.row \in Rows /\ k.owner \in Owner /\ k.server \in Server
    BY <1>2, JobFields
  <2> QED
    BY <2>1, RefRows
<1> DEFINE j == [pc |-> "mint", row |-> r, owner |-> o]
<1>4. /\ job' = [job EXCEPT ![w] = j] /\ vm' = [vm EXCEPT ![a] = IF @ = None THEN s ELSE @] /\ raced' = Raced(k)
      /\ UNCHANGED <<free, draining, res, rows, disk, filed, data, mounted, enrolled, left, Held, moved, reused>> /\ Rows' = Rows
  BY <1>2, <1>3 DEF Place, Become, CreateServerVM, Servers, Rows, Held
<1>5. j \in Jobs(Rows) /\ j.pc = "mint"
  BY DEF Jobs, EnrolJobs
<1> HIDE DEF j
<1>6. JobTypes(Rows)' /\ OnlyJob(w, j) /\ \A i \in Worker : SameJob(i)
  <2>1. j.pc \in Harmless
    BY <1>5 DEF Harmless
  <2> QED
    BY <1>1, <1>4, <1>5, <2>1, JobSet, JobQuiet DEF JobTypes
<1>7. PoolTypes' /\ HostTypes' /\ RefTypes(Rows)'
  BY <1>1, <1>4, RefFrame DEF PoolTypes, HostTypes
<1>8. raced \subseteq raced' /\ SameHomes
  BY <1>4, RaceFacts, HomesFrame
<1>9. CASE vm[a] # None
  <2>1. vm' = vm
    BY <1>1, <1>4, <1>9 DEF HostTypes
  <2>2. Quiet
    BY <1>4, <1>6, <1>8, <2>1, QuietFrame
  <2> QED
    BY <1>1, <1>4, <1>6, <1>7, <2>2, QuietKeeps, TypesNow
<1>10. CASE vm[a] = None
  <2>1. vm'[a] = s /\ \A b \in Agent : b # a => vm'[b] = vm[b]
    BY <1>1, <1>4, <1>10 DEF HostTypes
  <2>2. \/ Live(r) /\ rows[r].owner = o
        \/ a \in raced' /\ o \in raced' /\ \A q \in Rows : rows[q].agent = a => rows[q].owner \in raced'
    BY <1>3, <1>4, RaceFacts
  <2>3. /\ \A i \in Worker : i # w => job'[i] = job[i]
        /\ job'[w].pc = "mint"
        /\ \A i \in Worker : Purging(i)' => i # w /\ Purging(i) /\ job'[i] = job[i]
    BY <1>5, <1>6 DEF OnlyJob, Purging
  <2>4. \A q \in Rows : (Live(q)' <=> Live(q)) /\ rows[q].agent \in Agent
    BY <1>4, RefRows DEF Live
  <2>5. RowInv'
    <3>1. LiveLast' /\ HasLast' /\ OwnersSame'
      BY <1>4, <2>4 DEF PlaceInv, RowInv, LiveLast, HasLast, OwnersSame, Last
    <3>2. HasRow'
      BY <1>3, <1>4, <2>1 DEF PlaceInv, RowInv, HasRow
    <3>3. NotLive'
      BY <1>4, <2>3, <2>4, RefRows DEF PlaceInv, RowInv, NotLive
    <3> QED
      BY <3>1, <3>2, <3>3 DEF RowInv
  <2>6. HomeInv'
    <3>1. OneHome'
      BY <1>4 DEF PlaceInv, HomeInv, OneHome, Reservations
    <3>2. LastSound'
      <4> SUFFICES ASSUME NEW q \in Rows, Last(q)', AgentsRow(q)'
                   PROVE  rows[q].state # "purged" /\ \A i \in Worker : Dropping(i, q)'
        BY <1>4 DEF LastSound
      <4>1. Last(q)
        BY <1>4 DEF Last
      <4>2. CASE rows[q].agent # a
        <5>1. AgentsRow(q)
          BY <1>4, <1>8, <2>1, <2>4, <4>2 DEF AgentsRow
        <5> QED
          BY <2>3, <4>1, <5>1 DEF PlaceInv, HomeInv, LastSound, Dropping
      <4>3. CASE rows[q].agent = a
        <5>1. Live(r)
          BY <1>4, <2>2, <4>3 DEF AgentsRow
        <5>2. q = r
          <6>1. q \in Nat /\ r \in Nat
            BY RefRows
          <6>2. r <= q
            BY <1>3, <4>1, <4>3 DEF Last
          <6>3. q <= r
            BY <1>3, <4>3, <5>1 DEF PlaceInv, RowInv, LiveLast
          <6> QED
            BY <6>1, <6>2, <6>3
        <5>3. \A i \in Worker : Purging(i) => job[i].row # r
          BY <5>1 DEF PlaceInv, RowInv, NotLive
        <5> QED
          BY <2>3, <5>1, <5>2, <5>3 DEF Dropping, Live, Purging
      <4> QED
        BY <4>2, <4>3
    <3>3. JobHome'
      <4> SUFFICES ASSUME NEW i \in Worker, job'[i].pc \in {"register", "place"}, Live(job'[i].row),
                          rows[job'[i].row].agent \notin moved \cup raced'
                   PROVE  rows[job'[i].row].owner = job'[i].owner /\ Reservations(job'[i].owner) = {job'[i].server}
        BY <1>4 DEF JobHome, Live, Reservations
      <4>1. job'[i] = job[i]
        BY <2>3
      <4> QED
        BY <1>8, <4>1 DEF PlaceInv, HomeInv, JobHome
    <3>4. HomeSound'
      <4> SUFFICES ASSUME NEW q \in Rows, rows[q].agent \notin moved \cup raced', vm'[rows[q].agent] # None
                   PROVE  Reservations(rows[q].owner) = {vm'[rows[q].agent]}
        BY <1>4 DEF HomeSound, Reservations
      <4>1. CASE rows[q].agent = a
        <5>1. Live(r) /\ rows[r].owner = o /\ Reservations(o) = {s}
          BY <1>2, <1>3, <1>8, <2>2, <4>1 DEF PlaceInv, HomeInv, JobHome
        <5>2. rows[q].owner = rows[r].owner
          BY <1>3, <4>1, OneOwner
        <5> QED
          BY <2>1, <4>1, <5>1, <5>2
      <4>2. CASE rows[q].agent # a
        BY <1>8, <2>1, <2>4, <4>2 DEF PlaceInv, HomeInv, HomeSound
      <4> QED
        BY <4>1, <4>2
    <3>5. Backed'
      <4> SUFFICES ASSUME NEW p \in Owner \ (moved \cup raced'), Reservations(p) # {} PROVE \E q \in Rows : Backs(q, p)'
        BY <1>4 DEF Backed, Reservations
      <4>1. PICK q \in Rows : Backs(q, p)
        BY <1>8 DEF PlaceInv, HomeInv, Backed
      <4> QED
        BY <1>4, <2>3, <4>1 DEF Backs
    <3> QED
      BY <3>1, <3>2, <3>3, <3>4, <3>5 DEF HomeInv
  <2>7. DataInv'
    <3>1. DataSound'
      <4> SUFFICES ASSUME NEW d \in Held, rows[d.row].agent \notin reused
                   PROVE  vm'[rows[d.row].agent] = d.server /\ rows[d.row].state # "purged"
        BY <1>4 DEF DataSound
      <4>1. d.row \in Rows /\ d.server # None
        BY RefRows, Constants
      <4> QED
        BY <1>10, <2>1, <2>4, <4>1 DEF PlaceInv, DataInv, DataSound
    <3>2. GoneSound'
      BY <1>4, <2>3 DEF PlaceInv, DataInv, GoneSound
    <3>3. ReuseSound'
      <4>1. \A q \in Rows : Owed(q)' => Owed(q)
        BY <1>4, <2>3 DEF Owed
      <4> QED
        BY <1>4, <2>4, <4>1 DEF PlaceInv, DataInv, ReuseSound, Alone
    <3> QED
      BY <3>1, <3>2, <3>3 DEF DataInv
  <2> QED
    BY <1>1, <1>4, <1>6, <1>7, <2>5, <2>6, <2>7, TypesNow DEF PlaceInv
<1> QED
  BY <1>9, <1>10
\* Among servers with room one has the most.
LEMMA MostFree ==
    ASSUME PoolTypes, NEW fits \in SUBSET Server, fits # {}
    PROVE  \E s \in fits : \A t \in fits : free[s] >= free[t]
<1>1. \A s \in fits : free[s] \in 0 .. Total /\ Total - free[s] \in Nat
  BY Constants DEF PoolTypes
<1> DEFINE T == {Total - free[s] : s \in fits}
<1>2. T \subseteq Nat /\ T # {}
  BY <1>1
<1> HIDE DEF T
<1>3. PICK x \in T : \A y \in T : ~(<<y, x>> \in OpToRel(<, Nat))
  BY <1>2, NatLessThanWellFounded, WFMin, Zenon
<1>4. \A y \in T : ~(y < x)
  BY <1>2, <1>3 DEF OpToRel
<1>5. PICK s \in fits : x = Total - free[s]
  BY <1>3 DEF T
<1>6. ASSUME NEW t \in fits PROVE free[s] >= free[t]
  <2>1. Total - free[t] \in T
    BY DEF T
  <2>2. ~(Total - free[t] < Total - free[s])
    BY <1>4, <1>5, <2>1
  <2> QED
    BY <1>1, <2>2, Constants
<1> QED
  BY <1>6

\* Where an account's disks go: its only home, or a server with room.
LEMMA HomeFacts ==
    ASSUME TypeOK, OneHome, NEW o \in Owner, NEW size \in Size, HomeOf(o, size) # None
    PROVE  /\ HomeOf(o, size) \in Server /\ Reservations(o) \subseteq {HomeOf(o, size)}
           /\ Reservations(o) = {} => CanGrow(HomeOf(o, size), size)
<1>1. PoolTypes
  BY TypeParts
<1>2. CASE Reservations(o) # {}
  <2>1. HomeOf(o, size) \in Reservations(o)
    BY <1>2 DEF HomeOf
  <2> QED
    BY <1>2, <2>1 DEF OneHome, Reservations
<1>3. CASE Reservations(o) = {}
  <2> DEFINE fits == {s \in Server : s \notin draining /\ free[s] >= size}
  <2>1. HomeOf(o, size) = PickBest(size)
    BY <1>3 DEF HomeOf
  <2>2. fits # {} /\ PickBest(size) = CHOOSE s \in fits : \A t \in fits : free[s] >= free[t]
    BY <2>1 DEF PickBest
  <2>3. \E s \in fits : \A t \in fits : free[s] >= free[t]
    <3> HIDE DEF fits
    <3>1. fits \in SUBSET Server
      BY DEF fits
    <3> QED
      BY <1>1, <2>2, <3>1, MostFree
  <2>4. PickBest(size) \in fits
    <3> HIDE DEF fits
    <3> QED
      BY <2>2, <2>3
  <2> QED
    BY <1>3, <2>1, <2>4 DEF CanGrow
<1> QED
  BY <1>2, <1>3

\* A step of an enrolment that is past the placement, or ends.
LEMMA EnrolmentEnds ==
    ASSUME TypeOK, PlaceInv, NEW w \in Worker, NEW j, j \in Jobs(Rows), j.pc \in Harmless, job' = [job EXCEPT ![w] = j],
           UNCHANGED <<free, draining, res, rows, vm, disk, filed, data, mounted, enrolled, left, Held, moved, raced, reused>>
    PROVE  TypeOK' /\ PlaceInv'
<1>1. PoolTypes /\ HostTypes /\ rows \in Seq(RowShape) /\ RefTypes(Rows) /\ JobTypes(Rows) /\ Rows' = Rows
  BY TypeParts DEF Rows
<1>2. JobTypes(Rows)' /\ \A i \in Worker : SameJob(i)
  BY <1>1, JobQuiet
<1>3. PoolTypes' /\ HostTypes' /\ RefTypes(Rows)'
  BY <1>1, RefFrame DEF PoolTypes, HostTypes
<1>4. Quiet
  BY <1>2, HomesFrame, QuietFrame
<1> QED
  BY <1>1, <1>2, <1>3, <1>4, QuietKeeps, TypesNow

\* An enrolment makes its owner at home on s, or finds it there.
LEMMA ReserveAt ==
    ASSUME TypeOK, PlaceInv, NEW w \in Worker, NEW r \in Rows, NEW o \in Owner, NEW s \in Server,
           NEW k, k = job[w], k.pc = "reserve", k.row = r, k.owner = o,
           NEW j, OnlyJob(w, j), j.pc = "register", j.row = r, j.owner = o, j.server = s,
           Reservations(o) \subseteq {s}, Reservations(o)' = {s},
           \A p \in Owner \ {o} : Reservations(p)' = Reservations(p),
           raced' = Raced(k), UNCHANGED <<rows, vm, Held, moved, reused>>
    PROVE  PlaceInv'
<1>1. /\ raced \subseteq raced' /\ Rows' = Rows
      /\ \/ Live(r) /\ rows[r].owner = o
         \/ rows[r].agent \in raced' /\ o \in raced'
  BY RaceFacts DEF Rows
<1>2. /\ \A i \in Worker : i # w => job'[i] = job[i]
      /\ job'[w] = j /\ job[w].pc = "reserve"
      /\ \A i \in Worker : Purging(i)' => i # w /\ Purging(i) /\ job'[i] = job[i]
  BY DEF OnlyJob, Purging
<1>3. \A q \in Rows : (Live(q)' <=> Live(q)) /\ rows[q].owner \in Owner
  BY RefRows DEF Live
<1>4. RowInv'
  <2>1. LiveLast' /\ HasLast' /\ HasRow' /\ OwnersSame'
    BY <1>1, <1>3 DEF PlaceInv, RowInv, LiveLast, HasLast, HasRow, OwnersSame, Last
  <2>2. NotLive'
    BY <1>2, <1>3, RefRows DEF PlaceInv, RowInv, NotLive
  <2> QED
    BY <2>1, <2>2 DEF RowInv
<1>5. HomeInv'
  <2>1. OneHome'
    <3>1. ASSUME NEW p \in Owner, NEW t \in Reservations(p)', NEW u \in Reservations(p)' PROVE t = u
      BY DEF PlaceInv, HomeInv, OneHome
    <3> QED
      BY <3>1 DEF OneHome
  <2>2. LastSound'
    <3> SUFFICES ASSUME NEW q \in Rows, Last(q)', AgentsRow(q)'
                 PROVE  rows[q].state # "purged" /\ \A i \in Worker : Dropping(i, q)'
      BY <1>1 DEF LastSound
    <3>1. Last(q) /\ AgentsRow(q)
      BY <1>1 DEF Last, AgentsRow
    <3> QED
      BY <1>2, <3>1 DEF PlaceInv, HomeInv, LastSound, Dropping
  <2>3. JobHome'
    <3> SUFFICES ASSUME NEW i \in Worker, job'[i].pc \in {"register", "place"}, Live(job'[i].row),
                        rows[job'[i].row].agent \notin moved \cup raced'
                 PROVE  rows[job'[i].row].owner = job'[i].owner /\ (Reservations(job[i].owner) = {job[i].server})'
      BY DEF JobHome, Live
    <3>1. CASE i = w
      <4>1. (Reservations(job[i].owner) = {job[i].server})'
        BY <1>2, <3>1 DEF Reservations
      <4> QED
        BY <1>1, <1>2, <3>1, <4>1
    <3>2. CASE i # w
      <4>1. job'[i] = job[i]
        BY <1>2, <3>2
      <4>2. PICK p \in Owner : p = job[i].owner
        BY <4>1, RefRows
      <4>3. rows[job[i].row].owner = p /\ Reservations(p) = {job[i].server}
        BY <1>1, <4>1, <4>2 DEF PlaceInv, HomeInv, JobHome
      <4>4. Reservations(p)' = {job[i].server}
        BY <4>3
      <4> QED
        BY <4>1, <4>2, <4>3, <4>4 DEF Reservations
    <3> QED
      BY <3>1, <3>2
  <2>4. HomeSound'
    <3> SUFFICES ASSUME NEW q \in Rows, rows[q].agent \notin moved \cup raced', vm[rows[q].agent] # None
                 PROVE  (Reservations(rows[q].owner) = {vm[rows[q].agent]})'
      BY <1>1 DEF HomeSound
    <3>1. PICK p \in Owner : p = rows[q].owner
      BY <1>3
    <3>2. Reservations(p) = {vm[rows[q].agent]}
      BY <1>1, <3>1 DEF PlaceInv, HomeInv, HomeSound
    <3>3. Reservations(p)' = {vm[rows[q].agent]}
      BY <3>2
    <3> QED
      BY <3>1, <3>3 DEF Reservations
  <2>5. Backed'
    <3> SUFFICES ASSUME NEW p \in Owner \ (moved \cup raced'), Reservations(p)' # {} PROVE \E q \in Rows : Backs(q, p)'
      BY <1>1 DEF Backed
    <3>1. CASE p = o
      <4>1. Live(r) /\ rows[r].owner = o
        BY <1>1, <3>1
      <4>2. \A i \in Worker : Purging(i) => job[i].row # r
        BY <4>1 DEF PlaceInv, RowInv, NotLive
      <4> QED
        BY <1>2, <3>1, <4>1, <4>2 DEF Backs, Live, Purging
    <3>2. CASE p # o
      <4>1. PICK q \in Rows : Backs(q, p)
        BY <1>1, <3>2 DEF PlaceInv, HomeInv, Backed
      <4> QED
        BY <1>2, <4>1 DEF Backs
    <3> QED
      BY <3>1, <3>2
  <2> QED
    BY <2>1, <2>2, <2>3, <2>4, <2>5 DEF HomeInv
<1>6. DataInv'
  <2>1. DataSound'
    BY DEF PlaceInv, DataInv, DataSound
  <2>2. GoneSound'
    BY <1>2 DEF PlaceInv, DataInv, GoneSound
  <2>3. ReuseSound'
    <3>1. \A q \in Rows : Owed(q)' => Owed(q)
      BY <1>2 DEF Owed
    <3> QED
      BY <1>1, <1>3, <3>1 DEF PlaceInv, DataInv, ReuseSound, Alone
  <2> QED
    BY <2>1, <2>2, <2>3 DEF DataInv
<1> QED
  BY <1>4, <1>5, <1>6 DEF PlaceInv

\* What an enrolment's reservation does to the tables.
LEMMA ReserveKeeps ==
    ASSUME TypeOK, PlaceInv, NEW w \in Worker, Reserve(w)
    PROVE  TypeOK' /\ PlaceInv'
<1>1. PoolTypes /\ HostTypes /\ rows \in Seq(RowShape) /\ RefTypes(Rows) /\ JobTypes(Rows)
  BY TypeParts
<1>2. PICK k \in Jobs(Rows) : k = job[w] /\ k.pc = "reserve"
  BY <1>1 DEF JobTypes, Reserve, At
<1>3. PICK r \in Rows, o \in Owner, size \in Size : r = k.row /\ o = k.owner /\ size = k.size
  BY <1>2, JobFields
<1>4. UNCHANGED <<draining, rows, vm, disk, filed, data, mounted, enrolled, left, Held, moved, reused>> /\ Rows' = Rows
  BY DEF Reserve, Servers, Rows, Held
<1>5. CASE vm[rows[r].agent] # None
  <2> DEFINE j == [pc |-> "mint", row |-> r, owner |-> o]
  <2>1. job' = [job EXCEPT ![w] = j] /\ UNCHANGED <<free, res, raced>>
    BY <1>2, <1>3, <1>5 DEF Reserve, Become
  <2>2. j \in Jobs(Rows) /\ j.pc \in Harmless
    BY DEF Jobs, EnrolJobs, Harmless
  <2> HIDE DEF j
  <2> QED
    BY <1>4, <2>1, <2>2, EnrolmentEnds
<1>6. PICK s : s = HomeOf(o, size)
  OBVIOUS
<1>7. CASE vm[rows[r].agent] = None /\ s = None
  <2>1. job' = [job EXCEPT ![w] = Idle] /\ UNCHANGED <<free, res, raced>>
    BY <1>2, <1>3, <1>6, <1>7 DEF Reserve, Done
  <2>2. Idle \in Jobs(Rows) /\ Idle.pc \in Harmless
    BY IdleJob DEF Harmless
  <2> QED
    BY <1>4, <2>1, <2>2, EnrolmentEnds
<1>8. CASE vm[rows[r].agent] = None /\ s # None
  <2> DEFINE j == [pc |-> "register", row |-> r, owner |-> o, server |-> s]
  <2>1. /\ job' = [job EXCEPT ![w] = j] /\ raced' = Raced(k)
        /\ \/ res[o][s] > 0 /\ UNCHANGED <<free, res>>
           \/ ~(res[o][s] > 0) /\ free' = ReserveCapacity(s, size) /\ res' = CreateReservation(o, s, size)
    BY <1>2, <1>3, <1>6, <1>8 DEF Reserve, Become
  <2>2. s \in Server /\ Reservations(o) \subseteq {s} /\ (Reservations(o) = {} => CanGrow(s, size))
    BY <1>6, <1>8, HomeFacts DEF PlaceInv, HomeInv
  <2>3. j \in Jobs(Rows) /\ j.pc = "register" /\ j.row = r /\ j.owner = o /\ j.server = s
    BY <2>2 DEF Jobs, EnrolJobs
  <2> HIDE DEF j
  <2>4. JobTypes(Rows)' /\ OnlyJob(w, j)
    BY <1>1, <1>4, <2>1, <2>3, JobSet DEF JobTypes
  <2>5. Reservations(o)' = {s} /\ (\A p \in Owner \ {o} : Reservations(p)' = Reservations(p)) /\ PoolTypes'
    <3>1. size \in Nat /\ size > 0 /\ res[o][s] \in Nat
      BY <1>1, <2>2, ResNat, Constants
    <3>2. CASE res[o][s] > 0 /\ UNCHANGED <<free, res>>
      BY <1>1, <1>4, <2>2, <3>2 DEF Reservations, PoolTypes
    <3>3. CASE ~(res[o][s] > 0) /\ free' = ReserveCapacity(s, size) /\ res' = CreateReservation(o, s, size)
      <4>1. Reservations(o) = {}
        BY <2>2, <3>3 DEF Reservations
      <4>2. free' \in [Server -> 0 .. Total]
        BY <1>1, <2>2, <3>1, <3>3, <4>1, FreeDown
      <4>3. /\ res' \in [Owner -> [Server -> Size \cup {0}]] /\ res'[o][s] = size
            /\ \A t \in Server \ {s} : res'[o][t] = res[o][t]
            /\ \A p \in Owner \ {o} : res'[p] = res[p]
        BY <1>1, <2>2, <3>3 DEF PoolTypes, CreateReservation
      <4>4. PoolTypes'
        BY <1>1, <1>4, <4>2, <4>3 DEF PoolTypes
      <4>5. \A t \in Server : res'[o][t] > 0 <=> t = s
        BY <3>1, <4>1, <4>3 DEF Reservations
      <4> QED
        BY <2>2, <4>3, <4>4, <4>5 DEF Reservations
    <3> QED
      BY <2>1, <3>2, <3>3
  <2>6. PlaceInv'
    BY <1>2, <1>3, <1>4, <2>1, <2>2, <2>3, <2>4, <2>5, ReserveAt
  <2>7. HostTypes' /\ RefTypes(Rows)'
    BY <1>1, <1>4, RefFrame DEF HostTypes
  <2> QED
    BY <1>1, <1>4, <2>4, <2>5, <2>6, <2>7, TypesNow
<1> QED
  BY <1>5, <1>7, <1>8
\* The cleanup of row r, of agent a and account o: the placement is dropped if
\* the server has erased the tenant, and the homes in "unused" are given up.
LEMMA CleanupKeeps ==
    ASSUME TypeOK, PlaceInv, NEW w \in Worker, NEW r \in Rows, NEW a \in Agent, NEW o \in Owner, NEW place, NEW unused,
           NEW j, OnlyJob(w, j), j.pc = "mark", j.row = r, job[w].pc = "cleanup", job[w].row = r,
           a = rows[r].agent, o = rows[r].owner,
           vm' = place, \A b \in Agent : place[b] = IF b = a /\ job[w].erased THEN None ELSE vm[b],
           unused = Unused(w, o, place), Reservations(o)' = Reservations(o) \ unused,
           \A p \in Owner \ {o} : Reservations(p)' = Reservations(p),
           UNCHANGED <<rows, Held, moved, raced, reused>>
    PROVE  PlaceInv'
<1>1. /\ \A i \in Worker : i # w => job'[i] = job[i] /\ (Purging(i)' <=> Purging(i))
      /\ job'[w].pc = "mark" /\ job'[w].row = r /\ Purging(w) /\ Purging(w)' /\ Rows' = Rows
  BY DEF OnlyJob, Purging, Rows
<1>2. \A q \in Rows : (Live(q)' <=> Live(q)) /\ rows[q].owner \in Owner /\ rows[q].agent \in Agent
  BY RefRows DEF Live
<1>3. \A b \in Agent : vm'[b] # None => vm'[b] = vm[b] /\ (b = a => ~job[w].erased)
  OBVIOUS
<1>4. \A s \in unused : ~Lives(o) /\ ~Stays(o, s, place)
  <2> SUFFICES ASSUME NEW s \in unused PROVE ~Lives(o) /\ ~Stays(o, s, place)
    OBVIOUS
  <2>1. CountActive(o) = 0 /\ CountPlaced(o, s, place) = 0
    BY DEF Unused
  <2> QED
    BY <2>1, Counted
<1>5. \A s \in Reservations(o) : s \notin unused => Lives(o) \/ Stays(o, s, place)
  <2> SUFFICES ASSUME NEW s \in Reservations(o), s \notin unused PROVE Lives(o) \/ Stays(o, s, place)
    OBVIOUS
  <2>1. ~(CountActive(o) = 0 /\ CountPlaced(o, s, place) = 0)
    BY DEF Unused
  <2> QED
    BY <2>1, Counted
<1>6. RowInv'
  <2>1. LiveLast' /\ HasLast' /\ OwnersSame'
    BY <1>1, <1>2 DEF PlaceInv, RowInv, LiveLast, HasLast, OwnersSame, Last
  <2>2. HasRow'
    BY <1>1, <1>3 DEF PlaceInv, RowInv, HasRow
  <2>3. NotLive'
    BY <1>1, <1>2, RefRows DEF PlaceInv, RowInv, NotLive
  <2> QED
    BY <2>1, <2>2, <2>3 DEF RowInv
<1>7. HomeInv'
  <2>1. OneHome'
    <3>1. ASSUME NEW p \in Owner, NEW t \in Reservations(p)', NEW u \in Reservations(p)' PROVE t = u
      BY DEF PlaceInv, HomeInv, OneHome
    <3> QED
      BY <3>1 DEF OneHome
  <2>2. LastSound'
    <3> SUFFICES ASSUME NEW q \in Rows, Last(q)', AgentsRow(q)'
                 PROVE  rows[q].state # "purged" /\ \A i \in Worker : Dropping(i, q)'
      BY <1>1 DEF LastSound
    <3>1. Last(q) /\ AgentsRow(q) /\ vm'[rows[q].agent] # None
      BY <1>1, <1>2, <1>3 DEF Last, AgentsRow
    <3>2. rows[q].state # "purged" /\ \A i \in Worker : Dropping(i, q)
      BY <3>1 DEF PlaceInv, HomeInv, LastSound
    <3>3. q # r
      BY <1>3, <3>1, <3>2 DEF Dropping
    <3> QED
      BY <1>1, <3>2, <3>3 DEF Dropping
  <2>3. JobHome'
    <3> SUFFICES ASSUME NEW i \in Worker, job'[i].pc \in {"register", "place"}, Live(job'[i].row),
                        rows[job'[i].row].agent \notin moved \cup raced
                 PROVE  rows[job'[i].row].owner = job'[i].owner /\ (Reservations(job[i].owner) = {job[i].server})'
      BY DEF JobHome, Live
    <3>1. job'[i] = job[i]
      BY <1>1
    <3>2. PICK p \in Owner : p = job[i].owner
      BY <3>1, RefRows
    <3>3. rows[job[i].row].owner = p /\ Reservations(p) = {job[i].server} /\ job[i].row \in Rows
      BY <3>1, <3>2, RefRows DEF PlaceInv, HomeInv, JobHome
    <3>4. Reservations(p)' = Reservations(p)
      BY <1>4, <3>1, <3>3 DEF Lives
    <3> QED
      BY <3>1, <3>2, <3>3, <3>4 DEF Reservations
  <2>4. HomeSound'
    <3> SUFFICES ASSUME NEW q \in Rows, rows[q].agent \notin moved \cup raced, vm'[rows[q].agent] # None
                 PROVE  (Reservations(rows[q].owner) = {vm[rows[q].agent]})'
      BY <1>1 DEF HomeSound
    <3>1. PICK p \in Owner, b \in Agent : p = rows[q].owner /\ b = rows[q].agent
      BY <1>2
    <3>2. vm'[b] = vm[b] /\ vm[b] # None /\ Reservations(p) = {vm[b]}
      BY <1>3, <3>1 DEF PlaceInv, HomeInv, HomeSound
    <3>3. PICK l \in Rows : rows[l].agent = b /\ Last(l)
      BY <3>1 DEF PlaceInv, RowInv, HasLast
    <3>4. rows[l].owner = p
      BY <3>1, <3>3, OneOwner
    <3>5. rows[l].state # "purged"
      BY <3>1, <3>2, <3>3 DEF PlaceInv, HomeInv, LastSound, AgentsRow
    <3>6. p = o => vm[b] \notin unused
      BY <1>4, <3>2, <3>3, <3>4, <3>5 DEF Stays
    <3>7. Reservations(p)' = {vm'[b]}
      BY <3>2, <3>6
    <3> QED
      BY <3>1, <3>7 DEF Reservations
  <2>5. Backed'
    <3> SUFFICES ASSUME NEW p \in Owner \ (moved \cup raced), Reservations(p)' # {} PROVE \E q \in Rows : Backs(q, p)'
      BY <1>1 DEF Backed
    <3>1. CASE p # o
      <4>1. PICK q \in Rows : Backs(q, p)
        BY <3>1 DEF PlaceInv, HomeInv, Backed
      <4> QED
        BY <1>1, <3>1, <4>1 DEF Backs
    <3>2. CASE p = o
      <4>1. PICK s \in Reservations(o) : s \notin unused
        BY <3>2
      <4>2. CASE Lives(o)
        <5>1. PICK q \in Rows : rows[q].owner = o /\ Live(q)
          BY <4>2 DEF Lives
        <5>2. \A i \in Worker : Purging(i) => job[i].row # q
          BY <5>1 DEF PlaceInv, RowInv, NotLive
        <5> QED
          BY <1>1, <3>2, <5>1, <5>2 DEF Backs, Live, Purging
      <4>3. CASE Stays(o, s, place)
        <5>1. PICK b \in Agent, q \in Rows : place[b] = s /\ rows[q].agent = b /\ rows[q].owner = o
          BY <4>3 DEF Stays
        <5>2. s # None /\ vm[b] = s /\ (b = a => ~job[w].erased)
          BY <1>3, <5>1, Constants DEF Reservations
        <5>3. PICK l \in Rows : rows[l].agent = b /\ Last(l)
          BY <5>1 DEF PlaceInv, RowInv, HasLast
        <5>4. q <= l
          BY <5>1, <5>3 DEF Last
        <5>5. rows[l].owner = o
          BY <3>2, <5>1, <5>3, <5>4, OneOwner
        <5>6. rows[l].state # "purged" /\ \A i \in Worker : Dropping(i, l)
          BY <3>2, <5>2, <5>3, <5>5 DEF PlaceInv, HomeInv, LastSound, AgentsRow
        <5>7. l # r
          BY <5>2, <5>3, <5>6 DEF Dropping
        <5> QED
          BY <1>1, <3>2, <5>5, <5>6, <5>7 DEF Backs, Dropping
      <4> QED
        BY <1>5, <4>1, <4>2, <4>3
    <3> QED
      BY <3>1, <3>2
  <2> QED
    BY <2>1, <2>2, <2>3, <2>4, <2>5 DEF HomeInv
<1>8. DataInv'
  <2>1. \A d \in Held : d.row \in Rows /\ (rows[d.row].agent \notin reused => rows[d.row].agent # a)
    BY <1>1, RefRows DEF PlaceInv, DataInv, GoneSound
  <2>2. DataSound'
    BY <1>2, <2>1 DEF PlaceInv, DataInv, DataSound
  <2>3. GoneSound'
    <3> SUFFICES ASSUME NEW i \in Worker, NEW d \in Held, Purging(i)', rows[d.row].agent = rows[job'[i].row].agent,
                        rows[d.row].agent \notin reused
                 PROVE  (job[i].pc \notin {"cleanup", "mark"} /\ (job[i].pc = "unregister" => job[i].server = d.server))'
      BY DEF GoneSound
    <3>1. i # w
      BY <1>1, <2>1
    <3> QED
      BY <1>1, <3>1 DEF PlaceInv, DataInv, GoneSound
  <2>4. ReuseSound'
    <3>1. \A q \in Rows : Owed(q)' => Owed(q)
      BY <1>1 DEF Owed
    <3> QED
      BY <1>1, <1>2, <3>1 DEF PlaceInv, DataInv, ReuseSound, Alone
  <2> QED
    BY <2>2, <2>3, <2>4 DEF DataInv
<1> QED
  BY <1>6, <1>7, <1>8 DEF PlaceInv

LEMMA ReleaseKeeps ==
    ASSUME TypeOK, PlaceInv, NEW w \in Worker, ReleaseUnused(w)
    PROVE  TypeOK' /\ PlaceInv'
<1>1. PoolTypes /\ HostTypes /\ rows \in Seq(RowShape) /\ RefTypes(Rows) /\ JobTypes(Rows)
  BY TypeParts
<1>2. /\ UNCHANGED <<draining, rows, disk, filed, data, mounted, enrolled, left, Held, moved, raced, reused>> /\ Rows' = Rows
      /\ job[w].pc = "cleanup"
  BY DEF ReleaseUnused, At, Servers, Ghosts, Rows, Held
<1>3. /\ job[w] \in [pc : {"cleanup", "mark"}, row : Rows, server : Server \cup {None}, erased : BOOLEAN]
      /\ job[w].row \in Rows
  BY <1>1, <1>2, JobFields DEF JobTypes
<1>4. PICK r \in Rows, a \in Agent, o \in Owner : r = job[w].row /\ a = rows[r].agent /\ o = rows[r].owner
  BY <1>3, RefRows
<1>5. PICK place : place = IF job[w].erased THEN DeleteServerVM(a) ELSE vm
  OBVIOUS
<1>6. PICK unused : unused = Unused(w, o, place)
  BY SMTT(30)
<1>7. /\ vm' = place
      /\ res' = [res EXCEPT ![o] = [s \in Server |-> IF s \in unused THEN 0 ELSE @[s]]]
      /\ free' = [s \in Server |-> IF s \in unused THEN ReleaseCapacity(s, res[o][s])[s] ELSE free[s]]
      /\ job' = [job EXCEPT ![w].pc = "mark"]
  BY <1>4, <1>5, <1>6 DEF ReleaseUnused, Goto
<1> DEFINE j == [job[w] EXCEPT !.pc = "mark"]
<1>8. /\ j \in [pc : {"cleanup", "mark"}, row : Rows, server : Server \cup {None}, erased : BOOLEAN]
      /\ j.pc = "mark" /\ j.row = r /\ job' = [job EXCEPT ![w] = j]
  BY <1>3, <1>4, <1>7
<1> HIDE DEF j
<1>9. j \in Jobs(Rows)
  BY <1>8 DEF Jobs, PurgeJobs
<1>10. JobTypes(Rows)' /\ OnlyJob(w, j)
  BY <1>1, <1>2, <1>8, <1>9, JobSet DEF JobTypes
<1>11. place \in [Agent -> Server \cup {None}] /\ \A b \in Agent : place[b] = IF b = a /\ job[w].erased THEN None ELSE vm[b]
  BY <1>1, <1>5 DEF HostTypes, DeleteServerVM
<1>12. /\ res' \in [Owner -> [Server -> Size \cup {0}]] /\ \A p \in Owner \ {o} : res'[p] = res[p]
       /\ \A s \in Server : res'[o][s] = IF s \in unused THEN 0 ELSE res[o][s]
  BY <1>1, <1>7 DEF PoolTypes
<1>13. Reservations(o)' = Reservations(o) \ unused /\ \A p \in Owner \ {o} : Reservations(p)' = Reservations(p)
  <2>1. \A s \in Server : res'[o][s] > 0 <=> res[o][s] > 0 /\ s \notin unused
    BY <1>12
  <2> QED
    BY <1>12, <2>1 DEF Reservations
<1>14. free' \in [Server -> 0 .. Total]
  <2>1. ASSUME NEW s \in Server PROVE ReleaseCapacity(s, res[o][s])[s] \in 0 .. Total
    <3>1. res[o][s] \in Nat
      BY <1>1, ResNat
    <3>2. ReleaseCapacity(s, res[o][s]) \in [Server -> 0 .. Total]
      BY <1>1, <3>1, FreeUp
    <3> QED
      BY <3>2
  <2> QED
    BY <1>1, <1>7, <2>1 DEF PoolTypes
<1>15. PoolTypes' /\ HostTypes' /\ RefTypes(Rows)'
  BY <1>1, <1>2, <1>7, <1>11, <1>12, <1>14, RefFrame DEF PoolTypes, HostTypes
<1>16. PlaceInv'
  BY <1>2, <1>4, <1>6, <1>7, <1>8, <1>10, <1>11, <1>13, CleanupKeeps
<1> QED
  BY <1>1, <1>2, <1>10, <1>15, <1>16, TypesNow
-----------------------------------------------------------------------------
(* The pool's bytes.                                                       *)

\* Reserved bytes as counted pairs, for any reservations f on one server.
Sum(f) == Cardinality(UNION {{o} \X (1 .. f[o]) : o \in Owner})

\* The bytes reserved by everybody but o.
Others(f, o) == UNION {{p} \X (1 .. f[p]) : p \in Owner \ {o}}

\* The block of pairs of one account.
LEMMA BlockCount ==
    ASSUME NEW o, NEW n \in Nat
    PROVE  IsFiniteSet({o} \X (1 .. n)) /\ Cardinality({o} \X (1 .. n)) = n
<1>1. IsFiniteSet({o}) /\ Cardinality({o}) = 1
  BY FS_Singleton
<1>2. 1 \in Int /\ n \in Int
  OBVIOUS
<1>3. IsFiniteSet(1 .. n) /\ Cardinality(1 .. n) = IF 1 > n THEN 0 ELSE n - 1 + 1
  BY <1>2, FS_Interval
<1>4. Cardinality(1 .. n) = n
  BY <1>3
<1>5. /\ IsFiniteSet({o} \X (1 .. n))
      /\ Cardinality({o} \X (1 .. n)) = Cardinality({o}) * Cardinality(1 .. n)
  BY <1>1, <1>3, FS_Product
<1> QED
  BY <1>1, <1>4, <1>5

\* The sum is what one account reserves and what the others do.
LEMMA SumSplit ==
    ASSUME NEW f \in [Owner -> Nat], NEW o \in Owner
    PROVE  Cardinality(Others(f, o)) \in Nat /\ Sum(f) = Cardinality(Others(f, o)) + f[o]
<1> DEFINE B == {o} \X (1 .. f[o])
           C == {{p} \X (1 .. f[p]) : p \in Owner \ {o}}
           h == [p \in Owner \ {o} |-> {p} \X (1 .. f[p])]
<1>1. IsFiniteSet(C)
  <2>1. IsFiniteSet(Owner \ {o})
    BY Constants, FS_Subset
  <2>2. h \in Surjection(Owner \ {o}, C)
    BY DEF Surjection
  <2> QED
    BY <2>1, <2>2, FS_Surjection
<1>2. \A c \in C : IsFiniteSet(c)
  <2> SUFFICES ASSUME NEW p \in Owner \ {o} PROVE IsFiniteSet({p} \X (1 .. f[p]))
    OBVIOUS
  <2>1. f[p] \in Nat
    OBVIOUS
  <2> QED
    BY <2>1, BlockCount
<1>3. IsFiniteSet(Others(f, o))
  BY <1>1, <1>2, FS_UNION DEF Others
<1>4. IsFiniteSet(B) /\ Cardinality(B) = f[o]
  BY BlockCount
<1>5. UNION {{p} \X (1 .. f[p]) : p \in Owner} = Others(f, o) \cup B
  BY DEF Others
<1>6. Others(f, o) \cap B = {}
  BY DEF Others
<1> HIDE DEF B
<1>7. Cardinality(Others(f, o) \cup B) = Cardinality(Others(f, o)) + Cardinality(B) - Cardinality(Others(f, o) \cap B)
  BY <1>3, <1>4, FS_Union
<1>8. Cardinality(Others(f, o) \cap B) = 0 /\ Cardinality(Others(f, o)) \in Nat
  BY <1>3, <1>6, FS_EmptySet, FS_CardinalityType
<1>9. Sum(f) = Cardinality(Others(f, o) \cup B)
  BY <1>5 DEF Sum
<1> QED
  BY <1>4, <1>7, <1>8, <1>9

\* One account's reservation changes from f[o] to g[o].
LEMMA SumStep ==
    ASSUME NEW f \in [Owner -> Nat], NEW g \in [Owner -> Nat], NEW o \in Owner,
           \A p \in Owner \ {o} : g[p] = f[p]
    PROVE  Sum(g) = Sum(f) - f[o] + g[o] /\ Sum(f) \in Nat /\ Sum(f) >= f[o]
<1>1. Others(g, o) = Others(f, o)
  BY DEF Others
<1>2. f[o] \in Nat /\ g[o] \in Nat
  OBVIOUS
<1> QED
  BY <1>1, <1>2, SumSplit

\* What a reservation of one account changes on server s.
LEMMA ReservedStep ==
    ASSUME PoolTypes, PoolTypes', NEW o \in Owner, \A p \in Owner \ {o} : res'[p] = res[p], NEW s \in Server
    PROVE  /\ Reserved(s)' = Reserved(s) - res[o][s] + res'[o][s]
           /\ Reserved(s) \in Nat /\ Reserved(s) >= res[o][s] /\ res[o][s] \in Nat /\ res'[o][s] \in Nat
<1>1. \A p \in Owner : res[p][s] \in Nat /\ res'[p][s] \in Nat
  <2>1. \A n \in Size \cup {0} : n \in Nat
    BY CapacityAssumption
  <2>2. \A p \in Owner : res[p][s] \in Size \cup {0} /\ res'[p][s] \in Size \cup {0}
    BY DEF PoolTypes
  <2> QED
    BY <2>1, <2>2
<1> DEFINE f == [p \in Owner |-> res[p][s]]
           g == [p \in Owner |-> res'[p][s]]
<1>2. f \in [Owner -> Nat] /\ g \in [Owner -> Nat] /\ f[o] = res[o][s] /\ g[o] = res'[o][s] /\ \A p \in Owner \ {o} : g[p] = f[p]
  BY <1>1
<1>3. Reserved(s) = Sum(f) /\ Reserved(s)' = Sum(g)
  BY DEF Reserved, Sum
<1> HIDE DEF f, g
<1> QED
  BY <1>1, <1>2, <1>3, SumStep

\* A purge that gives a reservation back, or a smaller budget, is never cut
\* off at the server's total.
LEMMA RoomBack ==
    ASSUME PoolTypes, PoolConserved, NEW o \in Owner, NEW s \in Server \ patched
    PROVE  free[s] + res[o][s] <= Total /\ free[s] \in Nat /\ res[o][s] \in Nat
<1>1. \A p \in Owner : res[p][s] \in Nat
  BY ResNat
<1> DEFINE f == [p \in Owner |-> res[p][s]]
<1>2. f \in [Owner -> Nat] /\ f[o] = res[o][s] /\ Reserved(s) = Sum(f)
  BY <1>1 DEF Reserved, Sum
<1> HIDE DEF f
<1>3. Reserved(s) \in Nat /\ Reserved(s) >= res[o][s]
  BY <1>2, SumStep
<1>4. free[s] \in Nat /\ free[s] + Reserved(s) = Total
  BY Constants DEF PoolTypes, PoolConserved
<1> QED
  BY <1>1, <1>3, <1>4, Constants

\* One account's reservations change, and the free bytes with them.
LEMMA PoolStep ==
    ASSUME PoolTypes, PoolTypes', PoolConserved, patched' = patched, NEW o \in Owner, \A p \in Owner \ {o} : res'[p] = res[p],
           \A s \in Server \ patched : free'[s] = free[s] + res[o][s] - res'[o][s]
    PROVE  PoolConserved'
<1> SUFFICES ASSUME NEW s \in Server \ patched PROVE free'[s] + Reserved(s)' = Total
  BY DEF PoolConserved
<1>1. /\ Reserved(s)' = Reserved(s) - res[o][s] + res'[o][s] /\ Reserved(s) \in Nat
      /\ res[o][s] \in Nat /\ res'[o][s] \in Nat
  BY ReservedStep
<1>2. free[s] \in Nat /\ free[s] + Reserved(s) = Total
  BY Constants DEF PoolTypes, PoolConserved
<1> QED
  BY <1>1, <1>2

\* A PATCH that was begun is on a server that is known to be patched.
UndoSound == \A w \in Worker : job[w].pc = "undo" => job[w].server \in patched
UndoStays == \A w \in Worker : job'[w].pc = "undo" => job'[w] = job[w]
PoolInv == PoolConserved /\ UndoSound

LEMMA PoolFrame ==
    ASSUME PoolInv, res' = res, patched \subseteq patched', \A s \in Server \ patched' : free'[s] = free[s]
    PROVE  PoolConserved'
BY DEF PoolInv, PoolConserved, Reserved

LEMMA PoolQuiet == ASSUME PoolInv, UNCHANGED <<free, res, patched>>, UndoStays PROVE PoolInv'
<1>1. PoolConserved'
  BY PoolFrame
<1>2. UndoSound'
  BY DEF PoolInv, UndoSound, UndoStays
<1> QED
  BY <1>1, <1>2 DEF PoolInv

LEMMA JobUndo ==
    ASSUME JobTypes(Rows), NEW w \in Worker, NEW j, job' = [job EXCEPT ![w] = j], j.pc # "undo"
    PROVE  UndoStays
BY DEF JobTypes, UndoStays
\* Enrolments, purges and the entity API, except where they reserve or release.
LEMMA PoolRest ==
    ASSUME TypeOK, PoolInv,
           \/ \E a \in Agent, o \in Owner, size \in Size : handleProvision(a, o, size)
           \/ \E a \in Agent, o \in Owner : handleReassign(a, o)
           \/ \E r \in Rows : Mount(r)
           \/ \E m \in mounted : WriteData(m)
           \/ \E s \in Server : SetStatus(s) \/ Reboot(s)
           \/ UNCHANGED vars
    PROVE  PoolInv'
<1>1. UNCHANGED <<free, res, patched, job>>
  BY DEF handleProvision, handleReassign, Mount, WriteData, SetStatus, Reboot, vars, Database, Ghosts
<1>2. UndoStays
  BY <1>1 DEF UndoStays
<1> QED
  BY <1>1, <1>2, PoolQuiet

LEMMA PoolJobs ==
    ASSUME TypeOK, PoolInv, NEW w \in Worker,
           \/ \E a \in Agent : handleDelete(w, a)
           \/ \E r \in Rows : sweep(w, r)
           \/ \E r \in Rows : handleEnroll(w, r)
           \/ Place(w) \/ Mint(w) \/ PurgeAllocation(w) \/ markPurged(w) \/ Die(w)
           \/ \E ok \in BOOLEAN : registerTenant(w, ok)
           \/ \E ok, removed, dropped \in BOOLEAN : unregisterTenant(w, ok, removed, dropped)
           \/ StampBudget(w)
    PROVE  PoolInv'
<1>1. job \in [Worker -> Jobs(Rows)]
  BY TypeParts DEF JobTypes
<1>2. UNCHANGED <<free, res, patched>>
  BY DEF handleDelete, sweep, handleEnroll, Place, Mint, PurgeAllocation, markPurged, Die, registerTenant, unregisterTenant,
         StampBudget, Database, Ghosts
<1>3. ASSUME job'[w].pc # "undo", \A i \in Worker : i # w => job'[i] = job[i] PROVE PoolInv'
  BY <1>2, <1>3, PoolQuiet DEF UndoStays
<1>4. CASE Done(w)
  BY <1>1, <1>3, <1>4 DEF Done, Idle
<1>5. ASSUME NEW a \in Agent, handleDelete(w, a) PROVE PoolInv'
  BY <1>1, <1>3, <1>5 DEF handleDelete, Begin
<1>6. ASSUME NEW r \in Rows, sweep(w, r) PROVE PoolInv'
  BY <1>1, <1>3, <1>6 DEF sweep, Begin
<1>7. ASSUME NEW r \in Rows, handleEnroll(w, r) PROVE PoolInv'
  BY <1>1, <1>3, <1>7 DEF handleEnroll, Begin
<1>8. CASE Place(w)
  BY <1>1, <1>3, <1>8 DEF Place, Become
<1>9. CASE Mint(w) \/ markPurged(w) \/ Die(w)
  BY <1>4, <1>9 DEF Mint, markPurged, Die
<1>10. CASE PurgeAllocation(w)
  <2>1. CASE ~Done(w)
    BY <1>1, <1>3, <1>10, <2>1 DEF PurgeAllocation, Become
  <2> QED
    BY <1>4, <2>1
<1>11. ASSUME NEW ok \in BOOLEAN, registerTenant(w, ok) PROVE PoolInv'
  <2>1. CASE Goto(w, "place")
    <3>1. job[w] \in [pc : {"register", "place"}, row : Rows, owner : Owner, server : Server]
      BY <1>1, <1>11, JobFields DEF registerTenant, At
    <3> QED
      BY <1>1, <1>3, <2>1, <3>1 DEF Goto
  <2> QED
    BY <1>4, <1>11, <2>1 DEF registerTenant
<1>12. ASSUME NEW ok \in BOOLEAN, NEW removed \in BOOLEAN, NEW dropped \in BOOLEAN,
             unregisterTenant(w, ok, removed, dropped)
      PROVE  PoolInv'
  <2>1. CASE job' = [job EXCEPT ![w].pc = "cleanup", ![w].erased = TRUE]
    <3>1. job[w] \in [pc : {"unregister"}, row : Rows, server : Server, erased : BOOLEAN]
      BY <1>1, <1>12, JobFields DEF unregisterTenant, At
    <3> QED
      BY <1>1, <1>3, <2>1, <3>1
  <2> QED
    BY <1>4, <1>12, <2>1 DEF unregisterTenant
<1>13. CASE StampBudget(w)
  <2>1. ASSUME NEW r, job' = [job EXCEPT ![w].todo = @ \ {r}] PROVE PoolInv'
    <3>1. job[w].pc = "stamp"
      BY <1>13 DEF StampBudget, At
    <3> QED
      BY <1>1, <1>3, <2>1, <3>1
  <2> QED
    BY <1>4, <1>13, <2>1 DEF StampBudget
<1> QED
  BY <1>5, <1>6, <1>7, <1>8, <1>9, <1>10, <1>11, <1>12, <1>13

\* A PATCH moves the bytes of its server only, and so does its undoing.
LEMMA PoolPatch ==
    ASSUME TypeOK, PoolInv, NEW w \in Worker, NEW a \in Agent, NEW size \in Size, Resize(w, a, size)
    PROVE  PoolInv'
<1>1. PoolTypes /\ HostTypes /\ JobTypes(Rows)
  BY TypeParts
<1>2. CASE vm[a] = None
  <2>1. UNCHANGED <<free, res, patched, job>>
    BY <1>2 DEF Resize
  <2> QED
    BY <2>1, PoolQuiet DEF UndoStays
<1>3. CASE vm[a] # None
  <2>1. PICK s \in Server : s = vm[a]
    BY <1>1, <1>3 DEF HostTypes
  <2>2. PICK delta : job' = [job EXCEPT ![w] = [pc |-> "undo", server |-> s, delta |-> delta]]
    BY <1>3, <2>1 DEF Resize, Begin
  <2>3. patched' = patched \cup {s} /\ res' = res
    BY <1>3, <2>1 DEF Resize
  <2>4. \A t \in Server \ {s} : free'[t] = free[t]
    BY <1>1, <1>3, <2>1 DEF Resize, ReserveCapacity, ReleaseCapacity, PoolTypes
  <2>5. PoolConserved'
    BY <2>3, <2>4, PoolFrame
  <2>6. UndoSound'
    BY <1>1, <2>2, <2>3 DEF PoolInv, UndoSound, JobTypes
  <2> QED
    BY <2>5, <2>6 DEF PoolInv
<1> QED
  BY <1>2, <1>3

LEMMA PoolUndo ==
    ASSUME TypeOK, PoolInv, NEW w \in Worker, compensatePoolDelta(w)
    PROVE  PoolInv'
<1>1. PoolTypes /\ JobTypes(Rows)
  BY TypeParts
<1>2. job[w].pc = "undo" /\ job[w].server \in Server /\ job[w].server \in patched
  BY <1>1, JobFields DEF compensatePoolDelta, At, PoolInv, UndoSound, JobTypes
<1>3. PICK s \in Server : s = job[w].server
  BY <1>2
<1>4. \A t \in Server \ {s} : free'[t] = free[t]
  BY <1>1, <1>3 DEF compensatePoolDelta, ReserveCapacity, ReleaseCapacity, PoolTypes
<1>5. UNCHANGED <<res, patched>> /\ job' = [job EXCEPT ![w] = Idle]
  BY DEF compensatePoolDelta, Ghosts, Done
<1>6. PoolConserved'
  BY <1>2, <1>3, <1>4, <1>5, PoolFrame
<1>7. UndoSound'
  BY <1>1, <1>5, IdleJob DEF PoolInv, UndoSound, JobTypes
<1> QED
  BY <1>6, <1>7 DEF PoolInv

\* An enrolment takes what it reserves.
LEMMA PoolReserve ==
    ASSUME TypeOK, PlaceInv, PoolInv, NEW w \in Worker, Reserve(w)
    PROVE  PoolInv'
<1>1. PoolTypes /\ JobTypes(Rows) /\ PoolTypes' /\ patched' = patched
  <2>1. TypeOK'
    BY ReserveKeeps
  <2> QED
    BY <2>1, TypeParts DEF Reserve, TypeOK, PoolTypes
<1>2. PICK k \in Jobs(Rows) : k = job[w] /\ k.pc = "reserve"
  BY <1>1 DEF JobTypes, Reserve, At
<1>3. PICK o \in Owner, size \in Size : o = k.owner /\ size = k.size
  BY <1>2, JobFields
<1>4. PICK s : s = HomeOf(o, size)
  OBVIOUS
<1>5. UndoStays
  <2>1. \E j : job' = [job EXCEPT ![w] = j] /\ j.pc # "undo"
    <3>1. Idle.pc # "undo"
      BY DEF Idle
    <3> QED
      BY <3>1 DEF Reserve, Become, Done
  <2> QED
    BY <1>1, <2>1, JobUndo
<1>6. CASE UNCHANGED <<free, res>>
  BY <1>1, <1>5, <1>6, PoolQuiet
<1>7. CASE ~UNCHANGED <<free, res>>
  <2>1. ~(res[o][s] > 0) /\ free' = ReserveCapacity(s, size) /\ res' = CreateReservation(o, s, size) /\ s # None
    BY <1>2, <1>3, <1>4, <1>7 DEF Reserve
  <2>2. s \in Server
    BY <1>4, <2>1, HomeFacts DEF PlaceInv, HomeInv
  <2>3. res[o][s] = 0
    BY <1>1, <2>1, <2>2, ResNat
  <2>4. /\ \A p \in Owner \ {o} : res'[p] = res[p]
        /\ res'[o][s] = size /\ \A t \in Server \ {s} : res'[o][t] = res[o][t]
        /\ free'[s] = free[s] - size /\ \A t \in Server \ {s} : free'[t] = free[t]
    BY <1>1, <2>1, <2>2 DEF CreateReservation, ReserveCapacity, PoolTypes
  <2>5. \A t \in Server : free[t] \in Int /\ res[o][t] \in Int /\ size \in Int
    BY <1>1, ResNat, Constants DEF PoolTypes
  <2>6. \A t \in Server \ patched : free'[t] = free[t] + res[o][t] - res'[o][t]
    BY <2>2, <2>3, <2>4, <2>5
  <2>7. PoolConserved'
    BY <1>1, <2>4, <2>6, PoolStep DEF PoolInv
  <2> QED
    BY <1>1, <1>5, <2>7 DEF PoolInv, UndoSound, UndoStays
<1> QED
  BY <1>6, <1>7

\* A purge gives back what is unused, and all of it counts.
LEMMA PoolRelease ==
    ASSUME TypeOK, PlaceInv, PoolInv, NEW w \in Worker, ReleaseUnused(w)
    PROVE  PoolInv'
<1>1. PoolTypes /\ JobTypes(Rows) /\ PoolTypes' /\ patched' = patched
  <2>1. TypeOK'
    BY ReleaseKeeps
  <2> QED
    BY <2>1, TypeParts DEF ReleaseUnused, Ghosts, TypeOK, PoolTypes
<1>2. job[w].row \in Rows
  BY RefRows DEF ReleaseUnused, At, Purging
<1>3. PICK o \in Owner : o = rows[job[w].row].owner
  BY SMTT(30), <1>2, RefRows
<1>4. PICK unused : /\ res' = [res EXCEPT ![o] = [s \in Server |-> IF s \in unused THEN 0 ELSE @[s]]]
                    /\ free' = [s \in Server |-> IF s \in unused THEN ReleaseCapacity(s, res[o][s])[s] ELSE free[s]]
  BY <1>3 DEF ReleaseUnused
<1>5. /\ \A p \in Owner \ {o} : res'[p] = res[p]
      /\ \A s \in Server : res'[o][s] = IF s \in unused THEN 0 ELSE res[o][s]
      /\ \A s \in Server : free'[s] = IF s \in unused THEN Capped(free[s] + res[o][s]) ELSE free[s]
  BY <1>1, <1>4 DEF PoolTypes, ReleaseCapacity
<1>6. ASSUME NEW s \in Server \ patched PROVE free'[s] = free[s] + res[o][s] - res'[o][s]
  <2>1. free[s] + res[o][s] <= Total /\ free[s] \in Nat /\ res[o][s] \in Nat
    BY <1>1, RoomBack DEF PoolInv
  <2> QED
    BY <1>5, <2>1, Constants DEF Capped
<1>7. PoolConserved'
  BY <1>1, <1>5, <1>6, PoolStep DEF PoolInv
<1>8. UndoStays
  <2>1. job' = [job EXCEPT ![w].pc = "mark"] /\ job[w].pc = "cleanup"
    BY DEF ReleaseUnused, Goto, At
  <2>2. job[w] \in [pc : {"cleanup", "mark"}, row : Rows, server : Server \cup {None}, erased : BOOLEAN]
    BY <1>1, <2>1, JobFields DEF JobTypes
  <2> QED
    BY <1>1, <2>1, <2>2 DEF UndoStays, JobTypes
<1> QED
  BY SMTT(30), <1>1, <1>7, <1>8 DEF PoolInv, UndoSound, UndoStays

\* A new budget moves every reservation of the account by what it changes.
LEMMA PoolBudget ==
    ASSUME TypeOK, PoolInv, NEW w \in Worker, NEW o \in Owner, NEW size \in Size, ResizeOwnerCapacity(w, o, size)
    PROVE  PoolInv'
<1>1. PoolTypes /\ JobTypes(Rows) /\ PoolTypes' /\ patched' = patched
  <2>1. TypeOK'
    BY BudgetQuiet
  <2> QED
    BY <2>1, TypeParts DEF ResizeOwnerCapacity, Ghosts, TypeOK, PoolTypes
<1>2. size \in Nat /\ \A s \in Server : res[o][s] \in Nat
  BY <1>1, ResNat, Constants
<1>3. /\ \A p \in Owner \ {o} : res'[p] = res[p]
      /\ \A s \in Server : res'[o][s] = IF res[o][s] > 0 THEN size ELSE 0
      /\ \A s \in Server : free'[s] = IF res[o][s] > 0 THEN Capped(free[s] + res[o][s] - size) ELSE free[s]
  BY <1>1 DEF PoolTypes, ResizeOwnerCapacity, Resized, Reservations
<1>4. ASSUME NEW s \in Server \ patched PROVE free'[s] = free[s] + res[o][s] - res'[o][s]
  <2>1. free[s] + res[o][s] <= Total /\ free[s] \in Nat /\ res[o][s] \in Nat
    BY <1>1, RoomBack DEF PoolInv
  <2> QED
    BY <1>2, <1>3, <2>1, Constants DEF Capped
<1>5. PoolConserved'
  BY <1>1, <1>3, <1>4, PoolStep DEF PoolInv
<1>6. UndoStays
  <2> DEFINE j == [pc |-> "stamp", owner |-> o, size |-> size, todo |-> {r \in Rows : SizeUpdates(r, o)}]
  <2>1. job' = [job EXCEPT ![w] = j] /\ j.pc # "undo"
    BY DEF ResizeOwnerCapacity, Begin
  <2> HIDE DEF j
  <2> QED
    BY <1>1, <2>1, JobUndo
<1> QED
  BY <1>1, <1>5, <1>6 DEF PoolInv, UndoSound, UndoStays
-----------------------------------------------------------------------------
(* The theorems.                                                           *)

CapacityInv == TypeOK /\ PlaceInv /\ PoolInv

LEMMA InitHolds == Init => CapacityInv
<1> SUFFICES ASSUME Init PROVE CapacityInv
  OBVIOUS
<1>1. Rows = {} /\ rows \in Seq(RowShape)
  BY DEF Init, Rows
<1>2. \A w \in Worker : job[w] = Idle /\ job[w].pc = "idle" /\ ~Purging(w)
  BY DEF Init, Idle, Purging
<1>3. \A o \in Owner : Reservations(o) = {}
  BY DEF Init, Reservations
<1>4. TypeOK
  <2>1. PoolTypes
    BY Constants DEF Init, PoolTypes
  <2>2. HostTypes /\ RefTypes(Rows)
    BY DEF Init, HostTypes, RefTypes
  <2>3. JobTypes(Rows)
    BY IdleJob DEF Init, JobTypes
  <2> QED
    BY <1>1, <2>1, <2>2, <2>3, TypeParts
<1>5. RowInv
  BY <1>1, <1>2 DEF Init, RowInv, LiveLast, NotLive, HasLast, HasRow, OwnersSame
<1>6. HomeInv
  BY <1>1, <1>2, <1>3 DEF HomeInv, OneHome, LastSound, JobHome, HomeSound, Backed
<1>7. DataInv
  BY <1>1, <1>2 DEF Init, DataInv, DataSound, GoneSound, ReuseSound, Held
<1>8. PoolConserved
  <2> SUFFICES ASSUME NEW s \in Server PROVE Total + Reserved(s) = Total
    BY DEF Init, PoolConserved
  <2>1. UNION {{o} \X (1 .. res[o][s]) : o \in Owner} = {}
    <3>1. \A o \in Owner : 1 .. res[o][s] = {}
      BY DEF Init
    <3> QED
      BY <3>1
  <2>2. Reserved(s) = 0
    BY <2>1, FS_EmptySet DEF Reserved
  <2> QED
    BY <2>2, Constants
<1> QED
  BY <1>2, <1>4, <1>5, <1>6, <1>7, <1>8 DEF CapacityInv, PlaceInv, PoolInv, UndoSound

LEMMA NextKeeps == CapacityInv /\ [Next]_vars => CapacityInv'
<1> SUFFICES ASSUME TypeOK, PlaceInv, PoolInv, [Next]_vars PROVE CapacityInv'
  BY DEF CapacityInv
<1>1. ASSUME NEW a \in Agent, NEW o \in Owner, NEW size \in Size, handleProvision(a, o, size) PROVE CapacityInv'
  BY <1>1, ProvisionKeeps, PoolRest DEF CapacityInv
<1>2. ASSUME NEW a \in Agent, NEW o \in Owner, handleReassign(a, o) PROVE CapacityInv'
  BY <1>2, ReassignKeeps, PoolRest DEF CapacityInv
<1>3. ASSUME NEW m \in mounted, WriteData(m) PROVE CapacityInv'
  BY <1>3, EntityQuiet, QuietKeeps, PoolRest DEF CapacityInv
<1>4. ASSUME NEW r \in Rows, Mount(r) PROVE CapacityInv'
  BY <1>4, MountKeeps, PoolRest DEF CapacityInv
<1>5. ASSUME NEW s \in Server, SetStatus(s) \/ Reboot(s) PROVE CapacityInv'
  BY <1>5, EntityQuiet, QuietKeeps, PoolRest DEF CapacityInv
<1>6. CASE UNCHANGED vars
  BY <1>6, EntityQuiet, QuietKeeps, PoolRest DEF CapacityInv
<1>7. ASSUME NEW w \in Worker, NEW a \in Agent, handleDelete(w, a) PROVE CapacityInv'
  BY <1>7, DeleteKeeps, PoolJobs DEF CapacityInv
<1>8. ASSUME NEW w \in Worker, NEW r \in Rows, sweep(w, r) PROVE CapacityInv'
  BY <1>8, SweepKeeps, PoolJobs DEF CapacityInv
<1>9. ASSUME NEW w \in Worker, NEW r \in Rows, handleEnroll(w, r) PROVE CapacityInv'
  BY <1>9, EnrollQuiet, QuietKeeps, PoolJobs DEF CapacityInv
<1>10. ASSUME NEW w \in Worker, NEW a \in Agent, NEW size \in Size, Resize(w, a, size) PROVE CapacityInv'
  BY <1>10, ResizeQuiet, QuietKeeps, PoolPatch DEF CapacityInv
<1>11. ASSUME NEW w \in Worker, NEW o \in Owner, NEW size \in Size, ResizeOwnerCapacity(w, o, size) PROVE CapacityInv'
  BY <1>11, BudgetQuiet, QuietKeeps, PoolBudget DEF CapacityInv
<1>12. ASSUME NEW w \in Worker, Reserve(w) PROVE CapacityInv'
  BY <1>12, ReserveKeeps, PoolReserve DEF CapacityInv
<1>13. ASSUME NEW w \in Worker, Place(w) PROVE CapacityInv'
  BY <1>13, PlaceKeeps, PoolJobs DEF CapacityInv
<1>14. ASSUME NEW w \in Worker, Mint(w) PROVE CapacityInv'
  BY <1>14, MintQuiet, QuietKeeps, PoolJobs DEF CapacityInv
<1>15. ASSUME NEW w \in Worker, NEW ok \in BOOLEAN, registerTenant(w, ok) PROVE CapacityInv'
  BY <1>15, RegisterQuiet, QuietKeeps, PoolJobs DEF CapacityInv
<1>16. ASSUME NEW w \in Worker, NEW ok \in BOOLEAN, NEW removed \in BOOLEAN, NEW dropped \in BOOLEAN,
             unregisterTenant(w, ok, removed, dropped)
      PROVE  CapacityInv'
  BY <1>16, UnregisterKeeps, PoolJobs DEF CapacityInv
<1>17. ASSUME NEW w \in Worker, PurgeAllocation(w) PROVE CapacityInv'
  BY <1>17, PurgeReads, PoolJobs DEF CapacityInv
<1>18. ASSUME NEW w \in Worker, ReleaseUnused(w) PROVE CapacityInv'
  BY <1>18, ReleaseKeeps, PoolRelease DEF CapacityInv
<1>19. ASSUME NEW w \in Worker, markPurged(w) PROVE CapacityInv'
  BY <1>19, MarkKeeps, PoolJobs DEF CapacityInv
<1>20. ASSUME NEW w \in Worker, compensatePoolDelta(w) PROVE CapacityInv'
  BY <1>20, UndoQuiet, QuietKeeps, PoolUndo DEF CapacityInv
<1>21. ASSUME NEW w \in Worker, StampBudget(w) PROVE CapacityInv'
  BY <1>21, StampQuiet, QuietKeeps, PoolJobs DEF CapacityInv
<1>22. ASSUME NEW w \in Worker, Die(w) PROVE CapacityInv'
  BY <1>22, DieQuiet, QuietKeeps, PoolJobs DEF CapacityInv
<1>23. ASSUME NEW w \in Worker, Start(w) PROVE CapacityInv'
  BY <1>7, <1>8, <1>9, <1>10, <1>11, <1>23 DEF Start
<1>24. ASSUME NEW w \in Worker, Step(w) PROVE CapacityInv'
  BY <1>12, <1>13, <1>14, <1>15, <1>16, <1>17, <1>18, <1>19, <1>20, <1>21, <1>24 DEF Step
<1>25. CASE Entities
  BY <1>1, <1>2, <1>3, <1>4, <1>5, <1>25 DEF Entities
<1> QED
  BY <1>6, <1>22, <1>23, <1>24, <1>25 DEF Next

LEMMA CapacityAlways == Spec => []CapacityInv
BY InitHolds, NextKeeps, PTL DEF Spec

\* Every variable keeps its type: whatever is reserved, released, patched,
\* compensated and re-budgeted at once, a server's free bytes stay between
\* zero and its total.
THEOREM CapacityTypes == Spec => []TypeOK
<1>1. CapacityInv => TypeOK
  BY DEF CapacityInv
<1> QED
  BY <1>1, CapacityAlways, PTL

\* The pool is conserved: on every server that no PATCH of one disk has
\* touched, free bytes and the accounts' reservations add up to the total,
\* through any races, crashes and retries of enrolments, purges and budgets.
THEOREM PoolAlwaysConserved == Spec => []PoolConserved
<1>1. CapacityInv => PoolConserved
  BY DEF CapacityInv, PoolInv
<1> QED
  BY <1>1, CapacityAlways, PTL

\* A live, placed disk is on the one server where its owner has reserved
\* capacity, unless it changed owners or an enrolment outlived its row.
THEOREM PlacementsAlwaysBacked == Spec => []PlacementsBacked
<1>1. CapacityInv => PlacementsBacked
  BY DEF CapacityInv, PlaceInv, HomeInv, HomeSound, PlacementsBacked
<1> QED
  BY <1>1, CapacityAlways, PTL

\* Nothing of what a disk's pod wrote is left on any server when its row is
\* marked purged, although the pod may go on writing after the revocation,
\* unless an unregistration left it there (the directory could not be removed,
\* or the server had not loaded the tenant) or the agent was provisioned again
\* too early.
THEOREM PurgedIsErased == Spec => []ErasedWhenPurged
<1>1. CapacityInv => ErasedWhenPurged
  BY DEF CapacityInv, PlaceInv, DataInv, DataSound, ErasedWhenPurged, Held
<1> QED
  BY <1>1, CapacityAlways, PTL

\* The capacity of an account whose disks are all purged is back in the pool,
\* unless it gave a disk away or an enrolment outlived the row of one of its
\* agents.
THEOREM CapacityComesBack == Spec => []CapacityReturned
<1>1. CapacityInv => CapacityReturned
  BY DEF CapacityInv, PlaceInv, HomeInv, Backed, Backs, CapacityReturned
<1> QED
  BY <1>1, CapacityAlways, PTL

\* No step removes what the pod of a live disk wrote, but for an agent that
\* was provisioned again before the purge of its last disk was over: the code's
\* promise that a purge only erases what was revoked, with its one exception.
LiveDataKept == [][\A d \in data \ data' : Live(d.row) => rows[d.row].agent \in reused]_vars

THEOREM LiveDataIsKept == Spec => LiveDataKept
<1>1. CapacityInv /\ [Next]_vars => [\A d \in data \ data' : Live(d.row) => rows[d.row].agent \in reused]_vars
  <2> SUFFICES ASSUME TypeOK, PlaceInv, Next, NEW d \in data, d \notin data', Live(d.row)
               PROVE  rows[d.row].agent \in reused
    BY DEF CapacityInv
  <2>1. PICK w \in Worker : \E ok, removed, dropped \in BOOLEAN : unregisterTenant(w, ok, removed, dropped)
    <3>1. ~Entities
      BY DEF Entities, handleProvision, handleReassign, Mount, WriteData, SetStatus, Reboot, Servers
    <3>2. PICK w \in Worker : Start(w) \/ Step(w) \/ Die(w)
      BY <3>1 DEF Next
    <3>3. ~Start(w) /\ ~Die(w)
      BY DEF Start, handleDelete, sweep, handleEnroll, Resize, ResizeOwnerCapacity, Die, Servers
    <3>4. ~(Reserve(w) \/ Place(w) \/ Mint(w) \/ \E ok \in BOOLEAN : registerTenant(w, ok))
      BY DEF Reserve, Place, Mint, registerTenant, Servers
    <3>5. ~(PurgeAllocation(w) \/ ReleaseUnused(w) \/ markPurged(w) \/ compensatePoolDelta(w) \/ StampBudget(w))
      BY DEF PurgeAllocation, ReleaseUnused, markPurged, compensatePoolDelta, StampBudget, Servers
    <3> QED
      BY <3>2, <3>3, <3>4, <3>5 DEF Step
  <2>2. job[w].pc = "unregister" /\ Purging(w) /\ rows[d.row].agent = rows[job[w].row].agent
    BY <2>1 DEF unregisterTenant, At, Purging, Belongings
  <2>3. job[w].row \in Rows /\ d.row \in Rows /\ ~Live(job[w].row) /\ Owed(job[w].row)
    BY <2>2, RefRows DEF PlaceInv, RowInv, NotLive, Owed, TypeOK
  <2>4. Alone(d.row, job[w].row)
    BY <2>3 DEF PlaceInv, DataInv, ReuseSound
  <2> QED
    BY <2>2, <2>3, <2>4 DEF Alone
<1> QED
  BY <1>1, CapacityAlways, PTL DEF Spec, LiveDataKept

=============================================================================
