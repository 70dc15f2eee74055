------------------------- MODULE TenantQuota_proofs -------------------------
(***************************************************************************)
(* Theorems about TenantQuota, for any number of tenants, accounts,        *)
(* budgets and handlers, any unit and margin, any failures and restarts.   *)
(***************************************************************************)
EXTENDS TenantQuota, TLAPS

-----------------------------------------------------------------------------
(* The inductive invariant of the registry.                                *)

ReqShape == [op : {"none", "register", "account", "resize", "unregister"},
             pc : {"idle", "quota", "lookup", "command", "open", "erase", "load", "write"},
             t : Tenant \cup {None}, o : Owner \cup {None}, size : Nat]

RegistryTypes ==
    /\ live \subseteq Tenant /\ saved \subseteq Tenant /\ dirs \subseteq Tenant /\ unsaved \subseteq Tenant
    /\ uprooted \subseteq Tenant
    /\ regFile \in [by : Slot \cup {None}, had : SUBSET Tenant]
    /\ req \in [Slot -> ReqShape]

Filed(t) == t \in unsaved \/ (t \in live <=> t \in saved)
Rooted(t) == t \in dirs \cup uprooted
Agrees(t) == (t \in live => Rooted(t)) /\ Filed(t)

Early == {"quota", "lookup", "command", "open"}    \* before the map is changed
Late == {"load", "write"}                           \* after it

\* What a request has done to its tenant so far.
HandlerSound(s) ==
    /\ req[s].op = "none" => req[s] = Idle
    /\ req[s].op = "register" =>
          /\ req[s].t \in Tenant /\ Rooted(req[s].t) /\ req[s].pc \in Early \cup Late
          /\ req[s].pc \in Early => Filed(req[s].t)
          /\ req[s].pc \in Late => req[s].t \in live
    /\ req[s].op = "account" => req[s].t = None /\ req[s].pc \in {"quota", "lookup", "command"}
    /\ req[s].op = "resize" => req[s].t \in Tenant /\ req[s].pc \in {"quota", "command"} /\ Agrees(req[s].t)
    /\ req[s].op = "unregister" => req[s].t \in Tenant \ live /\ req[s].pc \in {"erase"} \cup Late
    /\ req[s].op # "none" => req[s].o \in Owner
    /\ req[s].pc \in {"quota", "lookup", "command"} => req[s].size # 0

\* One request at a time works on a tenant.
Locks == \A s1, s2 \in Slot : req[s1].t = req[s2].t /\ req[s1].t # None => s1 = s2

\* regFileMu: who is about to write has loaded what the file still has.
FileLock == \A s \in Slot : req[s].pc = "write" => regFile.by = s /\ regFile.had = saved

RegistryInv ==
    /\ RegistryTypes /\ Locks /\ FileLock
    /\ \A s \in Slot : HandlerSound(s)
    /\ \A t \in Tenant : LockFree(t) => Agrees(t)

-----------------------------------------------------------------------------
(* The inductive invariant of the quotas.                                  *)

RecShape == [id : Nat, size : Nat]
Records == [Owner -> RecShape \cup {None}]
Commands == [by : Slot \cup {"applier"}, o : Owner, size : Nat, kind : {"allocate", "resize"}]

ManagerTypes ==
    /\ quota \in Records /\ nextId \in Nat /\ disk \in [quota : Records, nextId : Nat]
    /\ cap \in [Owner -> Nat] /\ command \in Commands \cup {None}
    /\ torn \subseteq Owner /\ raced \subseteq Owner

\* Records have ids below the next one, and no two have the same.
WellNumbered(q, n) ==
    /\ \A o \in Owner : q[o] # None => q[o].id < n
    /\ \A o, p \in Owner : o # p /\ q[o] # None /\ q[p] # None => q[o].id # q[p].id

On(o) == command # None /\ command.o = o
Allocating(o) == On(o) /\ command.kind = "allocate"

\* The record of a running allocation is the last one made.
RunningSound ==
    command # None =>
        /\ quota[command.o] # None
        /\ command.kind = "allocate" =>
              quota[command.o].id = nextId - 1 /\ quota[command.o].size = command.size

\* The limit is the record's.
LimitSound(o) == quota[o] # None /\ o \notin torn /\ ~Allocating(o) => cap[o] = limit(quota[o].size)

ManagerInv ==
    /\ ManagerTypes /\ RunningSound
    /\ WellNumbered(quota, nextId) /\ WellNumbered(disk.quota, disk.nextId)
    /\ \A o \in Owner : LimitSound(o)

ApplierTypes ==
    /\ pending \in [Owner -> Nat] /\ want \in [Owner -> Nat]
    /\ worker \in [pc : {"idle", "drain", "command", "settle"}, todo : [Owner -> Nat],
                   cur : Owner \cup {None}, ok : BOOLEAN, failed : BOOLEAN]

\* The manager's mutex is with the applier or with one handler; handlers
\* allocate only when there is no applier.
HolderSound ==
    /\ command # None =>
          /\ command.size # 0
          /\ command.by = "applier" =>
                worker.pc = "command" /\ worker.cur = command.o /\ worker.todo[command.o] = command.size
          /\ command.by # "applier" =>
                /\ req[command.by].pc = "command"
                /\ req[command.by].o = command.o /\ req[command.by].size = command.size
                /\ command.kind = "allocate" => ~async
    /\ worker.pc = "command" => command # None /\ command.by = "applier"
    /\ \A s \in Slot : req[s].pc = "command" => command # None /\ command.by = s

\* The applier works off what is pending; without it nothing is.
WorkerSound ==
    /\ \A o \in Owner : worker.todo[o] # 0 => pending[o] # 0
    /\ \A o \in Owner : pending[o] # 0 => async
    /\ worker.pc \in {"command", "settle"} => worker.cur \in Owner /\ worker.todo[worker.cur] # 0

\* What is pending is the promise; when nothing is, the record is.  What the
\* applier has applied is recorded.
PromiseSound(o) ==
    want[o] # 0 => IF pending[o] # 0 THEN pending[o] = want[o]
                   ELSE o \notin torn \cup raced /\ ~On(o) => Recorded(o, want[o])
AppliedSound(o) ==
    worker.pc = "settle" /\ worker.ok /\ worker.cur = o /\ o \notin torn \cup raced => Recorded(o, worker.todo[o])

PromiseInv ==
    /\ ApplierTypes /\ HolderSound /\ WorkerSound
    /\ \A o \in Owner : PromiseSound(o) /\ AppliedSound(o)

-----------------------------------------------------------------------------
(* The registry.                                                           *)

LEMMA Apart ==
    /\ None \notin Tenant /\ None \notin Owner /\ None \notin Slot /\ "applier" \notin Slot
    /\ OwnerOf \in [Tenant -> Owner] /\ \A o \in Owner : Budgets[o] \subseteq Nat \ {0}
BY NamesApart, Ownership, SizesPositive

LEMMA IdleShape ==
    /\ Idle \in ReqShape /\ Idle.op = "none" /\ Idle.pc = "idle" /\ Idle.t = None /\ Idle.o = None /\ Idle.size = 0
BY DEF Idle, ReqShape

\* Only the request of s changes.
OnlySlot(s) == req' \in [Slot -> ReqShape] /\ \A i \in Slot \ {s} : req'[i] = req[i]

LEMMA GotoShape ==
    ASSUME req \in [Slot -> ReqShape], NEW s \in Slot,
           NEW pc \in {"lookup", "command", "open", "load", "write"}, Goto(s, pc)
    PROVE  /\ OnlySlot(s) /\ req'[s].pc = pc /\ req'[s].op = req[s].op /\ req'[s].t = req[s].t
           /\ req'[s].o = req[s].o /\ req'[s].size = req[s].size
<1> DEFINE r == [req[s] EXCEPT !.pc = pc]
<1>1. /\ r \in ReqShape /\ r.pc = pc /\ r.op = req[s].op /\ r.t = req[s].t /\ r.o = req[s].o /\ r.size = req[s].size
  BY DEF ReqShape
<1>2. req' = [req EXCEPT ![s] = r]
  BY DEF Goto
<1> HIDE DEF r
<1> QED
  BY <1>1, <1>2 DEF OnlySlot

LEMMA DoneShape ==
    ASSUME req \in [Slot -> ReqShape], NEW s \in Slot, Done(s)
    PROVE  OnlySlot(s) /\ req'[s] = Idle
BY IdleShape DEF Done, OnlySlot

\* Neither the files nor the requests change.
LEMMA QuietRegistry == ASSUME RegistryInv, UNCHANGED <<fileVars, req>> PROVE RegistryInv'
<1>1. UNCHANGED <<live, saved, dirs, regFile, unsaved, uprooted, req>>
  BY DEF fileVars
<1>2. \A s \in Slot : HandlerSound(s)'
  BY <1>1 DEF RegistryInv, HandlerSound, Filed, Agrees, Rooted
<1>3. \A t \in Tenant : LockFree(t)' => Agrees(t)'
  BY <1>1 DEF RegistryInv, LockFree, Filed, Agrees, Rooted
<1> QED
  BY <1>1, <1>2, <1>3 DEF RegistryInv, RegistryTypes, Locks, FileLock

\* The request of s goes on, or another request leaves its tenant t alone:
\* seen from i nothing has happened.
SameFor(t) == (t \in live' <=> t \in live) /\ (t \in saved' <=> t \in saved)
              /\ (Rooted(t) => Rooted(t)') /\ (t \in unsaved' <=> t \in unsaved)

LEMMA OthersSound ==
    ASSUME NEW i \in Slot, HandlerSound(i), req'[i] = req[i], req[i].t # None => SameFor(req[i].t)
    PROVE  HandlerSound(i)'
<1>1. CASE req[i].t = None
  BY <1>1, Apart DEF HandlerSound
<1>2. CASE req[i].t # None
  BY <1>2 DEF HandlerSound, Filed, Agrees, SameFor
<1> QED
  BY <1>1, <1>2

\* The request of s moves, keeps its tenant or gives its lock back, and
\* changes the registry only for that tenant.
LEMMA SlotRegistry ==
    ASSUME RegistryInv, NEW s \in Slot, OnlySlot(s), RegistryTypes', FileLock',
           req'[s].t \in {req[s].t, None}, HandlerSound(s)',
           \A t \in Tenant \ {req[s].t} : SameFor(t),
           \A t \in Tenant : t = req[s].t /\ req'[s].t = None => Agrees(t)'
    PROVE  RegistryInv'
<1>1. \A i \in Slot \ {s} : req'[i] = req[i] /\ HandlerSound(i) /\ (req[i].t # None => req[i].t # req[s].t)
  BY DEF RegistryInv, OnlySlot, Locks
<1>2. req \in [Slot -> ReqShape]
  BY DEF RegistryInv, RegistryTypes
<1>3. ASSUME NEW i \in Slot \ {s} PROVE HandlerSound(i)'
  <2>1. req[i].t \in Tenant \cup {None}
    BY <1>2 DEF ReqShape
  <2> QED
    BY <1>1, <2>1, OthersSound
<1>4. Locks'
  BY <1>1 DEF RegistryInv, Locks
<1>5. ASSUME NEW t \in Tenant, LockFree(t)' PROVE Agrees(t)'
  <2>1. CASE t = req[s].t
    BY <1>5, <2>1, Apart DEF LockFree
  <2>2. CASE t # req[s].t
    <3>1. LockFree(t)
      BY <1>1, <1>5, <2>2 DEF LockFree
    <3> QED
      BY <2>2, <3>1 DEF RegistryInv, Agrees, Filed, SameFor
  <2> QED
    BY <2>1, <2>2
<1> QED
  BY <1>3, <1>4, <1>5 DEF RegistryInv

\* The request of s moves on without touching the registry.
LEMMA MovesOn ==
    ASSUME RegistryInv, NEW s \in Slot, UNCHANGED fileVars, NEW pc \in {"lookup", "command", "open"}, Goto(s, pc),
           req[s].pc \in {"quota", "lookup", "command"},
           pc = "lookup" => req[s].op # "resize",
           pc = "open" => req[s].op = "register"
    PROVE  RegistryInv'
<1>1. UNCHANGED <<live, saved, dirs, regFile, unsaved, uprooted>> /\ req \in [Slot -> ReqShape] /\ HandlerSound(s)
  BY DEF fileVars, RegistryInv, RegistryTypes
<1>3. /\ OnlySlot(s) /\ req'[s].pc = pc /\ req'[s].op = req[s].op /\ req'[s].t = req[s].t
      /\ req'[s].o = req[s].o /\ req'[s].size = req[s].size
  BY <1>1, GotoShape
<1>4. HandlerSound(s)'
  BY <1>1, <1>3, IdleShape DEF HandlerSound, Early, Late, Filed, Agrees, Rooted
<1>5. RegistryTypes' /\ FileLock'
  BY <1>1, <1>3 DEF RegistryInv, RegistryTypes, FileLock, OnlySlot
<1>6. \A t \in Tenant : SameFor(t)
  BY <1>1 DEF SameFor, Rooted
<1> QED
  BY <1>3, <1>4, <1>5, <1>6, SlotRegistry, Apart

\* The request of s ends before it has touched the map.
LEMMA Ends ==
    ASSUME RegistryInv, NEW s \in Slot, UNCHANGED fileVars, Done(s), req[s].pc \in Early
    PROVE  RegistryInv'
<1>1. UNCHANGED <<live, saved, dirs, regFile, unsaved, uprooted>> /\ req \in [Slot -> ReqShape] /\ HandlerSound(s)
  BY DEF fileVars, RegistryInv, RegistryTypes
<1>2. OnlySlot(s) /\ req'[s] = Idle
  BY <1>1, DoneShape
<1>3. HandlerSound(s)' /\ req'[s].t = None
  BY <1>2, IdleShape DEF HandlerSound
<1>4. RegistryTypes' /\ FileLock'
  BY <1>1, <1>2, IdleShape DEF RegistryInv, RegistryTypes, FileLock, OnlySlot
<1>5. \A t \in Tenant : SameFor(t)
  BY <1>1 DEF SameFor, Rooted
<1>6. ASSUME NEW t \in Tenant, t = req[s].t PROVE Agrees(t)
  <2>1. req[s].op \in {"none", "register", "account", "resize", "unregister"}
    BY <1>1 DEF ReqShape
  <2> QED
    BY <1>1, <1>6, <2>1, IdleShape, Apart DEF HandlerSound, Early, Late, Agrees
<1>7. \A t \in Tenant : t = req[s].t => Agrees(t)'
  BY <1>1, <1>6 DEF Agrees, Filed, Rooted
<1> QED
  BY <1>2, <1>3, <1>4, <1>5, <1>7, SlotRegistry

LEMMA AfterQuotaKeeps ==
    ASSUME RegistryInv, NEW s \in Slot, UNCHANGED fileVars, AfterQuota(s), req[s].pc \in {"quota", "lookup", "command"}
    PROVE  RegistryInv'
<1>1. CASE Done(s)
  BY <1>1, Ends DEF Early
<1>2. CASE Goto(s, "open") /\ req[s].op = "register"
  BY <1>2, MovesOn
<1> QED
  BY <1>1, <1>2 DEF AfterQuota

LEMMA QuotaRegistry ==
    ASSUME RegistryInv, NEW s \in Slot, QuotaEnqueue(s) \/ QuotaLookup(s) \/ QuotaEnsure(s) \/ QuotaCommand(s)
    PROVE  RegistryInv'
<1>1. UNCHANGED fileVars /\ req[s].pc \in {"quota", "lookup", "command"}
  BY DEF QuotaEnqueue, QuotaLookup, QuotaEnsure, QuotaCommand
<1>2. CASE QuotaEnqueue(s)
  BY <1>1, <1>2, MovesOn DEF QuotaEnqueue
<1>3. CASE AfterQuota(s)
  BY <1>1, <1>3, AfterQuotaKeeps
<1>4. CASE Done(s)
  BY <1>1, <1>4, Ends DEF Early
<1>5. CASE Goto(s, "command")
  BY <1>1, <1>5, MovesOn
<1> QED
  BY <1>2, <1>3, <1>4, <1>5 DEF QuotaLookup, QuotaEnsure, QuotaCommand, Refuse

\* A request takes its tenant's lock, or none.
LEMMA BeginRegistry ==
    ASSUME RegistryInv, NEW s \in Slot, NEW r \in ReqShape, req[s] = Idle, req' = [req EXCEPT ![s] = r],
           r.t # None => LockFree(r.t), r.pc # "write",
           UNCHANGED <<saved, regFile, unsaved>>, live' \subseteq Tenant, dirs' \subseteq Tenant, uprooted' \subseteq Tenant,
           \A t \in Tenant \ {r.t} : SameFor(t), HandlerSound(s)'
    PROVE  RegistryInv'
<1>1. req \in [Slot -> ReqShape] /\ saved \subseteq Tenant /\ unsaved \subseteq Tenant
      /\ regFile \in [by : Slot \cup {None}, had : SUBSET Tenant]
  BY DEF RegistryInv, RegistryTypes
<1>2. req' \in [Slot -> ReqShape] /\ req'[s] = r /\ \A i \in Slot \ {s} : req'[i] = req[i]
  BY <1>1
<1>3. RegistryTypes'
  BY <1>1, <1>2 DEF RegistryTypes
<1>4. Locks'
  BY <1>2 DEF RegistryInv, Locks, LockFree
<1>5. FileLock'
  BY <1>2 DEF RegistryInv, FileLock
<1>6. ASSUME NEW i \in Slot \ {s} PROVE HandlerSound(i)'
  <2>1. req[i].t \in Tenant \cup {None} /\ HandlerSound(i) /\ req'[i] = req[i]
    BY <1>1, <1>2 DEF ReqShape, RegistryInv
  <2>2. req[i].t # None => req[i].t # r.t
    BY <2>1 DEF LockFree
  <2> QED
    BY <2>1, <2>2, OthersSound
<1>7. ASSUME NEW t \in Tenant, LockFree(t)' PROVE Agrees(t)'
  <2>1. t # r.t /\ LockFree(t)
    BY <1>2, <1>7, IdleShape, Apart DEF LockFree
  <2> QED
    BY <2>1 DEF RegistryInv, Agrees, Filed, SameFor
<1> QED
  BY <1>3, <1>4, <1>5, <1>6, <1>7 DEF RegistryInv

LEMMA RequestRegistry == ASSUME RegistryInv, NEW s \in Slot, Request(s) PROVE RegistryInv'
<1>1. /\ live \subseteq Tenant /\ dirs \subseteq Tenant /\ uprooted \subseteq Tenant /\ req \in [Slot -> ReqShape]
      /\ \A t \in Tenant : LockFree(t) => Agrees(t)
  BY DEF RegistryInv, RegistryTypes
<1>2. ASSUME NEW t \in Tenant, NEW size \in Budgets[OwnerOf[t]], registerTenant(s, t, size) PROVE RegistryInv'
  <2> DEFINE r == [op |-> "register", pc |-> "quota", t |-> t, o |-> OwnerOf[t], size |-> size]
  <2>1. OwnerOf[t] \in Owner /\ size \in Nat /\ size # 0
    BY Apart
  <2>2. /\ r \in ReqShape /\ r.op = "register" /\ r.pc = "quota" /\ r.t = t /\ r.o = OwnerOf[t] /\ r.size = size
    BY <2>1 DEF ReqShape
  <2>3. req[s] = Idle /\ req' = [req EXCEPT ![s] = r] /\ UNCHANGED <<saved, regFile, unsaved, live>> /\ LockFree(t)
    BY <1>2 DEF registerTenant, Begin
  <2> HIDE DEF r
  <2>4. req'[s] = r
    BY <1>1, <2>2, <2>3
  <2>5. dirs' \subseteq Tenant /\ uprooted' \subseteq Tenant /\ Rooted(t)' /\ \A u \in Tenant \ {t} : SameFor(u)
    BY <1>1, <1>2, <2>3 DEF registerTenant, MakeDir, SameFor, Agrees, Rooted
  <2>6. Filed(t)'
    BY <1>1, <2>3 DEF Agrees, Filed, Rooted
  <2>7. HandlerSound(s)'
    BY <2>1, <2>2, <2>4, <2>5, <2>6 DEF HandlerSound, Early, Late
  <2> QED
    BY <1>1, <2>2, <2>3, <2>5, <2>7, BeginRegistry
<1>3. ASSUME NEW t \in Tenant, NEW size \in Budgets[OwnerOf[t]], resizeTenant(s, t, size) PROVE RegistryInv'
  <2> DEFINE r == [op |-> "resize", pc |-> "quota", t |-> t, o |-> t, size |-> size]
  <2>1. t \in Owner /\ OwnerOf[t] \in Owner /\ size \in Nat /\ size # 0
    BY <1>3, Apart DEF resizeTenant
  <2>2. /\ r \in ReqShape /\ r.op = "resize" /\ r.pc = "quota" /\ r.t = t /\ r.o = t /\ r.size = size
    BY <2>1 DEF ReqShape
  <2>3. req[s] = Idle /\ req' = [req EXCEPT ![s] = r] /\ UNCHANGED <<saved, regFile, unsaved, live, dirs, uprooted>> /\ LockFree(t)
    BY <1>3 DEF resizeTenant, Begin
  <2> HIDE DEF r
  <2>4. req'[s] = r /\ \A u \in Tenant : SameFor(u)
    BY <1>1, <2>2, <2>3 DEF SameFor, Rooted
  <2>5. Agrees(t)'
    BY <1>1, <2>3 DEF Agrees, Filed, Rooted
  <2>6. HandlerSound(s)'
    BY <2>1, <2>2, <2>4, <2>5 DEF HandlerSound, Early, Late
  <2> QED
    BY <1>1, <2>2, <2>3, <2>4, <2>6, BeginRegistry
<1>4. ASSUME NEW t \in Tenant, unregisterTenant(s, t) PROVE RegistryInv'
  <2> DEFINE r == [op |-> "unregister", pc |-> "erase", t |-> t, o |-> OwnerOf[t], size |-> 0]
  <2>1. OwnerOf[t] \in Owner
    BY Apart
  <2>2. /\ r \in ReqShape /\ r.op = "unregister" /\ r.pc = "erase" /\ r.t = t /\ r.o = OwnerOf[t]
    BY <2>1 DEF ReqShape
  <2>3. /\ req[s] = Idle /\ req' = [req EXCEPT ![s] = r] /\ UNCHANGED <<saved, regFile, unsaved, dirs, uprooted>> /\ LockFree(t)
        /\ live' = live \ {t}
    BY <1>4 DEF unregisterTenant, Begin
  <2> HIDE DEF r
  <2>4. req'[s] = r /\ \A u \in Tenant \ {t} : SameFor(u)
    BY <1>1, <2>2, <2>3 DEF SameFor, Rooted
  <2>5. HandlerSound(s)'
    BY <2>1, <2>2, <2>3, <2>4 DEF HandlerSound, Early, Late
  <2> QED
    BY <1>1, <2>2, <2>3, <2>4, <2>5, BeginRegistry
<1>5. ASSUME NEW o \in Owner, NEW size \in Budgets[o], setAccountQuota(s, o, size) PROVE RegistryInv'
  <2> DEFINE r == [op |-> "account", pc |-> "quota", t |-> None, o |-> o, size |-> size]
  <2>1. size \in Nat /\ size # 0
    BY Apart
  <2>2. /\ r \in ReqShape /\ r.op = "account" /\ r.pc = "quota" /\ r.t = None /\ r.o = o /\ r.size = size
    BY <2>1 DEF ReqShape
  <2>3. req[s] = Idle /\ req' = [req EXCEPT ![s] = r] /\ UNCHANGED <<saved, regFile, unsaved, live, dirs, uprooted>>
    BY <1>5 DEF setAccountQuota, Begin
  <2> HIDE DEF r
  <2>4. req'[s] = r /\ \A u \in Tenant : SameFor(u)
    BY <1>1, <2>2, <2>3 DEF SameFor, Rooted
  <2>5. HandlerSound(s)'
    BY <2>1, <2>2, <2>4 DEF HandlerSound
  <2> QED
    BY <1>1, <2>2, <2>3, <2>4, <2>5, BeginRegistry
<1> QED
  BY <1>2, <1>3, <1>4, <1>5 DEF Request

LEMMA PublishRegistry == ASSUME RegistryInv, NEW s \in Slot, Publish(s) PROVE RegistryInv'
<1>1. /\ RegistryTypes /\ req \in [Slot -> ReqShape] /\ HandlerSound(s) /\ FileLock
      /\ UNCHANGED <<saved, regFile, unsaved>> /\ req[s].pc = "open"
  BY DEF RegistryInv, RegistryTypes, Publish
<1>2. CASE UNCHANGED <<live, dirs, uprooted>> /\ Done(s)
  BY <1>1, <1>2, Ends DEF Early, fileVars
<1>3. CASE live' = live \cup {req[s].t} /\ MakeDir(req[s].t) /\ Goto(s, "load")
  <2>1. req[s].op = "register" /\ req[s].t \in Tenant
    <3>1. req[s].op \in {"none", "register", "account", "resize", "unregister"}
      BY <1>1 DEF ReqShape
    <3> QED
      BY <1>1, <3>1, IdleShape DEF HandlerSound, Late
  <2>2. /\ OnlySlot(s) /\ req'[s].pc = "load" /\ req'[s].op = req[s].op /\ req'[s].t = req[s].t /\ req'[s].o = req[s].o
    BY <1>1, <1>3, GotoShape
  <2>3. RegistryTypes' /\ FileLock'
    BY <1>1, <1>3, <2>1, <2>2 DEF RegistryTypes, FileLock, OnlySlot, MakeDir
  <2>4. HandlerSound(s)'
    BY <1>1, <1>3, <2>1, <2>2 DEF HandlerSound, Early, Late, MakeDir, Rooted
  <2>5. \A t \in Tenant \ {req[s].t} : SameFor(t)
    BY <1>1, <1>3 DEF SameFor, Rooted, MakeDir
  <2> QED
    BY <2>1, <2>2, <2>3, <2>4, <2>5, SlotRegistry, Apart
<1> QED
  BY <1>2, <1>3 DEF Publish

LEMMA EraseRegistry == ASSUME RegistryInv, NEW s \in Slot, Erase(s) PROVE RegistryInv'
<1>1. /\ RegistryTypes /\ req \in [Slot -> ReqShape] /\ HandlerSound(s) /\ FileLock
      /\ UNCHANGED <<live, saved, regFile, unsaved>> /\ req[s].pc = "erase" /\ Goto(s, "load")
  BY DEF RegistryInv, RegistryTypes, Erase
<1>7. PICK gone \in SUBSET Below(req[s].t) :
         dirs' = dirs \ gone /\ uprooted' = (uprooted \ {req[s].t}) \cup (gone \ {req[s].t})
  BY DEF Erase
<1>8. gone \subseteq Tenant
  BY <1>7 DEF Below
<1>2. req[s].op = "unregister" /\ req[s].t \in Tenant
  <2>1. req[s].op \in {"none", "register", "account", "resize", "unregister"}
    BY <1>1 DEF ReqShape
  <2> QED
    BY <1>1, <2>1, IdleShape DEF HandlerSound, Early, Late
<1>3. /\ OnlySlot(s) /\ req'[s].pc = "load" /\ req'[s].op = req[s].op /\ req'[s].t = req[s].t /\ req'[s].o = req[s].o
  BY <1>1, GotoShape
<1>4. RegistryTypes' /\ FileLock'
  BY <1>1, <1>3, <1>7, <1>8 DEF RegistryTypes, FileLock, OnlySlot
<1>5. HandlerSound(s)'
  BY <1>1, <1>2, <1>3 DEF HandlerSound, Early, Late
<1>6. \A t \in Tenant \ {req[s].t} : SameFor(t)
  BY <1>1, <1>7 DEF SameFor, Rooted
<1> QED
  BY <1>2, <1>3, <1>4, <1>5, <1>6, SlotRegistry, Apart

LEMMA LoadRegistry == ASSUME RegistryInv, NEW s \in Slot, Load(s) PROVE RegistryInv'
<1>1. /\ RegistryTypes /\ req \in [Slot -> ReqShape] /\ HandlerSound(s) /\ FileLock
      /\ UNCHANGED <<live, saved, dirs, unsaved, uprooted>> /\ req[s].pc = "load" /\ Goto(s, "write")
      /\ regFile.by = None /\ regFile' = [by |-> s, had |-> saved]
  BY DEF RegistryInv, RegistryTypes, Load
<1>2. req[s].t \in Tenant /\ req[s].op \in {"register", "unregister"}
  <2>1. req[s].op \in {"none", "register", "account", "resize", "unregister"}
    BY <1>1 DEF ReqShape
  <2> QED
    BY <1>1, <2>1, IdleShape DEF HandlerSound
<1>3. /\ OnlySlot(s) /\ req'[s].pc = "write" /\ req'[s].op = req[s].op /\ req'[s].t = req[s].t /\ req'[s].o = req[s].o
  BY <1>1, GotoShape
<1>4. RegistryTypes' /\ FileLock'
  BY <1>1, <1>3, Apart DEF RegistryTypes, FileLock, OnlySlot
<1>5. HandlerSound(s)'
  BY <1>1, <1>2, <1>3 DEF HandlerSound, Early, Late, Filed, Rooted
<1>6. \A t \in Tenant : SameFor(t)
  BY <1>1 DEF SameFor, Rooted
<1> QED
  BY <1>2, <1>3, <1>4, <1>5, <1>6, SlotRegistry, Apart

\* The list that is written has the change of this request and no other.
LEMMA WriteRegistry == ASSUME RegistryInv, NEW s \in Slot, Write(s) PROVE RegistryInv'
<1>1. /\ RegistryTypes /\ req \in [Slot -> ReqShape] /\ HandlerSound(s) /\ FileLock
      /\ UNCHANGED <<live, dirs, uprooted>> /\ req[s].pc = "write" /\ Done(s) /\ regFile' = Unheld
      /\ regFile.by = s /\ regFile.had = saved
  BY DEF RegistryInv, RegistryTypes, FileLock, Write
<1>2. PICK t : t = req[s].t
  OBVIOUS
<1>3. t \in Tenant /\ (req[s].op = "register" => t \in live /\ Rooted(t)) /\ (req[s].op # "register" => t \notin live)
  <2>1. req[s].op \in {"none", "register", "account", "resize", "unregister"}
    BY <1>1 DEF ReqShape
  <2> QED
    BY <1>1, <1>2, <2>1, IdleShape DEF HandlerSound, Early, Late
<1>4. OnlySlot(s) /\ req'[s] = Idle
  BY <1>1, DoneShape
<1>5. /\ saved' \subseteq Tenant /\ unsaved' \subseteq Tenant
      /\ t \in unsaved' \/ (t \in live <=> t \in saved')
      /\ \A u \in Tenant \ {t} : SameFor(u)
  <2>1. CASE saved' = Mutated(s) /\ unsaved' = unsaved \ {t}
    <3>1. saved' = IF req[s].op = "register" THEN saved \cup {t} ELSE saved \ {t}
      BY <1>1, <1>2, <2>1 DEF Mutated
    <3> QED
      BY <1>1, <1>3, <2>1, <3>1 DEF RegistryTypes, SameFor, Rooted
  <2>2. CASE saved' = saved /\ unsaved' = unsaved \cup {t}
    BY <1>1, <1>3, <2>2 DEF RegistryTypes, SameFor, Rooted
  <2> QED
    BY <1>2, <2>1, <2>2 DEF Write
<1>6. Agrees(t)'
  BY <1>1, <1>3, <1>5 DEF Agrees, Filed, Rooted
<1>7. HandlerSound(s)' /\ req'[s].t = None
  BY <1>4, IdleShape DEF HandlerSound
<1>8. RegistryTypes'
  BY <1>1, <1>4, <1>5 DEF RegistryTypes, Unheld, OnlySlot
<1>9. FileLock'
  <2>1. \A i \in Slot \ {s} : req'[i].pc # "write"
    BY <1>1, <1>4 DEF FileLock, OnlySlot
  <2> QED
    BY <1>4, <2>1, IdleShape DEF FileLock
<1> QED
  BY <1>2, <1>4, <1>5, <1>6, <1>7, <1>8, <1>9, SlotRegistry

LEMMA RestartRegistry == ASSUME RegistryInv, Restart PROVE RegistryInv'
<1>1. RegistryTypes /\ req' = [s \in Slot |-> Idle] /\ regFile' = Unheld /\ saved' = saved
  BY DEF RegistryInv, Restart
<1>2. PICK skipped \in SUBSET saved :
        /\ live' = saved \ skipped
        /\ dirs' = dirs \cup live' /\ uprooted' = uprooted \ live'
        /\ unsaved' = unsaved \cup skipped \cup {t \in Tenant : ~LockFree(t)}
  BY DEF Restart
<1>3. \A s \in Slot : req'[s] = Idle
  BY <1>1
<1>4. RegistryTypes'
  BY <1>1, <1>2, IdleShape DEF RegistryTypes, Unheld
<1>5. Locks' /\ FileLock' /\ \A s \in Slot : HandlerSound(s)'
  BY <1>3, IdleShape DEF Locks, FileLock, HandlerSound
<1>6. \A t \in Tenant : Agrees(t)'
  BY <1>1, <1>2 DEF Agrees, Filed, Rooted
<1> QED
  BY <1>4, <1>5, <1>6 DEF RegistryInv

LEMMA RegistryInit == Init => RegistryInv
<1> SUFFICES ASSUME Init PROVE RegistryInv
  OBVIOUS
<1>1. /\ live = {} /\ saved = {} /\ dirs = {} /\ regFile = Unheld /\ req = [s \in Slot |-> Idle] /\ unsaved = {}
      /\ uprooted = {}
  BY DEF Init
<1>2. \A s \in Slot : req[s] = Idle
  BY <1>1
<1>3. RegistryTypes
  BY <1>1, IdleShape DEF RegistryTypes, Unheld
<1>4. Locks /\ FileLock /\ \A s \in Slot : HandlerSound(s)
  BY <1>2, IdleShape DEF Locks, FileLock, HandlerSound
<1>5. \A t \in Tenant : Agrees(t)
  BY <1>1 DEF Agrees, Filed, Rooted
<1> QED
  BY <1>3, <1>4, <1>5 DEF RegistryInv

LEMMA RegistryNext == RegistryInv /\ [Next]_vars => RegistryInv'
<1> SUFFICES ASSUME RegistryInv, [Next]_vars PROVE RegistryInv'
  OBVIOUS
<1>1. ASSUME NEW s \in Slot, Request(s) \/ Handle(s) PROVE RegistryInv'
  BY <1>1, RequestRegistry, QuotaRegistry, PublishRegistry, EraseRegistry, LoadRegistry, WriteRegistry DEF Handle
<1>2. CASE Apply \/ UNCHANGED vars
  <2>1. UNCHANGED <<fileVars, req>>
    BY <1>2 DEF Apply, DrainStart, DrainApply, DrainCommand, DrainSettle, DrainEnd, vars
  <2> QED
    BY SMTT(30), <2>1, QuietRegistry
<1>3. CASE Restart
  BY <1>3, RestartRegistry
<1> QED
  BY <1>1, <1>2, <1>3 DEF Next

LEMMA RegistryAlways == Spec => []RegistryInv
BY RegistryInit, RegistryNext, PTL DEF Spec

\* The map, the file and the directories agree on every tenant that no
\* request is working on, whatever requests run at once, whichever saves,
\* opens and erasures fail, and however tenants and accounts are nested: a live
\* tenant without a directory lost it with its account's.
THEOREM RegistryAlwaysAgrees == Spec => []RegistryAgrees
<1>1. RegistryInv => RegistryAgrees
  BY DEF RegistryInv, RegistryAgrees, Agrees, Filed, Rooted
<1> QED
  BY <1>1, RegistryAlways, PTL

-----------------------------------------------------------------------------
(* The quota manager.                                                      *)

LEMMA QuotaConstants ==
    /\ Unit \in Nat /\ Unit # 0 /\ Margin \in Nat
    /\ None \notin RecShape /\ None \notin Commands
BY SizesPositive, NamesApart DEF RecShape, Commands

\* n units, rounded up.
LEMMA RoundUp ==
    ASSUME NEW n \in Nat \ {0}, NEW u \in Nat \ {0}
    PROVE  LET k == (n + u - 1) \div u IN k \in Nat /\ k >= 1 /\ k * u >= n /\ (k - 1) * u < n
<1>1. PICK k \in Int : k = (n + u - 1) \div u /\ k * u <= n + u - 1 /\ n + u - 1 < k * u + u
  OBVIOUS
<1>2. k * u >= n
  BY <1>1
<1>3. (k - 1) * u = k * u - u
  OBVIOUS
<1>4. k >= 1
  <2>1. SUFFICES ASSUME k <= 0 PROVE FALSE
    OBVIOUS
  <2>2. k * u <= 0
    BY <2>1
  <2> QED
    BY <1>2, <2>2
<1> QED
  BY <1>1, <1>2, <1>3, <1>4

\* The limit of the command covers the size and the margin, and no whole unit
\* more.
LEMMA LimitBounds ==
    ASSUME NEW size \in Nat
    PROVE  /\ limit(size) \in Nat
           /\ size # 0 => limit(size) * Unit >= size + Margin /\ (limit(size) - 1) * Unit < size + Margin
<1>1. PICK n \in Nat : n = size + Margin
  BY QuotaConstants
<1>2. PICK u \in Nat \ {0} : u = Unit
  BY QuotaConstants
<1>3. limit(size) = IF (n + u - 1) \div u < 1 THEN 1 ELSE (n + u - 1) \div u
  BY <1>1, <1>2 DEF limit
<1>4. CASE n = 0
  <2>1. (n + u - 1) \div u \in Int /\ size = 0
    BY <1>1, <1>4, QuotaConstants
  <2> QED
    BY <1>3, <2>1
<1>5. CASE n # 0
  <2>1. PICK k \in Nat : k = (n + u - 1) \div u /\ k >= 1 /\ k * u >= n /\ (k - 1) * u < n
    BY <1>5, RoundUp
  <2>2. limit(size) = k
    BY <1>3, <2>1
  <2> QED
    BY <1>1, <1>2, <2>1, <2>2
<1> QED
  BY <1>4, <1>5

LEMMA AllocateBeginKeeps ==
    ASSUME ManagerInv, NEW o \in Owner, NEW size \in Nat, NEW by \in Slot \cup {"applier"}, AllocateBegin(by, o, size)
    PROVE  ManagerInv' /\ command' # None /\ command' = Locked(by, o, size, "allocate")
<1> DEFINE r == [id |-> nextId, size |-> size]
           c == Locked(by, o, size, "allocate")
<1>1. /\ ManagerTypes /\ WellNumbered(quota, nextId) /\ \A p \in Owner : LimitSound(p)
      /\ UNCHANGED <<cap, torn, raced>> /\ command = None /\ quota[o] = None
      /\ quota' = [quota EXCEPT ![o] = r] /\ nextId' = nextId + 1 /\ command' = c
      /\ disk' = [quota |-> quota', nextId |-> nextId']
  BY DEF ManagerInv, AllocateBegin, Save
<1>2. r \in RecShape /\ r.id = nextId /\ r.size = size
  BY <1>1 DEF RecShape, ManagerTypes
<1>3. c \in Commands /\ c.o = o /\ c.size = size /\ c.kind = "allocate"
  BY DEF Commands, Locked
<1> HIDE DEF r, c
<1>4. /\ quota' \in Records /\ quota'[o] = r /\ \A p \in Owner \ {o} : quota'[p] = quota[p]
      /\ nextId' \in Nat /\ nextId \in Nat
  BY <1>1, <1>2 DEF Records, RecShape, ManagerTypes
<1>5. disk' \in [quota : Records, nextId : Nat] /\ disk'.quota = quota' /\ disk'.nextId = nextId'
  BY <1>1, <1>4
<1>6. ManagerTypes' /\ command' # None
  BY <1>1, <1>3, <1>4, <1>5, QuotaConstants DEF ManagerTypes
<1>7. WellNumbered(quota', nextId')
  <2>1. ASSUME NEW p \in Owner \ {o}, quota'[p] # None PROVE quota'[p].id < nextId /\ quota'[p].id \in Nat
    BY <1>1, <1>4, <2>1 DEF WellNumbered, Records, RecShape, ManagerTypes
  <2>2. \A p \in Owner : quota'[p] # None => quota'[p].id < nextId'
    BY <1>1, <1>2, <1>4, <2>1
  <2>3. \A p \in Owner \ {o} : quota'[p] # None => quota'[p].id # quota'[o].id
    BY <1>2, <1>4, <2>1
  <2>4. \A p, q \in Owner \ {o} : p # q /\ quota'[p] # None /\ quota'[q] # None => quota'[p].id # quota'[q].id
    BY <1>1, <1>4 DEF WellNumbered
  <2> QED
    BY <2>2, <2>3, <2>4 DEF WellNumbered
<1>8. RunningSound'
  BY <1>1, <1>2, <1>3, <1>4, QuotaConstants DEF RunningSound
<1>9. ASSUME NEW p \in Owner PROVE LimitSound(p)'
  <2>1. p = o => Allocating(p)'
    BY <1>1, <1>3, <1>6 DEF Allocating, On
  <2>2. ~Allocating(p)
    BY <1>1 DEF Allocating, On
  <2> QED
    BY <1>1, <1>4, <2>1, <2>2 DEF LimitSound
<1> QED
  BY <1>1, <1>5, <1>6, <1>7, <1>8, <1>9 DEF ManagerInv, c

LEMMA ResizeBeginKeeps ==
    ASSUME ManagerInv, NEW o \in Owner, NEW size \in Nat, NEW by \in Slot \cup {"applier"}, ResizeBegin(by, o, size)
    PROVE  ManagerInv' /\ command' # None /\ command' = Locked(by, o, size, "resize")
<1> DEFINE c == Locked(by, o, size, "resize")
<1>1. /\ ManagerTypes /\ UNCHANGED <<quota, nextId, disk, cap, torn, raced>> /\ command = None /\ quota[o] # None
      /\ command' = c
  BY DEF ManagerInv, ResizeBegin
<1>2. c \in Commands /\ c.o = o /\ c.size = size /\ c.kind = "resize"
  BY DEF Commands, Locked
<1> HIDE DEF c
<1>3. ManagerTypes' /\ RunningSound' /\ command' # None
  BY <1>1, <1>2, QuotaConstants DEF ManagerTypes, RunningSound
<1>4. \A p \in Owner : LimitSound(p)'
  BY <1>1, <1>2 DEF ManagerInv, LimitSound, Allocating, On
<1> QED
  BY <1>1, <1>3, <1>4 DEF ManagerInv, c

\* The manager is not called.
LEMMA QuietManager == ASSUME ManagerInv, UNCHANGED quotaVars PROVE ManagerInv'
<1>1. UNCHANGED <<quota, nextId, disk, cap, command, torn, raced>>
  BY DEF quotaVars
<1>2. \A p \in Owner : LimitSound(p)'
  BY <1>1 DEF ManagerInv, LimitSound, Allocating, On
<1> QED
  BY <1>1, <1>2 DEF ManagerInv, ManagerTypes, RunningSound

\* Where nothing happens to an owner's record and limit.
LEMMA OtherLimits ==
    ASSUME NEW p \in Owner, LimitSound(p), ~Allocating(p), quota'[p] = quota[p], cap'[p] = cap[p], p \in torn => p \in torn'
    PROVE  LimitSound(p)'
BY DEF LimitSound

LEMMA SucceedsKeeps ==
    ASSUME ManagerInv, CommandSucceeds
    PROVE  /\ ManagerInv' /\ command' = None
           /\ quota'[command.o] # None /\ quota'[command.o].size = command.size
           /\ \A p \in Owner \ {command.o} : quota'[p] = quota[p]
<1>1. /\ ManagerTypes /\ RunningSound /\ command # None /\ command' = None
      /\ WellNumbered(quota, nextId) /\ WellNumbered(disk.quota, disk.nextId) /\ \A p \in Owner : LimitSound(p)
      /\ cap' = [cap EXCEPT ![command.o] = limit(command.size)] /\ torn' = torn \ {command.o}
      /\ raced' = raced \cup {command.o} \/ raced' = raced \ {command.o}
      /\ nextId' = nextId
  BY DEF ManagerInv, CommandSucceeds
<1>2. PICK o \in Owner : o = command.o
  BY <1>1 DEF ManagerTypes, Commands
<1>3. PICK n \in Nat : n = command.size
  BY <1>1 DEF ManagerTypes, Commands
<1>4. cap' \in [Owner -> Nat] /\ cap'[o] = limit(n) /\ \A p \in Owner \ {o} : cap'[p] = cap[p]
  BY <1>1, <1>2, <1>3, LimitBounds DEF ManagerTypes
<1>5. /\ quota' \in Records /\ quota'[o] # None /\ quota'[o].size = n /\ quota'[o].id = quota[o].id
      /\ \A p \in Owner \ {o} : quota'[p] = quota[p]
      /\ disk' = disk \/ disk' = [quota |-> quota', nextId |-> nextId']
  <2>1. quota[o] \in RecShape /\ quota \in Records
    BY <1>1, <1>2 DEF RunningSound, ManagerTypes, Records, RecShape
  <2>2. CASE command.kind = "allocate" /\ UNCHANGED <<quota, nextId, disk>>
    BY <1>1, <1>2, <1>3, <2>1, <2>2 DEF RunningSound
  <2>3. CASE command.kind = "resize" /\ quota' = [quota EXCEPT ![command.o].size = command.size] /\ Save
    <3> DEFINE r == [quota[o] EXCEPT !.size = n]
    <3>1. r \in RecShape /\ r.size = n /\ r.id = quota[o].id
      BY <2>1 DEF RecShape
    <3>2. quota' = [quota EXCEPT ![o] = r]
      BY <1>2, <1>3, <2>3
    <3> HIDE DEF r
    <3> QED
      BY <2>1, <2>3, <3>1, <3>2, QuotaConstants DEF Records, Save
  <2> QED
    BY <2>2, <2>3 DEF CommandSucceeds
<1>6. WellNumbered(quota', nextId')
  BY <1>1, <1>2, <1>5 DEF WellNumbered, RunningSound
<1>7. WellNumbered(disk.quota, disk.nextId)' /\ disk' \in [quota : Records, nextId : Nat]
  BY <1>1, <1>5, <1>6 DEF ManagerTypes
<1>8. ManagerTypes' /\ RunningSound'
  BY <1>1, <1>2, <1>4, <1>5, <1>7 DEF ManagerTypes, RunningSound
<1>9. ASSUME NEW p \in Owner PROVE LimitSound(p)'
  <2>1. CASE p = o
    BY <1>4, <1>5, <2>1 DEF LimitSound
  <2>2. CASE p # o
    BY <1>1, <1>2, <1>4, <1>5, <2>2, OtherLimits DEF Allocating, On
  <2> QED
    BY <2>1, <2>2
<1> QED
  BY <1>1, <1>2, <1>3, <1>5, <1>6, <1>7, <1>8, <1>9 DEF ManagerInv

\* A failed allocation takes its record and its id back.
LEMMA FailsKeeps ==
    ASSUME ManagerInv, CommandFails
    PROVE  /\ ManagerInv' /\ command' = None /\ raced' = raced /\ torn \subseteq torn'
           /\ \A p \in Owner : p # command.o \/ command.kind = "resize" => quota'[p] = quota[p]
<1>1. /\ ManagerTypes /\ RunningSound /\ command # None /\ command' = None /\ raced' = raced
      /\ WellNumbered(quota, nextId) /\ WellNumbered(disk.quota, disk.nextId) /\ \A p \in Owner : LimitSound(p)
      /\ FailedEffect
  BY DEF ManagerInv, CommandFails
<1>2. PICK o \in Owner : o = command.o
  BY <1>1 DEF ManagerTypes, Commands
<1>3. command.size \in Nat
  BY <1>1 DEF ManagerTypes, Commands
<1>4. /\ cap' \in [Owner -> Nat] /\ torn \subseteq torn' /\ torn' \subseteq Owner
      /\ \A p \in Owner \ {o} : cap'[p] = cap[p]
      /\ o \in torn' \/ cap'[o] = cap[o]
  BY <1>1, <1>2, <1>3, LimitBounds DEF FailedEffect, ManagerTypes
<1>5. CASE command.kind = "allocate" /\ rollback
  <2>1. /\ quota' = [quota EXCEPT ![o] = None] /\ nextId' = nextId - 1
        /\ disk' = disk \/ disk' = [quota |-> quota', nextId |-> nextId']
    BY <1>2, <1>5 DEF rollback, Save, SaveFails
  <2>2. quota[o] # None /\ quota[o] \in RecShape /\ quota[o].id = nextId - 1
    BY <1>1, <1>2, <1>5 DEF RunningSound, ManagerTypes, Records, RecShape
  <2>3. nextId' \in Nat /\ nextId \in Nat
    BY <1>1, <2>1, <2>2 DEF RecShape, ManagerTypes
  <2>4. quota' \in Records /\ quota'[o] = None /\ \A p \in Owner \ {o} : quota'[p] = quota[p]
    BY <1>1, <2>1 DEF Records, ManagerTypes
  <2>5. ASSUME NEW p \in Owner \ {o}, quota[p] # None PROVE quota[p].id < nextId'
    <3>1. quota[p].id \in Nat /\ quota[p].id < nextId /\ quota[p].id # quota[o].id
      BY <1>1, <2>2, <2>5 DEF WellNumbered, ManagerTypes, Records, RecShape
    <3> QED
      BY <2>1, <2>2, <2>3, <3>1
  <2>6. WellNumbered(quota', nextId')
    BY <1>1, <2>4, <2>5 DEF WellNumbered
  <2>7. WellNumbered(disk.quota, disk.nextId)' /\ disk' \in [quota : Records, nextId : Nat]
    <3>1. CASE disk' = disk
      BY <1>1, <3>1 DEF ManagerTypes
    <3>2. CASE disk' = [quota |-> quota', nextId |-> nextId']
      <4>1. disk'.quota = quota' /\ disk'.nextId = nextId' /\ disk' \in [quota : Records, nextId : Nat]
        BY <2>3, <2>4, <3>2
      <4> QED
        BY <2>6, <4>1
    <3> QED
      BY <2>1, <3>1, <3>2
  <2>8. ManagerTypes' /\ RunningSound'
    BY <1>1, <1>4, <2>3, <2>4, <2>7 DEF ManagerTypes, RunningSound
  <2>9. ASSUME NEW p \in Owner PROVE LimitSound(p)'
    <3>1. CASE p = o
      BY <2>4, <3>1 DEF LimitSound
    <3>2. CASE p # o
      BY <1>1, <1>2, <1>4, <2>4, <3>2, OtherLimits DEF Allocating, On
    <3> QED
      BY <3>1, <3>2
  <2> QED
    BY <1>1, <1>2, <1>4, <1>5, <2>4, <2>6, <2>7, <2>8, <2>9 DEF ManagerInv
<1>6. CASE command.kind = "resize" /\ UNCHANGED <<quota, nextId, disk>>
  <2>1. ManagerTypes' /\ RunningSound'
    BY <1>1, <1>4, <1>6 DEF ManagerTypes, RunningSound
  <2>2. ASSUME NEW p \in Owner PROVE LimitSound(p)'
    <3>1. ~Allocating(p)
      BY <1>6 DEF Allocating
    <3>2. CASE cap'[p] = cap[p]
      BY <1>1, <1>4, <1>6, <3>1, <3>2, OtherLimits
    <3>3. CASE p \in torn'
      BY <3>3 DEF LimitSound
    <3> QED
      BY <1>4, <3>2, <3>3
  <2> QED
    BY <1>1, <1>4, <1>6, <2>1, <2>2 DEF ManagerInv
<1> QED
  BY <1>5, <1>6 DEF CommandFails

LEMMA EraseManager == ASSUME ManagerInv, NEW s \in Slot, Erase(s) PROVE ManagerInv'
<1>1. /\ ManagerTypes /\ RunningSound /\ UNCHANGED <<quota, nextId, disk, command, raced>>
      /\ \A p \in Owner : LimitSound(p)
      /\ \/ UNCHANGED <<cap, torn>>
         \/ req[s].t \in Owner /\ cap' = [cap EXCEPT ![req[s].t] = 0] /\ torn' = torn \cup {req[s].t}
  BY Apart DEF ManagerInv, Erase, Below
<1>2. /\ cap' \in [Owner -> Nat] /\ torn \subseteq torn' /\ torn' \subseteq Owner
      /\ \A p \in Owner : cap'[p] = cap[p] \/ p \in torn'
  BY <1>1 DEF ManagerTypes
<1>3. ManagerTypes' /\ RunningSound'
  BY <1>1, <1>2 DEF ManagerTypes, RunningSound
<1>4. ASSUME NEW p \in Owner PROVE LimitSound(p)'
  <2>1. Allocating(p)' = Allocating(p)
    BY <1>1 DEF Allocating, On
  <2> QED
    BY <1>1, <1>2, <2>1 DEF LimitSound
<1> QED
  BY <1>1, <1>3, <1>4 DEF ManagerInv

LEMMA RestartManager == ASSUME ManagerInv, Restart PROVE ManagerInv'
<1>1. /\ ManagerTypes /\ quota' = disk.quota /\ nextId' = disk.nextId /\ disk' = disk /\ command' = None /\ raced' = raced
      /\ torn' = torn \cup {o \in Owner : quota'[o] # quota[o] \/ (command # None /\ command.o = o)}
      /\ WellNumbered(disk.quota, disk.nextId) /\ \A p \in Owner : LimitSound(p)
      /\ \/ cap' = cap
         \/ command # None /\ cap' = [cap EXCEPT ![command.o] = limit(command.size)]
  BY DEF ManagerInv, Restart
<1>2. /\ cap' \in [Owner -> Nat]
      /\ \A p \in Owner : cap'[p] = cap[p] \/ (command # None /\ command.o = p)
  <2>1. CASE cap' = cap
    BY <1>1, <2>1 DEF ManagerTypes
  <2>2. CASE command # None /\ cap' = [cap EXCEPT ![command.o] = limit(command.size)]
    <3>1. limit(command.size) \in Nat
      BY <1>1, <2>2, LimitBounds DEF ManagerTypes, Commands
    <3> QED
      BY <1>1, <2>2, <3>1 DEF ManagerTypes
  <2> QED
    BY <1>1, <2>1, <2>2
<1>3. ManagerTypes' /\ RunningSound'
  BY <1>1, <1>2 DEF ManagerTypes, RunningSound
<1>4. ASSUME NEW p \in Owner PROVE LimitSound(p)'
  <2>1. p \notin torn' => p \notin torn /\ quota'[p] = quota[p] /\ ~On(p)
    BY <1>1 DEF On
  <2> QED
    BY <1>1, <1>2, <2>1 DEF LimitSound, On, Allocating
<1> QED
  BY <1>1, <1>3, <1>4 DEF ManagerInv

-----------------------------------------------------------------------------
(* Promises and the applier.                                               *)

WorkerShape == [pc : {"idle", "drain", "command", "settle"}, todo : [Owner -> Nat],
                cur : Owner \cup {None}, ok : BOOLEAN, failed : BOOLEAN]

LEMMA PromiseShapes ==
    PromiseInv => pending \in [Owner -> Nat] /\ want \in [Owner -> Nat] /\ worker \in WorkerShape
BY DEF PromiseInv, ApplierTypes, WorkerShape

LEMMA RestShape ==
    AtRest \in WorkerShape /\ AtRest.pc = "idle" /\ \A o \in Owner : AtRest.todo[o] = 0
BY DEF AtRest, WorkerShape

\* Whoever runs a command goes on running it.
ReqFrame == \A s \in Slot : req[s].pc = "command" \/ req'[s].pc = "command" => req'[s] = req[s]
WorkerFrame == worker.pc = "command" \/ worker'.pc = "command" => worker' = worker

LEMMA HolderFrame ==
    ASSUME ManagerTypes, HolderSound, UNCHANGED <<async, command>>, ReqFrame, WorkerFrame
    PROVE  HolderSound'
<1>1. command # None /\ command.by # "applier" => command.by \in Slot
  BY DEF ManagerTypes, Commands
<1>2. command # None /\ command.by # "applier" => req'[command.by] = req[command.by]
  BY <1>1 DEF HolderSound, ReqFrame
<1>3. command # None /\ command.by = "applier" => worker' = worker
  BY DEF HolderSound, WorkerFrame
<1>4. worker'.pc = "command" => command # None /\ command.by = "applier"
  BY DEF HolderSound, WorkerFrame
<1>5. \A s \in Slot : req'[s].pc = "command" => command # None /\ command.by = s
  BY DEF HolderSound, ReqFrame
<1> QED
  BY <1>2, <1>3, <1>4, <1>5 DEF HolderSound

\* Promises to an owner whose record stays.
LEMMA PromiseFrame ==
    ASSUME NEW o \in Owner, PromiseSound(o), want'[o] = want[o], pending'[o] = pending[o], quota'[o] = quota[o],
           o \in torn \cup raced => o \in torn' \cup raced', On(o) => On(o)'
    PROVE  PromiseSound(o)'
BY DEF PromiseSound, Recorded

LEMMA AppliedFrame ==
    ASSUME NEW o \in Owner, AppliedSound(o), quota'[o] = quota[o], o \in torn \cup raced => o \in torn' \cup raced',
           worker'.pc = "settle" /\ worker'.ok /\ worker'.cur = o => worker' = worker
    PROVE  AppliedSound(o)'
BY DEF AppliedSound, Recorded

\* No record changes, nothing is promised, and the applier rests.
LEMMA QuietPromise ==
    ASSUME ManagerInv, PromiseInv, UNCHANGED <<async, quota, command, raced, pending, want, worker>>, torn \subseteq torn', ReqFrame
    PROVE  PromiseInv'
<1>1. ManagerTypes /\ HolderSound /\ WorkerFrame
  BY DEF ManagerInv, PromiseInv, WorkerFrame
<1>2. HolderSound'
  BY <1>1, HolderFrame
<1>3. ApplierTypes' /\ WorkerSound'
  BY DEF PromiseInv, ApplierTypes, WorkerSound
<1>4. ASSUME NEW o \in Owner PROVE PromiseSound(o)' /\ AppliedSound(o)'
  <2>1. PromiseSound(o) /\ AppliedSound(o) /\ On(o)' = On(o)
    BY DEF PromiseInv, On
  <2> QED
    BY <2>1, PromiseFrame, AppliedFrame
<1> QED
  BY <1>2, <1>3, <1>4 DEF PromiseInv

LEMMA RequestFrame == ASSUME RegistryInv, NEW s \in Slot, Request(s) PROVE ReqFrame
<1>1. req \in [Slot -> ReqShape]
  BY DEF RegistryInv, RegistryTypes
<1>2. ASSUME NEW op, NEW t, NEW o, NEW size, NEW pc, Begin(s, op, t, o, size, pc), pc # "command" PROVE ReqFrame
  <2> DEFINE r == [op |-> op, pc |-> pc, t |-> t, o |-> o, size |-> size]
  <2>1. req[s].pc = "idle" /\ req' = [req EXCEPT ![s] = r] /\ r.pc = pc
    BY <1>2, IdleShape DEF Begin
  <2> HIDE DEF r
  <2> QED
    BY <1>1, <1>2, <2>1 DEF ReqFrame
<1> QED
  BY <1>2 DEF Request, registerTenant, setAccountQuota, resizeTenant, unregisterTenant

LEMMA RequestPromise == ASSUME RegistryInv, ManagerInv, PromiseInv, NEW s \in Slot, Request(s) PROVE PromiseInv' /\ ManagerInv'
<1>1. UNCHANGED <<async, quotaVars, applierVars, want>>
  BY DEF Request, registerTenant, setAccountQuota, resizeTenant, unregisterTenant, Begin
<1> QED
  BY <1>1, RequestFrame, QuietPromise, QuietManager DEF quotaVars, applierVars

\* The steps of a handler that run no command.
LEMMA PlainFrame ==
    ASSUME req \in [Slot -> ReqShape], NEW s \in Slot, req[s].pc # "command",
           Done(s) \/ \E pc \in {"lookup", "open", "load", "write"} : Goto(s, pc)
    PROVE  ReqFrame
<1>1. CASE Done(s)
  BY <1>1, DoneShape, IdleShape DEF OnlySlot, ReqFrame
<1>2. CASE \E pc \in {"lookup", "open", "load", "write"} : Goto(s, pc)
  <2>1. PICK pc \in {"lookup", "open", "load", "write"} : Goto(s, pc)
    BY <1>2
  <2>2. OnlySlot(s) /\ req'[s].pc = pc
    BY <2>1, GotoShape
  <2> QED
    BY <2>2 DEF OnlySlot, ReqFrame
<1> QED
  BY <1>1, <1>2

LEMMA FilePromise ==
    ASSUME RegistryInv, ManagerInv, PromiseInv, NEW s \in Slot,
           QuotaLookup(s) \/ Publish(s) \/ Erase(s) \/ Load(s) \/ Write(s)
    PROVE  PromiseInv' /\ ManagerInv'
<1>1. req \in [Slot -> ReqShape]
  BY DEF RegistryInv, RegistryTypes
<1>2. /\ req[s].pc # "command"
      /\ Done(s) \/ \E pc \in {"lookup", "open", "load", "write"} : Goto(s, pc)
  BY DEF QuotaLookup, AfterQuota, Publish, Erase, Load, Write
<1>3. ReqFrame
  BY <1>1, <1>2, PlainFrame
<1>4. UNCHANGED <<async, quota, command, raced, pending, want, worker>> /\ torn \subseteq torn'
  BY DEF QuotaLookup, Publish, Erase, Load, Write, quotaVars, applierVars
<1>5. PromiseInv'
  BY <1>3, <1>4, QuietPromise
<1>6. ManagerInv'
  BY QuietManager, EraseManager DEF QuotaLookup, Publish, Load, Write
<1> QED
  BY <1>5, <1>6

\* The applier takes its list, or puts it down.
LEMMA DrainPromise == ASSUME ManagerInv, PromiseInv, DrainStart \/ DrainEnd PROVE PromiseInv' /\ ManagerInv'
<1>1. /\ UNCHANGED <<async, quotaVars, pending, req, want>> /\ worker.pc # "command"
      /\ worker' = AtRest \/ worker' = [AtRest EXCEPT !.pc = "drain", !.todo = pending]
  BY DEF DrainStart, DrainEnd
<1>2. UNCHANGED <<quota, command, torn, raced>>
  BY <1>1 DEF quotaVars
<1>3. /\ worker' \in WorkerShape /\ worker'.pc \in {"idle", "drain"}
      /\ \A o \in Owner : worker'.todo[o] \in {0, pending[o]}
  <2>1. CASE worker' = AtRest
    BY <2>1, RestShape
  <2>2. CASE worker' = [AtRest EXCEPT !.pc = "drain", !.todo = pending]
    <3>1. pending \in [Owner -> Nat]
      BY PromiseShapes
    <3> QED
      BY <2>2, <3>1, RestShape DEF WorkerShape
  <2> QED
    BY <1>1, <2>1, <2>2
<1>4. HolderSound'
  <2>1. ManagerTypes /\ HolderSound
    BY DEF ManagerInv, PromiseInv
  <2> QED
    BY <1>1, <1>2, <1>3, <2>1, HolderFrame DEF ReqFrame, WorkerFrame
<1>5. ApplierTypes' /\ WorkerSound'
  BY <1>1, <1>3 DEF PromiseInv, ApplierTypes, WorkerSound, WorkerShape
<1>6. ASSUME NEW o \in Owner PROVE PromiseSound(o)' /\ AppliedSound(o)'
  <2>1. PromiseSound(o) /\ On(o)' = On(o)
    BY <1>2 DEF PromiseInv, On
  <2> QED
    BY <1>1, <1>2, <1>3, <2>1, PromiseFrame DEF AppliedSound
<1> QED
  BY <1>1, <1>4, <1>5, <1>6, QuietManager DEF PromiseInv

\* An entry that is cleared was applied, and is what was promised.
LEMMA SettlePromise == ASSUME ManagerInv, PromiseInv, DrainSettle PROVE PromiseInv' /\ ManagerInv'
<1>1. UNCHANGED <<async, quotaVars, req, want>> /\ worker.pc = "settle"
  BY DEF DrainSettle
<1>2. UNCHANGED <<quota, command, torn, raced>>
  BY <1>1 DEF quotaVars
<1>3. /\ pending \in [Owner -> Nat] /\ worker \in WorkerShape /\ want \in [Owner -> Nat]
      /\ WorkerSound /\ HolderSound /\ ManagerTypes
  BY PromiseShapes DEF PromiseInv, ManagerInv
<1>4. PICK o \in Owner : o = worker.cur
  BY <1>1, <1>3 DEF WorkerSound
<1> DEFINE rest == [worker.todo EXCEPT ![o] = 0]
           m == [worker EXCEPT !.pc = "drain", !.todo = rest, !.cur = None, !.ok = FALSE, !.failed = @ \/ ~worker.ok]
<1>5. rest \in [Owner -> Nat] /\ rest[o] = 0 /\ \A p \in Owner \ {o} : rest[p] = worker.todo[p]
  BY <1>3 DEF WorkerShape
<1>6. worker' = m /\ pending' = [pending EXCEPT ![o] = Cleared(o)]
  BY <1>4 DEF DrainSettle
<1> HIDE DEF rest
<1>7. m \in WorkerShape /\ m.pc = "drain" /\ m.todo = rest
  BY <1>3, <1>5 DEF WorkerShape
<1> HIDE DEF m
<1>8. /\ pending' \in [Owner -> Nat] /\ \A p \in Owner \ {o} : pending'[p] = pending[p]
      /\ pending'[o] = pending[o] \/ (pending'[o] = 0 /\ worker.ok /\ pending[o] = worker.todo[o])
  BY <1>3, <1>6 DEF Cleared
<1>9. HolderSound'
  BY <1>1, <1>2, <1>3, <1>6, <1>7, HolderFrame DEF ReqFrame, WorkerFrame
<1>10. ApplierTypes' /\ WorkerSound'
  BY <1>1, <1>3, <1>5, <1>6, <1>7, <1>8 DEF ApplierTypes, WorkerSound, WorkerShape
<1>11. \A p \in Owner : AppliedSound(p)'
  BY <1>6, <1>7 DEF AppliedSound
<1>12. ASSUME NEW p \in Owner PROVE PromiseSound(p)'
  <2>1. PromiseSound(p) /\ AppliedSound(p) /\ On(p)' = On(p)
    BY <1>2 DEF PromiseInv, On
  <2>2. CASE pending'[p] = pending[p]
    BY <1>1, <1>2, <2>1, <2>2, PromiseFrame
  <2>3. CASE p = o /\ pending'[o] = 0 /\ worker.ok /\ pending[o] = worker.todo[o]
    <3>1. want[p] # 0 => want[p] = worker.todo[p]
      BY <1>1, <1>3, <1>4, <2>1, <2>3 DEF PromiseSound, WorkerSound
    <3> QED
      BY <1>1, <1>2, <1>4, <2>1, <2>3, <3>1 DEF PromiseSound, AppliedSound, Recorded
  <2> QED
    BY <1>8, <2>2, <2>3
<1> QED
  BY <1>1, <1>9, <1>10, <1>11, <1>12, QuietManager DEF PromiseInv

\* A command begins: for by, with this size, and the record of no other owner
\* changes.
Begun(by, o, size) == AllocateBegin(by, o, size) \/ ResizeBegin(by, o, size)

LEMMA BegunShape ==
    ASSUME ManagerInv, NEW o \in Owner, NEW size \in Nat, NEW by \in Slot \cup {"applier"}, Begun(by, o, size)
    PROVE  /\ ManagerInv' /\ command = None /\ command' # None
           /\ command'.by = by /\ command'.o = o /\ command'.size = size
           /\ UNCHANGED <<torn, raced>> /\ \A p \in Owner \ {o} : quota'[p] = quota[p]
           /\ \/ command'.kind = "allocate" /\ AllocateBegin(by, o, size)
              \/ command'.kind = "resize" /\ quota' = quota
<1>1. \A k : /\ Locked(by, o, size, k).by = by /\ Locked(by, o, size, k).o = o
             /\ Locked(by, o, size, k).size = size /\ Locked(by, o, size, k).kind = k
  BY DEF Locked
<1>2. quota \in Records
  BY DEF ManagerInv, ManagerTypes
<1>3. CASE AllocateBegin(by, o, size)
  <2>1. ManagerInv' /\ command' # None /\ command' = Locked(by, o, size, "allocate")
    BY <1>3, AllocateBeginKeeps
  <2>2. command = None /\ UNCHANGED <<torn, raced>> /\ \A p \in Owner \ {o} : quota'[p] = quota[p]
    BY <1>2, <1>3 DEF AllocateBegin, Records
  <2> QED
    BY <1>1, <1>3, <2>1, <2>2
<1>4. CASE ResizeBegin(by, o, size)
  <2>1. ManagerInv' /\ command' # None /\ command' = Locked(by, o, size, "resize")
    BY <1>4, ResizeBeginKeeps
  <2>2. command = None /\ UNCHANGED <<torn, raced, quota>>
    BY <1>4 DEF ResizeBegin
  <2> QED
    BY <1>1, <2>1, <2>2
<1> QED
  BY <1>3, <1>4 DEF Begun

\* While the command runs nothing is claimed of its owner.
LEMMA BegunPromises ==
    ASSUME NEW o \in Owner, \A p \in Owner : PromiseSound(p), command = None, command' # None, command'.o = o,
           \A p \in Owner \ {o} : quota'[p] = quota[p], UNCHANGED <<torn, raced, want, pending>>
    PROVE  \A p \in Owner : PromiseSound(p)'
<1>1. ASSUME NEW p \in Owner \ {o} PROVE PromiseSound(p)'
  BY <1>1, PromiseFrame DEF On
<1>2. PromiseSound(o)'
  BY DEF PromiseSound, On
<1> QED
  BY <1>1, <1>2

LEMMA ApplyPromise ==
    ASSUME ManagerInv, PromiseInv, NEW o \in Owner, DrainApply(o)
    PROVE  PromiseInv' /\ ManagerInv'
<1>1. /\ UNCHANGED <<async, pending, req, want>> /\ worker.pc = "drain" /\ worker.todo[o] # 0
  BY DEF DrainApply
<1>2. /\ pending \in [Owner -> Nat] /\ worker \in WorkerShape /\ want \in [Owner -> Nat]
      /\ WorkerSound /\ HolderSound /\ ManagerTypes /\ \A p \in Owner : PromiseSound(p) /\ AppliedSound(p)
  BY PromiseShapes DEF PromiseInv, ManagerInv
<1>3. PICK n \in Nat \ {0} : n = worker.todo[o]
  BY <1>1, <1>2 DEF WorkerShape
<1> DEFINE done(ok) == [[worker EXCEPT !.cur = o] EXCEPT !.pc = "settle", !.ok = ok]
           took == [[worker EXCEPT !.cur = o] EXCEPT !.pc = "command"]
<1>4. \/ command = None /\ Recorded(o, n) /\ worker' = done(TRUE) /\ UNCHANGED quotaVars
      \/ worker' = done(FALSE) /\ UNCHANGED quotaVars
      \/ Begun("applier", o, n) /\ worker' = took
  BY <1>3 DEF DrainApply, Begun, AllocateUnsaved
<1>5. ASSUME NEW ok \in BOOLEAN
      PROVE  /\ done(ok) \in WorkerShape /\ done(ok).pc = "settle" /\ done(ok).ok = ok
             /\ done(ok).cur = o /\ done(ok).todo = worker.todo
  BY <1>2 DEF WorkerShape
<1>6. took \in WorkerShape /\ took.pc = "command" /\ took.cur = o /\ took.todo = worker.todo
  BY <1>2 DEF WorkerShape
<1> HIDE DEF done, took
<1>7. ASSUME NEW ok \in BOOLEAN, worker' = done(ok), UNCHANGED quotaVars, ok => Recorded(o, n)
      PROVE  PromiseInv' /\ ManagerInv'
  <2>1. UNCHANGED <<quota, command, torn, raced>>
    BY <1>7 DEF quotaVars
  <2>2. HolderSound'
    BY <1>1, <1>2, <1>5, <1>7, <2>1, HolderFrame DEF ReqFrame, WorkerFrame
  <2>3. ApplierTypes' /\ WorkerSound'
    BY <1>1, <1>2, <1>5, <1>7 DEF ApplierTypes, WorkerSound, WorkerShape
  <2>4. ASSUME NEW p \in Owner PROVE PromiseSound(p)'
    BY <1>1, <1>2, <2>1, PromiseFrame DEF On
  <2>5. ASSUME NEW p \in Owner PROVE AppliedSound(p)'
    BY <1>3, <1>5, <1>7, <2>1 DEF AppliedSound, Recorded
  <2> QED
    BY <1>7, <2>2, <2>3, <2>4, <2>5, QuietManager DEF PromiseInv
<1>8. CASE Begun("applier", o, n) /\ worker' = took
  <2>1. /\ ManagerInv' /\ command = None /\ command' # None
        /\ command'.by = "applier" /\ command'.o = o /\ command'.size = n
        /\ UNCHANGED <<torn, raced>> /\ \A p \in Owner \ {o} : quota'[p] = quota[p]
    BY <1>8, BegunShape
  <2>2. HolderSound'
    BY <1>1, <1>2, <1>3, <1>6, <1>8, <2>1 DEF HolderSound
  <2>3. ApplierTypes' /\ WorkerSound'
    BY <1>1, <1>2, <1>6, <1>8 DEF ApplierTypes, WorkerSound, WorkerShape
  <2>4. \A p \in Owner : PromiseSound(p)'
    BY <1>1, <1>2, <2>1, BegunPromises
  <2>5. \A p \in Owner : AppliedSound(p)'
    BY <1>6, <1>8 DEF AppliedSound
  <2> QED
    BY <2>1, <2>2, <2>3, <2>4, <2>5 DEF PromiseInv
<1> QED
  BY <1>4, <1>7, <1>8

\* The record of the command's owner is all that a command changes.
LEMMA DrainCommandPromise ==
    ASSUME ManagerInv, PromiseInv, DrainCommand
    PROVE  PromiseInv' /\ ManagerInv'
<1>1. /\ UNCHANGED <<async, pending, req, want>> /\ worker.pc = "command"
  BY DEF DrainCommand
<1>2. /\ pending \in [Owner -> Nat] /\ worker \in WorkerShape /\ want \in [Owner -> Nat]
      /\ WorkerSound /\ HolderSound /\ ManagerTypes /\ \A p \in Owner : PromiseSound(p) /\ AppliedSound(p)
  BY PromiseShapes DEF PromiseInv, ManagerInv
<1>3. command # None /\ command.by = "applier" /\ worker.cur = command.o /\ worker.todo[command.o] = command.size
  BY <1>1, <1>2 DEF HolderSound
<1>4. PICK o \in Owner : o = command.o
  BY <1>2, <1>3 DEF ManagerTypes, Commands
<1>5. pending[o] # 0
  BY <1>1, <1>2, <1>3, <1>4 DEF WorkerSound
<1> DEFINE done(ok) == [worker EXCEPT !.pc = "settle", !.ok = ok]
<1>6. ASSUME NEW ok \in BOOLEAN
      PROVE  /\ done(ok) \in WorkerShape /\ done(ok).pc = "settle" /\ done(ok).ok = ok
             /\ done(ok).cur = o /\ done(ok).todo = worker.todo
  BY <1>2, <1>3, <1>4 DEF WorkerShape
<1>7. (CommandSucceeds /\ worker' = done(TRUE)) \/ (CommandFails /\ worker' = done(FALSE))
  BY DEF DrainCommand, Applied
<1> HIDE DEF done
<1>8. PICK ok \in BOOLEAN : worker' = done(ok) /\ (ok => CommandSucceeds) /\ (~ok => CommandFails)
  BY <1>7
<1>9. /\ ManagerInv' /\ command' = None /\ \A p \in Owner \ {o} : quota'[p] = quota[p]
      /\ ok => quota'[o] # None /\ quota'[o].size = command.size
      /\ \A p \in Owner \ {o} : p \in torn \cup raced => p \in torn' \cup raced'
  <2>1. CASE ok
    BY <1>4, <1>8, <2>1, SucceedsKeeps DEF CommandSucceeds
  <2>2. CASE ~ok
    BY <1>4, <1>8, <2>2, FailsKeeps
  <2> QED
    BY <2>1, <2>2
<1>10. HolderSound'
  <2>1. \A s \in Slot : req[s].pc # "command"
    BY <1>2, <1>3, Apart DEF HolderSound
  <2> QED
    BY <1>1, <1>6, <1>8, <1>9, <2>1 DEF HolderSound
<1>11. ApplierTypes' /\ WorkerSound'
  BY <1>1, <1>2, <1>3, <1>4, <1>6, <1>8 DEF ApplierTypes, WorkerSound, WorkerShape
<1>12. ASSUME NEW p \in Owner PROVE PromiseSound(p)'
  <2>1. CASE p = o
    BY <1>1, <1>2, <1>5, <2>1 DEF PromiseSound
  <2>2. CASE p # o
    BY <1>1, <1>2, <1>4, <1>9, <2>2, PromiseFrame DEF On
  <2> QED
    BY <2>1, <2>2
<1>13. ASSUME NEW p \in Owner PROVE AppliedSound(p)'
  BY <1>3, <1>4, <1>6, <1>8, <1>9 DEF AppliedSound, Recorded
<1> QED
  BY <1>9, <1>10, <1>11, <1>12, <1>13 DEF PromiseInv

LEMMA AskShape ==
    ASSUME RegistryInv, NEW s \in Slot, req[s].pc \in {"quota", "lookup", "command"}
    PROVE  req \in [Slot -> ReqShape] /\ req[s].o \in Owner /\ req[s].size \in Nat \ {0}
<1>1. req \in [Slot -> ReqShape] /\ HandlerSound(s)
  BY DEF RegistryInv, RegistryTypes
<1> QED
  BY <1>1, IdleShape DEF HandlerSound, ReqShape

\* A size handed to the applier is pending and promised.
LEMMA EnqueuePromise ==
    ASSUME RegistryInv, ManagerInv, PromiseInv, NEW s \in Slot, QuotaEnqueue(s)
    PROVE  PromiseInv' /\ ManagerInv'
<1>1. /\ UNCHANGED <<async, quotaVars, worker>> /\ async /\ req[s].pc = "quota" /\ Goto(s, "lookup")
      /\ pending' = [pending EXCEPT ![req[s].o] = req[s].size]
      /\ want' = [want EXCEPT ![req[s].o] = req[s].size]
  BY DEF QuotaEnqueue, Enqueue
<1>2. /\ pending \in [Owner -> Nat] /\ worker \in WorkerShape /\ want \in [Owner -> Nat]
      /\ WorkerSound /\ HolderSound /\ ManagerTypes /\ \A p \in Owner : PromiseSound(p) /\ AppliedSound(p)
  BY PromiseShapes DEF PromiseInv, ManagerInv
<1>3. req \in [Slot -> ReqShape] /\ req[s].o \in Owner /\ req[s].size \in Nat \ {0}
  BY <1>1, AskShape
<1>4. PICK o \in Owner, n \in Nat \ {0} : o = req[s].o /\ n = req[s].size
  BY <1>3
<1>5. /\ pending' \in [Owner -> Nat] /\ pending'[o] = n /\ \A p \in Owner \ {o} : pending'[p] = pending[p]
      /\ want' \in [Owner -> Nat] /\ want'[o] = n /\ \A p \in Owner \ {o} : want'[p] = want[p]
  BY <1>1, <1>2, <1>4
<1>6. UNCHANGED <<quota, command, torn, raced>>
  BY <1>1 DEF quotaVars
<1>7. HolderSound'
  <2>1. ReqFrame
    BY <1>1, <1>3, PlainFrame
  <2> QED
    BY <1>1, <1>2, <1>6, <2>1, HolderFrame DEF WorkerFrame
<1>8. ApplierTypes' /\ WorkerSound'
  <2>1. ApplierTypes'
    BY <1>1, <1>2, <1>5 DEF ApplierTypes, WorkerShape
  <2>2. \A p \in Owner : worker'.todo[p] # 0 => pending'[p] # 0
    BY <1>1, <1>2, <1>5 DEF WorkerSound
  <2> QED
    BY <1>1, <1>2, <2>1, <2>2 DEF WorkerSound
<1>9. ASSUME NEW p \in Owner PROVE PromiseSound(p)'
  <2>1. CASE p = o
    BY <1>5, <2>1 DEF PromiseSound
  <2>2. CASE p # o
    BY <1>2, <1>5, <1>6, <2>2, PromiseFrame DEF On
  <2> QED
    BY <2>1, <2>2
<1>10. ASSUME NEW p \in Owner PROVE AppliedSound(p)'
  BY <1>1, <1>2, <1>6, AppliedFrame
<1> QED
  BY <1>1, <1>7, <1>8, <1>9, <1>10, QuietManager DEF PromiseInv

\* Without an applier's list, and in the synchronous mode, nothing is pending.
LEMMA NothingPending ==
    ASSUME WorkerSound, NEW o \in Owner, ~async
    PROVE  pending[o] = 0 /\ ~(worker.pc = "settle" /\ worker.cur = o)
BY DEF WorkerSound

\* A handler starts a command of its own.
LEMMA BeginPromise ==
    ASSUME RegistryInv, ManagerInv, PromiseInv, NEW s \in Slot, req[s].pc = "quota",
           Begun(s, req[s].o, req[s].size), command'.kind = "allocate" => ~async,
           Goto(s, "command"), UNCHANGED <<async, pending, worker, want>>
    PROVE  PromiseInv' /\ ManagerInv'
<1>1. /\ pending \in [Owner -> Nat] /\ worker \in WorkerShape /\ want \in [Owner -> Nat]
      /\ WorkerSound /\ HolderSound /\ ManagerTypes /\ \A p \in Owner : PromiseSound(p) /\ AppliedSound(p)
  BY PromiseShapes DEF PromiseInv, ManagerInv
<1>2. req \in [Slot -> ReqShape] /\ req[s].o \in Owner /\ req[s].size \in Nat \ {0}
  BY AskShape
<1>3. PICK o \in Owner, n \in Nat \ {0} : o = req[s].o /\ n = req[s].size
  BY <1>2
<1>4. Begun(s, o, n)
  BY <1>3
<1>5. /\ ManagerInv' /\ command = None /\ command' # None
      /\ command'.by = s /\ command'.o = o /\ command'.size = n
      /\ UNCHANGED <<torn, raced>> /\ \A p \in Owner \ {o} : quota'[p] = quota[p]
      /\ command'.kind = "allocate" \/ quota' = quota
  BY <1>4, BegunShape
<1>6. OnlySlot(s) /\ req'[s].pc = "command" /\ req'[s].o = o /\ req'[s].size = n
  BY <1>2, <1>3, GotoShape
<1>7. HolderSound'
  <2>1. worker.pc # "command" /\ \A i \in Slot : req[i].pc # "command"
    BY <1>1, <1>5 DEF HolderSound
  <2> QED
    BY <1>3, <1>5, <1>6, <2>1, Apart DEF HolderSound, OnlySlot
<1>8. ApplierTypes' /\ WorkerSound'
  BY <1>1 DEF ApplierTypes, WorkerSound, WorkerShape
<1>9. \A p \in Owner : PromiseSound(p)'
  BY <1>1, <1>5, BegunPromises
<1>10. ASSUME NEW p \in Owner PROVE AppliedSound(p)'
  <2>1. CASE quota'[p] = quota[p]
    BY <1>1, <1>5, <2>1, AppliedFrame
  <2>2. CASE p = o /\ ~async
    BY <1>1, <2>2, NothingPending DEF AppliedSound
  <2> QED
    BY <1>5, <2>1, <2>2
<1> QED
  BY <1>5, <1>7, <1>8, <1>9, <1>10 DEF PromiseInv

\* A handler ends its call of the manager without a command: req[s] is
\* answered, the promise to its owner is n, and that is recorded or nothing.
LEMMA AnswerPromise ==
    ASSUME RegistryInv, ManagerInv, PromiseInv, NEW s \in Slot, req[s].pc = "quota",
           NEW n \in Nat, want' = [want EXCEPT ![req[s].o] = n],
           n # 0 => pending[req[s].o] = 0 /\ Recorded(req[s].o, n),
           Done(s) \/ Goto(s, "open"), UNCHANGED <<async, quotaVars, pending, worker>>
    PROVE  PromiseInv' /\ ManagerInv'
<1>1. /\ pending \in [Owner -> Nat] /\ worker \in WorkerShape /\ want \in [Owner -> Nat]
      /\ WorkerSound /\ HolderSound /\ ManagerTypes /\ \A p \in Owner : PromiseSound(p) /\ AppliedSound(p)
  BY PromiseShapes DEF PromiseInv, ManagerInv
<1>2. req \in [Slot -> ReqShape] /\ req[s].o \in Owner
  BY AskShape
<1>3. PICK o \in Owner : o = req[s].o
  BY <1>2
<1>4. UNCHANGED <<quota, command, torn, raced>>
  BY DEF quotaVars
<1>5. HolderSound'
  <2>1. ReqFrame
    BY <1>2, PlainFrame
  <2> QED
    BY <1>1, <1>4, <2>1, HolderFrame DEF WorkerFrame
<1>6. want' \in [Owner -> Nat] /\ want'[o] = n /\ \A p \in Owner \ {o} : want'[p] = want[p]
  BY <1>1, <1>3
<1>7. ApplierTypes' /\ WorkerSound'
  BY <1>1, <1>6 DEF ApplierTypes, WorkerSound, WorkerShape
<1>8. ASSUME NEW p \in Owner PROVE PromiseSound(p)'
  <2>1. CASE p = o
    BY <1>3, <1>4, <1>6, <2>1 DEF PromiseSound, Recorded
  <2>2. CASE p # o
    BY <1>1, <1>4, <1>6, <2>2, PromiseFrame DEF On
  <2> QED
    BY <2>1, <2>2
<1>9. ASSUME NEW p \in Owner PROVE AppliedSound(p)'
  BY <1>1, <1>4, AppliedFrame
<1> QED
  BY <1>5, <1>7, <1>8, <1>9, QuietManager DEF PromiseInv

LEMMA EnsurePromise ==
    ASSUME RegistryInv, ManagerInv, PromiseInv, NEW s \in Slot, QuotaEnsure(s)
    PROVE  PromiseInv' /\ ManagerInv'
<1>1. req[s].pc = "quota" /\ (~async \/ req[s].op = "resize") /\ UNCHANGED <<async, pending, worker>>
  BY DEF QuotaEnsure, applierVars
<1>2. PICK o \in Owner, n \in Nat \ {0} : o = req[s].o /\ n = req[s].size
  BY <1>1, AskShape
<1>3. CASE Recorded(o, n) /\ Promise(s) /\ AfterQuota(s) /\ UNCHANGED quotaVars
  <2> DEFINE m == IF pending[o] = 0 THEN n ELSE 0
  <2>1. m \in Nat /\ want' = [want EXCEPT ![req[s].o] = m] /\ (m # 0 => pending[req[s].o] = 0 /\ Recorded(req[s].o, m))
    BY <1>2, <1>3 DEF Promise
  <2>2. Done(s) \/ Goto(s, "open")
    BY <1>3 DEF AfterQuota
  <2> HIDE DEF m
  <2> QED
    BY <1>1, <1>3, <2>1, <2>2, AnswerPromise
<1>4. CASE Done(s) /\ UNCHANGED <<quotaVars, want>>
  <2>1. ReqFrame
    BY <1>1, <1>4, AskShape, PlainFrame
  <2> QED
    BY <1>1, <1>4, <2>1, QuietPromise, QuietManager DEF quotaVars
<1>5. CASE AllocateUnsaved(o) /\ Refuse(s)
  BY <1>1, <1>2, <1>5, AnswerPromise DEF AllocateUnsaved, Refuse
<1>6. CASE /\ \/ req[s].op # "resize" /\ AllocateBegin(s, o, n)
              \/ ResizeBegin(s, o, n)
           /\ Goto(s, "command") /\ UNCHANGED want
  <2>1. Begun(s, req[s].o, req[s].size)
    BY <1>2, <1>6 DEF Begun
  <2>2. command'.kind = "allocate" => ~async
    <3>1. CASE ResizeBegin(s, o, n)
      BY <3>1 DEF ResizeBegin, Locked
    <3> QED
      BY <1>1, <1>6, <3>1
  <2> QED
    BY <1>1, <1>6, <2>1, <2>2, BeginPromise
<1> QED
  BY <1>2, <1>3, <1>4, <1>5, <1>6 DEF QuotaEnsure

\* The command of a handler ends.
LEMMA CommandPromise ==
    ASSUME RegistryInv, ManagerInv, PromiseInv, NEW s \in Slot, QuotaCommand(s)
    PROVE  PromiseInv' /\ ManagerInv'
<1>1. req[s].pc = "command" /\ UNCHANGED <<async, pending, worker>>
  BY DEF QuotaCommand, applierVars
<1>2. /\ pending \in [Owner -> Nat] /\ worker \in WorkerShape /\ want \in [Owner -> Nat]
      /\ WorkerSound /\ HolderSound /\ ManagerTypes /\ \A p \in Owner : PromiseSound(p) /\ AppliedSound(p)
  BY PromiseShapes DEF PromiseInv, ManagerInv
<1>3. req \in [Slot -> ReqShape]
  BY <1>1, AskShape
<1>4. PICK o \in Owner, n \in Nat \ {0} : o = req[s].o /\ n = req[s].size
  BY <1>1, AskShape
<1>5. /\ command # None /\ command.by = s /\ command.by # "applier" /\ command.o = o /\ command.size = n
      /\ command.kind = "allocate" => ~async
  BY <1>1, <1>2, <1>4, Apart DEF HolderSound
<1>6. Done(s) \/ Goto(s, "open")
  BY DEF QuotaCommand, AfterQuota, Refuse
<1>7. OnlySlot(s) /\ req'[s].pc # "command"
  BY <1>3, <1>6, DoneShape, GotoShape, IdleShape
<1>8. command' = None => HolderSound'
  <2>1. \A i \in Slot \ {s} : req[i].pc # "command"
    BY <1>2, <1>5 DEF HolderSound
  <2>2. worker.pc # "command"
    BY <1>2, <1>5 DEF HolderSound
  <2> QED
    BY <1>1, <1>7, <2>1, <2>2 DEF HolderSound, OnlySlot
<1>9. WorkerSound'
  BY <1>1, <1>2 DEF WorkerSound
<1>10. command.kind \in {"allocate", "resize"}
  BY <1>2, <1>5 DEF ManagerTypes, Commands
<1>11. CASE CommandSucceeds /\ Promise(s)
  <2>1. /\ ManagerInv' /\ command' = None /\ quota'[o] # None /\ quota'[o].size = n
        /\ \A p \in Owner \ {o} : quota'[p] = quota[p]
    BY <1>5, <1>11, SucceedsKeeps
  <2>2. /\ \A p \in Owner \ {o} : p \in torn \cup raced => p \in torn' \cup raced'
        /\ pending[o] # 0 => o \in raced'
    BY <1>5, <1>11 DEF CommandSucceeds
  <2>3. /\ want' \in [Owner -> Nat] /\ want'[o] = (IF pending[o] = 0 THEN n ELSE 0)
        /\ \A p \in Owner \ {o} : want'[p] = want[p]
    BY <1>2, <1>4, <1>11 DEF Promise
  <2>4. ApplierTypes'
    BY <1>1, <1>2, <2>3 DEF ApplierTypes, WorkerShape
  <2>5. ASSUME NEW p \in Owner PROVE PromiseSound(p)'
    <3>1. CASE p = o
      BY <1>1, <2>1, <2>3, <3>1 DEF PromiseSound, Recorded
    <3>2. CASE p # o
      BY <1>1, <1>2, <1>5, <2>1, <2>2, <2>3, <3>2, PromiseFrame DEF On
    <3> QED
      BY <3>1, <3>2
  <2>6. ASSUME NEW p \in Owner PROVE AppliedSound(p)'
    <3>1. CASE p = o
      BY <1>1, <1>2, <2>2, <3>1 DEF AppliedSound, WorkerSound
    <3>2. CASE p # o
      BY <1>1, <1>2, <2>1, <2>2, <3>2, AppliedFrame
    <3> QED
      BY <3>1, <3>2
  <2> QED
    BY <1>8, <1>9, <2>1, <2>4, <2>5, <2>6 DEF PromiseInv
<1>12. CASE CommandFails /\ Refuse(s)
  <2>1. /\ ManagerInv' /\ command' = None /\ raced' = raced /\ torn \subseteq torn'
        /\ \A p \in Owner : p # o \/ command.kind = "resize" => quota'[p] = quota[p]
    BY <1>5, <1>12, FailsKeeps
  <2>2. want' \in [Owner -> Nat] /\ want'[o] = 0 /\ \A p \in Owner \ {o} : want'[p] = want[p]
    BY <1>2, <1>4, <1>12 DEF Refuse
  <2>3. ApplierTypes'
    BY <1>1, <1>2, <2>2 DEF ApplierTypes, WorkerShape
  <2>4. ASSUME NEW p \in Owner PROVE PromiseSound(p)'
    <3>1. CASE p = o
      BY <2>2, <3>1 DEF PromiseSound
    <3>2. CASE p # o
      BY <1>1, <1>2, <1>5, <2>1, <2>2, <3>2, PromiseFrame DEF On
    <3> QED
      BY <3>1, <3>2
  <2>5. ASSUME NEW p \in Owner PROVE AppliedSound(p)'
    <3>1. CASE p = o /\ ~async
      BY <1>1, <1>2, <3>1, NothingPending DEF AppliedSound
    <3>2. CASE quota'[p] = quota[p]
      BY <1>1, <1>2, <2>1, <3>2, AppliedFrame
    <3> QED
      BY <1>5, <1>10, <2>1, <3>1, <3>2
  <2> QED
    BY <1>8, <1>9, <2>1, <2>3, <2>4, <2>5 DEF PromiseInv
<1> QED
  BY <1>11, <1>12 DEF QuotaCommand

\* A restart forgets what was pending, and the promises with it.
LEMMA RestartPromise ==
    ASSUME RegistryInv, ManagerInv, PromiseInv, Restart
    PROVE  PromiseInv' /\ ManagerInv'
<1>1. /\ async' = async /\ command' = None /\ pending' = [o \in Owner |-> 0] /\ worker' = AtRest
      /\ req' = [s \in Slot |-> Idle] /\ raced' = raced
      /\ torn' = torn \cup {o \in Owner : quota'[o] # quota[o] \/ (command # None /\ command.o = o)}
      /\ want' = [o \in Owner |-> IF pending[o] # 0 \/ o \in torn' THEN 0 ELSE want[o]]
  BY DEF Restart
<1>2. /\ want \in [Owner -> Nat] /\ \A p \in Owner : PromiseSound(p)
  BY PromiseShapes DEF PromiseInv
<1>3. /\ pending' \in [Owner -> Nat] /\ want' \in [Owner -> Nat] /\ worker' \in WorkerShape
      /\ worker'.pc = "idle" /\ \A o \in Owner : worker'.todo[o] = 0 /\ pending'[o] = 0
  BY <1>1, <1>2, RestShape
<1>4. ApplierTypes' /\ WorkerSound'
  BY <1>3 DEF ApplierTypes, WorkerSound, WorkerShape
<1>5. HolderSound'
  BY <1>1, <1>3, IdleShape DEF HolderSound
<1>6. ASSUME NEW p \in Owner PROVE PromiseSound(p)' /\ AppliedSound(p)'
  <2>1. want'[p] # 0 => /\ want'[p] = want[p] /\ pending[p] = 0 /\ p \notin torn' /\ p \notin torn
                        /\ quota'[p] = quota[p] /\ ~On(p)
    BY <1>1 DEF On
  <2>2. PromiseSound(p)'
    BY <1>1, <1>2, <1>3, <2>1 DEF PromiseSound, Recorded
  <2> QED
    BY <1>3, <2>2 DEF AppliedSound
<1> QED
  BY <1>4, <1>5, <1>6, RestartManager DEF PromiseInv

QuotaInv == RegistryInv /\ ManagerInv /\ PromiseInv

LEMMA QuotaInit == Init => QuotaInv
<1> SUFFICES ASSUME Init PROVE QuotaInv
  OBVIOUS
<1>1. /\ quota = [o \in Owner |-> None] /\ nextId = 0 /\ disk = [quota |-> quota, nextId |-> 0]
      /\ cap = [o \in Owner |-> 0] /\ command = None /\ torn = {} /\ raced = {}
      /\ pending = [o \in Owner |-> 0] /\ want = [o \in Owner |-> 0] /\ worker = AtRest
      /\ req = [s \in Slot |-> Idle]
  BY DEF Init
<1>2. quota \in Records /\ \A o \in Owner : quota[o] = None
  BY <1>1 DEF Records
<1>3. disk \in [quota : Records, nextId : Nat] /\ disk.quota = quota
  BY <1>1, <1>2
<1>4. ManagerInv
  BY <1>1, <1>2, <1>3 DEF ManagerInv, ManagerTypes, RunningSound, WellNumbered, LimitSound
<1>5. ApplierTypes /\ WorkerSound
  BY <1>1, RestShape DEF ApplierTypes, WorkerSound, WorkerShape
<1>6. HolderSound
  BY <1>1, RestShape, IdleShape DEF HolderSound
<1>7. \A o \in Owner : PromiseSound(o) /\ AppliedSound(o)
  BY <1>1, RestShape DEF PromiseSound, AppliedSound
<1> QED
  BY <1>4, <1>5, <1>6, <1>7, RegistryInit DEF QuotaInv, PromiseInv

LEMMA QuotaNext == QuotaInv /\ [Next]_vars => QuotaInv'
<1> SUFFICES ASSUME QuotaInv, [Next]_vars PROVE QuotaInv'
  OBVIOUS
<1>1. RegistryInv /\ ManagerInv /\ PromiseInv /\ RegistryInv'
  BY RegistryNext DEF QuotaInv
<1>2. ASSUME NEW s \in Slot, Request(s) \/ Handle(s) PROVE PromiseInv' /\ ManagerInv'
  BY <1>1, <1>2, RequestPromise, FilePromise, EnqueuePromise, EnsurePromise, CommandPromise DEF Handle
<1>3. CASE Apply
  BY <1>1, <1>3, DrainPromise, ApplyPromise, DrainCommandPromise, SettlePromise DEF Apply, QuotaInv
<1>4. CASE Restart
  BY <1>1, <1>4, RestartPromise DEF QuotaInv
<1>5. CASE UNCHANGED vars
  <2>1. UNCHANGED <<async, quotaVars, applierVars, req, want>>
    BY <1>5 DEF vars
  <2> QED
    BY <1>1, <2>1, QuietPromise, QuietManager DEF quotaVars, applierVars, ReqFrame, QuotaInv
<1> QED
  BY <1>1, <1>2, <1>3, <1>4, <1>5 DEF Next, QuotaInv

LEMMA QuotaAlways == Spec => []QuotaInv
BY QuotaInit, QuotaNext, PTL DEF Spec

\* No two accounts are given one project id, in memory or in the saved state,
\* whichever commands and saves fail and whenever the server restarts.
THEOREM ProjectsAlwaysDistinct == Spec => []ProjectsDistinct
<1>1. QuotaInv => ProjectsDistinct
  BY DEF QuotaInv, ManagerInv, WellNumbered, ProjectsDistinct
<1> QED
  BY <1>1, QuotaAlways, PTL

\* Once nothing is pending or running for an account, the limit on its
\* directory is the budget last promised with the margin, rounded up to the
\* next unit and no further.
THEOREM PromisesAreEnforced == Spec => []PromisedIsEnforced
<1>1. QuotaInv => PromisedIsEnforced
  <2> SUFFICES ASSUME QuotaInv, NEW o \in Owner, want[o] # 0, o \notin torn \cup raced, pending[o] = 0,
                      command = None \/ command.o # o
               PROVE  cap[o] * Unit >= want[o] + Margin /\ (cap[o] - 1) * Unit < want[o] + Margin
    BY DEF PromisedIsEnforced
  <2>1. want[o] \in Nat /\ PromiseSound(o) /\ LimitSound(o) /\ ~On(o)
    BY DEF QuotaInv, ManagerInv, PromiseInv, ApplierTypes, On
  <2>2. Recorded(o, want[o])
    BY <2>1 DEF PromiseSound
  <2>3. cap[o] = limit(want[o])
    BY <2>1, <2>2 DEF LimitSound, Recorded, Allocating
  <2> QED
    BY <2>1, <2>3, LimitBounds
<1> QED
  BY <1>1, QuotaAlways, PTL

=============================================================================
