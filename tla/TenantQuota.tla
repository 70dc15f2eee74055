---------------------------- MODULE TenantQuota ----------------------------
(***************************************************************************)
(* Tenant registration and account quotas on one orlop-server: the         *)
(* handlers of control_tenants.go, the file registered_tenants.json, the   *)
(* quota manager of internal/quota and the background applier of           *)
(* account_quota_async.go, with failures of every command and save, and    *)
(* restarts.                                                               *)
(*                                                                         *)
(* A tenant's directory lies below its owner's directory, or is that       *)
(* directory when the tenant is its own account.  The quota belongs to the *)
(* owner's directory: it is recorded by the manager (in memory and in      *)
(* quota_state.json) and set in the file system by an external command     *)
(* that takes its time, may fail, and may fail after it has taken effect.  *)
(***************************************************************************)
EXTENDS Integers, FiniteSets

CONSTANTS
    Tenant,    \* tenant ids
    Owner,     \* account tenant ids; a tenant that is its own account is in both
    OwnerOf,   \* the account each tenant belongs to
    Budgets,   \* the budgets each account may be given, positive
    Unit,      \* bytes per unit of the command's limit argument
    Margin,    \* burst margin in bytes
    Slot,      \* request handlers running at once
    MaxAsk,    \* bound on the requests
    MaxFault,  \* bound on the failures, restarts included
    None

ASSUME SizesPositive == (\A o \in Owner : Budgets[o] \subseteq Nat \ {0}) /\ Unit \in Nat \ {0} /\ Margin \in Nat
ASSUME Ownership == OwnerOf \in [Tenant -> Owner]
ASSUME NamesApart ==
    /\ None \notin Tenant \cup Owner \cup Slot /\ "applier" \notin Slot
    /\ None \notin [id : Nat, size : Nat]
    /\ None \notin [by : Slot \cup {"applier"}, o : Owner, size : Nat, kind : {"allocate", "resize"}]

VARIABLES
    async,    \* cfg.QuotaApplyAsync: quotas are applied by the background worker
    live,     \* serverState.tenants
    saved,    \* the tenants of registered_tenants.json
    dirs,     \* the tenants whose directory is there, with what was put in it
    regFile,  \* who holds regFileMu, and the list it has loaded
    quota,    \* the manager's records, by owner: [id, size] or None
    nextId,   \* NextProjectID, counted from 0
    disk,     \* quota_state.json: the records and NextProjectID last saved
    cap,      \* the limit set on each owner's directory, 0 for none
    command,  \* the holder of the manager's mutex while its command runs
    pending,  \* the applier's pending map: desired size, 0 for none
    wake,     \* a wake is queued
    timer,    \* the retry timer is armed
    worker,   \* the applier's goroutine: its place in drainOnce
    req,      \* the request handlers
    asked,    \* requests so far
    faults,   \* failures so far
    want,     \* ghost: the budget last promised to a caller, 0 for none
    torn,     \* ghost: owners whose limit a failure may have left apart from the record
    raced,    \* ghost: owners resized while the applier held a size for them
    unsaved,  \* ghost: tenants for which a save of the list or an open has failed
    uprooted  \* ghost: tenants whose directory went with their account's, until it is made again

quotaVars == <<quota, nextId, disk, cap, command, torn, raced>>
fileVars == <<live, saved, dirs, regFile, unsaved, uprooted>>
applierVars == <<pending, wake, timer, worker>>
vars == <<async, fileVars, quotaVars, applierVars, req, asked, faults, want>>

Idle == [op |-> "none", pc |-> "idle", t |-> None, o |-> None, size |-> 0]
AtRest == [pc |-> "idle", todo |-> [o \in Owner |-> 0], cur |-> None, ok |-> FALSE, failed |-> FALSE]
Unheld == [by |-> None, had |-> {}]

\* The argument of the quota command: the size and the margin in whole units,
\* rounded up, at least one.
limit(size) ==
    LET units == (size + Margin + Unit - 1) \div Unit
    IN  IF units < 1 THEN 1 ELSE units

Init ==
    /\ async \in BOOLEAN
    /\ live = {} /\ saved = {} /\ dirs = {} /\ regFile = Unheld
    /\ quota = [o \in Owner |-> None] /\ nextId = 0
    /\ disk = [quota |-> quota, nextId |-> 0]
    /\ cap = [o \in Owner |-> 0] /\ command = None
    /\ pending = [o \in Owner |-> 0] /\ wake = FALSE /\ timer = FALSE /\ worker = AtRest
    /\ req = [s \in Slot |-> Idle] /\ asked = 0 /\ faults = 0
    /\ want = [o \in Owner |-> 0] /\ torn = {} /\ raced = {} /\ unsaved = {} /\ uprooted = {}

-----------------------------------------------------------------------------
(* The quota manager.  Its mutex is held from begin to end.                *)

Fault == faults < MaxFault /\ faults' = faults + 1
NoFault == UNCHANGED faults

Save == disk' = [quota |-> quota', nextId |-> nextId']
SaveFails == disk' = disk

Locked(by, o, size, kind) == [by |-> by, o |-> o, size |-> size, kind |-> kind]

\* An equal record is an answer: nothing is run.
Recorded(o, size) == quota[o] # None /\ quota[o].size = size

\* Allocate: the record is made and saved before the command runs.
AllocateBegin(by, o, size) ==
    /\ command = None /\ quota[o] = None
    /\ quota' = [quota EXCEPT ![o] = [id |-> nextId, size |-> size]]
    /\ nextId' = nextId + 1
    /\ Save
    /\ command' = Locked(by, o, size, "allocate")
    /\ NoFault
    /\ UNCHANGED <<cap, torn, raced>>

\* The save fails: the record is taken back and the call fails.
AllocateUnsaved(o) ==
    /\ command = None /\ quota[o] = None
    /\ Fault
    /\ UNCHANGED quotaVars

\* EnsureQuota, another size recorded: Resize runs the command before it
\* touches the record.
ResizeBegin(by, o, size) ==
    /\ command = None /\ quota[o] # None /\ quota[o].size # size
    /\ command' = Locked(by, o, size, "resize")
    /\ NoFault
    /\ UNCHANGED <<quota, nextId, disk, cap, torn, raced>>

\* The command may have taken effect although it is reported to have failed.
FailedEffect ==
    \/ UNCHANGED <<cap, torn>>
    \/ /\ cap' = [cap EXCEPT ![command.o] = limit(command.size)]
       /\ torn' = torn \cup {command.o}

\* Mutant: the record stays when its id is given back.
BugRollback ==
    /\ nextId' = nextId - 1
    /\ UNCHANGED quota
    /\ Save \/ SaveFails

rollback ==
    /\ quota' = [quota EXCEPT ![command.o] = None]
    /\ nextId' = nextId - 1
    /\ Save \/ SaveFails

\* The command succeeded, and the manager's record with it.
CommandSucceeds ==
    /\ command # None
    /\ cap' = [cap EXCEPT ![command.o] = limit(command.size)]
    /\ torn' = torn \ {command.o}
    /\ raced' = IF command.by # "applier" /\ pending[command.o] # 0
                  THEN raced \cup {command.o} ELSE raced \ {command.o}
    /\ \/ command.kind = "allocate" /\ UNCHANGED <<quota, nextId, disk>>
       \/ /\ command.kind = "resize"
          /\ quota' = [quota EXCEPT ![command.o].size = command.size]
          /\ UNCHANGED nextId
          /\ Save
    /\ command' = None
    /\ NoFault

\* The command failed, or the save after a resize did: the limit has changed
\* and the record has not.
CommandFails ==
    /\ command # None
    /\ \/ command.kind = "allocate" /\ rollback /\ FailedEffect
       \/ command.kind = "resize" /\ FailedEffect /\ UNCHANGED <<quota, nextId, disk>>
    /\ command' = None
    /\ Fault
    /\ UNCHANGED raced

-----------------------------------------------------------------------------
(* The background applier.                                                 *)

Enqueue(o, size) ==
    /\ pending' = [pending EXCEPT ![o] = size]
    /\ wake' = TRUE
    /\ UNCHANGED <<timer, worker>>

\* run: woken or timed out, drainOnce takes a snapshot of the pending map.
DrainStart ==
    /\ worker.pc = "idle"
    /\ \/ wake /\ wake' = FALSE /\ UNCHANGED timer
       \/ timer /\ timer' = FALSE /\ UNCHANGED wake
    /\ worker' = [AtRest EXCEPT !.pc = "drain", !.todo = pending]
    /\ UNCHANGED <<async, fileVars, quotaVars, pending, req, asked, faults, want>>

Applied(ok) == worker' = [worker EXCEPT !.pc = "settle", !.ok = ok]

DrainApply(o) ==
    /\ worker.pc = "drain" /\ worker.todo[o] # 0
    /\ LET size == worker.todo[o]
           took == [worker EXCEPT !.cur = o]
       IN  \/ /\ command = None /\ Recorded(o, size)
              /\ worker' = [took EXCEPT !.pc = "settle", !.ok = TRUE]
              /\ NoFault /\ UNCHANGED quotaVars
           \/ /\ AllocateUnsaved(o)
              /\ worker' = [took EXCEPT !.pc = "settle", !.ok = FALSE]
           \/ /\ AllocateBegin("applier", o, size) \/ ResizeBegin("applier", o, size)
              /\ worker' = [took EXCEPT !.pc = "command"]
    /\ UNCHANGED <<async, fileVars, pending, wake, timer, req, asked, want>>

DrainCommand ==
    /\ worker.pc = "command"
    /\ \/ CommandSucceeds /\ Applied(TRUE)
       \/ CommandFails /\ Applied(FALSE)
    /\ UNCHANGED <<async, fileVars, pending, wake, timer, req, asked, want>>

\* Mutant: the entry goes although it was superseded during the apply.
BugCleared(o) == IF worker.ok THEN 0 ELSE pending[o]

\* An entry goes when what was applied is still what is desired.
Cleared(o) == IF worker.ok /\ pending[o] = worker.todo[o] THEN 0 ELSE pending[o]

DrainSettle ==
    /\ worker.pc = "settle"
    /\ LET o == worker.cur
           rest == [worker.todo EXCEPT ![o] = 0]
       IN  /\ pending' = [pending EXCEPT ![o] = Cleared(o)]
           /\ worker' = [worker EXCEPT !.pc = "drain", !.todo = rest, !.cur = None, !.ok = FALSE,
                                       !.failed = @ \/ ~worker.ok]
    /\ UNCHANGED <<async, fileVars, quotaVars, wake, timer, req, asked, faults, want>>

\* Mutant: a failed pass waits for the next wake.
BugDrainEnd ==
    /\ worker.pc = "drain" /\ \A o \in Owner : worker.todo[o] = 0
    /\ worker' = AtRest
    /\ UNCHANGED <<async, fileVars, quotaVars, pending, wake, timer, req, asked, faults, want>>

\* A failed pass arms the timer.
DrainEnd ==
    /\ worker.pc = "drain" /\ \A o \in Owner : worker.todo[o] = 0
    /\ worker' = AtRest
    /\ timer' = (timer \/ worker.failed)
    /\ UNCHANGED <<async, fileVars, quotaVars, pending, wake, req, asked, faults, want>>

-----------------------------------------------------------------------------
(* Requests.  A request is seen from the moment it has its tenant's        *)
(* registration lock, which it holds to its end; a request that is refused *)
(* at once (malformed, disabled, account full, no such tenant) changes     *)
(* nothing and is left out.  Handlers are interchangeable: the first idle  *)
(* one takes the request.                                                  *)

Goto(s, pc) == req' = [req EXCEPT ![s].pc = pc]
Done(s) == req' = [req EXCEPT ![s] = Idle]

LockFree(t) == \A s \in Slot : req[s].t # t

Begin(s, op, t, o, size, pc) ==
    /\ asked < MaxAsk /\ asked' = asked + 1
    /\ req[s] = Idle /\ s = (CHOOSE i \in Slot : req[i] = Idle)
    /\ req' = [req EXCEPT ![s] = [op |-> op, pc |-> pc, t |-> t, o |-> o, size |-> size]]
    /\ UNCHANGED <<async, saved, regFile, unsaved, quotaVars, applierVars, want>>

\* MkdirAll of the store and the metadata directory.
MakeDir(t) == dirs' = dirs \cup {t} /\ uprooted' = uprooted \ {t}

\* registerTenant: a tenant that is live only has its quota asserted again;
\* else its directories are made first.
registerTenant(s, t, size) ==
    /\ LockFree(t)
    /\ Begin(s, "register", t, OwnerOf[t], size, "quota")
    /\ IF t \in live THEN UNCHANGED <<dirs, uprooted>> ELSE MakeDir(t)
    /\ UNCHANGED <<live, faults>>

\* setAccountQuota takes no registration lock.
setAccountQuota(s, o, size) ==
    /\ Begin(s, "account", None, o, size, "quota")
    /\ UNCHANGED <<live, dirs, uprooted, faults>>

\* resizeTenant: the tenant must be live; the record is its own, not its owner's.
resizeTenant(s, t, size) ==
    /\ LockFree(t) /\ t \in live /\ t \in Owner
    /\ Begin(s, "resize", t, t, size, "quota")
    /\ UNCHANGED <<live, dirs, uprooted, faults>>

\* unregisterTenant: out of the map first ...
unregisterTenant(s, t) ==
    /\ LockFree(t) /\ t \in live
    /\ Begin(s, "unregister", t, OwnerOf[t], 0, "erase")
    /\ live' = live \ {t}
    /\ UNCHANGED <<dirs, uprooted, faults>>

Request(s) ==
    \/ \E t \in Tenant : \E size \in Budgets[OwnerOf[t]] :
          registerTenant(s, t, size) \/ resizeTenant(s, t, size)
    \/ \E t \in Tenant : unregisterTenant(s, t)
    \/ \E o \in Owner : \E size \in Budgets[o] : setAccountQuota(s, o, size)

\* What follows the quota: a new tenant is opened, the rest is answered.
AfterQuota(s) ==
    IF req[s].op = "register" /\ req[s].t \notin live THEN Goto(s, "open") ELSE Done(s)

\* The asynchronous path hands the size to the applier ...
QuotaEnqueue(s) ==
    /\ async /\ req[s].pc = "quota" /\ req[s].op # "resize"
    /\ Enqueue(req[s].o, req[s].size)
    /\ want' = [want EXCEPT ![req[s].o] = req[s].size]
    /\ Goto(s, "lookup")
    /\ UNCHANGED <<async, fileVars, quotaVars, asked, faults>>

\* ... and reads the project id of the last apply under the manager's mutex.
QuotaLookup(s) ==
    /\ req[s].pc = "lookup" /\ command = None
    /\ AfterQuota(s)
    /\ UNCHANGED <<async, fileVars, quotaVars, applierVars, asked, faults, want>>

\* A resize answered while the applier still holds an older size promises
\* nothing: that size will be applied over it.
Promise(s) ==
    want' = [want EXCEPT ![req[s].o] = IF pending[req[s].o] = 0 THEN req[s].size ELSE 0]
Refuse(s) == want' = [want EXCEPT ![req[s].o] = 0] /\ Done(s)

\* The synchronous path, and a resize of the tenant's own record.
QuotaEnsure(s) ==
    /\ req[s].pc = "quota" /\ (~async \/ req[s].op = "resize")
    /\ LET o == req[s].o
           size == req[s].size
       IN  \/ /\ command = None /\ Recorded(o, size)
              /\ Promise(s) /\ AfterQuota(s) /\ NoFault /\ UNCHANGED quotaVars
           \/ /\ command = None /\ req[s].op = "resize" /\ quota[o] = None
              /\ Done(s) /\ NoFault /\ UNCHANGED <<quotaVars, want>>
           \/ req[s].op # "resize" /\ AllocateUnsaved(o) /\ Refuse(s)
           \/ /\ \/ req[s].op # "resize" /\ AllocateBegin(s, o, size)
                 \/ ResizeBegin(s, o, size)
              /\ Goto(s, "command") /\ UNCHANGED want
    /\ UNCHANGED <<async, fileVars, applierVars, asked>>

QuotaCommand(s) ==
    /\ req[s].pc = "command"
    /\ \/ CommandSucceeds /\ Promise(s) /\ AfterQuota(s)
       \/ CommandFails /\ Refuse(s)
    /\ UNCHANGED <<async, fileVars, applierVars, asked>>

\* The tenant's databases are opened, which makes directories that have gone
\* since, and it is published in the map.
Publish(s) ==
    /\ req[s].pc = "open"
    /\ \/ live' = live \cup {req[s].t} /\ MakeDir(req[s].t) /\ Goto(s, "load") /\ NoFault
       \/ UNCHANGED <<live, dirs, uprooted>> /\ Done(s) /\ Fault
    /\ UNCHANGED <<async, saved, regFile, unsaved, quotaVars, applierVars, asked, want>>

\* What lies in a tenant's directory: the tenant, and every tenant of the
\* account when the tenant is its own account.
Below(t) == {x \in Tenant : x = t \/ (OwnerOf[t] = t /\ OwnerOf[x] = t)}

\* ... then its directory, with all that lies in it, and with the limit set on
\* it when the tenant is its own account; the record of that limit stays.  A
\* failure is only logged: some or all of what lies inside may have gone.
Erase(s) ==
    /\ req[s].pc = "erase"
    /\ Goto(s, "load")
    /\ LET t == req[s].t
       IN  \E gone \in SUBSET Below(t) :
              /\ \/ gone = Below(t) /\ NoFault
                 \/ (t \in gone => gone = Below(t)) /\ Fault
              /\ dirs' = dirs \ gone
              /\ uprooted' = (uprooted \ {t}) \cup (gone \ {t})
              /\ IF t \in gone /\ OwnerOf[t] = t
                   THEN cap' = [cap EXCEPT ![t] = 0] /\ torn' = torn \cup {t}
                   ELSE UNCHANGED <<cap, torn>>
    /\ UNCHANGED <<async, live, saved, regFile, unsaved, quota, nextId, disk, command, raced, applierVars, asked, want>>

\* Mutant: the list is loaded without regFileMu.
BugLoad(s) ==
    /\ req[s].pc = "load"
    /\ regFile' = [by |-> s, had |-> saved]
    /\ Goto(s, "write")
    /\ UNCHANGED <<async, live, saved, dirs, unsaved, uprooted, quotaVars, applierVars, asked, faults, want>>

\* mutateRegisteredTenants: load, change, write the whole list, under regFileMu.
Load(s) ==
    /\ req[s].pc = "load" /\ regFile.by = None
    /\ regFile' = [by |-> s, had |-> saved]
    /\ Goto(s, "write")
    /\ UNCHANGED <<async, live, saved, dirs, unsaved, uprooted, quotaVars, applierVars, asked, faults, want>>

Mutated(s) ==
    IF req[s].op = "register" THEN regFile.had \cup {req[s].t} ELSE regFile.had \ {req[s].t}

\* A failed write is logged and the request succeeds all the same.
Write(s) ==
    /\ req[s].pc = "write"
    /\ \/ saved' = Mutated(s) /\ unsaved' = unsaved \ {req[s].t} /\ NoFault
       \/ saved' = saved /\ unsaved' = unsaved \cup {req[s].t} /\ Fault
    /\ regFile' = Unheld
    /\ Done(s)
    /\ UNCHANGED <<async, live, dirs, uprooted, quotaVars, applierVars, asked, want>>

\* The process ends anywhere and starts again: the tenants of the file that can
\* be opened, the saved records, nothing pending.  A command that was running
\* may still take effect.
Restart ==
    /\ Fault
    /\ \E skipped \in SUBSET saved :
          /\ live' = saved \ skipped
          /\ dirs' = dirs \cup live' /\ uprooted' = uprooted \ live'
          /\ unsaved' = unsaved \cup skipped \cup {t \in Tenant : ~LockFree(t)}
    /\ quota' = disk.quota /\ nextId' = disk.nextId
    /\ cap' \in {cap} \cup (IF command = None THEN {}
                              ELSE {[cap EXCEPT ![command.o] = limit(command.size)]})
    /\ torn' = torn \cup {o \in Owner : quota'[o] # quota[o] \/ (command # None /\ command.o = o)}
    /\ want' = [o \in Owner |-> IF pending[o] # 0 \/ o \in torn' THEN 0 ELSE want[o]]
    /\ regFile' = Unheld /\ command' = None
    /\ pending' = [o \in Owner |-> 0] /\ wake' = FALSE /\ timer' = FALSE /\ worker' = AtRest
    /\ req' = [s \in Slot |-> Idle]
    /\ UNCHANGED <<async, saved, disk, asked, raced>>

Handle(s) ==
    \/ QuotaEnqueue(s) \/ QuotaLookup(s) \/ QuotaEnsure(s) \/ QuotaCommand(s)
    \/ Publish(s) \/ Erase(s) \/ Load(s) \/ Write(s)

Apply == DrainStart \/ (\E o \in Owner : DrainApply(o)) \/ DrainCommand \/ DrainSettle \/ DrainEnd

Next == (\E s \in Slot : Request(s) \/ Handle(s)) \/ Apply \/ Restart

Spec == Init /\ [][Next]_vars

(***************************************************************************)
(* Fairness.  Goroutines that can run do, so a request in hand goes on and *)
(* the applier drains; callers owe nothing.  Failures are bounded, so a    *)
(* command that is tried again and again succeeds at some point.           *)
(***************************************************************************)
FairSpec == Spec /\ WF_vars(Apply) /\ \A s \in Slot : WF_vars(Handle(s))

-----------------------------------------------------------------------------
(* Properties.                                                             *)

(***************************************************************************)
(* The map, the file and the directories agree on every tenant no request  *)
(* is working on: a live tenant has its directory, unless that went with   *)
(* the directory of its account, and is in the file exactly when it is     *)
(* live, unless a save or an open failed for it (control_tenants.go:95-106,*)
(* registered_tenants.go:77-81: the registration lock and regFileMu keep   *)
(* one request from undoing another).                                      *)
(***************************************************************************)
RegistryAgrees ==
    \A t \in Tenant : LockFree(t) =>
        /\ t \in live => t \in dirs \cup uprooted
        /\ t \in unsaved \/ (t \in live <=> t \in saved)

(***************************************************************************)
(* Once nothing is pending or running for an account, the limit on its     *)
(* directory is the budget last promised for it with the margin, rounded   *)
(* up to the next unit and no further, unless a failure after the command  *)
(* took effect, a restart within it or an unregistration left record and   *)
(* limit apart, or a resize overtook the applier                           *)
(* (account_quota_async.go:24-27: latest desired size wins).               *)
(***************************************************************************)
PromisedIsEnforced ==
    \A o \in Owner :
        (/\ want[o] # 0 /\ o \notin torn \cup raced
         /\ pending[o] = 0 /\ (command = None \/ command.o # o))
        => /\ cap[o] * Unit >= want[o] + Margin
           /\ (cap[o] - 1) * Unit < want[o] + Margin

(***************************************************************************)
(* No two accounts are given one project id, in memory or in the saved     *)
(* state, whichever commands and saves fail and whenever the server        *)
(* restarts (quota.go:424-432: a rollback gives the last id back).         *)
(***************************************************************************)
ProjectsDistinct ==
    \A q \in {quota, disk.quota} : \A o, p \in Owner :
        o # p /\ q[o] # None /\ q[p] # None => q[o].id # q[p].id

(***************************************************************************)
(* Every budget promised comes into force: again and again there is a      *)
(* moment at which each account has the limit last promised for it         *)
(* (account_quota_async.go:16-23: retried until it sticks), the accounts   *)
(* of PromisedIsEnforced's exception aside.                                *)
(***************************************************************************)
QuotaConverges ==
    []<>(\A o \in Owner : want[o] # 0 /\ o \notin torn \cup raced => cap[o] = limit(want[o]))

(***************************************************************************)
(* Refuted: a tenant that is served has its directory                      *)
(* (control_tenants.go:325-331: the teardown deletes the tenant's own      *)
(* directory).  The directory of a tenant that is its own account holds    *)
(* those of the account's other tenants (111-115), and RemoveAll takes     *)
(* them along while they are live (373).                                   *)
(***************************************************************************)
LiveHasDirectory == \A t \in Tenant : LockFree(t) /\ t \in live => t \in dirs

(***************************************************************************)
(* Doc claim, refuted: the latest budget wins even when a resize comes in  *)
(* between (account_quota_async.go:25-27).  drainOnce compares sizes to    *)
(* see whether its entry was superseded, so the same size asked for again  *)
(* after a resize is taken for the one already applied.                    *)
(***************************************************************************)
LatestBudgetWins ==
    \A o \in Owner :
        (want[o] # 0 /\ o \notin torn /\ pending[o] = 0 /\ command = None)
        => cap[o] = limit(want[o])

(***************************************************************************)
(* Doc claim, refuted: a registration returns without waiting for a quota  *)
(* command (account_quota_async.go:18-23).                                 *)
(***************************************************************************)
RegistrationNotHeldUp ==
    \A s \in Slot : ~(async /\ req[s].pc = "lookup" /\ command # None /\ command.by = "applier")

=============================================================================
