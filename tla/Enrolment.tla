----------------------------- MODULE Enrolment -----------------------------
(***************************************************************************)
(* Identity in orlop-control: the private CA and the secrets it keeps      *)
(* (internal/ca, internal/secrets), enrol tokens (internal/devauth), the   *)
(* enrolment of agents (agent_enroll_handlers.go) and the certificate an   *)
(* orlop-server obtains for itself (cert_provision.go), over replicas of   *)
(* the control plane that share one store, start at any time and die       *)
(* between any two steps.                                                  *)
(*                                                                         *)
(* A key pair is a number, drawn afresh by every generation; a certificate *)
(* is the pair it holds and the pair that signed it.  The store keeps, for *)
(* the root and for each tenant, a certificate and a key written one after *)
(* the other: in one transaction (Postgres), or as two files (one replica  *)
(* only).                                                                  *)
(***************************************************************************)
EXTENDS Integers, FiniteSets

CONSTANTS
    Replica,     \* processes of orlop-control
    FileReplica, \* the one that runs when secrets are files
    Tenant,
    Allowed,     \* tenants the operator's allowlist admits
    Token,       \* enrol bearers
    TenantOf,    \* the tenant of each bearer
    SingleUse,   \* bearers issued for one pod; the others are API tokens
    Request,     \* enrolments in progress at once
    MaxKey,      \* bound on the key pairs generated
    MaxCert      \* bound on the certificates minted

ASSUME FileReplicaAssumption == FileReplica \in Replica
ASSUME TokensAssumption == Token # {} /\ TenantOf \in [Token -> Tenant] /\ SingleUse \subseteq Token
ASSUME NamesAssumption == "root" \notin Tenant

None == 0

VARIABLES
    files,      \* secrets are files: no transaction, one replica
    secret,     \* the store: certificate and key of the root ("root") and of each tenant
    fresh,      \* key pairs generated so far
    ca,         \* the CA each replica has loaded
    token,      \* access_tokens: issued, spent, void (expired, revoked or its user suspended)
    barred,     \* tenants suspended, or whose allocation is revoked
    enrol,      \* enrolments in progress
    minted,     \* certificates signed so far
    rows,       \* serials in agent_enrollments
    delivered,  \* certificates an agent has received
    server      \* orlop-server: its leaf, the client CA it captured, the leaf's age

vars == <<files, secret, fresh, ca, token, barred, enrol, minted, rows, delivered, server>>

NoPair == [cert |-> None, signer |-> None, key |-> None]
Down == [up |-> FALSE, root |-> NoPair, tenants |-> [t \in Tenant |-> NoPair]]
AnyToken == CHOOSE k \in Token : TRUE
NoCert == [serial |-> None, tenant |-> TenantOf[AnyToken], token |-> AnyToken, by |-> None, chain |-> None]
NoEnrol == [pc |-> "idle", at |-> FileReplica, tok |-> AnyToken, cert |-> NoCert, pair |-> NoPair]
NoServer == [leaf |-> None, clientCA |-> None, age |-> "none"]

Init ==
    /\ files \in BOOLEAN
    /\ secret = [n \in {"root"} \cup Tenant |-> NoPair]
    /\ fresh = 0
    /\ ca = [r \in Replica |-> Down]
    /\ token = [k \in Token |-> [issued |-> FALSE, spent |-> FALSE, void |-> FALSE]]
    /\ barred = {}
    /\ enrol = [e \in Request |-> NoEnrol]
    /\ minted = 0 /\ rows = {} /\ delivered = {}
    /\ server = NoServer

-----------------------------------------------------------------------------
(* The CA.                                                                 *)

HasCert(n) == secret[n].cert # None
HasKey(n) == secret[n].key # None

\* A new pair: its certificate is signed by the pair given, a root by itself.
Generated(signer) ==
    [cert |-> fresh + 1, signer |-> IF signer = None THEN fresh + 1 ELSE signer, key |-> fresh + 1]

\* WithLock, read-check and both writes: one transaction, or the first of two
\* files.  The lock keeps every other writer of the name out until the key is
\* written, or the process is dead.
WritePair(n, pair) ==
    /\ fresh < MaxKey /\ fresh' = fresh + 1
    /\ secret' = [secret EXCEPT ![n] = IF files THEN [pair EXCEPT !.key = None] ELSE pair]

CanRun(r) == files => r = FileReplica

\* loadTenants: every tenant of the store, and one incomplete pair fails the start.
loadTenants == [t \in Tenant |-> secret[t]]
Complete(t) == HasCert(t) <=> HasKey(t)

\* loadOrBootstrapRoot, the root being there: its certificate is enough.
LoadRoot(r) ==
    /\ CanRun(r) /\ ~ca[r].up
    /\ HasCert("root") /\ \A t \in Tenant : Complete(t)
    /\ ca' = [ca EXCEPT ![r] = [up |-> TRUE, root |-> secret["root"], tenants |-> loadTenants]]
    /\ UNCHANGED <<files, secret, fresh, token, barred, enrol, minted, rows, delivered, server>>

BugNeedsRoot == \A t \in Tenant : ~HasCert(t)

\* ... the root not being there: it is generated and written first.
NeedsRoot == ~HasCert("root")

BootstrapRoot(r) ==
    /\ CanRun(r) /\ ~ca[r].up /\ NeedsRoot
    /\ WritePair("root", Generated(None))
    /\ ca' = [ca EXCEPT ![r] = [up |-> ~files, root |-> Generated(None), tenants |-> loadTenants]]
    /\ UNCHANGED <<files, token, barred, enrol, minted, rows, delivered, server>>

\* The second file of the root.
WriteRootKey(r) ==
    /\ files /\ ~ca[r].up /\ ca[r].root.key # None
    /\ secret' = [secret EXCEPT !["root"] = ca[r].root]
    /\ ca' = [ca EXCEPT ![r].up = TRUE]
    /\ UNCHANGED <<files, fresh, token, barred, enrol, minted, rows, delivered, server>>

-----------------------------------------------------------------------------
(* Enrolment of an agent.                                                  *)

Goto(e, pc) == enrol' = [enrol EXCEPT ![e].pc = pc]
End(e) == enrol' = [enrol EXCEPT ![e] = NoEnrol]

IssueAgentEnrollToken(k) ==
    /\ ~token[k].issued
    /\ token' = [token EXCEPT ![k].issued = TRUE]
    /\ UNCHANGED <<files, secret, fresh, ca, barred, enrol, minted, rows, delivered, server>>

\* A token expires or is revoked, or its user is suspended.
Void(k) ==
    /\ token[k].issued /\ ~token[k].void
    /\ token' = [token EXCEPT ![k].void = TRUE]
    /\ UNCHANGED <<files, secret, fresh, ca, barred, enrol, minted, rows, delivered, server>>

\* The tenant is suspended, or the allocation behind the token revoked.
Bar(t) ==
    /\ t \notin barred
    /\ barred' = barred \cup {t}
    /\ UNCHANGED <<files, secret, fresh, ca, token, enrol, minted, rows, delivered, server>>

\* authenticateRaw and RequireEnrollBearer.
Authentic(k) ==
    token[k].issued /\ ~token[k].spent /\ ~token[k].void /\ TenantOf[k] \notin barred

Present(e, r, k) ==
    /\ enrol[e].pc = "idle" /\ ca[r].up /\ Authentic(k)
    /\ enrol' = [enrol EXCEPT ![e] = [NoEnrol EXCEPT !.pc = "check", !.at = r, !.tok = k]]
    /\ UNCHANGED <<files, secret, fresh, ca, token, barred, minted, rows, delivered, server>>

\* handleEnroll checks the tenant and the allocation again and finds or makes
\* the placement; a failure of those leaves the token as it was.
Check(e) ==
    /\ enrol[e].pc = "check"
    /\ \/ TenantOf[enrol[e].tok] \notin barred /\ Goto(e, "ca")
       \/ End(e)
    /\ UNCHANGED <<files, secret, fresh, ca, token, barred, minted, rows, delivered, server>>

\* BootstrapTenant runs under c.mu: one at a time in a replica.
Bootstrapping(r) == \E e \in Request : enrol[e].at = r /\ enrol[e].pc = "key"

\* HasTenant, or an intermediate another replica has stored meanwhile.
UseStored(e) ==
    LET r == enrol[e].at
        t == TenantOf[enrol[e].tok]
    IN  /\ enrol[e].pc = "ca" /\ ~Bootstrapping(r)
        /\ ca[r].tenants[t].cert # None \/ (HasCert(t) /\ HasKey(t))
        /\ ca' = [ca EXCEPT ![r].tenants[t] = IF @.cert # None THEN @ ELSE secret[t]]
        /\ Goto(e, "mint")
        /\ UNCHANGED <<files, secret, fresh, token, barred, minted, rows, delivered, server>>

BugNeedsIntermediate(r, t) == ca[r].tenants[t].cert = None

\* Neither this replica nor, under the lock, the store has an intermediate.
NeedsIntermediate(r, t) == ca[r].tenants[t].cert = None /\ ~HasCert(t) /\ ~HasKey(t)

\* A new intermediate: allowlist, root key, then the pair.  A commit whose answer
\* is lost stores the pair and fails the request.
BootstrapTenant(e) ==
    LET r == enrol[e].at
        t == TenantOf[enrol[e].tok]
        pair == Generated(ca[r].root.key)
    IN  /\ enrol[e].pc = "ca" /\ ~Bootstrapping(r)
        /\ NeedsIntermediate(r, t)
        /\ t \in Allowed /\ ca[r].root.key # None
        /\ WritePair(t, pair)
        /\ IF files
             THEN enrol' = [enrol EXCEPT ![e].pc = "key", ![e].pair = pair] /\ UNCHANGED ca
             ELSE \/ Goto(e, "mint") /\ ca' = [ca EXCEPT ![r].tenants[t] = pair]
                  \/ End(e) /\ UNCHANGED ca
        /\ UNCHANGED <<files, token, barred, minted, rows, delivered, server>>

\* The second file of the intermediate.
WriteTenantKey(e) ==
    /\ enrol[e].pc = "key"
    /\ LET t == TenantOf[enrol[e].tok]
       IN  /\ secret' = [secret EXCEPT ![t] = enrol[e].pair]
           /\ ca' = [ca EXCEPT ![enrol[e].at].tenants[t] = enrol[e].pair]
    /\ Goto(e, "mint")
    /\ UNCHANGED <<files, fresh, token, barred, minted, rows, delivered, server>>

\* Not on the allowlist, no root key, half a pair in the store, or the store fails.
BootstrapRefused(e) ==
    /\ enrol[e].pc \in {"ca", "key"}
    /\ End(e)
    /\ UNCHANGED <<files, secret, fresh, ca, token, barred, minted, rows, delivered, server>>

\* A certificate carries the intermediate that signed it and the root of the
\* chain that goes with it.  A bearer without an allocation gets none.
MintAgentCert(e) ==
    /\ enrol[e].pc = "mint"
    /\ \/ /\ enrol[e].tok \in SingleUse /\ minted < MaxCert
          /\ minted' = minted + 1
          /\ LET r == enrol[e].at
                 t == TenantOf[enrol[e].tok]
             IN  enrol' = [enrol EXCEPT ![e].pc = "consume",
                      ![e].cert = [serial |-> minted + 1, tenant |-> t, token |-> enrol[e].tok,
                                   by |-> ca[r].tenants[t].key, chain |-> ca[r].root.cert]]
       \/ enrol[e].tok \notin SingleUse /\ End(e) /\ UNCHANGED minted
    /\ UNCHANGED <<files, secret, fresh, ca, token, barred, rows, delivered, server>>

BugConsumeHits(k) == token[k].issued

\* The UPDATE hits a token that is not consumed, whatever else became of it.
ConsumeHits(k) == token[k].issued /\ ~token[k].spent

\* The token is spent by one of the enrolments that got this far.
ConsumeAgentEnrollToken(e) ==
    /\ enrol[e].pc = "consume"
    /\ IF ConsumeHits(enrol[e].tok)
         THEN token' = [token EXCEPT ![enrol[e].tok].spent = TRUE] /\ Goto(e, "record")
         ELSE End(e) /\ UNCHANGED token
    /\ UNCHANGED <<files, secret, fresh, ca, barred, minted, rows, delivered, server>>

\* The enrolment is recorded, or the certificate is thrown away.
CreateAgentEnrollment(e) ==
    /\ enrol[e].pc = "record"
    /\ \/ rows' = rows \cup {enrol[e].cert.serial} /\ Goto(e, "reply")
       \/ End(e) /\ UNCHANGED rows
    /\ UNCHANGED <<files, secret, fresh, ca, token, barred, minted, delivered, server>>

\* The answer arrives, or is lost.
Reply(e) ==
    /\ enrol[e].pc = "reply"
    /\ End(e)
    /\ delivered' \in {delivered, delivered \cup {enrol[e].cert}}
    /\ UNCHANGED <<files, secret, fresh, ca, token, barred, minted, rows, server>>

-----------------------------------------------------------------------------
(* The server's own certificate.                                           *)

\* handleSign: a replica that holds the root key signs the request.
SignServerCSR(r) == ca[r].up /\ ca[r].root.key # None

\* The first round captures the client CA; a rotation swaps the leaf only.
Served(r) ==
    [leaf |-> ca[r].root.key, age |-> "fresh",
     clientCA |-> IF server.clientCA = None THEN ca[r].root.cert ELSE server.clientCA]

provision(r) ==
    /\ server.age \in {"none", "due", "expired"} /\ SignServerCSR(r)
    /\ server' = Served(r)
    /\ UNCHANGED <<files, secret, fresh, ca, token, barred, enrol, minted, rows, delivered>>

\* rotateAfter: two thirds of the lifetime make a leaf due, the rest expires it.
Older(age) == IF age = "fresh" THEN "due" ELSE "expired"

Age ==
    /\ server.age \in {"fresh", "due"}
    /\ server' = [server EXCEPT !.age = Older(@)]
    /\ UNCHANGED <<files, secret, fresh, ca, token, barred, enrol, minted, rows, delivered>>

ServerRestart ==
    /\ server # NoServer /\ server' = NoServer
    /\ UNCHANGED <<files, secret, fresh, ca, token, barred, enrol, minted, rows, delivered>>

\* A replica dies, with every request it was serving.
Crash(r) ==
    /\ ca[r] # Down
    /\ ca' = [ca EXCEPT ![r] = Down]
    /\ enrol' = [e \in Request |-> IF enrol[e].at = r THEN NoEnrol ELSE enrol[e]]
    /\ UNCHANGED <<files, secret, fresh, token, barred, minted, rows, delivered, server>>

Boot(r) == LoadRoot(r) \/ BootstrapRoot(r) \/ WriteRootKey(r)

handleEnroll(e) ==
    \/ Check(e) \/ UseStored(e) \/ BootstrapTenant(e) \/ WriteTenantKey(e) \/ BootstrapRefused(e)
    \/ MintAgentCert(e) \/ ConsumeAgentEnrollToken(e) \/ CreateAgentEnrollment(e) \/ Reply(e)

Next ==
    \/ \E r \in Replica : Boot(r) \/ Crash(r) \/ provision(r)
    \/ \E k \in Token : IssueAgentEnrollToken(k) \/ Void(k)
    \/ \E t \in Tenant : Bar(t)
    \/ \E e \in Request : (\E r \in Replica, k \in Token : Present(e, r, k)) \/ handleEnroll(e)
    \/ Age \/ ServerRestart

Spec == Init /\ [][Next]_vars

-----------------------------------------------------------------------------
(* Properties.                                                             *)

Pair == [cert : Nat, signer : Nat, key : Nat]
Cert == [serial : Nat, tenant : Tenant, token : Token, by : Nat, chain : Nat]
Step == {"idle", "check", "ca", "key", "mint", "consume", "record", "reply"}
EnrolShape == [pc : Step, at : Replica, tok : Token, cert : Cert, pair : Pair]

\* The shapes of the store, of what the replicas hold, and of the requests.
TypeOK ==
    /\ files \in BOOLEAN /\ fresh \in Nat /\ minted \in Nat
    /\ secret \in [{"root"} \cup Tenant -> Pair]
    /\ ca \in [Replica -> [up : BOOLEAN, root : Pair, tenants : [Tenant -> Pair]]]
    /\ token \in [Token -> [issued : BOOLEAN, spent : BOOLEAN, void : BOOLEAN]]
    /\ enrol \in [Request -> EnrolShape]
    /\ rows \subseteq Nat /\ delivered \subseteq Cert
    /\ server \in [leaf : Nat, clientCA : Nat, age : {"none", "fresh", "due", "expired"}]

Agree(p, q) == p.cert # None /\ q.cert # None => p.cert = q.cert

(***************************************************************************)
(* One authority: replicas that run have loaded one root, and one          *)
(* intermediate for each tenant, whichever of them generated it, so every  *)
(* certificate handed out was signed by the stored intermediate under the  *)
(* stored root (ca.go:137-166, 260-322: check and write under the lock).   *)
(***************************************************************************)
OneAuthority ==
    /\ \A r, s \in Replica : ca[r].up /\ ca[s].up =>
          Agree(ca[r].root, ca[s].root) /\ \A t \in Tenant : Agree(ca[r].tenants[t], ca[s].tenants[t])
    /\ \A c \in delivered : c.by = secret[c.tenant].cert /\ secret[c.tenant].signer = c.chain

(***************************************************************************)
(* Agents and the server trust each other: the server's client CA and the  *)
(* signer of the leaf it serves are the root of the chain every agent was  *)
(* given, across restarts of either side and rotations of the leaf         *)
(* (cert_provision.go:203-205: the client CA is stable across rotations).  *)
(***************************************************************************)
MutualTrust ==
    server.leaf # None => \A c \in delivered : c.chain = server.clientCA /\ c.chain = server.leaf

(***************************************************************************)
(* A token issued for one pod yields at most one certificate, and every    *)
(* certificate an agent holds has its row, by which it can be revoked,     *)
(* with enrolments of one token racing on several replicas, answers lost   *)
(* and replicas dying at any point (agent_enroll_handlers.go:246-276).     *)
(***************************************************************************)
OneCertPerToken ==
    /\ \A c, d \in delivered : c.token = d.token => c = d
    /\ \A c \in delivered : c.serial \in rows

=============================================================================
