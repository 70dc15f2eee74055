-------------------------- MODULE Enrolment_proofs --------------------------
(***************************************************************************)
(* Proofs about Enrolment, for any replicas, tenants, bearers and          *)
(* concurrent enrolments, with secrets in files or in a database.          *)
(***************************************************************************)
EXTENDS Enrolment, TLAPS

-----------------------------------------------------------------------------
(* The inductive invariants.                                               *)

\* A key belongs to its certificate.
Matches(p) == p.key \in {None, p.cert}

\* The stored pairs match, and every intermediate is signed by the stored root.
StoreSound ==
    /\ Matches(secret["root"])
    /\ \A t \in Tenant :
          /\ Matches(secret[t])
          /\ secret[t].cert # None => secret["root"].cert # None /\ secret[t].signer = secret["root"].cert

\* What a replica holds is what is stored; of a tenant it holds both halves.
LoadedSound ==
    \A r \in Replica :
        /\ Matches(ca[r].root)
        /\ ca[r].root.cert # None => ca[r].root.cert = secret["root"].cert
        /\ ca[r].up => ca[r].root.cert # None
        /\ \A t \in Tenant : ca[r].tenants[t].cert # None =>
              ca[r].tenants[t] = secret[t] /\ secret[t].key # None

\* A certificate is signed by the stored intermediate under the stored root.
Sound(c) ==
    /\ secret[c.tenant].cert # None
    /\ c.by = secret[c.tenant].cert /\ c.chain = secret["root"].cert

\* What a request in progress relies on.
RequestSound ==
    \A e \in Request :
        /\ enrol[e].pc # "idle" => ca[enrol[e].at].up
        /\ enrol[e].pc = "mint" => ca[enrol[e].at].tenants[TenantOf[enrol[e].tok]].cert # None
        /\ enrol[e].pc \in {"consume", "record", "reply"} => Sound(enrol[e].cert)

\* Half a pair in the store belongs to one request at most.
HalfPair(e) ==
    LET t == TenantOf[enrol[e].tok]
    IN  /\ secret[t] = [enrol[e].pair EXCEPT !.key = None]
        /\ enrol[e].pair.cert # None /\ enrol[e].pair.key = enrol[e].pair.cert

HalfSound ==
    /\ \A e \in Request : enrol[e].pc = "key" => HalfPair(e)
    /\ \A e, f \in Request :
          enrol[e].pc = "key" /\ enrol[f].pc = "key" /\ TenantOf[enrol[e].tok] = TenantOf[enrol[f].tok] => e = f

\* What has left the control plane.
HandedOutSound ==
    /\ \A c \in delivered : Sound(c)
    /\ server.leaf \in {None, secret["root"].cert}
    /\ server.clientCA \in {None, secret["root"].cert}
    /\ server.leaf # None => server.clientCA # None

AuthorityInv == TypeOK /\ StoreSound /\ LoadedSound /\ RequestSound /\ HalfSound /\ HandedOutSound

\* A request past the consume step owns its token.
Claims(e) == enrol[e].pc \in {"record", "reply"}

TokenInv ==
    /\ TypeOK
    /\ \A e \in Request : enrol[e].pc \in {"consume", "record", "reply"} => enrol[e].cert.token = enrol[e].tok
    /\ \A e \in Request : Claims(e) =>
          /\ token[enrol[e].tok].spent
          /\ \A c \in delivered : c.token # enrol[e].tok
          /\ \A f \in Request : Claims(f) /\ enrol[f].tok = enrol[e].tok => f = e
    /\ \A e \in Request : enrol[e].pc = "reply" => enrol[e].cert.serial \in rows
    /\ \A c \in delivered : token[c.token].spent
    /\ OneCertPerToken

-----------------------------------------------------------------------------
(* Types.                                                                  *)

LEMMA NoEnrolShape == NoEnrol \in EnrolShape /\ NoEnrol.pc = "idle"
<1>1. AnyToken \in Token
  BY TokensAssumption DEF AnyToken
<1>2. TenantOf[AnyToken] \in Tenant
  BY <1>1, TokensAssumption
<1> QED
  BY <1>1, <1>2, FileReplicaAssumption DEF NoEnrol, EnrolShape, Step, NoCert, Cert, NoPair, Pair, None

LEMMA TypeInit == Init => TypeOK
BY NoEnrolShape DEF Init, TypeOK, NoPair, Pair, Down, NoServer, None

LEMMA GotoShape ==
    ASSUME enrol \in [Request -> EnrolShape], NEW e \in Request, NEW pc \in Step, Goto(e, pc)
    PROVE  enrol' \in [Request -> EnrolShape]
BY DEF Goto, EnrolShape

LEMMA EndShape ==
    ASSUME enrol \in [Request -> EnrolShape], NEW e \in Request, End(e)
    PROVE  enrol' \in [Request -> EnrolShape]
BY NoEnrolShape DEF End

LEMMA TypeNext == TypeOK /\ [Next]_vars => TypeOK'
<1> SUFFICES ASSUME TypeOK, [Next]_vars PROVE TypeOK'
  OBVIOUS
<1> USE DEF TypeOK
<1>1. ASSUME NEW r \in Replica, LoadRoot(r) PROVE TypeOK'
  BY <1>1 DEF LoadRoot, loadTenants, Pair
<1>2. ASSUME NEW r \in Replica, BootstrapRoot(r) PROVE TypeOK'
  BY <1>2 DEF BootstrapRoot, WritePair, Generated, loadTenants, Pair, None
<1>3. ASSUME NEW r \in Replica, WriteRootKey(r) PROVE TypeOK'
  <2>1. ca[r].root \in Pair
    OBVIOUS
  <2> QED
    BY ZenonT(60), <1>3, <2>1 DEF WriteRootKey
<1>4. ASSUME NEW r \in Replica, Crash(r) PROVE TypeOK'
  <2>1. Down \in [up : BOOLEAN, root : Pair, tenants : [Tenant -> Pair]]
    BY DEF Down, NoPair, Pair, None
  <2> QED
    BY <1>4, <2>1, NoEnrolShape DEF Crash
<1>5. ASSUME NEW r \in Replica, provision(r) PROVE TypeOK'
  BY <1>5 DEF provision, Served, SignServerCSR, Pair, None
<1>6. ASSUME NEW k \in Token, IssueAgentEnrollToken(k) PROVE TypeOK'
  BY <1>6 DEF IssueAgentEnrollToken
<1>7. ASSUME NEW k \in Token, Void(k) PROVE TypeOK'
  BY <1>7 DEF Void
<1>8. ASSUME NEW t \in Tenant, Bar(t) PROVE TypeOK'
  BY <1>8 DEF Bar
<1>9. ASSUME NEW e \in Request, Check(e) PROVE TypeOK'
  <2>1. enrol' \in [Request -> EnrolShape]
    BY <1>9, GotoShape, EndShape DEF Check, Step
  <2> QED
    BY <1>9, <2>1 DEF Check
<1>10. ASSUME NEW e \in Request, UseStored(e) PROVE TypeOK'
  <2>1. enrol' \in [Request -> EnrolShape]
    BY <1>10, GotoShape DEF UseStored, Step
  <2>2. TenantOf[enrol[e].tok] \in Tenant /\ enrol[e].at \in Replica
    BY SMTT(30), TokensAssumption DEF EnrolShape
  <2>3. PICK pair \in Pair : ca' = [ca EXCEPT ![enrol[e].at].tenants[TenantOf[enrol[e].tok]] = pair]
    <3>1. ca[enrol[e].at].tenants[TenantOf[enrol[e].tok]] \in Pair /\ secret[TenantOf[enrol[e].tok]] \in Pair
      BY <2>2
    <3> QED
      BY <1>10, <3>1 DEF UseStored
  <2>4. ca' \in [Replica -> [up : BOOLEAN, root : Pair, tenants : [Tenant -> Pair]]]
    BY ZenonT(60), <2>2, <2>3
  <2> QED
    BY <1>10, <2>1, <2>4 DEF UseStored
<1>11. ASSUME NEW e \in Request, BootstrapTenant(e) PROVE TypeOK'
  <2> DEFINE r == enrol[e].at
             t == TenantOf[enrol[e].tok]
             pair == Generated(ca[r].root.key)
  <2>1. r \in Replica /\ t \in Tenant
    BY TokensAssumption DEF EnrolShape
  <2>2. pair \in Pair
    BY <2>1 DEF Generated, Pair, None
  <2>3. secret' \in [{"root"} \cup Tenant -> Pair] /\ fresh' \in Nat
    <3>1. [pair EXCEPT !.key = None] \in Pair
      BY <2>2 DEF Pair, None
    <3> HIDE DEF pair
    <3> QED
      BY <1>11, <2>1, <2>2, <3>1 DEF BootstrapTenant, WritePair, pair
  <2>4. enrol' \in [Request -> EnrolShape]
    <3>1. CASE Goto(e, "mint") \/ End(e)
      BY <3>1, GotoShape, EndShape DEF Step
    <3>2. CASE enrol' = [enrol EXCEPT ![e].pc = "key", ![e].pair = pair]
      <4> HIDE DEF pair
      <4>1. [enrol[e] EXCEPT !.pc = "key", !.pair = pair] \in EnrolShape
        BY ZenonT(60), <2>2 DEF EnrolShape, Step
      <4>2. enrol' = [enrol EXCEPT ![e] = [enrol[e] EXCEPT !.pc = "key", !.pair = pair]]
        BY <3>2
      <4> QED
        BY <4>1, <4>2
    <3> QED
      BY <1>11, <3>1, <3>2 DEF BootstrapTenant
  <2>5. ca' \in [Replica -> [up : BOOLEAN, root : Pair, tenants : [Tenant -> Pair]]]
    <3>1. ca' = ca \/ ca' = [ca EXCEPT ![r].tenants[t] = pair]
      BY <1>11 DEF BootstrapTenant
    <3> HIDE DEF pair, r, t
    <3> QED
      BY SMTT(30), <2>1, <2>2, <3>1
  <2> QED
    BY <1>11, <2>3, <2>4, <2>5 DEF BootstrapTenant
<1>12. ASSUME NEW e \in Request, WriteTenantKey(e) PROVE TypeOK'
  <2>1. enrol' \in [Request -> EnrolShape]
    BY <1>12, GotoShape DEF WriteTenantKey, Step
  <2>2. TenantOf[enrol[e].tok] \in Tenant /\ enrol[e].pair \in Pair /\ enrol[e].at \in Replica
    BY TokensAssumption DEF EnrolShape
  <2> QED
    BY <1>12, <2>1, <2>2 DEF WriteTenantKey
<1>13. ASSUME NEW e \in Request, BootstrapRefused(e) PROVE TypeOK'
  BY <1>13, EndShape DEF BootstrapRefused
<1>14. ASSUME NEW e \in Request, MintAgentCert(e) PROVE TypeOK'
  <2>1. CASE End(e) /\ UNCHANGED minted
    BY <1>14, <2>1, EndShape DEF MintAgentCert
  <2>2. CASE ~(End(e) /\ UNCHANGED minted)
    <3> DEFINE r == enrol[e].at
               t == TenantOf[enrol[e].tok]
               cert == [serial |-> minted + 1, tenant |-> t, token |-> enrol[e].tok,
                        by |-> ca[r].tenants[t].key, chain |-> ca[r].root.cert]
    <3>1. r \in Replica /\ t \in Tenant /\ enrol[e].tok \in Token
      BY TokensAssumption DEF EnrolShape
    <3>2. cert \in Cert
      BY <3>1 DEF Cert, Pair
    <3>3. enrol' = [enrol EXCEPT ![e].pc = "consume", ![e].cert = cert] /\ minted' = minted + 1
      BY <1>14, <2>2 DEF MintAgentCert
    <3>4. enrol' \in [Request -> EnrolShape]
      <4> HIDE DEF cert
      <4>1. [enrol[e] EXCEPT !.pc = "consume", !.cert = cert] \in EnrolShape
        BY ZenonT(60), <3>2 DEF EnrolShape, Step
      <4>2. enrol' = [enrol EXCEPT ![e] = [enrol[e] EXCEPT !.pc = "consume", !.cert = cert]]
        BY <3>3
      <4> QED
        BY <4>1, <4>2
    <3> QED
      BY <1>14, <3>3, <3>4 DEF MintAgentCert
  <2> QED
    BY <2>1, <2>2
<1>15. ASSUME NEW e \in Request, ConsumeAgentEnrollToken(e) PROVE TypeOK'
  <2>1. enrol' \in [Request -> EnrolShape]
    BY <1>15, GotoShape, EndShape DEF ConsumeAgentEnrollToken, Step
  <2>2. token' \in [Token -> [issued : BOOLEAN, spent : BOOLEAN, void : BOOLEAN]]
    <3>1. enrol[e].tok \in Token
      BY DEF EnrolShape
    <3>2. token' = token \/ token' = [token EXCEPT ![enrol[e].tok].spent = TRUE]
      BY <1>15 DEF ConsumeAgentEnrollToken
    <3>3. CASE token' = [token EXCEPT ![enrol[e].tok].spent = TRUE]
      <4>1. \A k \in Token : [token EXCEPT ![k].spent = TRUE] \in [Token -> [issued : BOOLEAN, spent : BOOLEAN, void : BOOLEAN]]
        OBVIOUS
      <4> QED
        BY <3>1, <3>3, <4>1
    <3> QED
      BY <3>2, <3>3
  <2> QED
    BY <1>15, <2>1, <2>2 DEF ConsumeAgentEnrollToken
<1>16. ASSUME NEW e \in Request, CreateAgentEnrollment(e) PROVE TypeOK'
  <2>1. enrol' \in [Request -> EnrolShape]
    BY <1>16, GotoShape, EndShape DEF CreateAgentEnrollment, Step
  <2>2. enrol[e].cert.serial \in Nat
    BY DEF EnrolShape, Cert
  <2> QED
    BY <1>16, <2>1, <2>2 DEF CreateAgentEnrollment
<1>17. ASSUME NEW e \in Request, Reply(e) PROVE TypeOK'
  <2>1. enrol[e].cert \in Cert
    BY DEF EnrolShape
  <2> QED
    BY <1>17, <2>1, EndShape DEF Reply
<1>18. ASSUME NEW e \in Request, NEW r \in Replica, NEW k \in Token, Present(e, r, k) PROVE TypeOK'
  BY <1>18, NoEnrolShape DEF Present, EnrolShape, Step
<1>19. CASE Age \/ ServerRestart
  BY <1>19 DEF Age, Older, ServerRestart, NoServer, None
<1>20. CASE UNCHANGED vars
  BY <1>20 DEF vars
<1> QED
  BY <1>1, <1>2, <1>3, <1>4, <1>5, <1>6, <1>7, <1>8, <1>9, <1>10, <1>11, <1>12, <1>13, <1>14, <1>15, <1>16, <1>17, <1>18, <1>19, <1>20 DEF Next, Boot, handleEnroll

(***************************************************************************)
(* The store, the replicas' copies of it, the requests and the server keep *)
(* their shapes (ca.go, agent_enroll_handlers.go, cert_provision.go).      *)
(***************************************************************************)
THEOREM EnrolmentTypes == Spec => []TypeOK
BY TypeInit, TypeNext, PTL DEF Spec

-----------------------------------------------------------------------------
(* One certificate per token.                                              *)

Ahead == {"consume", "record", "reply"}

\* A step that takes no request past the minting keeps the claims as they are.
LEMMA TokenQuiet ==
    ASSUME TokenInv, TypeOK',
           \A f \in Request : enrol'[f] = enrol[f] \/ enrol'[f].pc \notin Ahead,
           \A k \in Token : token'[k].spent = token[k].spent,
           UNCHANGED <<rows, delivered>>
    PROVE  TokenInv'
<1>1. \A f \in Request : enrol'[f].pc \in Ahead => enrol'[f] = enrol[f] /\ enrol[f].tok \in Token
  BY DEF TokenInv, TypeOK, EnrolShape
<1>2. \A c \in delivered : c.token \in Token
  BY DEF TokenInv, TypeOK, Cert
<1> QED
  BY <1>1, <1>2 DEF TokenInv, Claims, OneCertPerToken, Ahead

LEMMA TokenNext == TokenInv /\ [Next]_vars => TokenInv'
<1> SUFFICES ASSUME TokenInv, [Next]_vars PROVE TokenInv'
  OBVIOUS
<1>t. TypeOK /\ TypeOK'
  BY TypeNext DEF TokenInv
<1>n. NoEnrol.pc \notin Ahead
  BY NoEnrolShape DEF Ahead
<1>1. ASSUME NEW r \in Replica, Boot(r) \/ provision(r) PROVE TokenInv'
  BY <1>1, <1>t, TokenQuiet DEF Boot, LoadRoot, BootstrapRoot, WriteRootKey, provision
<1>2. ASSUME NEW r \in Replica, Crash(r) PROVE TokenInv'
  BY <1>2, <1>t, <1>n, TokenQuiet DEF Crash
<1>3. ASSUME NEW k \in Token, IssueAgentEnrollToken(k) \/ Void(k) PROVE TokenInv'
  <2>1. \A j \in Token : token'[j].spent = token[j].spent
    BY <1>3, <1>t DEF IssueAgentEnrollToken, Void, TypeOK
  <2> QED
    BY <1>3, <1>t, <2>1, TokenQuiet DEF IssueAgentEnrollToken, Void
<1>4. ASSUME NEW t \in Tenant, Bar(t) PROVE TokenInv'
  BY <1>4, <1>t, TokenQuiet DEF Bar
<1>5. ASSUME NEW e \in Request, NEW r \in Replica, NEW k \in Token, Present(e, r, k) PROVE TokenInv'
  <2>1. \A f \in Request : enrol'[f] = enrol[f] \/ enrol'[f].pc \notin Ahead
    BY <1>5, <1>t, NoEnrolShape DEF Present, Ahead, TypeOK, EnrolShape
  <2> QED
    BY <1>5, <1>t, <2>1, TokenQuiet DEF Present
<1>6. ASSUME NEW e \in Request,
             Check(e) \/ UseStored(e) \/ BootstrapTenant(e) \/ WriteTenantKey(e) \/ BootstrapRefused(e)
      PROVE  TokenInv'
  <2>1. \/ Goto(e, "ca") \/ Goto(e, "mint") \/ End(e)
        \/ \E pair : enrol' = [enrol EXCEPT ![e].pc = "key", ![e].pair = pair]
    BY <1>6 DEF Check, UseStored, BootstrapTenant, WriteTenantKey, BootstrapRefused
  <2>2. \A f \in Request : enrol'[f] = enrol[f] \/ enrol'[f].pc \notin Ahead
    BY SMTT(30), <1>t, <1>n, <2>1 DEF Goto, End, Ahead, TypeOK, EnrolShape
  <2>3. UNCHANGED <<token, rows, delivered>>
    BY <1>6 DEF Check, UseStored, BootstrapTenant, WriteTenantKey, BootstrapRefused
  <2> QED
    BY SMTT(30), <1>t, <2>2, <2>3, TokenQuiet
<1>7. ASSUME NEW e \in Request, MintAgentCert(e) PROVE TokenInv'
  <2>0. UNCHANGED <<token, rows, delivered>>
    BY <1>7 DEF MintAgentCert
  <2>1. CASE End(e)
    BY <1>t, <1>n, <2>0, <2>1, TokenQuiet DEF End, TypeOK
  <2>2. CASE ~End(e)
    <3> DEFINE t == TenantOf[enrol[e].tok]
               cert == [serial |-> minted + 1, tenant |-> t, token |-> enrol[e].tok,
                        by |-> ca[enrol[e].at].tenants[t].key, chain |-> ca[enrol[e].at].root.cert]
    <3>0. enrol' = [enrol EXCEPT ![e].pc = "consume", ![e].cert = cert]
      BY <1>7, <2>2 DEF MintAgentCert
    <3>1. enrol' = [enrol EXCEPT ![e].pc = "consume", ![e].cert = cert] /\ cert.token = enrol[e].tok
      BY <3>0
    <3> HIDE DEF cert
    <3>2. /\ enrol'[e].pc = "consume" /\ enrol'[e].tok = enrol[e].tok /\ enrol'[e].cert.token = enrol[e].tok
          /\ \A f \in Request \ {e} : enrol'[f] = enrol[f]
      BY <1>t, <3>1 DEF TypeOK, EnrolShape
    <3> QED
      BY <1>t, <2>0, <3>2 DEF TokenInv, Claims, OneCertPerToken
  <2> QED
    BY <2>1, <2>2
<1>8. ASSUME NEW e \in Request, ConsumeAgentEnrollToken(e) PROVE TokenInv'
  <2>0. UNCHANGED <<rows, delivered>> /\ enrol[e].pc = "consume"
    BY <1>8 DEF ConsumeAgentEnrollToken
  <2>1. CASE ~ConsumeHits(enrol[e].tok)
    BY <1>8, <1>t, <1>n, <2>0, <2>1, TokenQuiet DEF ConsumeAgentEnrollToken, End, TypeOK
  <2>2. CASE ConsumeHits(enrol[e].tok)
    <3>1. enrol[e].tok \in Token
      BY <1>t DEF TypeOK, EnrolShape
    <3>2. /\ ~token[enrol[e].tok].spent
          /\ token' = [token EXCEPT ![enrol[e].tok].spent = TRUE]
          /\ enrol' = [enrol EXCEPT ![e].pc = "record"]
      BY <1>8, <2>2 DEF ConsumeAgentEnrollToken, ConsumeHits, Goto
    <3>3. /\ enrol'[e].pc = "record" /\ enrol'[e].tok = enrol[e].tok /\ enrol'[e].cert = enrol[e].cert
          /\ \A f \in Request \ {e} : enrol'[f] = enrol[f]
      BY <1>t, <3>2 DEF TypeOK, EnrolShape
    <3>4. token'[enrol[e].tok].spent /\ \A k \in Token : token[k].spent => token'[k].spent
      BY <1>t, <3>1, <3>2 DEF TypeOK
    <3>5. /\ \A f \in Request : Claims(f) => enrol[f].tok # enrol[e].tok
          /\ \A c \in delivered : c.token # enrol[e].tok
      BY <3>2 DEF TokenInv
    <3>6. \A f \in Request : Claims(f)' => f = e \/ (Claims(f) /\ enrol'[f] = enrol[f] /\ enrol[f].tok \in Token)
      BY <1>t, <3>3 DEF Claims, TypeOK, EnrolShape
    <3>7. \A c \in delivered : token'[c.token].spent
      BY <1>t, <3>4 DEF TokenInv, TypeOK, Cert
    <3>8. \A f \in Request : Claims(f)' =>
             /\ token'[enrol'[f].tok].spent
             /\ \A c \in delivered : c.token # enrol'[f].tok
             /\ \A g \in Request : Claims(g)' /\ enrol'[g].tok = enrol'[f].tok => g = f
      BY <3>3, <3>4, <3>5, <3>6 DEF TokenInv
    <3>9. \A f \in Request : enrol'[f].pc \in {"consume", "record", "reply"} => enrol'[f].cert.token = enrol'[f].tok
      BY <2>0, <3>3 DEF TokenInv
    <3> QED
      BY <1>t, <2>0, <3>3, <3>7, <3>8, <3>9 DEF TokenInv, OneCertPerToken
  <2> QED
    BY <2>1, <2>2
<1>9. ASSUME NEW e \in Request, CreateAgentEnrollment(e) PROVE TokenInv'
  <2>0. UNCHANGED <<token, delivered>> /\ enrol[e].pc = "record"
    BY <1>9 DEF CreateAgentEnrollment
  <2>1. CASE End(e) /\ UNCHANGED rows
    BY <1>t, <1>n, <2>0, <2>1, TokenQuiet DEF End, TypeOK
  <2>2. CASE ~(End(e) /\ UNCHANGED rows)
    <3>1. rows' = rows \cup {enrol[e].cert.serial} /\ enrol' = [enrol EXCEPT ![e].pc = "reply"]
      BY <1>9, <2>2 DEF CreateAgentEnrollment, Goto
    <3>2. /\ enrol'[e].pc = "reply" /\ enrol'[e].tok = enrol[e].tok /\ enrol'[e].cert = enrol[e].cert
          /\ \A f \in Request \ {e} : enrol'[f] = enrol[f]
      BY <1>t, <3>1 DEF TypeOK, EnrolShape
    <3> QED
      BY <1>t, <2>0, <3>1, <3>2 DEF TokenInv, Claims, OneCertPerToken
  <2> QED
    BY <2>1, <2>2
<1>10. ASSUME NEW e \in Request, Reply(e) PROVE TokenInv'
  <2>1. /\ enrol[e].pc = "reply" /\ enrol' = [enrol EXCEPT ![e] = NoEnrol]
        /\ delivered' \subseteq delivered \cup {enrol[e].cert} /\ UNCHANGED <<token, rows>>
    BY <1>10 DEF Reply, End
  <2>2. \A f \in Request : enrol'[f].pc \in Ahead => f # e /\ enrol'[f] = enrol[f]
    BY <1>t, <1>n, <2>1 DEF TypeOK
  <2> QED
    BY <1>t, <2>1, <2>2 DEF TokenInv, Claims, OneCertPerToken, Ahead
<1>11. CASE Age \/ ServerRestart \/ UNCHANGED vars
  BY <1>11, <1>t, TokenQuiet DEF Age, ServerRestart, vars
<1> QED
  BY <1>1, <1>2, <1>3, <1>4, <1>5, <1>6, <1>7, <1>8, <1>9, <1>10, <1>11 DEF Next, handleEnroll

(***************************************************************************)
(* A token issued for one pod yields at most one certificate and every     *)
(* certificate handed out has its row, however many replicas enrol with    *)
(* it at once and die on the way (agent_enroll_handlers.go:246-276).       *)
(***************************************************************************)
THEOREM TokensSpentOnce == Spec => []OneCertPerToken
<1>1. Init => TokenInv
  BY TypeInit, NoEnrolShape DEF Init, TokenInv, Claims, OneCertPerToken
<1>2. TokenInv => OneCertPerToken
  BY DEF TokenInv
<1> QED
  BY <1>1, <1>2, TokenNext, PTL DEF Spec

-----------------------------------------------------------------------------
(* One authority.                                                          *)

Name == {"root"} \cup Tenant

\* The part of HandedOutSound about the server.
ServerSound(srv) ==
    /\ srv.leaf \in {None, secret["root"].cert}
    /\ srv.clientCA \in {None, secret["root"].cert}
    /\ srv.leaf # None => srv.clientCA # None

\* A step that leaves the store and the replicas' copies alone.
LEMMA AuthorityQuiet ==
    ASSUME AuthorityInv, TypeOK', UNCHANGED <<secret, ca>>,
           \A f \in Request :
              \/ enrol'[f] = enrol[f]
              \/ enrol'[f].pc = "idle"
              \/ enrol'[f].pc \in {"check", "ca"} /\ ca[enrol'[f].at].up
              \/ enrol'[f].pc \in Ahead /\ ca[enrol'[f].at].up /\ Sound(enrol'[f].cert),
           \A c \in delivered' : Sound(c),
           ServerSound(server')
    PROVE  AuthorityInv'
<1> USE DEF AuthorityInv
<1>1. StoreSound' /\ LoadedSound'
  BY DEF StoreSound, LoadedSound, Matches
<1>2. RequestSound'
  BY DEF RequestSound, Sound, Ahead
<1>3. \A f \in Request : enrol'[f].pc = "key" => enrol'[f] = enrol[f]
  BY DEF Ahead
<1>4. HalfSound'
  BY <1>3 DEF HalfSound, HalfPair
<1>5. HandedOutSound'
  BY DEF HandedOutSound, Sound, ServerSound
<1> QED
  BY <1>1, <1>2, <1>4, <1>5

\* A certificate stays sound while the store only grows.
LEMMA SoundKept ==
    ASSUME NEW c \in Cert, Sound(c),
           \A n \in Name : secret[n].cert # None => secret'[n].cert = secret[n].cert,
           secret["root"].cert # None
    PROVE  Sound(c)'
BY DEF Sound, Cert, Name

\* Before the root is stored nothing is: no intermediate, no replica up, no request.
LEMMA NothingBeforeRoot ==
    ASSUME AuthorityInv, secret["root"].cert = None
    PROVE  /\ \A t \in Tenant : secret[t].cert = None /\ secret[t].key = None
           /\ \A r \in Replica : ~ca[r].up /\ ca[r].root.cert = None
           /\ \A r \in Replica, t \in Tenant : ca[r].tenants[t].cert = None
           /\ \A e \in Request : enrol[e].pc = "idle"
           /\ delivered = {}
           /\ server.leaf = None /\ server.clientCA = None
<1> USE DEF AuthorityInv
<1>1. \A t \in Tenant : secret[t].cert = None /\ secret[t].key = None
  BY DEF StoreSound, Matches
<1>2. \A r \in Replica : ~ca[r].up /\ ca[r].root.cert = None
  BY DEF LoadedSound
<1>3. \A r \in Replica, t \in Tenant : ca[r].tenants[t].cert = None
  BY <1>1 DEF LoadedSound
<1>4. \A e \in Request : enrol[e].at \in Replica
  BY DEF TypeOK, EnrolShape
<1>5. \A e \in Request : enrol[e].pc = "idle"
  BY <1>2, <1>4 DEF RequestSound
<1>6. delivered = {}
  BY <1>1 DEF HandedOutSound, Sound, TypeOK, Cert
<1>7. server.leaf = None /\ server.clientCA = None
  BY DEF HandedOutSound
<1> QED
  BY <1>1, <1>2, <1>3, <1>5, <1>6, <1>7

LEMMA LoadRootKeeps ==
    ASSUME AuthorityInv, TypeOK', NEW r \in Replica, LoadRoot(r)
    PROVE  AuthorityInv'
<1> USE DEF AuthorityInv
<1>0. /\ UNCHANGED <<secret, enrol, delivered, server>> /\ ~ca[r].up /\ secret["root"].cert # None
      /\ \A t \in Tenant : secret[t].cert # None <=> secret[t].key # None
      /\ ca' = [ca EXCEPT ![r] = [up |-> TRUE, root |-> secret["root"], tenants |-> [t \in Tenant |-> secret[t]]]]
  BY DEF LoadRoot, HasCert, HasKey, Complete, loadTenants
<1>1. /\ ca'[r].up /\ ca'[r].root = secret["root"] /\ \A t \in Tenant : ca'[r].tenants[t] = secret[t]
      /\ \A s \in Replica \ {r} : ca'[s] = ca[s]
  BY <1>0 DEF TypeOK
<1>2. StoreSound'
  BY <1>0 DEF StoreSound, Matches
<1>3. LoadedSound'
  BY <1>0, <1>1 DEF LoadedSound, StoreSound, Matches
<1>4. \A e \in Request : enrol[e].pc # "idle" => enrol[e].at \in Replica \ {r}
  BY <1>0 DEF RequestSound, TypeOK, EnrolShape
<1>5. RequestSound'
  BY <1>0, <1>1, <1>4 DEF RequestSound, Sound
<1>6. HalfSound' /\ HandedOutSound'
  BY <1>0 DEF HalfSound, HalfPair, HandedOutSound, Sound
<1> QED
  BY <1>2, <1>3, <1>5, <1>6

LEMMA BootstrapRootKeeps ==
    ASSUME AuthorityInv, TypeOK', NEW r \in Replica, BootstrapRoot(r)
    PROVE  AuthorityInv'
<1> USE DEF AuthorityInv
<1> DEFINE pair == [cert |-> fresh + 1, signer |-> fresh + 1, key |-> fresh + 1]
           stored == IF files THEN [pair EXCEPT !.key = None] ELSE pair
<1>0. /\ UNCHANGED <<enrol, delivered, server>> /\ secret["root"].cert = None
      /\ secret' = [secret EXCEPT !["root"] = stored]
      /\ ca' = [ca EXCEPT ![r] = [up |-> ~files, root |-> pair, tenants |-> [t \in Tenant |-> secret[t]]]]
  BY DEF BootstrapRoot, NeedsRoot, HasCert, WritePair, Generated, loadTenants
<1>a. pair.cert = fresh + 1 /\ pair.key = fresh + 1 /\ fresh + 1 # None
  BY DEF TypeOK, None
<1>b. stored.cert = fresh + 1 /\ stored.key \in {None, fresh + 1}
  OBVIOUS
<1> HIDE DEF pair, stored
<1>1. /\ secret'["root"] = stored /\ \A t \in Tenant : secret'[t] = secret[t]
  BY <1>0, NamesAssumption DEF TypeOK
<1>2. /\ ca'[r].root = pair /\ \A t \in Tenant : ca'[r].tenants[t] = secret[t]
      /\ \A s \in Replica \ {r} : ca'[s] = ca[s]
  BY <1>0 DEF TypeOK
<1>3. StoreSound'
  BY <1>0, <1>1, <1>a, <1>b, NothingBeforeRoot DEF StoreSound, Matches
<1>4. LoadedSound'
  BY SMTT(30), <1>0, <1>1, <1>2, <1>a, <1>b, NothingBeforeRoot DEF LoadedSound, Matches
<1>5. RequestSound' /\ HalfSound' /\ HandedOutSound'
  BY <1>0, NothingBeforeRoot DEF RequestSound, HalfSound, HandedOutSound
<1> QED
  BY <1>3, <1>4, <1>5

LEMMA WriteRootKeyKeeps ==
    ASSUME AuthorityInv, TypeOK', NEW r \in Replica, WriteRootKey(r)
    PROVE  AuthorityInv'
<1> USE DEF AuthorityInv
<1>0. /\ UNCHANGED <<enrol, delivered, server>> /\ ca[r].root.key # None /\ ~ca[r].up
      /\ secret' = [secret EXCEPT !["root"] = ca[r].root]
      /\ ca' = [ca EXCEPT ![r].up = TRUE]
  BY DEF WriteRootKey
<1>1. /\ ca[r].root.cert = secret["root"].cert /\ ca[r].root.cert # None /\ Matches(ca[r].root)
  BY <1>0 DEF LoadedSound, Matches
<1>2. /\ secret'["root"] = ca[r].root /\ \A t \in Tenant : secret'[t] = secret[t]
  BY <1>0, NamesAssumption DEF TypeOK
<1>3. /\ \A s \in Replica : ca'[s].root = ca[s].root /\ ca'[s].tenants = ca[s].tenants
      /\ \A s \in Replica \ {r} : ca'[s] = ca[s]
  BY <1>0 DEF TypeOK
<1>4. StoreSound'
  BY <1>1, <1>2 DEF StoreSound, Matches
<1>5. LoadedSound'
  BY <1>1, <1>2, <1>3 DEF LoadedSound, Matches
<1>6. \A e \in Request : enrol[e].pc # "idle" => enrol[e].at \in Replica \ {r}
  BY <1>0 DEF RequestSound, TypeOK, EnrolShape
<1>7. \A c \in Cert : Sound(c) => Sound(c)'
  BY <1>1, <1>2, SoundKept DEF Name
<1>8. \A e \in Request : enrol[e].cert \in Cert /\ enrol[e].tok \in Token
  BY DEF TypeOK, EnrolShape
<1>9. RequestSound'
  BY <1>0, <1>3, <1>6, <1>7, <1>8 DEF RequestSound
<1>10. HalfSound'
  BY <1>0, <1>2, <1>8, TokensAssumption DEF HalfSound, HalfPair
<1>11. HandedOutSound'
  BY <1>0, <1>1, <1>2, <1>7 DEF HandedOutSound, TypeOK
<1> QED
  BY <1>4, <1>5, <1>9, <1>10, <1>11

LEMMA CrashKeeps ==
    ASSUME AuthorityInv, TypeOK', NEW r \in Replica, Crash(r)
    PROVE  AuthorityInv'
<1> USE DEF AuthorityInv
<1>0. /\ UNCHANGED <<secret, delivered, server>>
      /\ ca' = [ca EXCEPT ![r] = Down]
      /\ enrol' = [e \in Request |-> IF enrol[e].at = r THEN NoEnrol ELSE enrol[e]]
  BY DEF Crash
<1>1. /\ ca'[r] = Down /\ \A s \in Replica \ {r} : ca'[s] = ca[s]
  BY <1>0 DEF TypeOK
<1>2. /\ ~Down.up /\ Down.root.cert = None /\ Down.root.key = None /\ \A t \in Tenant : Down.tenants[t].cert = None
  BY DEF Down, NoPair
<1>3. \A e \in Request : enrol'[e].pc # "idle" => enrol'[e] = enrol[e] /\ enrol[e].at \in Replica \ {r}
  BY <1>0, NoEnrolShape DEF TypeOK, EnrolShape
<1>4. StoreSound' /\ HandedOutSound'
  BY <1>0 DEF StoreSound, HandedOutSound, Matches, Sound
<1>5. LoadedSound'
  BY SMTT(30), <1>0, <1>1, <1>2 DEF LoadedSound, Matches
<1>6. RequestSound'
  BY <1>0, <1>1, <1>3 DEF RequestSound, Sound
<1>7. HalfSound'
  BY SMTT(30), <1>0, <1>3 DEF HalfSound, HalfPair
<1> QED
  BY <1>4, <1>5, <1>6, <1>7

LEMMA UseStoredKeeps ==
    ASSUME AuthorityInv, TypeOK', NEW e \in Request, UseStored(e)
    PROVE  AuthorityInv'
<1> USE DEF AuthorityInv
<1> DEFINE r == enrol[e].at
           t == TenantOf[enrol[e].tok]
<1>0. /\ UNCHANGED <<secret, delivered, server>> /\ enrol[e].pc = "ca"
      /\ ca[r].tenants[t].cert # None \/ (secret[t].cert # None /\ secret[t].key # None)
      /\ ca' = [ca EXCEPT ![r].tenants[t] = IF @.cert # None THEN @ ELSE secret[t]]
      /\ enrol' = [enrol EXCEPT ![e].pc = "mint"]
  BY DEF UseStored, HasCert, HasKey, Goto
<1>1. r \in Replica /\ enrol[e].tok \in Token /\ t \in Tenant
  BY SMTT(30), TokensAssumption DEF TypeOK, EnrolShape
<1>2. ca[r].up
  BY <1>0 DEF RequestSound
<1> HIDE DEF r, t
<1>3. /\ \A q \in Replica : ca'[q].up = ca[q].up /\ ca'[q].root = ca[q].root
      /\ \A q \in Replica, u \in Tenant : ca'[q].tenants[u] = ca[q].tenants[u] \/ (q = r /\ u = t)
      /\ ca'[r].tenants[t] = IF ca[r].tenants[t].cert # None THEN ca[r].tenants[t] ELSE secret[t]
  BY <1>0, <1>1 DEF TypeOK
<1>4. ca'[r].tenants[t] = secret[t] /\ secret[t].key # None /\ secret[t].cert # None
  BY <1>0, <1>1, <1>3 DEF LoadedSound
<1>5. /\ enrol'[e].pc = "mint" /\ enrol'[e].at = r /\ TenantOf[enrol'[e].tok] = t
      /\ \A f \in Request \ {e} : enrol'[f] = enrol[f]
  <2>1. enrol' = [enrol EXCEPT ![e].pc = "mint"] /\ enrol \in [Request -> EnrolShape]
    BY <1>0 DEF TypeOK
  <2> QED
    BY <2>1 DEF EnrolShape, r, t
<1>6. StoreSound' /\ HandedOutSound'
  BY <1>0 DEF StoreSound, HandedOutSound, Matches, Sound
<1>7. LoadedSound'
  BY <1>0, <1>3, <1>4 DEF LoadedSound, Matches
<1>8. \A f \in Request : enrol[f].at \in Replica /\ TenantOf[enrol[f].tok] \in Tenant
  BY TokensAssumption DEF TypeOK, EnrolShape
<1>9. \A f \in Request \ {e} : enrol[f].pc = "mint" =>
         ca'[enrol[f].at].tenants[TenantOf[enrol[f].tok]].cert # None
  BY SMTT(30), <1>3, <1>4, <1>8 DEF RequestSound
<1>10. \A c : Sound(c) => Sound(c)'
  BY <1>0 DEF Sound
<1>11. RequestSound'
  BY <1>1, <1>2, <1>3, <1>4, <1>5, <1>8, <1>9, <1>10 DEF RequestSound
<1>12. HalfSound'
  BY <1>0, <1>5 DEF HalfSound, HalfPair
<1> QED
  BY <1>6, <1>7, <1>11, <1>12

\* A new intermediate displaces none: nobody has one of that tenant.
LEMMA BootstrapTenantKeeps ==
    ASSUME AuthorityInv, TypeOK', NEW e \in Request, BootstrapTenant(e)
    PROVE  AuthorityInv'
<1> USE DEF AuthorityInv
<1> DEFINE r == enrol[e].at
           t == TenantOf[enrol[e].tok]
           pair == Generated(ca[r].root.key)
           stored == IF files THEN [pair EXCEPT !.key = None] ELSE pair
<1>0. /\ UNCHANGED <<delivered, server>> /\ enrol[e].pc = "ca" /\ secret[t].cert = None
      /\ ca[r].tenants[t].cert = None /\ ca[r].root.key # None
      /\ secret' = [secret EXCEPT ![t] = stored]
      /\ \/ files /\ enrol' = [enrol EXCEPT ![e].pc = "key", ![e].pair = pair] /\ UNCHANGED ca
         \/ ~files /\ Goto(e, "mint") /\ ca' = [ca EXCEPT ![r].tenants[t] = pair]
         \/ End(e) /\ UNCHANGED ca
  BY SMTT(30) DEF BootstrapTenant, NeedsIntermediate, HasCert, WritePair
<1>1. r \in Replica /\ enrol[e].tok \in Token /\ t \in Tenant
  BY TokensAssumption DEF TypeOK, EnrolShape
<1>2. ca[r].up /\ ca[r].root.key = secret["root"].cert /\ secret["root"].cert # None
  BY <1>0, <1>1 DEF RequestSound, LoadedSound, Matches
<1>3. /\ pair.cert = fresh + 1 /\ pair.key = fresh + 1 /\ pair.signer = secret["root"].cert /\ fresh + 1 # None
      /\ stored.cert = pair.cert /\ stored.signer = pair.signer
      /\ stored = IF files THEN [pair EXCEPT !.key = None] ELSE pair
  BY <1>2 DEF Generated, TypeOK, None
<1>3a. stored.key \in {None, fresh + 1}
  BY <1>3 DEF Generated
<1> HIDE DEF r, t, pair, stored
<1>4. /\ secret'[t] = stored /\ \A n \in Name \ {t} : secret'[n] = secret[n]
      /\ "root" \in Name \ {t} /\ \A u \in Tenant : u \in Name
  BY <1>0, <1>1, NamesAssumption DEF TypeOK, Name
<1>5. \A c \in Cert : Sound(c) => Sound(c)' /\ c.tenant # t
  BY <1>0, <1>2, <1>4, SoundKept DEF Sound
<1>6. /\ \A q \in Replica : ca[q].tenants[t].cert = None
      /\ \A f \in Request : enrol[f].pc = "key" => TenantOf[enrol[f].tok] # t
  <2>1. secret[t].key = None
    BY <1>0, <1>1 DEF StoreSound, Matches
  <2>2. \A q \in Replica : ca[q].tenants[t].cert = None
    BY <1>1, <2>1 DEF LoadedSound
  <2>3. ASSUME NEW f \in Request, enrol[f].pc = "key", TenantOf[enrol[f].tok] = t PROVE FALSE
    <3>1. secret[t] = [enrol[f].pair EXCEPT !.key = None] /\ enrol[f].pair.cert # None /\ enrol[f].pair \in Pair
      BY <2>3 DEF HalfSound, HalfPair, TypeOK, EnrolShape
    <3> QED
      BY <1>0, <3>1 DEF Pair
  <2> QED
    BY <2>2, <2>3
<1>7. StoreSound'
  <2>1. Matches(secret'["root"]) /\ secret'["root"].cert # None
    BY <1>2, <1>4 DEF StoreSound, Matches
  <2>2. Matches(secret'[t]) /\ secret'[t].signer = secret'["root"].cert
    BY <1>2, <1>3, <1>3a, <1>4 DEF Matches
  <2>3. \A u \in Tenant \ {t} : Matches(secret'[u]) /\ (secret'[u].cert # None => secret'[u].signer = secret'["root"].cert)
    BY <1>4 DEF StoreSound, Matches
  <2> QED
    BY <2>1, <2>2, <2>3 DEF StoreSound, Matches
<1>8. HandedOutSound'
  BY <1>0, <1>4, <1>5 DEF HandedOutSound, TypeOK
<1>9. \A f \in Request : /\ enrol[f].at \in Replica /\ TenantOf[enrol[f].tok] \in Tenant
                         /\ enrol[f].cert \in Cert
  BY TokensAssumption DEF TypeOK, EnrolShape
<1>10. CASE files /\ enrol' = [enrol EXCEPT ![e].pc = "key", ![e].pair = pair] /\ UNCHANGED ca
  <2>1. /\ enrol'[e].pc = "key" /\ enrol'[e].at = r /\ TenantOf[enrol'[e].tok] = t /\ enrol'[e].pair = pair
        /\ \A f \in Request \ {e} : enrol'[f] = enrol[f]
    BY <1>10 DEF TypeOK, EnrolShape, r, t
  <2>2. LoadedSound'
    BY SMTT(30), <1>10, <1>4, <1>6 DEF LoadedSound, Matches
  <2>3. RequestSound'
    BY ZenonT(60), <1>10, <1>2, <1>5, <1>9, <2>1 DEF RequestSound
  <2>4. HalfPair(e)'
    BY <1>10, <1>3, <1>4, <2>1 DEF HalfPair
  <2>5. \A f \in Request \ {e} : enrol'[f].pc = "key" => HalfPair(f)' /\ TenantOf[enrol'[f].tok] # t
    BY <1>4, <1>6, <1>9, <2>1 DEF HalfSound, HalfPair
  <2>6. HalfSound'
    BY <2>1, <2>4, <2>5 DEF HalfSound
  <2> QED
    BY <1>7, <1>8, <2>2, <2>3, <2>6
<1>11. CASE ~files /\ Goto(e, "mint") /\ ca' = [ca EXCEPT ![r].tenants[t] = pair]
  <2>1. /\ enrol'[e].pc = "mint" /\ enrol'[e].at = r /\ TenantOf[enrol'[e].tok] = t
        /\ \A f \in Request \ {e} : enrol'[f] = enrol[f]
    BY <1>11 DEF Goto, TypeOK, EnrolShape, r, t
  <2>2. /\ \A q \in Replica : ca'[q].up = ca[q].up /\ ca'[q].root = ca[q].root
        /\ \A q \in Replica, u \in Tenant : ca'[q].tenants[u] = ca[q].tenants[u] \/ (q = r /\ u = t)
        /\ ca'[r].tenants[t] = pair
    BY <1>11, <1>1 DEF TypeOK
  <2>3. LoadedSound'
    BY <1>11, <1>3, <1>4, <1>6, <2>2 DEF LoadedSound, Matches
  <2>4. \A f \in Request \ {e} : enrol[f].pc = "mint" =>
           ca'[enrol[f].at].tenants[TenantOf[enrol[f].tok]].cert # None
    BY SMTT(30), <1>3, <1>9, <2>2 DEF RequestSound
  <2>5. RequestSound'
    BY <1>2, <1>3, <1>5, <1>9, <1>1, <2>1, <2>2, <2>4 DEF RequestSound
  <2>6. \A f \in Request : enrol'[f].pc = "key" => HalfPair(f)'
    BY <1>4, <1>6, <1>9, <2>1 DEF HalfSound, HalfPair
  <2>7. HalfSound'
    BY <2>1, <2>6 DEF HalfSound
  <2> QED
    BY <1>7, <1>8, <2>3, <2>5, <2>7
<1>12. CASE End(e) /\ UNCHANGED ca
  <2>1. enrol'[e].pc = "idle" /\ \A f \in Request \ {e} : enrol'[f] = enrol[f]
    BY <1>12, NoEnrolShape DEF End, TypeOK
  <2>2. LoadedSound'
    BY <1>12, <1>4, <1>6 DEF LoadedSound, Matches
  <2>3. RequestSound'
    BY <1>12, <1>5, <1>9, <2>1 DEF RequestSound
  <2>4. \A f \in Request : enrol'[f].pc = "key" => HalfPair(f)'
    BY <1>4, <1>6, <1>9, <2>1 DEF HalfSound, HalfPair
  <2>5. HalfSound'
    BY <2>1, <2>4 DEF HalfSound
  <2> QED
    BY <1>7, <1>8, <2>2, <2>3, <2>5
<1> QED
  BY <1>0, <1>10, <1>11, <1>12

\* The key completes the pair its own request began.
LEMMA WriteTenantKeyKeeps ==
    ASSUME AuthorityInv, TypeOK', NEW e \in Request, WriteTenantKey(e)
    PROVE  AuthorityInv'
<1> USE DEF AuthorityInv
<1> DEFINE r == enrol[e].at
           t == TenantOf[enrol[e].tok]
           pair == enrol[e].pair
<1>0. /\ UNCHANGED <<delivered, server>> /\ enrol[e].pc = "key"
      /\ secret' = [secret EXCEPT ![t] = pair]
      /\ ca' = [ca EXCEPT ![r].tenants[t] = pair]
      /\ enrol' = [enrol EXCEPT ![e].pc = "mint"]
  BY DEF WriteTenantKey, Goto
<1>1. r \in Replica /\ enrol[e].tok \in Token /\ t \in Tenant /\ pair \in Pair
  BY TokensAssumption DEF TypeOK, EnrolShape
<1>2. ca[r].up /\ secret[t] = [pair EXCEPT !.key = None] /\ pair.cert # None /\ pair.key = pair.cert
  BY <1>0 DEF RequestSound, HalfSound, HalfPair
<1>3. /\ secret[t].cert = pair.cert /\ secret[t].signer = pair.signer /\ secret[t].key = None
      /\ secret["root"].cert # None /\ pair.signer = secret["root"].cert
  BY <1>1, <1>2 DEF StoreSound, Pair
<1> HIDE DEF r, t, pair
<1>4. /\ secret'[t] = pair /\ \A n \in Name \ {t} : secret'[n] = secret[n]
      /\ "root" \in Name \ {t} /\ \A u \in Tenant : u \in Name
  BY <1>0, <1>1, NamesAssumption DEF TypeOK, Name
<1>5. \A c \in Cert : Sound(c) => Sound(c)'
  BY <1>3, <1>4, SoundKept DEF Sound
<1>6. \A q \in Replica : ca[q].tenants[t].cert = None
  BY <1>1, <1>3 DEF LoadedSound
<1>7. /\ enrol'[e].pc = "mint" /\ enrol'[e].at = r /\ TenantOf[enrol'[e].tok] = t
      /\ \A f \in Request \ {e} : enrol'[f] = enrol[f]
  BY <1>0 DEF TypeOK, EnrolShape, r, t
<1>8. /\ \A q \in Replica : ca'[q].up = ca[q].up /\ ca'[q].root = ca[q].root
      /\ \A q \in Replica, u \in Tenant : ca'[q].tenants[u] = ca[q].tenants[u] \/ (q = r /\ u = t)
      /\ ca'[r].tenants[t] = pair
  BY <1>0, <1>1 DEF TypeOK
<1>9. \A f \in Request : /\ enrol[f].at \in Replica /\ TenantOf[enrol[f].tok] \in Tenant
                         /\ enrol[f].cert \in Cert
  BY TokensAssumption DEF TypeOK, EnrolShape
<1>10. StoreSound'
  BY <1>1, <1>2, <1>3, <1>4 DEF StoreSound, Matches
<1>11. LoadedSound'
  BY <1>2, <1>4, <1>6, <1>8 DEF LoadedSound, Matches
<1>12. \A f \in Request \ {e} : enrol[f].pc = "mint" =>
         ca'[enrol[f].at].tenants[TenantOf[enrol[f].tok]].cert # None
  BY SMTT(30), <1>2, <1>8, <1>9 DEF RequestSound
<1>13. RequestSound'
  BY <1>1, <1>2, <1>5, <1>7, <1>8, <1>9, <1>12 DEF RequestSound
<1>14. \A f \in Request \ {e} : enrol[f].pc = "key" => TenantOf[enrol[f].tok] # t
  BY <1>0 DEF HalfSound, t
<1>15. \A f \in Request : enrol'[f].pc = "key" => HalfPair(f)'
  BY <1>4, <1>7, <1>9, <1>14 DEF HalfSound, HalfPair
<1>16. HalfSound'
  BY <1>7, <1>15 DEF HalfSound
<1>17. HandedOutSound'
  BY <1>0, <1>4, <1>5 DEF HandedOutSound, TypeOK
<1> QED
  BY <1>10, <1>11, <1>13, <1>16, <1>17

LEMMA MintKeeps ==
    ASSUME AuthorityInv, TypeOK', NEW e \in Request, MintAgentCert(e)
    PROVE  AuthorityInv'
<1> USE DEF AuthorityInv
<1> DEFINE r == enrol[e].at
           t == TenantOf[enrol[e].tok]
           cert == [serial |-> minted + 1, tenant |-> t, token |-> enrol[e].tok,
                    by |-> ca[r].tenants[t].key, chain |-> ca[r].root.cert]
<1>0. /\ UNCHANGED <<secret, ca, delivered, server>> /\ enrol[e].pc = "mint"
      /\ End(e) \/ enrol' = [enrol EXCEPT ![e].pc = "consume", ![e].cert = cert]
  BY DEF MintAgentCert
<1>1. r \in Replica /\ t \in Tenant
  BY SMTT(30), TokensAssumption DEF TypeOK, EnrolShape
<1>2. /\ ca[r].up /\ ca[r].tenants[t].cert # None
      /\ ca[r].tenants[t] = secret[t] /\ secret[t].key = secret[t].cert /\ ca[r].root.cert = secret["root"].cert
  BY <1>0, <1>1 DEF RequestSound, LoadedSound, StoreSound, Matches
<1>3. Sound(cert)
  BY <1>2 DEF Sound
<1> HIDE DEF cert
<1>4. /\ enrol'[e].pc = "idle" \/ (enrol'[e].pc = "consume" /\ enrol'[e].at = r /\ enrol'[e].cert = cert)
      /\ \A f \in Request \ {e} : enrol'[f] = enrol[f]
  <2>1. CASE End(e)
    BY <2>1, NoEnrolShape DEF End, TypeOK
  <2>2. CASE enrol' = [enrol EXCEPT ![e].pc = "consume", ![e].cert = cert]
    <3>1. enrol \in [Request -> EnrolShape]
      BY DEF TypeOK
    <3> QED
      BY <2>2, <3>1 DEF EnrolShape
  <2> QED
    BY <1>0, <2>1, <2>2
<1>5. \A f \in Request : \/ enrol'[f] = enrol[f]
                         \/ enrol'[f].pc = "idle"
                         \/ enrol'[f].pc \in Ahead /\ ca[enrol'[f].at].up /\ Sound(enrol'[f].cert)
  BY <1>2, <1>3, <1>4 DEF Ahead
<1>6. (\A c \in delivered' : Sound(c)) /\ ServerSound(server')
  BY <1>0 DEF HandedOutSound, ServerSound
<1> QED
  BY <1>0, <1>5, <1>6, AuthorityQuiet

LEMMA ServedSound ==
    ASSUME AuthorityInv, TypeOK', NEW r \in Replica, provision(r)
    PROVE  AuthorityInv'
<1>0. /\ ca[r].up /\ ca[r].root.key # None /\ UNCHANGED <<secret, ca, enrol, delivered>>
      /\ server'.leaf = ca[r].root.key
      /\ server'.clientCA = IF server.clientCA = None THEN ca[r].root.cert ELSE server.clientCA
  BY DEF provision, SignServerCSR, Served
<1>1. ca[r].root.key = secret["root"].cert /\ ca[r].root.cert = secret["root"].cert /\ secret["root"].cert # None
  BY <1>0 DEF AuthorityInv, LoadedSound, Matches
<1>2. ServerSound(server')
  BY <1>0, <1>1 DEF AuthorityInv, HandedOutSound, ServerSound
<1>3. \A c \in delivered' : Sound(c)
  BY <1>0 DEF AuthorityInv, HandedOutSound
<1> QED
  BY <1>0, <1>2, <1>3, AuthorityQuiet

LEMMA AuthorityNext == AuthorityInv /\ [Next]_vars => AuthorityInv'
<1> SUFFICES ASSUME AuthorityInv, [Next]_vars PROVE AuthorityInv'
  OBVIOUS
<1>t. TypeOK /\ TypeOK'
  BY TypeNext DEF AuthorityInv
<1>d. (\A c \in delivered : Sound(c)) /\ ServerSound(server)
  BY DEF AuthorityInv, HandedOutSound, ServerSound
<1>1. ASSUME NEW r \in Replica, Boot(r) \/ Crash(r) \/ provision(r) PROVE AuthorityInv'
  BY <1>1, <1>t, LoadRootKeeps, BootstrapRootKeeps, WriteRootKeyKeeps, CrashKeeps, ServedSound DEF Boot
<1>2. ASSUME NEW k \in Token, IssueAgentEnrollToken(k) \/ Void(k) PROVE AuthorityInv'
  BY <1>2, <1>t, <1>d, AuthorityQuiet DEF IssueAgentEnrollToken, Void
<1>3. ASSUME NEW t \in Tenant, Bar(t) PROVE AuthorityInv'
  BY <1>3, <1>t, <1>d, AuthorityQuiet DEF Bar
<1>4. ASSUME NEW e \in Request, NEW r \in Replica, NEW k \in Token, Present(e, r, k) PROVE AuthorityInv'
  <2>1. enrol' = [enrol EXCEPT ![e] = [NoEnrol EXCEPT !.pc = "check", !.at = r, !.tok = k]] /\ ca[r].up
    BY <1>4 DEF Present
  <2>2. /\ enrol'[e].pc = "check" /\ enrol'[e].at = r /\ \A f \in Request \ {e} : enrol'[f] = enrol[f]
    BY <1>t, <2>1, NoEnrolShape DEF TypeOK, EnrolShape
  <2> QED
    BY <1>4, <1>t, <1>d, <2>1, <2>2, AuthorityQuiet DEF Present
<1>5. ASSUME NEW e \in Request, Check(e) \/ BootstrapRefused(e) PROVE AuthorityInv'
  <2>1. /\ UNCHANGED <<secret, ca, delivered, server>>
        /\ End(e) \/ (enrol[e].pc = "check" /\ Goto(e, "ca"))
    BY <1>5 DEF Check, BootstrapRefused
  <2>2. enrol'[e].pc = "idle" \/ (enrol'[e].pc = "ca" /\ enrol'[e].at = enrol[e].at /\ enrol[e].pc = "check")
    BY <1>t, <2>1, NoEnrolShape DEF End, Goto, TypeOK, EnrolShape
  <2>3. \A f \in Request \ {e} : enrol'[f] = enrol[f]
    BY <1>t, <2>1 DEF End, Goto, TypeOK
  <2>4. enrol[e].pc = "check" => ca[enrol[e].at].up
    BY DEF AuthorityInv, RequestSound
  <2> QED
    BY <1>t, <1>d, <2>1, <2>2, <2>3, <2>4, AuthorityQuiet
<1>6. ASSUME NEW e \in Request, UseStored(e) \/ BootstrapTenant(e) \/ WriteTenantKey(e) \/ MintAgentCert(e)
      PROVE  AuthorityInv'
  BY <1>6, <1>t, UseStoredKeeps, BootstrapTenantKeeps, WriteTenantKeyKeeps, MintKeeps
<1>7. ASSUME NEW e \in Request, ConsumeAgentEnrollToken(e) \/ CreateAgentEnrollment(e) PROVE AuthorityInv'
  <2>1. /\ UNCHANGED <<secret, ca, delivered, server>> /\ enrol[e].pc \in Ahead
        /\ End(e) \/ Goto(e, "record") \/ Goto(e, "reply")
    BY <1>7 DEF ConsumeAgentEnrollToken, CreateAgentEnrollment, Ahead
  <2>2. \/ enrol'[e].pc = "idle"
        \/ enrol'[e].pc \in Ahead /\ enrol'[e].at = enrol[e].at /\ enrol'[e].cert = enrol[e].cert
    BY <1>t, <2>1, NoEnrolShape DEF End, Goto, TypeOK, EnrolShape, Ahead
  <2>3. \A f \in Request \ {e} : enrol'[f] = enrol[f]
    BY <1>t, <2>1 DEF End, Goto, TypeOK
  <2>4. ca[enrol[e].at].up /\ Sound(enrol[e].cert)
    BY <2>1 DEF AuthorityInv, RequestSound, Ahead
  <2> QED
    BY <1>t, <1>d, <2>1, <2>2, <2>3, <2>4, AuthorityQuiet
<1>8. ASSUME NEW e \in Request, Reply(e) PROVE AuthorityInv'
  <2>1. /\ UNCHANGED <<secret, ca, server>> /\ enrol[e].pc = "reply" /\ End(e)
        /\ delivered' \subseteq delivered \cup {enrol[e].cert}
    BY <1>8 DEF Reply
  <2>2. Sound(enrol[e].cert)
    BY <2>1 DEF AuthorityInv, RequestSound
  <2>3. enrol'[e].pc = "idle" /\ \A f \in Request \ {e} : enrol'[f] = enrol[f]
    BY <1>t, <2>1, NoEnrolShape DEF End, TypeOK
  <2> QED
    BY <1>t, <1>d, <2>1, <2>2, <2>3, AuthorityQuiet
<1>9. CASE Age \/ ServerRestart
  <2>1. UNCHANGED <<secret, ca, enrol, delivered>>
    BY <1>9 DEF Age, ServerRestart
  <2>2. CASE Age
    <3>1. server'.leaf = server.leaf /\ server'.clientCA = server.clientCA
      BY <1>t, <2>2 DEF Age, TypeOK
    <3> QED
      BY <1>t, <1>d, <2>1, <3>1, AuthorityQuiet DEF ServerSound
  <2>3. CASE ServerRestart
    <3>1. server'.leaf = None /\ server'.clientCA = None
      BY <2>3 DEF ServerRestart, NoServer
    <3> QED
      BY <1>t, <1>d, <2>1, <3>1, AuthorityQuiet DEF ServerSound
  <2> QED
    BY <1>9, <2>2, <2>3
<1>10. CASE UNCHANGED vars
  BY <1>10, <1>t, <1>d, AuthorityQuiet DEF vars
<1> QED
  BY <1>1, <1>2, <1>3, <1>4, <1>5, <1>6, <1>7, <1>8, <1>9, <1>10 DEF Next, handleEnroll

LEMMA AuthorityInit == Init => AuthorityInv
<1> SUFFICES ASSUME Init PROVE AuthorityInv
  OBVIOUS
<1>1. TypeOK
  BY TypeInit
<1>2. StoreSound /\ LoadedSound
  BY DEF Init, StoreSound, LoadedSound, Matches, NoPair, Down
<1>3. RequestSound /\ HalfSound
  BY NoEnrolShape DEF Init, RequestSound, HalfSound
<1>4. HandedOutSound
  BY DEF Init, HandedOutSound, NoServer
<1> QED
  BY <1>1, <1>2, <1>3, <1>4 DEF AuthorityInv

(***************************************************************************)
(* One authority: replicas that run agree on the root and on every         *)
(* tenant's intermediate, and every certificate handed out was signed by   *)
(* the stored ones, for any number of replicas that boot, bootstrap and    *)
(* die at any point (ca.go:137-166, 260-322).                              *)
(***************************************************************************)
THEOREM AuthoritySingle == Spec => []OneAuthority
<1>1. AuthorityInv => OneAuthority
  <2> SUFFICES ASSUME AuthorityInv PROVE OneAuthority
    OBVIOUS
  <2> USE DEF AuthorityInv
  <2>1. \A c \in delivered : c.tenant \in Tenant
    BY DEF TypeOK, Cert
  <2>2. \A c \in delivered : c.by = secret[c.tenant].cert /\ secret[c.tenant].signer = c.chain
    BY <2>1 DEF HandedOutSound, Sound, StoreSound
  <2>3. \A r, s \in Replica : Agree(ca[r].root, ca[s].root) /\ \A t \in Tenant : Agree(ca[r].tenants[t], ca[s].tenants[t])
    BY DEF LoadedSound, Agree
  <2> QED
    BY <2>2, <2>3 DEF OneAuthority
<1> QED
  BY <1>1, AuthorityInit, AuthorityNext, PTL DEF Spec

(***************************************************************************)
(* Agents and the server trust each other: the client CA the server        *)
(* captured and the signer of its leaf are the root of every chain handed  *)
(* out (cert_provision.go:203-205).                                        *)
(***************************************************************************)
THEOREM TrustMutual == Spec => []MutualTrust
<1>1. AuthorityInv => MutualTrust
  BY DEF AuthorityInv, HandedOutSound, Sound, MutualTrust
<1> QED
  BY <1>1, AuthorityInit, AuthorityNext, PTL DEF Spec
=============================================================================
