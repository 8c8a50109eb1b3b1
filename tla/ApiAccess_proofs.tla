---------------------------- MODULE ApiAccess_proofs ----------------------------
(***************************************************************************)
(* Theorems about ApiAccess, for any requests, users, tenants, latencies   *)
(* and bounds.                                                             *)
(***************************************************************************)
EXTENDS ApiAccess, CountingLemmas, TLAPS

(***************************************************************************)
(* A request past a look-up has a user; whenever the table gives its user  *)
(* what it asks for, that has been noted; and a handler had it noted.      *)
(***************************************************************************)
Fit(x, m) ==
    /\ x.pc \in {"claims", "memberships", "handler", "owner"} => x.user \in Users
    /\ x.pc \notin Over /\ Asks(x, m) => x.entitled
    /\ x.pc \in {"handler", "owner"} => x.entitled
RequestInv == \A r \in Requests : Fit(req[r], member)

IInv == TypeOK /\ RequestInv

-----------------------------------------------------------------------------
\* A record of metrics stays one.
LEMMA RecordType ==
    ASSUME NEW m \in Metrics, NEW l \in Labels, NEW status \in Nat, NEW d \in Nat
    PROVE  Record(m, l, status, d) \in Metrics
<1>1. m.routes \in [Labels -> [count : Nat, errors : Nat, total : Nat]]
  BY DEF Metrics
<1>2. Counted(m.routes[l], status, d) \in [count : Nat, errors : Nat, total : Nat]
  BY <1>1 DEF Counted
<1>3. [m.routes EXCEPT ![l] = Counted(@, status, d)] \in [Labels -> [count : Nat, errors : Nat, total : Nat]]
  BY <1>1, <1>2
<1>4. [b \in Buckets |-> m.buckets[b] + IF d <= b THEN 1 ELSE 0] \in [Buckets -> Nat]
  BY BucketsAssumption DEF Metrics
<1>. QED BY <1>3, <1>4 DEF Metrics, Record

\* What is noted changes nothing else of a request, and is what the table gives.
LEMMA NotedRecord ==
    ASSUME NEW rq \in [Requests -> Request], NEW m, NEW q \in Requests
    PROVE  /\ Noted(rq, m)[q] \in Request
           /\ Noted(rq, m)[q].pc = rq[q].pc /\ Noted(rq, m)[q].user = rq[q].user
           /\ rq[q].entitled => Noted(rq, m)[q].entitled
           /\ rq[q].pc \notin Over /\ Asks(Noted(rq, m)[q], m) => Noted(rq, m)[q].entitled
<1>. DEFINE e == rq[q].entitled \/ (rq[q].pc \notin Over /\ Asks(rq[q], m))
<1>1. e \in BOOLEAN /\ rq[q] \in Request
  BY DEF Request
<1>2. Noted(rq, m)[q] = [rq[q] EXCEPT !.entitled = e]
  BY DEF Noted
<1>. HIDE DEF e
<1>3. [rq[q] EXCEPT !.entitled = e] \in Request
  BY <1>1 DEF Request
<1>4. /\ Noted(rq, m)[q].pc = rq[q].pc /\ Noted(rq, m)[q].user = rq[q].user
      /\ Noted(rq, m)[q].route = rq[q].route /\ Noted(rq, m)[q].tenant = rq[q].tenant
      /\ Noted(rq, m)[q].entitled = e
  BY <1>1, <1>2 DEF Request
<1>5. Asks(Noted(rq, m)[q], m) <=> Asks(rq[q], m)
  BY <1>4 DEF Asks
<1>. QED BY <1>2, <1>3, <1>4, <1>5 DEF e

LEMMA NotedType ==
    ASSUME NEW rq \in [Requests -> Request], NEW m
    PROVE  Noted(rq, m) \in [Requests -> Request]
<1>1. \A q \in Requests : Noted(rq, m)[q] \in Request
  BY NotedRecord
<1>2. Noted(rq, m) = [q \in Requests |-> Noted(rq, m)[q]]
  BY DEF Noted
<1>. QED BY <1>1, <1>2

\* An answered request keeps nothing; the others stay, and the metrics are metrics.
LEMMA AnswerStep ==
    ASSUME TypeOK, NEW rq \in [Requests -> Request], NEW r \in Requests,
           NEW status \in {200, 401, 403, 404, 500}, AnswerFrom(rq, r, status)
    PROVE  /\ req' \in [Requests -> Request]
           /\ req'[r].pc = "done"
           /\ \A q \in Requests \ {r} : req'[q] = rq[q]
           /\ metrics' \in Metrics /\ finished' \in Nat
<1>1. Bare("done", status) \in Request
  <2>1. NoMemberships \in [Tenants -> Roles \cup {"none"}]
    BY DEF NoMemberships
  <2>. QED BY <2>1 DEF Request, Bare, Tenants, Routes, Over
<1>2. /\ req' \in [Requests -> Request]
      /\ req'[r].pc = "done"
      /\ \A q \in Requests \ {r} : req'[q] = rq[q]
  BY <1>1 DEF AnswerFrom, Bare
<1>3. Label(r) \in Labels
  BY LabelsAssumption DEF Label, TypeOK, Request
<1>4. \A d \in Durations : Record(metrics, Label(r), status, d) \in Metrics
  BY <1>3, RecordType, DurationsAssumption DEF TypeOK
<1>5. metrics' \in Metrics /\ finished' \in Nat
  BY <1>4 DEF AnswerFrom, TypeOK
<1>. QED BY <1>2, <1>5

\* A request that goes on changes its place and nothing else.
LEMMA GotoStep ==
    ASSUME NEW r \in Requests, NEW label \in Awaits, req \in [Requests -> Request], Goto(r, label)
    PROVE  /\ req' \in [Requests -> Request]
           /\ req'[r] = [req[r] EXCEPT !.pc = label]
           /\ \A q \in Requests \ {r} : req'[q] = req[q]
<1>1. req[r] \in Request
  OBVIOUS
<1>2. [req[r] EXCEPT !.pc = label] \in Request
  BY <1>1 DEF Request
<1>. QED BY <1>2 DEF Goto

\* What a request brings along has the types of a token.
LEMMA CredentialsType ==
    ASSUME TypeOK, NEW route \in Routes, NEW token \in Credentials(route)
    PROVE  token.user \in Users \cup {Nobody} /\ token.claims \in [Tenants -> Roles \cup {"none"}]
<1>1. NoMemberships \in [Tenants -> Roles \cup {"none"}]
  BY DEF NoMemberships
<1>. QED BY <1>1 DEF Credentials, NoToken, TypeOK, Token

\* A request that comes in is a request, and whether it may pass is noted.
LEMMA ArriveStep ==
    ASSUME TypeOK, NEW r \in Requests, NEW route \in Routes, NEW tenant \in Tenants,
           NEW token \in Credentials(route), Arrive(r, route, tenant, token)
    PROVE  /\ req' \in [Requests -> Request]
           /\ req'[r].pc \in {"jwt", "select", "exists"}
           /\ Asks(req'[r], member) => req'[r].entitled
           /\ \A q \in Requests \ {r} :
                /\ req'[q].pc = req[q].pc /\ req'[q].user = req[q].user
                /\ req[q].entitled => req'[q].entitled
                /\ req[q].pc \notin Over /\ Asks(req'[q], member) => req'[q].entitled
<1>. DEFINE begun == Begun(route, tenant, token)
            rq == [req EXCEPT ![r] = begun]
<1>1. token.user \in Users \cup {Nobody} /\ token.claims \in [Tenants -> Roles \cup {"none"}]
  BY CredentialsType
<1>2. begun \in Request /\ begun.pc \in {"jwt", "select", "exists"}
  BY <1>1 DEF Begun, Request, Awaits
<1>3. begun.pc \notin Over
  BY <1>2 DEF Over
<1>. HIDE DEF begun
<1>4. rq \in [Requests -> Request] /\ rq[r] = begun /\ \A q \in Requests \ {r} : rq[q] = req[q]
  BY <1>2 DEF TypeOK
<1>5. req' = Noted(rq, member)
  BY DEF Arrive, begun
<1>. HIDE DEF rq
<1>6. ASSUME NEW q \in Requests
      PROVE  /\ req' \in [Requests -> Request]
             /\ req'[q].pc = rq[q].pc /\ req'[q].user = rq[q].user
             /\ rq[q].entitled => req'[q].entitled
             /\ rq[q].pc \notin Over /\ Asks(req'[q], member) => req'[q].entitled
  BY <1>4, <1>5, NotedRecord, NotedType
<1>. QED BY <1>2, <1>3, <1>4, <1>6

\* A request that comes in is fit, and so are the others.
LEMMA ArriveFit ==
    ASSUME IInv, NEW r \in Requests, NEW route \in Routes, NEW tenant \in Tenants,
           NEW token \in Credentials(route), Arrive(r, route, tenant, token)
    PROVE  RequestInv'
<1>1. member' = member
  BY DEF Arrive, tables
<1>2. ASSUME NEW q \in Requests PROVE Fit(req'[q], member)
  <2>1. CASE q = r
    BY <2>1, ArriveStep DEF IInv, Fit
  <2>2. CASE q # r
    BY <2>2, ArriveStep DEF IInv, RequestInv, Fit
  <2>. QED BY <2>1, <2>2
<1>. QED BY <1>1, <1>2 DEF RequestInv

\* A request that goes on stays fit if it has what its next place asks for.
LEMMA GotoFit ==
    ASSUME IInv, NEW r \in Requests, NEW label \in Awaits, Goto(r, label), member' = member,
           req[r].pc \notin Over,
           label \in {"claims", "memberships", "handler", "owner"} => req[r].user \in Users,
           label \in {"handler", "owner"} => req[r].entitled
    PROVE  RequestInv'
<1>1. req \in [Requests -> Request] /\ req[r] \in Request
  BY DEF IInv, TypeOK
<1>2. /\ req'[r].pc = label /\ req'[r].user = req[r].user /\ req'[r].route = req[r].route
      /\ req'[r].tenant = req[r].tenant /\ req'[r].entitled = req[r].entitled
  <2>1. req'[r] = [req[r] EXCEPT !.pc = label]
    BY <1>1, GotoStep
  <2>. QED BY <1>1, <2>1 DEF Request
<1>3. Asks(req'[r], member) <=> Asks(req[r], member)
  BY <1>2 DEF Asks
<1>4. Fit(req'[r], member)
  BY <1>2, <1>3 DEF IInv, RequestInv, Fit
<1>. QED BY <1>1, <1>4, GotoStep DEF IInv, RequestInv

\* After an answer the request is over and the others are fit.
LEMMA AnswerFit ==
    ASSUME IInv, NEW r \in Requests, NEW status \in {200, 401, 403, 404, 500},
           AnswerFrom(req, r, status), member' = member
    PROVE  RequestInv'
<1>1. /\ req'[r].pc = "done"
      /\ \A q \in Requests \ {r} : req'[q] = req[q]
  BY AnswerStep DEF IInv, TypeOK
<1>. QED BY <1>1 DEF IInv, RequestInv, Fit, Over

\* What the table gives after a change is noted for every request.
LEMMA NotedFit ==
    ASSUME IInv, NEW m, NEW q \in Requests
    PROVE  Fit(Noted(req, m)[q], m)
<1>1. req \in [Requests -> Request]
  BY DEF IInv, TypeOK
<1>. QED BY <1>1, NotedRecord, NotedType DEF IInv, RequestInv, Fit

LEMMA AnswerNotedFit ==
    ASSUME IInv, NEW r \in Requests, NEW status \in {200, 401, 403, 404, 500},
           NEW rq, rq = Noted(req, member'), AnswerFrom(rq, r, status)
    PROVE  RequestInv' /\ req' \in [Requests -> Request] /\ metrics' \in Metrics /\ finished' \in Nat
<1>1. rq \in [Requests -> Request]
  BY NotedRecord, NotedType DEF IInv, TypeOK
<1>2. /\ req' \in [Requests -> Request]
      /\ req'[r].pc = "done"
      /\ \A q \in Requests \ {r} : req'[q] = rq[q]
      /\ metrics' \in Metrics /\ finished' \in Nat
  BY <1>1, AnswerStep DEF IInv
<1>3. Fit(req'[r], member')
  BY <1>2 DEF Fit, Over
<1>4. \A q \in Requests \ {r} : Fit(req'[q], member')
  BY <1>2, NotedFit
<1>. QED BY <1>2, <1>3, <1>4 DEF RequestInv

-----------------------------------------------------------------------------
\* Tables of accounts and memberships keep their types.
LEMMA MembershipsType ==
    ASSUME TypeOK, NEW u \in Users
    PROVE  MembershipsOf(u) \in [Tenants -> Roles \cup {"none"}]
  BY DEF TypeOK, MembershipsOf

LEMMA MemberType ==
    ASSUME TypeOK, NEW t \in Tenants, NEW u \in Users, NEW role \in Roles \cup {"none"}
    PROVE  [member EXCEPT ![<<t, u>>] = role] \in [Tenants \X Users -> Roles \cup {"none"}]
  BY DEF TypeOK

(***************************************************************************)
(* Every step of a request keeps the types and what makes requests fit.    *)
(***************************************************************************)
LEMMA RequestStep ==
    ASSUME IInv, NEW r \in Requests, Step(r)
    PROVE  IInv'
<1>. USE UsersAssumption, RolesAssumption
<1>1. CASE BootstrapExists(r)
  <2>1. PICK label \in {"select", "insert"} : Goto(r, label)
    BY <1>1 DEF BootstrapExists
  <2>2. label \in Awaits /\ label \notin {"claims", "memberships", "handler", "owner"}
    BY <2>1 DEF Awaits
  <2>3. req[r].pc \notin Over /\ member' = member
    BY <1>1 DEF BootstrapExists, At, Over, tables
  <2>4. RequestInv' /\ req' \in [Requests -> Request]
    BY <2>1, <2>2, <2>3, GotoFit, GotoStep DEF IInv, TypeOK
  <2>. QED BY <1>1, <2>4 DEF BootstrapExists, IInv, TypeOK, tables, Still
<1>2. CASE BootstrapInsert(r)
  <2>1. member' = member /\ req[r].pc \notin Over
    BY <1>2 DEF BootstrapInsert, At, Over
  <2>2. CASE Answer(r, 500) /\ UNCHANGED <<accounts, ready>>
    <3>1. RequestInv' /\ req' \in [Requests -> Request] /\ metrics' \in Metrics /\ finished' \in Nat
      BY <2>1, <2>2, AnswerFit, AnswerStep DEF Answer, IInv, TypeOK
    <3>. QED BY <1>2, <2>2, <3>1 DEF BootstrapInsert, IInv, TypeOK, Still
  <2>3. CASE /\ accounts' = accounts \cup {Admin} /\ ready' = TRUE
             /\ Goto(r, "select") /\ UNCHANGED <<metrics, finished>>
    <3>1. RequestInv' /\ req' \in [Requests -> Request]
      BY <2>1, <2>3, GotoFit, GotoStep DEF IInv, TypeOK, Awaits
    <3>. QED BY <1>2, <2>3, <3>1 DEF BootstrapInsert, IInv, TypeOK, Still
  <2>. QED BY <1>2, <2>2, <2>3 DEF BootstrapInsert
<1>3. CASE LoginSelect(r)
  <2>1. req[r].pc \notin Over /\ UNCHANGED <<tables, ready, tokens, edits, faults>>
    BY <1>3 DEF LoginSelect, At, Over, Still
  <2>2. CASE req[r].user \in accounts /\ Goto(r, "claims") /\ UNCHANGED <<metrics, finished>>
    <3>1. RequestInv' /\ req' \in [Requests -> Request]
      BY <2>1, <2>2, GotoFit, GotoStep DEF IInv, TypeOK, Awaits, tables
    <3>. QED BY <2>1, <2>2, <3>1 DEF IInv, TypeOK, tables
  <2>3. CASE Answer(r, 401)
    <3>1. RequestInv' /\ req' \in [Requests -> Request] /\ metrics' \in Metrics /\ finished' \in Nat
      BY <2>1, <2>3, AnswerFit, AnswerStep DEF Answer, IInv, TypeOK, tables
    <3>. QED BY <2>1, <3>1 DEF IInv, TypeOK, tables
  <2>. QED BY <1>3, <2>2, <2>3 DEF LoginSelect
<1>4. CASE LoginSign(r)
  <2>1. Answer(r, 200) /\ UNCHANGED <<tables, ready, edits, faults>> /\ req[r].user \in Users
    BY <1>4 DEF LoginSign, At, Still, IInv, RequestInv, Fit
  <2>2. [user |-> req[r].user, claims |-> MembershipsOf(req[r].user)] \in Token
    BY <2>1, MembershipsType DEF Token, IInv
  <2>3. tokens' \subseteq Token
    BY <1>4, <2>2 DEF LoginSign, IInv, TypeOK
  <2>4. RequestInv' /\ req' \in [Requests -> Request] /\ metrics' \in Metrics /\ finished' \in Nat
    BY <2>1, AnswerFit, AnswerStep DEF Answer, IInv, TypeOK, tables
  <2>. QED BY <2>1, <2>3, <2>4 DEF IInv, TypeOK, tables
<1>5. CASE JwtUser(r)
  <2>1. req[r].pc \notin Over /\ UNCHANGED <<tables, ready, tokens, edits, faults>>
    BY <1>5 DEF JwtUser, At, Over, Still
  <2>2. CASE req[r].user \in accounts /\ Goto(r, "memberships") /\ UNCHANGED <<metrics, finished>>
    <3>1. RequestInv' /\ req' \in [Requests -> Request]
      BY <2>1, <2>2, GotoFit, GotoStep DEF IInv, TypeOK, Awaits, tables
    <3>. QED BY <2>1, <2>2, <3>1 DEF IInv, TypeOK, tables
  <2>3. CASE Answer(r, 401) \/ Answer(r, 404)
    <3>1. RequestInv' /\ req' \in [Requests -> Request] /\ metrics' \in Metrics /\ finished' \in Nat
      BY <2>1, <2>3, AnswerFit, AnswerStep DEF Answer, IInv, TypeOK, tables
    <3>. QED BY <2>1, <3>1 DEF IInv, TypeOK, tables
  <2>. QED BY <1>5, <2>2, <2>3 DEF JwtUser
<1>6. CASE JwtMemberships(r)
  <2>1. req[r].pc = "memberships" /\ UNCHANGED <<tables, ready, tokens, edits, faults>>
    BY <1>6 DEF JwtMemberships, At, Still
  <2>2. req[r].pc \notin Over /\ req[r].user \in Users /\ req[r] \in Request
    BY <2>1 DEF Over, IInv, RequestInv, Fit, TypeOK
  <2>3. CASE Passes(r, MembershipsOf(req[r].user)) /\ Goto(r, "handler") /\ UNCHANGED <<metrics, finished>>
    <3>1. req[r].tenant \in Tenants
      BY <2>2 DEF Request
    <3>2. /\ MembershipsOf(req[r].user)[req[r].tenant] = member[<<req[r].tenant, req[r].user>>]
          /\ member[<<req[r].tenant, req[r].user>>] \in Roles \cup {"none"}
      BY <2>2, <3>1 DEF MembershipsOf, IInv, TypeOK
    <3>3. Asks(req[r], member)
      BY <2>2, <2>3, <3>2 DEF Asks, Passes, RolesGuard, TenantAccessGuard
    <3>4. req[r].entitled
      BY <2>2, <3>3 DEF IInv, RequestInv, Fit
    <3>5. RequestInv' /\ req' \in [Requests -> Request]
      BY <2>1, <2>2, <2>3, <3>4, GotoFit, GotoStep DEF IInv, TypeOK, Awaits, tables
    <3>. QED BY <2>1, <2>3, <3>5 DEF IInv, TypeOK, tables
  <2>4. CASE Answer(r, 403)
    <3>1. RequestInv' /\ req' \in [Requests -> Request] /\ metrics' \in Metrics /\ finished' \in Nat
      BY <2>1, <2>4, AnswerFit, AnswerStep DEF Answer, IInv, TypeOK, tables
    <3>. QED BY <2>1, <3>1 DEF IInv, TypeOK, tables
  <2>. QED BY <1>6, <2>3, <2>4 DEF JwtMemberships
<1>7. CASE CreateTenant(r)
  <2>1. /\ req[r].pc = "handler" /\ Goto(r, "owner") /\ tenants' = tenants \cup {r}
        /\ UNCHANGED <<accounts, member, ready, metrics, finished, tokens, edits, faults>>
    BY <1>7 DEF CreateTenant, At, Still, process
  <2>2. req[r].pc \notin Over /\ req[r].user \in Users /\ req[r].entitled
    BY <2>1 DEF Over, IInv, RequestInv, Fit
  <2>3. RequestInv' /\ req' \in [Requests -> Request]
    BY <2>1, <2>2, GotoFit, GotoStep DEF IInv, TypeOK, Awaits
  <2>. QED BY <2>1, <2>3 DEF IInv, TypeOK, Tenants
<1>8. CASE AddMembership(r)
  <2>1. /\ req[r].pc = "owner" /\ member' = [member EXCEPT ![<<r, req[r].user>>] = "owner"]
        /\ \E rq : rq = Noted(req, member') /\ AnswerFrom(rq, r, 200)
        /\ UNCHANGED <<accounts, tenants, ready, tokens, edits, faults>>
    BY <1>8 DEF AddMembership, At, Still
  <2>2. req[r].user \in Users /\ r \in Tenants
    BY <2>1 DEF IInv, RequestInv, Fit, Tenants
  <2>3. member' \in [Tenants \X Users -> Roles \cup {"none"}]
    BY <2>1, <2>2, MemberType DEF IInv
  <2>4. RequestInv' /\ req' \in [Requests -> Request] /\ metrics' \in Metrics /\ finished' \in Nat
    <3>1. PICK rq : rq = Noted(req, member') /\ AnswerFrom(rq, r, 200)
      BY <2>1
    <3>2. 200 \in {200, 401, 403, 404, 500}
      OBVIOUS
    <3>3. RequestInv'
      BY <3>1, <3>2, AnswerNotedFit
    <3>4. req' \in [Requests -> Request]
      BY <3>1, <3>2, AnswerNotedFit
    <3>5. metrics' \in Metrics /\ finished' \in Nat
      BY <3>1, <3>2, AnswerNotedFit
    <3>. QED BY <3>3, <3>4, <3>5
  <2>. QED BY <2>1, <2>3, <2>4 DEF IInv, TypeOK
<1>9. CASE Handle(r)
  <2>1. UNCHANGED <<tables, ready, tokens, edits, faults>> /\ (Answer(r, 404) \/ Answer(r, 200))
    BY <1>9 DEF Handle, Still
  <2>2. RequestInv' /\ req' \in [Requests -> Request] /\ metrics' \in Metrics /\ finished' \in Nat
    BY <2>1, AnswerFit, AnswerStep DEF Answer, IInv, TypeOK, tables
  <2>. QED BY <2>1, <2>2 DEF IInv, TypeOK, tables
<1>. QED BY <1>1, <1>2, <1>3, <1>4, <1>5, <1>6, <1>7, <1>8, <1>9 DEF Step

\* So does a query that fails, whether its write was done or not.
LEMMA QueryFailsStep ==
    ASSUME IInv, NEW r \in Requests, QueryFails(r)
    PROVE  IInv'
<1>. USE UsersAssumption, RolesAssumption
<1>1. /\ faults' \in 0..MaxFaults
      /\ UNCHANGED <<ready, tokens, edits>>
  BY BoundsAssumption DEF QueryFails, IInv, TypeOK
<1>2. accounts' \subseteq Users /\ tenants' \subseteq Tenants
  BY DEF QueryFails, IInv, TypeOK, Tenants, tables
<1>3. member' \in [Tenants \X Users -> Roles \cup {"none"}]
  <2>1. CASE At(r, "owner") /\ member' = [member EXCEPT ![<<r, req[r].user>>] = "owner"]
    <3>1. req[r].user \in Users /\ r \in Tenants
      BY <2>1 DEF At, IInv, RequestInv, Fit, Tenants
    <3>. QED BY <2>1, <3>1, MemberType DEF IInv
  <2>2. CASE UNCHANGED member
    BY <2>2 DEF IInv, TypeOK
  <2>. QED BY <2>1, <2>2 DEF QueryFails, tables
<1>4. PICK rq, status : /\ rq = Noted(req, member') /\ AnswerFrom(rq, r, status)
                        /\ status \in {200, 401, 403, 404, 500}
  <2>. DEFINE answer == IF req[r].pc \in {"jwt", "memberships"} THEN 401 ELSE 500
  <2>1. AnswerFrom(Noted(req, member'), r, answer)
    BY DEF QueryFails
  <2>2. answer \in {200, 401, 403, 404, 500}
    OBVIOUS
  <2>. HIDE DEF answer
  <2>. QED BY <2>1, <2>2
<1>5. RequestInv'
  BY <1>4, AnswerNotedFit
<1>6. req' \in [Requests -> Request]
  BY <1>4, AnswerNotedFit
<1>7. metrics' \in Metrics /\ finished' \in Nat
  BY <1>4, AnswerNotedFit
<1>. QED BY <1>1, <1>2, <1>3, <1>5, <1>6, <1>7 DEF IInv, TypeOK

\* A client that goes away changes nothing its request may do.
LEMMA AbortStep ==
    ASSUME IInv, NEW r \in Requests, Abort(r)
    PROVE  IInv'
<1>1. /\ faults' \in 0..MaxFaults
      /\ UNCHANGED <<tables, process, tokens, edits>>
  BY BoundsAssumption DEF Abort, IInv, TypeOK
<1>2. req \in [Requests -> Request] /\ req[r] \in Request
  BY DEF IInv, TypeOK
<1>3. /\ req' \in [Requests -> Request]
      /\ req'[r] = [req[r] EXCEPT !.open = FALSE]
      /\ \A q \in Requests \ {r} : req'[q] = req[q]
  <2>1. \A b \in BOOLEAN : [req[r] EXCEPT !.open = b] \in Request
    BY <1>2 DEF Request
  <2>. QED BY <1>2, <2>1 DEF Abort
<1>4. /\ req'[r].pc = req[r].pc /\ req'[r].user = req[r].user /\ req'[r].route = req[r].route
      /\ req'[r].tenant = req[r].tenant /\ req'[r].entitled = req[r].entitled
  BY <1>2, <1>3 DEF Request
<1>5. Asks(req'[r], member) <=> Asks(req[r], member)
  BY <1>4 DEF Asks
<1>6. Fit(req'[r], member)
  BY <1>4, <1>5 DEF IInv, RequestInv, Fit
<1>7. RequestInv'
  BY <1>1, <1>3, <1>6 DEF IInv, RequestInv, tables
<1>. QED BY <1>1, <1>3, <1>7 DEF IInv, TypeOK, tables, process

\* After a restart the requests that were under way are over.
LEMMA RestartStep ==
    ASSUME IInv, Restart
    PROVE  IInv'
<1>1. /\ ready' \in BOOLEAN /\ finished' \in Nat
      /\ UNCHANGED <<tables, tokens, edits>>
  BY DEF Restart
<1>2. metrics' \in Metrics
  BY DEF Restart, NoMetrics, Metrics
<1>3. Bare("gone", 0) \in Request
  <2>1. NoMemberships \in [Tenants -> Roles \cup {"none"}]
    BY DEF NoMemberships
  <2>. QED BY <2>1 DEF Bare, Request, Tenants, Routes, Over
<1>4. \A q \in Requests : req'[q] = req[q] \/ req'[q] = Bare("gone", 0)
  BY DEF Restart
<1>5. req' \in [Requests -> Request]
  BY <1>3 DEF Restart, IInv, TypeOK
<1>6. Fit(Bare("gone", 0), member)
  BY DEF Fit, Bare, Over
<1>7. RequestInv'
  BY <1>1, <1>4, <1>6 DEF IInv, RequestInv, tables
<1>8. faults' \in 0..MaxFaults
  BY BoundsAssumption DEF Restart, IInv, TypeOK
<1>. QED BY <1>1, <1>2, <1>5, <1>7, <1>8 DEF IInv, TypeOK, tables

\* A change of the memberships is noted for every request.
LEMMA EditStep ==
    ASSUME IInv, NEW t \in Tenants, NEW u \in Users, NEW role \in Roles \cup {"none"},
           Edit(t, u, role)
    PROVE  IInv'
<1>1. /\ edits' \in 0..MaxEdits
      /\ UNCHANGED <<accounts, tenants, process, tokens, faults>>
  BY BoundsAssumption DEF Edit, IInv, TypeOK
<1>2. member' \in [Tenants \X Users -> Roles \cup {"none"}]
  BY MemberType DEF Edit, IInv
<1>3. req' = Noted(req, member')
  BY DEF Edit
<1>4. ASSUME NEW q \in Requests PROVE Fit(req'[q], member')
  BY <1>3, NotedFit
<1>5. req' \in [Requests -> Request]
  BY <1>3, NotedType DEF IInv, TypeOK
<1>. QED BY <1>1, <1>2, <1>4, <1>5 DEF IInv, TypeOK, RequestInv, process

-----------------------------------------------------------------------------
LEMMA InitInv == Init => IInv
<1>. SUFFICES ASSUME Init PROVE IInv
  OBVIOUS
<1>1. Bare("new", 0) \in Request
  <2>1. NoMemberships \in [Tenants -> Roles \cup {"none"}]
    BY DEF NoMemberships
  <2>. QED BY <2>1 DEF Bare, Request, Tenants, Routes, Over
<1>2. member \in [Tenants \X Users -> Roles \cup {"none"}]
  BY DEF Init
<1>3. tokens \subseteq Token
  <2>1. \A u \in Users : MembershipsOf(u) \in [Tenants -> Roles \cup {"none"}]
    BY <1>2 DEF MembershipsOf
  <2>. QED BY <2>1 DEF Init, Token
<1>4. metrics \in Metrics
  BY DEF Init, NoMetrics, Metrics
<1>5. TypeOK
  <2>1. accounts \subseteq Users /\ tenants \subseteq Tenants
    BY DEF Init, Tenants
  <2>2. req \in [Requests -> Request]
    BY <1>1 DEF Init
  <2>3. ready \in BOOLEAN
    BY DEF Init
  <2>4. finished \in Nat /\ edits \in 0..MaxEdits /\ faults \in 0..MaxFaults
    BY BoundsAssumption DEF Init
  <2>. QED BY <1>2, <1>3, <1>4, <2>1, <2>2, <2>3, <2>4 DEF TypeOK
<1>6. RequestInv
  BY DEF Init, RequestInv, Fit, Bare, Over
<1>. QED BY <1>5, <1>6 DEF IInv

(***************************************************************************)
(* Every step keeps the invariant, one lemma for each kind of step.        *)
(***************************************************************************)
LEMMA Invariance == IInv /\ [Next]_vars => IInv'
<1>. SUFFICES ASSUME IInv, [Next]_vars PROVE IInv'
  OBVIOUS
<1>1. ASSUME NEW r \in Requests, NEW route \in Routes, NEW t \in Tenants,
             NEW token \in Credentials(route), Arrive(r, route, t, token)
      PROVE  IInv'
  <2>1. req' \in [Requests -> Request]
    BY <1>1, ArriveStep DEF IInv
  <2>2. RequestInv'
    BY <1>1, ArriveFit
  <2>. QED BY <1>1, <2>1, <2>2 DEF Arrive, IInv, TypeOK, tables, process, Still
<1>2. ASSUME NEW r \in Requests, NEW route \in Routes, route \in OfTenant, NEW t \in tenants
      PROVE  t \in Tenants
  BY <1>2 DEF IInv, TypeOK
<1>3. Home \in Tenants
  BY DEF Tenants
<1>4. CASE UNCHANGED vars
  BY <1>4 DEF vars, tables, process, IInv, TypeOK, RequestInv
<1>. QED BY <1>1, <1>2, <1>3, <1>4, RequestStep, QueryFailsStep, AbortStep, RestartStep, EditStep DEF Next

\* Everything the API keeps has its type.
THEOREM TypeCorrect == Spec => []TypeOK
<1>1. IInv => TypeOK
  BY DEF IInv
<1>. QED BY <1>1, InitInv, Invariance, PTL DEF Spec

(***************************************************************************)
(* No handler runs for a user who has not had, since the request came in,  *)
(* what its route asks for, whatever its token says.                       *)
(***************************************************************************)
THEOREM NoStaleAccessHolds == Spec => []NoStaleAccess
<1>1. IInv => NoStaleAccess
  BY DEF IInv, RequestInv, Fit, NoStaleAccess
<1>. QED BY <1>1, InitInv, Invariance, PTL DEF Spec

(***************************************************************************)
(* bootstrapReady is only set when the account is there, and no step takes *)
(* an account away.                                                        *)
(***************************************************************************)
THEOREM ReadyMeansAccountHolds == Spec => []ReadyMeansAccount
<1>1. Init => ReadyMeansAccount
  BY DEF Init, ReadyMeansAccount
<1>2. ReadyMeansAccount /\ [Next]_vars => ReadyMeansAccount'
  <2>. SUFFICES ASSUME ReadyMeansAccount, [Next]_vars PROVE ReadyMeansAccount'
    OBVIOUS
  <2>. USE DEF ReadyMeansAccount, tables, process
  <2>1. ASSUME NEW r \in Requests, Step(r) PROVE ReadyMeansAccount'
    BY <2>1 DEF Step, BootstrapExists, BootstrapInsert, LoginSelect, LoginSign, JwtUser,
                JwtMemberships, CreateTenant, AddMembership, Handle
  <2>2. ASSUME NEW r \in Requests, QueryFails(r) \/ Abort(r) PROVE ReadyMeansAccount'
    BY <2>2 DEF QueryFails, Abort
  <2>3. ASSUME Restart \/ \E t, u, role : Edit(t, u, role) PROVE ReadyMeansAccount'
    BY <2>3 DEF Restart, Edit
  <2>4. ASSUME NEW r, NEW route, NEW t, NEW token, Arrive(r, route, t, token)
        PROVE  ReadyMeansAccount'
    BY <2>4 DEF Arrive
  <2>5. CASE UNCHANGED vars
    BY <2>5 DEF vars
  <2>. QED BY <2>1, <2>2, <2>3, <2>4, <2>5 DEF Next
<1>. QED BY <1>1, <1>2, PTL DEF Spec

-----------------------------------------------------------------------------
(***************************************************************************)
(* A tenant is there only while its request waits to add the membership,   *)
(* after that request ended in an error or with its process, or with a     *)
(* member, as long as nobody edits the memberships.                        *)
(***************************************************************************)
Explained(r) == \/ req[r].pc \in {"owner", "gone"}
                \/ /\ req[r].pc = "done"
                   /\ req[r].status = 500 \/ \E u \in Users : member[<<r, u>>] # "none"
OrphanInv == edits = 0 => \A r \in Requests \cap tenants : Explained(r)

\* A step of request r, which takes no membership away.
LEMMA OthersExplained ==
    ASSUME OrphanInv, NEW r \in Requests, edits' = edits,
           \A q \in Requests \ {r} : req'[q].pc = req[q].pc /\ req'[q].status = req[q].status,
           tenants' \subseteq tenants \cup {r},
           \A q \in Requests, u \in Users : member[<<q, u>>] # "none" => member'[<<q, u>>] # "none",
           edits = 0 /\ r \in tenants' => Explained(r)'
    PROVE  OrphanInv'
<1>. SUFFICES ASSUME edits' = 0, NEW q \in Requests, q \in tenants' PROVE Explained(q)'
  BY DEF OrphanInv
<1>1. CASE q = r
  BY <1>1
<1>2. CASE q # r
  <2>1. Explained(q) /\ req'[q].pc = req[q].pc /\ req'[q].status = req[q].status
    BY <1>2 DEF OrphanInv
  <2>2. \A u \in Users : member[<<q, u>>] # "none" => member'[<<q, u>>] # "none"
    OBVIOUS
  <2>. QED BY <2>1, <2>2 DEF Explained
<1>. QED BY <1>1, <1>2

\* What is noted leaves the place and the answer of a request alone.
LEMMA NotedPlace ==
    ASSUME NEW rq \in [Requests -> Request], NEW m, NEW q \in Requests
    PROVE  Noted(rq, m)[q].pc = rq[q].pc /\ Noted(rq, m)[q].status = rq[q].status
<1>. DEFINE e == rq[q].entitled \/ (rq[q].pc \notin Over /\ Asks(rq[q], m))
<1>1. Noted(rq, m)[q] = [rq[q] EXCEPT !.entitled = e] /\ rq[q] \in Request
  BY DEF Noted
<1>. HIDE DEF e
<1>. QED BY <1>1 DEF Request

\* An answer leaves the other requests alone.
LEMMA AnswerPlace ==
    ASSUME NEW rq \in [Requests -> Request], NEW r \in Requests, NEW status, AnswerFrom(rq, r, status)
    PROVE  /\ req'[r].pc = "done" /\ req'[r].status = status
           /\ \A q \in Requests \ {r} : req'[q] = rq[q]
  BY DEF AnswerFrom, Bare

LEMMA OrphanRequestStep ==
    ASSUME IInv, OrphanInv, NEW r \in Requests, Step(r)
    PROVE  OrphanInv'
<1>. USE DEF At, Still, tables, process
<1>1. req \in [Requests -> Request] /\ req[r] \in Request
  BY DEF IInv, TypeOK
<1>2. CASE CreateTenant(r)
  <2>1. /\ req[r].pc = "handler" /\ Goto(r, "owner") /\ tenants' = tenants \cup {r}
        /\ UNCHANGED <<member, edits>>
    BY <1>2 DEF CreateTenant
  <2>2. req'[r].pc = "owner" /\ \A q \in Requests \ {r} : req'[q] = req[q]
    BY <1>1, <2>1 DEF Goto, Request
  <2>. QED BY <2>1, <2>2, OthersExplained DEF Explained
<1>3. CASE AddMembership(r)
  <2>1. /\ req[r].pc = "owner" /\ member' = [member EXCEPT ![<<r, req[r].user>>] = "owner"]
        /\ AnswerFrom(Noted(req, member'), r, 200)
        /\ UNCHANGED <<tenants, edits>>
    BY <1>3 DEF AddMembership
  <2>2. req[r].user \in Users /\ <<r, req[r].user>> \in Tenants \X Users
    BY <2>1 DEF IInv, RequestInv, Fit, Tenants
  <2>3. /\ member'[<<r, req[r].user>>] # "none"
        /\ \A q \in Requests, u \in Users : member[<<q, u>>] # "none" => member'[<<q, u>>] # "none"
    BY <2>1, <2>2 DEF IInv, TypeOK, Tenants
  <2>4. Noted(req, member') \in [Requests -> Request]
    BY <1>1, NotedType
  <2>5. /\ req'[r].pc = "done"
        /\ \A q \in Requests \ {r} : req'[q] = Noted(req, member')[q]
    BY <2>1, <2>4, AnswerPlace
  <2>6. \A q \in Requests \ {r} : req'[q].pc = req[q].pc /\ req'[q].status = req[q].status
    BY <1>1, <2>5, NotedPlace
  <2>. QED BY <2>1, <2>2, <2>3, <2>5, <2>6, OthersExplained DEF Explained
<1>4. CASE ~CreateTenant(r) /\ ~AddMembership(r)
  <2>1. /\ req[r].pc \in {"exists", "insert", "select", "claims", "jwt", "memberships", "handler"}
        /\ UNCHANGED <<tenants, member, edits>>
        /\ \/ \E label \in Awaits : Goto(r, label)
           \/ \E status : Answer(r, status)
    BY <1>4 DEF Step, BootstrapExists, BootstrapInsert, LoginSelect, LoginSign, JwtUser,
                JwtMemberships, Handle, Awaits
  <2>2. \A q \in Requests \ {r} : req'[q] = req[q]
    BY <1>1, <2>1, AnswerPlace DEF Goto, Answer
  <2>3. edits = 0 => r \notin tenants
    BY <2>1 DEF OrphanInv, Explained
  <2>. QED BY <2>1, <2>2, <2>3, OthersExplained
<1>. QED BY <1>2, <1>3, <1>4

LEMMA OrphanFailStep ==
    ASSUME IInv, OrphanInv, NEW r \in Requests, QueryFails(r)
    PROVE  OrphanInv'
<1>. USE DEF At, tables
<1>1. req \in [Requests -> Request]
  BY DEF IInv, TypeOK
<1>2. /\ tenants' \subseteq tenants \cup {r} /\ edits' = edits
      /\ r \in tenants' => r \in tenants \/ req[r].pc = "handler"
      /\ req[r].pc \notin Over
  BY DEF QueryFails
<1>3. \A q \in Requests, u \in Users : member[<<q, u>>] # "none" => member'[<<q, u>>] # "none"
  <2>1. CASE req[r].pc = "owner" /\ member' = [member EXCEPT ![<<r, req[r].user>>] = "owner"]
    <3>1. <<r, req[r].user>> \in Tenants \X Users
      BY <2>1 DEF IInv, RequestInv, Fit, Tenants
    <3>. QED BY <2>1, <3>1 DEF IInv, TypeOK, Tenants
  <2>2. CASE UNCHANGED member
    BY <2>2
  <2>. QED BY <2>1, <2>2 DEF QueryFails
<1>4. edits = 0 /\ r \in tenants' => req[r].pc \in {"handler", "owner"}
  BY <1>2 DEF OrphanInv, Explained, Over
<1>5. PICK status : /\ AnswerFrom(Noted(req, member'), r, status)
                    /\ status = IF req[r].pc \in {"jwt", "memberships"} THEN 401 ELSE 500
  BY DEF QueryFails
<1>6. Noted(req, member') \in [Requests -> Request]
  BY <1>1, NotedType
<1>7. /\ req'[r].pc = "done" /\ req'[r].status = status
      /\ \A q \in Requests \ {r} : req'[q] = Noted(req, member')[q]
  BY <1>5, <1>6, AnswerPlace
<1>8. \A q \in Requests \ {r} : req'[q].pc = req[q].pc /\ req'[q].status = req[q].status
  BY <1>1, <1>7, NotedPlace
<1>. QED BY <1>2, <1>3, <1>4, <1>5, <1>7, <1>8, OthersExplained DEF Explained

LEMMA OrphanStep == IInv /\ OrphanInv /\ [Next]_vars => OrphanInv'
<1>. SUFFICES ASSUME IInv, OrphanInv, [Next]_vars PROVE OrphanInv'
  OBVIOUS
<1>. USE DEF tables, process
<1>0. req \in [Requests -> Request]
  BY DEF IInv, TypeOK
<1>1. ASSUME NEW r \in Requests, NEW route \in Routes, NEW t \in Tenants,
             NEW token \in Credentials(route), Arrive(r, route, t, token)
      PROVE  OrphanInv'
  <2>. DEFINE begun == Begun(route, t, token)
              rq == [req EXCEPT ![r] = begun]
  <2>1. req[r].pc = "new" /\ req' = Noted(rq, member) /\ UNCHANGED <<tenants, member, edits>>
    BY <1>1 DEF Arrive, At, Still
  <2>2. edits = 0 => r \notin tenants
    BY <2>1 DEF OrphanInv, Explained
  <2>3. begun \in Request
    <3>1. token.user \in Users \cup {Nobody} /\ token.claims \in [Tenants -> Roles \cup {"none"}]
      BY CredentialsType DEF IInv
    <3>. QED BY <3>1 DEF Begun, Request, Awaits
  <2>. HIDE DEF begun
  <2>4. rq \in [Requests -> Request] /\ \A q \in Requests \ {r} : rq[q] = req[q]
    BY <1>0, <2>3
  <2>5. \A q \in Requests \ {r} : req'[q].pc = req[q].pc /\ req'[q].status = req[q].status
    <3>. HIDE DEF rq
    <3>. QED BY <2>1, <2>4, NotedPlace
  <2>. QED BY <2>1, <2>2, <2>5, OthersExplained
<1>2. ASSUME NEW r \in Requests, Abort(r) PROVE OrphanInv'
  <2>1. /\ req' = [req EXCEPT ![r].open = FALSE] /\ UNCHANGED <<tenants, member, edits>>
    BY <1>2 DEF Abort
  <2>2. \A q \in Requests : req'[q].pc = req[q].pc /\ req'[q].status = req[q].status
    <3>1. req[r] \in Request /\ \A b \in BOOLEAN : /\ [req[r] EXCEPT !.open = b].pc = req[r].pc
                                                /\ [req[r] EXCEPT !.open = b].status = req[r].status
      BY <1>0 DEF Request
    <3>2. /\ req'[r] = [req[r] EXCEPT !.open = FALSE]
          /\ \A q \in Requests \ {r} : req'[q] = req[q]
      BY <1>0, <2>1
    <3>. QED BY <3>1, <3>2
  <2>. QED BY <2>1, <2>2 DEF OrphanInv, Explained
<1>3. CASE Restart
  <2>1. \A q \in Requests : \/ req'[q] = req[q]
                            \/ req'[q].pc = "gone"
    BY <1>3 DEF Restart, Bare
  <2>. QED BY <1>3, <2>1 DEF Restart, OrphanInv, Explained
<1>4. ASSUME NEW t, NEW u, NEW role, Edit(t, u, role) PROVE OrphanInv'
  <2>1. edits' = edits + 1 /\ edits \in 0..MaxEdits
    BY <1>4 DEF Edit, IInv, TypeOK
  <2>2. edits' # 0
    BY <2>1, BoundsAssumption
  <2>. QED BY <2>2 DEF OrphanInv
<1>5. CASE UNCHANGED vars
  BY <1>5 DEF vars, OrphanInv, Explained
<1>6. ASSUME NEW route \in Routes, NEW t \in IF route \in OfTenant THEN tenants ELSE {Home}
      PROVE  t \in Tenants
  BY <1>6 DEF IInv, TypeOK, Tenants
<1>. QED BY <1>1, <1>2, <1>3, <1>4, <1>5, <1>6, OrphanRequestStep, OrphanFailStep DEF Next

(***************************************************************************)
(* Whoever got 200 for a new tenant owns it: a tenant without members is   *)
(* one whose creation has not ended well, unless the memberships were      *)
(* edited by hand.                                                         *)
(***************************************************************************)
THEOREM OrphansExplainedHolds == Spec => []OrphansExplained
<1>1. Init => OrphanInv
  BY HomeAssumption DEF Init, OrphanInv
<1>2. IInv /\ OrphanInv => OrphansExplained
  BY DEF OrphanInv, Explained, OrphansExplained
<1>. QED BY <1>1, <1>2, InitInv, Invariance, OrphanStep, PTL DEF Spec
-----------------------------------------------------------------------------
(***************************************************************************)
(* The totals of a snapshot are sums over the labels, one number for each. *)
(***************************************************************************)
Requested(m) == [l \in Labels |-> m.routes[l].count]
Lasted(m) == [l \in Labels |-> m.routes[l].total]

LEMMA SnapshotSums ==
    ASSUME NEW m
    PROVE  /\ Snapshot(m).requests = Sums(Requested(m), Labels)[Labels]
           /\ Snapshot(m).duration = Sums(Lasted(m), Labels)[Labels]
<1>1. \A g : /\ [s \in SUBSET Labels |-> IF s = {} THEN 0
                     ELSE m.routes[Pick(s)].count + g[s \ {Pick(s)}]] = SumBody(Requested(m), Labels, g)
            /\ [s \in SUBSET Labels |-> IF s = {} THEN 0
                     ELSE m.routes[Pick(s)].total + g[s \ {Pick(s)}]] = SumBody(Lasted(m), Labels, g)
  <2>1. \A s \in SUBSET Labels : s # {} => /\ Requested(m)[Pick(s)] = m.routes[Pick(s)].count
                                          /\ Lasted(m)[Pick(s)] = m.routes[Pick(s)].total
    BY PickIn DEF Requested, Lasted
  <2>. QED BY <2>1 DEF SumBody
<1>2. MapThenSumSet(LAMBDA l : m.routes[l].count, Labels) = Sums(Requested(m), Labels)[Labels]
  BY <1>1 DEF MapThenSumSet, MapThenFoldSet, Sums, Pick
<1>3. MapThenSumSet(LAMBDA l : m.routes[l].total, Labels) = Sums(Lasted(m), Labels)[Labels]
  BY <1>1 DEF MapThenSumSet, MapThenFoldSet, Sums, Pick
<1>. QED BY <1>2, <1>3 DEF Snapshot

LEMMA FreshCoherent == Coherent(NoMetrics) /\ NoMetrics.count = 0
<1>1. \A l \in Labels : Requested(NoMetrics)[l] = 0 /\ Lasted(NoMetrics)[l] = 0
  BY DEF Requested, Lasted, NoMetrics
<1>2. Snapshot(NoMetrics).requests = 0 /\ Snapshot(NoMetrics).duration = 0
  BY <1>1, LabelsFinite, SumOfZeros, SnapshotSums
<1>. QED BY <1>2 DEF Coherent, NoMetrics

\* One request more in all three places.
LEMMA RecordCoherent ==
    ASSUME NEW m \in Metrics, Coherent(m), NEW l \in Labels, NEW status \in Nat, NEW d \in Nat
    PROVE  Coherent(Record(m, l, status, d)) /\ Record(m, l, status, d).count = m.count + 1
<1>. DEFINE n == Record(m, l, status, d)
<1>1. /\ n.count = m.count + 1 /\ n.sum = m.sum + d
      /\ n.routes = [m.routes EXCEPT ![l] = Counted(@, status, d)]
      /\ n.buckets = [b \in Buckets |-> m.buckets[b] + IF d <= b THEN 1 ELSE 0]
  BY DEF Record
<1>2. /\ m.routes \in [Labels -> [count : Nat, errors : Nat, total : Nat]]
      /\ m.buckets \in [Buckets -> Nat] /\ m.count \in Nat /\ m.sum \in Nat
  BY DEF Metrics
<1>. HIDE DEF n
<1>3. \A k \in Labels \ {l} : n.routes[k] = m.routes[k]
  BY <1>1, <1>2
<1>4. n.routes[l] = Counted(m.routes[l], status, d)
  BY <1>1, <1>2
<1>5. /\ n.routes[l].count = m.routes[l].count + 1 /\ n.routes[l].total = m.routes[l].total + d
      /\ n.routes[l].errors = m.routes[l].errors + IF status >= 500 THEN 1 ELSE 0
  BY <1>4 DEF Counted
<1>6. Snapshot(n).requests = Snapshot(m).requests + 1
  <2>1. \A k \in Labels : Requested(m)[k] \in Int
    BY <1>2 DEF Requested
  <2>2. \A k \in Labels : Requested(n)[k] = Requested(m)[k] + IF k = l THEN 1 ELSE 0
    BY <1>2, <1>3, <1>5 DEF Requested
  <2>. QED BY <2>1, <2>2, LabelsFinite, SumGrows, SnapshotSums
<1>7. Snapshot(n).duration = Snapshot(m).duration + d
  <2>1. \A k \in Labels : Lasted(m)[k] \in Int
    BY <1>2 DEF Lasted
  <2>2. \A k \in Labels : Lasted(n)[k] = Lasted(m)[k] + IF k = l THEN d ELSE 0
    BY <1>2, <1>3, <1>5 DEF Lasted
  <2>. QED BY <2>1, <2>2, LabelsFinite, SumGrows, SnapshotSums
<1>8. \A k \in Labels : n.routes[k].errors <= n.routes[k].count
  <2>1. \A k \in Labels : /\ m.routes[k].errors <= m.routes[k].count
                          /\ m.routes[k].errors \in Nat /\ m.routes[k].count \in Nat
    BY <1>2 DEF Coherent
  <2>2. n.routes[l].errors <= n.routes[l].count
    BY <1>5, <2>1
  <2>. QED BY <1>3, <2>1, <2>2
<1>9. \A b \in Buckets : /\ n.buckets[b] <= n.count
                         /\ \A c \in Buckets : b <= c => n.buckets[b] <= n.buckets[c]
  <2>1. \A b \in Buckets : /\ b \in Nat /\ m.buckets[b] \in Nat
                           /\ n.buckets[b] = m.buckets[b] + IF d <= b THEN 1 ELSE 0
    BY <1>1, <1>2, BucketsAssumption
  <2>2. \A b \in Buckets : /\ m.buckets[b] <= m.count
                           /\ \A c \in Buckets : b <= c => m.buckets[b] <= m.buckets[c]
    BY DEF Coherent
  <2>. QED BY <1>1, <1>2, <2>1, <2>2
<1>. QED BY <1>1, <1>6, <1>7, <1>8, <1>9 DEF Coherent, n

\* An answer is counted by both sides, or by none.
LEMMA AnswerCounted ==
    ASSUME TypeOK, AnswersCounted, NEW rq, NEW r \in Requests,
           NEW status \in {200, 401, 403, 404, 500}, AnswerFrom(rq, r, status)
    PROVE  AnswersCounted'
<1>1. Label(r) \in Labels
  BY LabelsAssumption DEF Label, TypeOK, Request
<1>2. /\ Coherent(metrics) /\ metrics.count = finished
      /\ metrics \in Metrics /\ status \in Nat
  BY DEF AnswersCounted, TypeOK
<1>3. \/ finished' = finished + 1 /\ \E d \in Durations : metrics' = Record(metrics, Label(r), status, d)
      \/ UNCHANGED <<metrics, finished>>
  BY DEF AnswerFrom
<1>4. ASSUME NEW d \in Durations, metrics' = Record(metrics, Label(r), status, d), finished' = finished + 1
      PROVE  AnswersCounted'
  <2>1. Coherent(Record(metrics, Label(r), status, d)) /\ Record(metrics, Label(r), status, d).count = metrics.count + 1
    BY <1>1, <1>2, RecordCoherent, DurationsAssumption
  <2>. QED BY <1>2, <1>4, <2>1 DEF AnswersCounted
<1>. QED BY <1>2, <1>3, <1>4 DEF AnswersCounted

LEMMA CountedStep == TypeOK /\ AnswersCounted /\ [Next]_vars => AnswersCounted'
<1>. SUFFICES ASSUME TypeOK, AnswersCounted, [Next]_vars PROVE AnswersCounted'
  OBVIOUS
<1>0. UNCHANGED <<metrics, finished>> => AnswersCounted'
  BY DEF AnswersCounted
<1>1. ASSUME NEW r \in Requests, Step(r) PROVE AnswersCounted'
  <2>1. \/ UNCHANGED <<metrics, finished>>
        \/ \E status \in {200, 401, 403, 404, 500} : \E rq : AnswerFrom(rq, r, status)
    BY <1>1 DEF Step, BootstrapExists, BootstrapInsert, LoginSelect, LoginSign, JwtUser,
                JwtMemberships, CreateTenant, AddMembership, Handle, Answer, process
  <2>. QED BY <1>0, <2>1, AnswerCounted
<1>2. ASSUME NEW r \in Requests, QueryFails(r) PROVE AnswersCounted'
  <2>1. \E status \in {200, 401, 403, 404, 500} : \E rq : AnswerFrom(rq, r, status)
    BY <1>2 DEF QueryFails
  <2>. QED BY <2>1, AnswerCounted
<1>3. CASE Restart
  BY <1>3, FreshCoherent DEF Restart, AnswersCounted
<1>4. CASE \/ \E r, route, t, token : Arrive(r, route, t, token)
           \/ \E r : Abort(r)
           \/ \E t, u, role : Edit(t, u, role)
           \/ UNCHANGED vars
  BY <1>0, <1>4 DEF Arrive, Abort, Edit, vars, process
<1>. QED BY <1>1, <1>2, <1>3, <1>4 DEF Next

(***************************************************************************)
(* Every answer that reaches its client is counted once by the routes, the *)
(* histogram and the buckets alike, whatever requests run side by side.    *)
(***************************************************************************)
THEOREM AnswersCountedHolds == Spec => []AnswersCounted
<1>1. Init => AnswersCounted
  BY FreshCoherent DEF Init, AnswersCounted
<1>2. IInv => TypeOK
  BY DEF IInv
<1>. QED BY <1>1, <1>2, InitInv, Invariance, CountedStep, PTL DEF Spec
===============================================================================
