------------------------------- MODULE ApiAccess -------------------------------
(***************************************************************************)
(* A process of the API: the requests it runs side by side, from the       *)
(* logging middleware through the guards (JwtAuthGuard, RolesGuard,        *)
(* TenantAccessGuard, in this order) to the handlers of auth and tenants,  *)
(* with the tables users, tenants and tenant_users.  The other handlers    *)
(* are routes that read or write something of a tenant; those of health,   *)
(* metrics and webhooks are public, touch none of this and are left out.   *)
(*                                                                         *)
(* An await is a label.  A query may fail; the guard turns that into 401,  *)
(* anything else into 500.  A client may go away: its request runs on,     *)
(* and 'finish' never comes.  No code takes a membership away or changes a *)
(* role, but every check looks for it: Edit is a change by hand.           *)
(***************************************************************************)
EXTENDS HttpMetrics, FiniteSets

CONSTANTS
    Requests,        \* requests the process gets
    Users, Admin,    \* accounts; the one BOOTSTRAP_ADMIN_EMAIL names
    Roles,           \* the roles that occur
    Home,            \* a tenant that is there from the start
    Nobody,          \* the user of a request without a valid token
    Durations,       \* latencies that occur
    MaxEdits,        \* bound: changes of tenant_users by hand
    MaxFaults        \* bound: failed queries, clients that go away, restarts

ASSUME UsersAssumption == Admin \in Users /\ Nobody \notin Users
ASSUME HomeAssumption == Home \notin Requests
ASSUME DurationsAssumption == Durations \subseteq Nat
ASSUME BoundsAssumption == MaxEdits \in Nat /\ MaxFaults \in Nat
ASSUME RolesAssumption == "owner" \in Roles /\ Roles \subseteq {"owner", "admin", "operator", "viewer"}

Public == {"login"}
OfTenant == {"get_tenant", "read", "write"}          \* :tenantId, TenantAccessGuard
Routes == Public \cup OfTenant \cup {"create_tenant", "list_tenants", "unknown"}
Required(route) == IF route = "write" THEN {"owner", "admin", "operator"} ELSE {}

\* An unmatched request is counted under its own URL, which is its name here.
ASSUME LabelsAssumption == (Routes \ {"unknown"}) \cup Requests \subseteq Labels

\* The tenant a request creates is named by the request.
Tenants == {Home} \cup Requests

\* A request is not there yet, answered, or ended with its process.
Over == {"new", "done", "gone"}
Awaits == {"exists", "insert", "select", "claims", "jwt", "memberships", "handler", "owner"}

VARIABLES
    accounts,        \* users
    tenants,         \* tenants
    member,          \* tenant_users: the active role of a user in a tenant, or "none"
    ready,           \* bootstrapReady
    tokens,          \* tokens signed: the user and the memberships in the claims
    req,             \* per request: what is known of it, the await it is at, and whether
                     \* its user had what the route asks for at some time since it came
    metrics,         \* MetricsService
    finished,        \* answers the process has sent since it started
    edits, faults

tables == <<accounts, tenants, member>>
process == <<ready, metrics, finished>>
vars == <<tables, process, tokens, req, edits, faults>>

MembershipsOf(u) == [t \in Tenants |-> member[<<t, u>>]]
Token == [user : Users, claims : [Tenants -> Roles \cup {"none"}]]
NoMemberships == [t \in Tenants |-> "none"]

\* What is left of a request that is over.
Bare(pc, status) == [pc |-> pc, route |-> "unknown", user |-> Nobody, tenant |-> Home,
                     claims |-> NoMemberships, status |-> status, open |-> TRUE,
                     entitled |-> FALSE]

Request == [pc : Awaits \cup Over, route : Routes, user : Users \cup {Nobody}, tenant : Tenants,
            claims : [Tenants -> Roles \cup {"none"}], open : BOOLEAN, entitled : BOOLEAN,
            status : {0, 200, 401, 403, 404, 500}]

TypeOK ==
    /\ accounts \subseteq Users /\ tenants \subseteq Tenants
    /\ member \in [Tenants \X Users -> Roles \cup {"none"}]
    /\ ready \in BOOLEAN /\ tokens \subseteq Token
    /\ metrics \in Metrics /\ finished \in Nat
    /\ req \in [Requests -> Request]
    /\ edits \in 0..MaxEdits /\ faults \in 0..MaxFaults

\* The users but perhaps the bootstrap one are there, with any role in the tenant.
Init ==
    /\ accounts \in {Users, Users \ {Admin}}
    /\ tenants = {Home}
    /\ \E role \in [Users -> Roles \cup {"none"}] :
        /\ \A u \in Users \ accounts : role[u] = "none"
        /\ member = [tu \in Tenants \X Users |-> IF tu[1] = Home THEN role[tu[2]] ELSE "none"]
    /\ tokens = {[user |-> u, claims |-> MembershipsOf(u)] : u \in accounts}
    /\ ready = FALSE /\ metrics = NoMetrics /\ finished = 0
    /\ req = [r \in Requests |-> Bare("new", 0)]
    /\ edits = 0 /\ faults = 0

-----------------------------------------------------------------------------
\* What the guards ask for, by the memberships they are given.
RolesGuard(route, memberships, tenant) ==
    route \in OfTenant /\ Required(route) # {} => memberships[tenant] \in Required(route)
TenantAccessGuard(route, memberships, tenant) == route \in OfTenant => memberships[tenant] # "none"
Passes(r, memberships) == /\ RolesGuard(req[r].route, memberships, req[r].tenant)
                          /\ TenantAccessGuard(req[r].route, memberships, req[r].tenant)

\* Requests note whether table m gives their user what their route asks for.
Asks(q, m) == q.user \in Users /\ (q.route \in OfTenant =>
                  m[<<q.tenant, q.user>>] \in IF Required(q.route) = {} THEN Roles
                                          ELSE Required(q.route))
Noted(rq, m) == [r \in Requests |-> [rq[r] EXCEPT !.entitled = @ \/ (rq[r].pc \notin Over
                                                                   /\ Asks(rq[r], m))]]

At(r, label) == req[r].pc = label
Goto(r, label) == req' = [req EXCEPT ![r].pc = label]

Label(r) == IF req[r].route = "unknown" THEN r ELSE req[r].route

\* The response is sent; the middleware records it unless the client has gone.
AnswerFrom(rq, r, status) ==
    /\ req' = [rq EXCEPT ![r] = Bare("done", status)]
    /\ IF req[r].open
       THEN /\ \E d \in Durations : metrics' = Record(metrics, Label(r), status, d)
            /\ finished' = finished + 1
       ELSE UNCHANGED <<metrics, finished>>
Answer(r, status) == AnswerFrom(req, r, status)

\* What a step changes besides the request: nothing, or no more than is said.
Still == UNCHANGED <<edits, faults>>

\* A request at its first await.
Begun(route, tenant, token) ==
    [pc |-> IF route # "login" THEN "jwt" ELSE IF ready THEN "select" ELSE "exists",
     route |-> route, user |-> token.user, tenant |-> tenant, claims |-> token.claims,
     status |-> 0, open |-> TRUE, entitled |-> FALSE]

\* A request comes in, with a token or without.
Arrive(r, route, tenant, token) ==
    /\ At(r, "new")
    /\ req' = Noted([req EXCEPT ![r] = Begun(route, tenant, token)], member)
    /\ UNCHANGED <<tables, process, tokens>> /\ Still

\* A slip: the flag is set before the insert is done.
BootstrapExistsReady(r) ==
    /\ At(r, "exists")
    /\ Goto(r, IF Admin \in accounts THEN "select" ELSE "insert")
    /\ ready' = TRUE
    /\ UNCHANGED <<tables, metrics, finished, tokens>> /\ Still

\* ensureBootstrapUser: is the account there?
BootstrapExists(r) ==
    /\ At(r, "exists")
    /\ Goto(r, IF Admin \in accounts THEN "select" ELSE "insert")
    /\ ready' = (ready \/ Admin \in accounts)
    /\ UNCHANGED <<tables, metrics, finished, tokens>> /\ Still

\* ensureBootstrapUser: the insert, which fails when another login was first.
BootstrapInsert(r) ==
    /\ At(r, "insert")
    /\ IF Admin \in accounts
       THEN Answer(r, 500) /\ UNCHANGED <<accounts, ready>>
       ELSE /\ accounts' = accounts \cup {Admin}
            /\ ready' = TRUE
            /\ Goto(r, "select")
            /\ UNCHANGED <<metrics, finished>>
    /\ UNCHANGED <<tenants, member, tokens>> /\ Still

\* login: the user is looked up and the password compared.
LoginSelect(r) ==
    /\ At(r, "select")
    /\ \/ req[r].user \in accounts /\ Goto(r, "claims") /\ UNCHANGED <<metrics, finished>>
       \/ Answer(r, 401)
    /\ UNCHANGED <<tables, ready, tokens>> /\ Still

\* login: memberships and token.
LoginSign(r) ==
    /\ At(r, "claims")
    /\ tokens' = tokens \cup {[user |-> req[r].user, claims |-> MembershipsOf(req[r].user)]}
    /\ Answer(r, 200)
    /\ UNCHANGED <<tables, ready>> /\ Still

\* JwtAuthGuard: the token, then the user it names.  An unknown route has no guard.
JwtUser(r) ==
    /\ At(r, "jwt")
    /\ IF req[r].route = "unknown" THEN Answer(r, 404)
       ELSE IF req[r].user \notin accounts THEN Answer(r, 401)
       ELSE Goto(r, "memberships") /\ UNCHANGED <<metrics, finished>>
    /\ UNCHANGED <<tables, ready, tokens>> /\ Still

\* A slip: the memberships are those of the token.
JwtMembershipsOfToken(r) ==
    /\ At(r, "memberships")
    /\ IF Passes(r, req[r].claims)
       THEN Goto(r, "handler") /\ UNCHANGED <<metrics, finished>>
       ELSE Answer(r, 403)
    /\ UNCHANGED <<tables, ready, tokens>> /\ Still

\* JwtAuthGuard: the memberships, from the table; then the other guards, at once.
JwtMemberships(r) ==
    /\ At(r, "memberships")
    /\ IF Passes(r, MembershipsOf(req[r].user))
       THEN Goto(r, "handler") /\ UNCHANGED <<metrics, finished>>
       ELSE Answer(r, 403)
    /\ UNCHANGED <<tables, ready, tokens>> /\ Still

\* A slip: the membership is added without waiting for it.
CreateTenantUnawaited(r) ==
    /\ At(r, "handler") /\ req[r].route = "create_tenant"
    /\ tenants' = tenants \cup {r}
    /\ Answer(r, 200)
    /\ UNCHANGED <<accounts, member, ready, tokens>> /\ Still

\* TenantsController.create: the tenant, then the membership of its creator.
CreateTenant(r) ==
    /\ At(r, "handler") /\ req[r].route = "create_tenant"
    /\ tenants' = tenants \cup {r}
    /\ Goto(r, "owner")
    /\ UNCHANGED <<accounts, member, process, tokens>> /\ Still

\* A slip: a role the checks do not know.
AddMembershipCreator(r) ==
    /\ At(r, "owner")
    /\ member' = [member EXCEPT ![<<r, req[r].user>>] = "creator"]
    /\ AnswerFrom(Noted(req, member'), r, 200)
    /\ UNCHANGED <<accounts, tenants, ready, tokens>> /\ Still

AddMembership(r) ==
    /\ At(r, "owner")
    /\ member' = [member EXCEPT ![<<r, req[r].user>>] = "owner"]
    /\ AnswerFrom(Noted(req, member'), r, 200)
    /\ UNCHANGED <<accounts, tenants, ready, tokens>> /\ Still

\* The other handlers: getOrThrow of the tenant, a list by membership, or their work.
Handle(r) ==
    /\ At(r, "handler") /\ req[r].route # "create_tenant"
    /\ Answer(r, IF req[r].route \in OfTenant /\ req[r].tenant \notin tenants THEN 404 ELSE 200)
    /\ UNCHANGED <<tables, ready, tokens>> /\ Still

\* A query throws; an insert may have been done.
QueryFails(r) ==
    /\ req[r].pc \notin Over /\ faults < MaxFaults
    /\ faults' = faults + 1
    /\ \/ UNCHANGED tables
       \/ /\ At(r, "insert")
          /\ accounts' = accounts \cup {Admin} /\ UNCHANGED <<tenants, member>>
       \/ /\ At(r, "handler") /\ req[r].route = "create_tenant"
          /\ tenants' = tenants \cup {r} /\ UNCHANGED <<accounts, member>>
       \/ /\ At(r, "owner")
          /\ member' = [member EXCEPT ![<<r, req[r].user>>] = "owner"] /\ UNCHANGED <<accounts, tenants>>
    /\ AnswerFrom(Noted(req, member'), r, IF req[r].pc \in {"jwt", "memberships"} THEN 401 ELSE 500)
    /\ UNCHANGED <<ready, tokens, edits>>

Abort(r) ==
    /\ req[r].pc \notin Over /\ req[r].open /\ faults < MaxFaults
    /\ faults' = faults + 1
    /\ req' = [req EXCEPT ![r].open = FALSE]
    /\ UNCHANGED <<tables, process, tokens, edits>>

\* The process ends and another one starts, with empty counters.
Restart ==
    /\ faults < MaxFaults
    /\ faults' = faults + 1
    /\ ready' = FALSE /\ metrics' = NoMetrics /\ finished' = 0
    /\ req' = [r \in Requests |-> IF req[r].pc \in {"new", "done"} THEN req[r]
                                  ELSE Bare("gone", 0)]
    /\ UNCHANGED <<tables, tokens, edits>>

\* A membership is given, changed or taken away in the database.
Edit(t, u, role) ==
    /\ edits < MaxEdits /\ u \in accounts /\ t \in tenants /\ member[<<t, u>>] # role
    /\ edits' = edits + 1
    /\ member' = [member EXCEPT ![<<t, u>>] = role]
    /\ req' = Noted(req, member')
    /\ UNCHANGED <<accounts, tenants, process, tokens, faults>>

-----------------------------------------------------------------------------
NoToken == [user |-> Nobody, claims |-> NoMemberships]
Credentials(route) == CASE route = "login" -> {[NoToken EXCEPT !.user = u] : u \in Users}
                        [] route = "unknown" -> {NoToken}
                        [] OTHER -> tokens \cup {NoToken}

Step(r) == \/ BootstrapExists(r) \/ BootstrapInsert(r) \/ LoginSelect(r) \/ LoginSign(r)
           \/ JwtUser(r) \/ JwtMemberships(r)
           \/ CreateTenant(r) \/ AddMembership(r) \/ Handle(r)

Next ==
    \/ \E r \in Requests :
        \/ \E route \in Routes : \E t \in IF route \in OfTenant THEN tenants ELSE {Home} :
               \E token \in Credentials(route) : Arrive(r, route, t, token)
        \/ Step(r) \/ QueryFails(r) \/ Abort(r)
    \/ Restart
    \/ \E t \in Tenants, u \in Users, role \in Roles \cup {"none"} : Edit(t, u, role)

Spec == Init /\ [][Next]_vars
-----------------------------------------------------------------------------
(***************************************************************************)
(* A handler runs only for a user who had the membership and the role the  *)
(* route asks for at some time after the request came in: what a token     *)
(* says of the time it was signed lets nobody in.                          *)
(***************************************************************************)
NoStaleAccess ==
    \A r \in Requests : req[r].pc \in {"handler", "owner"} => req[r].entitled

(***************************************************************************)
(* A process that takes the bootstrap user as ready never finds it         *)
(* missing, whatever logins race and fail and whoever was first.           *)
(***************************************************************************)
ReadyMeansAccount == ready => Admin \in accounts

(***************************************************************************)
(* A tenant nobody belongs to comes only from a creation that has not      *)
(* ended well or from an edit; one that was answered with 200 has an owner.*)
(***************************************************************************)
OrphansExplained ==
    edits = 0 => \A r \in Requests \cap tenants :
        (\A u \in Users : member[<<r, u>>] = "none") => req[r].pc # "done" \/ req[r].status = 500

(***************************************************************************)
(* Every answer that reached its client is counted once, aborted requests  *)
(* never, and a scrape is coherent at any time.                            *)
(***************************************************************************)
AnswersCounted == Coherent(metrics) /\ metrics.count = finished
===============================================================================
