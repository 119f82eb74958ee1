------------------------------- MODULE Access -------------------------------
(***************************************************************************)
(* Who may see and change what: the life of web requests on one database   *)
(* connection, from LoginAccessMiddleware and RowLevelSecurityMiddleware   *)
(* (fileconverter/middleware.py) through the views to clear_scope.         *)
(*                                                                         *)
(* A web thread keeps its connection from one request to the next          *)
(* (CONN_MAX_AGE), so what one request leaves in the connection's settings *)
(* the next one meets.  Threads share nothing but the tables: the edits    *)
(* stand for every other thread, operator and administrator, and may fall  *)
(* between any two steps of the request.  A step is a query, or the queries *)
(* of one access check.                                                    *)
(*                                                                         *)
(* An organization has one workspace and at most one job that matters; a   *)
(* workspace and its job are named by their organization.  "user" is one   *)
(* account, "super" a superuser, "anon" an unauthenticated visitor.        *)
(***************************************************************************)
EXTENDS Integers, FiniteSets

CONSTANTS
    Orgs,       \* organization ids, the ones not yet created included
    NoOrg,      \* None, where an organization or a workspace may be missing
    Roles,      \* the Membership.Role values that memberships take
    MaxUpsets   \* bound: table changes made elsewhere and statements that fail

ASSUME AccessConstants ==
    /\ NoOrg \notin Orgs
    /\ Roles \subseteq {"owner", "admin", "member", "auditor"}
    /\ {"owner", "member"} \subseteq Roles
    /\ MaxUpsets \in Nat

VARIABLES
    org,      \* Organization.status, "absent" when there is no row
    ws,       \* the workspace and its WorkspaceMembership rows (Acls)
    mem,      \* Membership rows per account
    owner,    \* owner of the organization's job, "none" when there is no job
    session,  \* active_workspace_id of each account's session
    site,     \* what never changes: the database and whether "user" is staff
    conn,     \* settings of the connection
    pc,       \* where the request is
    req,      \* the request
    upsets    \* table changes made elsewhere and failed statements, so far

tables == <<org, ws, mem, owner>>
vars == <<org, ws, mem, owner, session, site, conn, pc, req, upsets>>

Accounts == {"user", "super"}
Managers == {"owner", "admin"}

\* A workspace has no row, no membership rows ("open"), a row that gives the user
\* a role other than auditor ("listed"), or rows that give none ("closed": of
\* others only, or the user's with the role auditor).
Acls == {"absent", "open", "listed", "closed"}

\* Only Membership.Status.ACTIVE is ever tested, and the role only of an active
\* membership: invited and disabled ones are all alike.
Inactive == [role |-> "member", active |-> FALSE]
Memberships == [role: Roles, active: {TRUE}] \union {Inactive}
NoMember == [role |-> "none", active |-> FALSE]

JobViews == {"page", "cancel", "download"}
WorkspaceViews == {"list", "dashboard", "upload"}
Kinds == JobViews \union WorkspaceViews \union {"switch"}

Outcomes == {"none", "login", "served", "denied", "notfound", "refused", "failed"}

ViewSteps == {"view", "acl", "permit", "active", "ensure", "exists", "create", "use",
              "insert"}
Steps == ViewSteps \union
         {"idle", "login", "orgs", "scope", "ids", "clear", "clear_ids", "end"}

Request ==
    [who: Accounts \union {"anon"}, kind: Kinds, target: Orgs \union {NoOrg},
     ids: SUBSET Orgs,        \* org_ids read by the middleware
     live: BOOLEAN,           \* organization status fetched with the row
     ws: Orgs \union {NoOrg}, \* the active workspace
     made: BOOLEAN,           \* it was created by this request
     sess: Orgs \union {NoOrg}, \* request.session, saved with the response
     rows: SUBSET Orgs,       \* organizations whose job rows were handed out
     out: Outcomes,
     joined: SUBSET Orgs,     \* where the account was a member at some moment
     alive: SUBSET Orgs,      \* what was active at some moment of the request
     quiet: BOOLEAN,          \* no table changed elsewhere meanwhile
     clean: BOOLEAN]          \* no failed statement is behind its answer

NoRequest ==
    [who |-> "anon", kind |-> "page", target |-> NoOrg, ids |-> {},
     live |-> FALSE, ws |-> NoOrg, made |-> FALSE, sess |-> NoOrg,
     rows |-> {}, out |-> "none", joined |-> {}, alive |-> {}, quiet |-> TRUE, clean |-> TRUE]

\* A connection as it is opened: neither setting has a value, which the policy
\* reads like 'off'.  hit records that a statement failed on it and no
\* clear_scope has gone through since.
NewConnection == [scope |-> "off", ids |-> {}, hit |-> FALSE]

TypeOK ==
    /\ org \in [Orgs -> {"absent", "active", "suspended"}]
    /\ ws \in [Orgs -> Acls]
    /\ mem \in [Accounts -> [Orgs -> Memberships \union {NoMember}]]
    /\ owner \in [Orgs -> Accounts \union {"other", "none"}]
    /\ session \in [Accounts -> Orgs \union {NoOrg}]
    /\ site \in [postgres: BOOLEAN, staff: BOOLEAN]
    /\ conn \in [scope: {"off", "on"}, ids: SUBSET Orgs, hit: BOOLEAN]
    /\ pc \in Steps
    /\ req \in Request
    /\ upsets \in 0..MaxUpsets

\* Some organization stands, with any membership of the user and any access
\* list; the others have yet to be created.  The superuser has no membership.
Init ==
    /\ \E o \in Orgs, m \in Memberships \union {NoMember}, a \in Acls \ {"absent"}, w \in {"user", "other"}:
        /\ org = [q \in Orgs |-> IF q = o THEN "active" ELSE "absent"]
        /\ ws = [q \in Orgs |-> IF q = o THEN a ELSE "absent"]
        /\ mem = [u \in Accounts |->
                    [q \in Orgs |-> IF u = "user" /\ q = o THEN m ELSE NoMember]]
        /\ owner = [q \in Orgs |-> IF q = o THEN w ELSE "none"]
        /\ \E s \in {NoOrg, o} : session = [u \in Accounts |-> IF u = "user" THEN s ELSE NoOrg]
    /\ site \in [postgres: BOOLEAN, staff: BOOLEAN]
    /\ conn = NewConnection
    /\ pc = "idle"
    /\ req = NoRequest
    /\ upsets = 0

-----------------------------------------------------------------------------
(* What the helpers of services.py and permissions.py read from the tables *)

organization_is_active(o) == org[o] = "active"

\* Organizations of the account's active memberships, suspended ones left out.
active_membership_org_ids(a) ==
    {o \in Orgs : mem[a][o].active /\ organization_is_active(o)}

user_has_login_access(a) == active_membership_org_ids(a) # {}

\* Mutant: every account without a usable organization gets a new one.
AlwaysNew(a) == TRUE

\* Membership.objects.filter(user=user).exists() is false.
NeverMember(a) == \A o \in Orgs : mem[a][o] = NoMember

HasAcl(o) == ws[o] \in {"listed", "closed"}

user_can_access_workspace(a, o) ==
    \/ a = "super"
    \/ /\ mem[a][o].active
       /\ \/ mem[a][o].role \in Managers
          \/ ws[o] = "listed"
          \/ ~HasAcl(o) /\ mem[a][o].role # "auditor"

user_may_write_workspace(a, o) ==
    \/ a = "super"
    \/ /\ mem[a][o].active
       /\ mem[a][o].role # "auditor"
       /\ \/ mem[a][o].role \in Managers
          \/ HasAcl(o) => ws[o] = "listed"

user_may_cancel_job(a, o) ==
    \/ a = "super"
    \/ owner[o] = a
    \/ mem[a][o].active /\ mem[a][o].role \in Managers

user_may_download_job(a, o) ==
    \/ a = "super"
    \/ owner[o] = a
    \/ mem[a][o].active /\ mem[a][o].role \in Managers \union {"auditor"}

\* The workspaces that the page offers to switch to.
accessible_workspaces(a) ==
    {o \in Orgs : /\ ws[o] # "absent"
                  /\ \/ a = "super"
                     \/ /\ mem[a][o].active
                        /\ organization_is_active(o)
                        /\ user_can_access_workspace(a, o)}

\* The query layer's tenant boundary.
accessible_to(a) ==
    {o \in Orgs : owner[o] # "none" /\ (a = "super" \/ o \in active_membership_org_ids(a))}

\* The row policy of the migrations: one expression for reads and for writes.
tenant_isolation == {o \in Orgs : conn.scope # "on" \/ o \in conn.ids}

-----------------------------------------------------------------------------
(* A request: the middlewares before the view *)

\* Bound: an account without membership rows opens a page that would create its
\* organization only while one is left to create.
Room(a) == NeverMember(a) => \E o \in Orgs : org[o] = "absent"

begin(a, k, o) ==
    /\ pc = "idle"
    /\ IF k \in WorkspaceViews THEN o = NoOrg ELSE o \in Orgs /\ org[o] # "absent"
    /\ a = "anon" => k = "page"  \* login_required treats every page alike
    /\ a \in Accounts /\ k \in WorkspaceViews => Room(a)
    /\ req' = [NoRequest EXCEPT
                 !.who = a, !.kind = k, !.target = o,
                 !.sess = IF a \in Accounts THEN session[a] ELSE NoOrg,
                 !.joined = {q \in Orgs : a \in Accounts /\ mem[a][q].active},
                 !.alive = {q \in Orgs : organization_is_active(q)},
                 !.clean = ~conn.hit]
    /\ pc' = "login"
    /\ UNCHANGED <<tables, session, site, conn, upsets>>

\* LoginAccessMiddleware: superusers and staff are let through; logging out
\* empties the session.  RowLevelSecurityMiddleware comes after it, and only
\* where the database is PostgreSQL.
login_access ==
    /\ pc = "login"
    /\ IF req.who = "user" /\ ~site.staff /\ ~user_has_login_access("user")
       THEN /\ req' = [req EXCEPT !.out = "login", !.sess = NoOrg]
            /\ pc' = "end"
       ELSE /\ pc' = IF site.postgres THEN "orgs" ELSE "view"
            /\ UNCHANGED req
    /\ UNCHANGED <<tables, session, site, conn, upsets>>

\* Mutant: suspended organizations and inactive memberships stay in scope.
AnyMembership(a) == {o \in Orgs : mem[a][o] # NoMember}

\* The filter written out in RowLevelSecurityMiddleware.
request_org_ids(a) == active_membership_org_ids(a)

read_org_ids ==
    /\ pc = "orgs"
    /\ IF req.who = "user"
       THEN /\ req' = [req EXCEPT !.ids = request_org_ids(req.who)]
            /\ pc' = "scope"
       ELSE /\ pc' = "view"
            /\ UNCHANGED req
    /\ UNCHANGED <<tables, session, site, conn, upsets>>

\* apply_request_scope: two statements, before the try that clears them.
apply_scope ==
    /\ pc = "scope"
    /\ conn' = [conn EXCEPT !.scope = "on"]
    /\ pc' = "ids"
    /\ UNCHANGED <<tables, session, site, req, upsets>>

apply_ids ==
    /\ pc = "ids"
    /\ conn' = [conn EXCEPT !.ids = req.ids]
    /\ pc' = "view"
    /\ UNCHANGED <<tables, session, site, req, upsets>>

-----------------------------------------------------------------------------
(* The views *)

\* The response leaves the view: the finally clause follows on PostgreSQL.
Answer(out, rows) ==
    /\ req' = [req EXCEPT !.out = out, !.rows = rows]
    /\ pc' = IF site.postgres THEN "clear" ELSE "end"
    /\ UNCHANGED <<tables, session, site, conn, upsets>>

Proceed(step, r) ==
    /\ req' = r
    /\ pc' = step
    /\ UNCHANGED <<tables, session, site, conn, upsets>>

\* login_required sends a visitor to the login page.
visitor ==
    /\ pc = "view"
    /\ req.who = "anon"
    /\ Answer("login", {})

\* get_job_for_user: the row with its organization and workspace, within the
\* tenant boundary and under the policy.
fetch_job ==
    /\ pc = "view"
    /\ req.who \in Accounts
    /\ req.kind \in JobViews
    /\ IF req.target \in accessible_to(req.who) \intersect tenant_isolation
       THEN Proceed("acl", [req EXCEPT !.live = organization_is_active(req.target)])
       ELSE Answer("notfound", {})

\* set_active_workspace: the workspace with its organization.
fetch_workspace ==
    /\ pc = "view"
    /\ req.who \in Accounts
    /\ req.kind = "switch"
    /\ IF ws[req.target] # "absent" /\ organization_is_active(req.target)
       THEN Proceed("acl", [req EXCEPT !.live = TRUE])
       ELSE Answer("denied", {})

\* user_can_access_workspace, and the organization as it was fetched.
check_acl ==
    /\ pc = "acl"
    /\ IF ~user_can_access_workspace(req.who, req.target) \/ ~req.live
       THEN Answer("denied", {})
       ELSE \/ /\ req.kind = "switch"
               /\ Proceed("permit", [req EXCEPT !.sess = req.target])
            \/ /\ req.kind \in JobViews
               /\ Proceed("permit", req)

\* The page itself, request_cancel or the file; whether there is a file to
\* download is not a question of access.
serve_job ==
    /\ pc = "permit"
    /\ \/ /\ req.kind = "switch"
          /\ Answer("served", {})
       \/ /\ req.kind \in JobViews
          /\ IF /\ req.kind = "cancel" => user_may_cancel_job(req.who, req.target)
                /\ req.kind = "download" => user_may_download_job(req.who, req.target)
             THEN Answer("served", {req.target})
             ELSE Answer("denied", {})

\* get_active_workspace: the workspace the session names, with its organization.
session_workspace ==
    /\ pc = "view"
    /\ req.who \in Accounts
    /\ req.kind \in WorkspaceViews
    /\ IF /\ req.sess # NoOrg
          /\ ws[req.sess] # "absent"
          /\ organization_is_active(req.sess)
       THEN Proceed("active", req)
       ELSE Proceed("ensure", req)

session_access ==
    /\ pc = "active"
    /\ IF user_can_access_workspace(req.who, req.sess)
       THEN Proceed("use", [req EXCEPT !.ws = req.sess])
       ELSE Proceed("ensure", req)

\* ensure_personal_workspace: the first active membership (by creation time,
\* which is not modelled) gives the workspace, if it has one.
ensure_personal_workspace ==
    /\ pc = "ensure"
    /\ LET mine == active_membership_org_ids(req.who)
       IN \/ \E o \in mine :
               /\ ws[o] # "absent"
               /\ Proceed("use", [req EXCEPT !.ws = o, !.sess = o])
          \/ /\ mine = {} \/ \E o \in mine : ws[o] = "absent"
             /\ Proceed("exists", req)

\* Membership rows of any status rule out a personal organization.
any_membership ==
    /\ pc = "exists"
    /\ IF NeverMember(req.who)
       THEN Proceed("create", req)
       ELSE Proceed("use", [req EXCEPT !.ws = NoOrg, !.sess = NoOrg])

\* Organization, owner membership and workspace, in one transaction.  A slug
\* taken since _unique_slug looked makes the insert fail.
create_personal ==
    /\ pc = "create"
    /\ \/ \E o \in Orgs :
            /\ org[o] = "absent"
            /\ org' = [org EXCEPT ![o] = "active"]
            /\ ws' = [ws EXCEPT ![o] = "open"]
            /\ mem' = [mem EXCEPT ![req.who][o] = [role |-> "owner", active |-> TRUE]]
            /\ req' = [req EXCEPT !.ws = o, !.sess = o, !.made = TRUE,
                                  !.joined = @ \union {o}, !.alive = @ \union {o}]
            /\ pc' = "use"
            /\ UNCHANGED <<owner, session, site, conn, upsets>>
       \/ ~req.quiet /\ Answer("failed", {})

\* Jobs of the active workspace on the dashboard and the job list.
Listed == accessible_to(req.who) \intersect {req.ws} \intersect tenant_isolation

\* Without a workspace the job list is an empty page; the dashboard never binds
\* its form and fails.
use_workspace ==
    /\ pc = "use"
    /\ \/ /\ req.kind \in {"list", "dashboard"}
          /\ IF req.ws = NoOrg /\ req.kind = "dashboard"
             THEN Answer("failed", {})
             ELSE Answer("served", Listed)
       \/ /\ req.kind = "upload"
          /\ IF req.ws = NoOrg
             THEN Answer("failed", {})
             ELSE IF user_may_write_workspace(req.who, req.ws)
                  THEN Proceed("insert", req)
                  ELSE Answer("denied", Listed)

\* submit_conversion_job inserts the rows of the job, which the policy checks;
\* what fails there is caught and shown on the dashboard.
insert_job ==
    /\ pc = "insert"
    /\ IF req.ws \in tenant_isolation /\ ws[req.ws] # "absent"
       THEN /\ owner' = [owner EXCEPT ![req.ws] = IF @ = "none" THEN req.who ELSE @]
            /\ req' = [req EXCEPT !.out = "served", !.rows = {req.ws}]
            /\ pc' = IF site.postgres THEN "clear" ELSE "end"
            /\ UNCHANGED <<org, ws, mem, session, site, conn, upsets>>
       ELSE Answer("refused", Listed)

\* Any other exception of submit_conversion_job is caught too, and the page is
\* rendered if the connection still works.
submit_fails ==
    /\ pc = "insert"
    /\ upsets < MaxUpsets
    /\ upsets' = upsets + 1
    /\ req' = [req EXCEPT !.out = "refused", !.rows = Listed, !.clean = FALSE]
    /\ pc' = IF site.postgres THEN "clear" ELSE "end"
    /\ UNCHANGED <<tables, session, site, conn>>

-----------------------------------------------------------------------------
(* After the view *)

\* Mutant: the scope stays on, only the list is emptied.
StaysOn == conn.scope

ClearedScope == "off"

\* clear_scope, the finally clause.
clear_scope ==
    /\ pc = "clear"
    /\ conn' = [conn EXCEPT !.scope = ClearedScope]
    /\ pc' = "clear_ids"
    /\ UNCHANGED <<tables, session, site, req, upsets>>

clear_ids ==
    /\ pc = "clear_ids"
    /\ conn' = [conn EXCEPT !.ids = {}, !.hit = FALSE]
    /\ pc' = "end"
    /\ UNCHANGED <<tables, session, site, req, upsets>>

\* The session is saved with the response, unless that is a server error.
finish ==
    /\ pc = "end"
    /\ session' = IF req.who \in Accounts /\ req.out # "failed"
                  THEN [session EXCEPT ![req.who] = req.sess]
                  ELSE session
    /\ req' = NoRequest
    /\ pc' = "idle"
    /\ UNCHANGED <<tables, site, conn, upsets>>

\* A statement fails.  Before the view nothing clears the scope, in the view the
\* finally clause does, and in that clause nothing is left to.
fault ==
    /\ pc \notin {"idle", "end"}
    /\ upsets < MaxUpsets
    /\ upsets' = upsets + 1
    /\ conn' = [conn EXCEPT !.hit = TRUE]
    /\ req' = [req EXCEPT !.out = "failed", !.rows = {}, !.clean = FALSE]
    /\ pc' = IF pc \in ViewSteps /\ site.postgres THEN "clear" ELSE "end"
    /\ UNCHANGED <<tables, session, site>>

\* The connection reached CONN_MAX_AGE or failed its health check.
reconnect ==
    /\ pc = "idle"
    /\ conn # NewConnection
    /\ conn' = NewConnection
    /\ UNCHANGED <<tables, session, site, pc, req, upsets>>

-----------------------------------------------------------------------------
(* Changes made elsewhere: the admin site and the requests of other threads *)

\* Bookkeeping of the request that the change falls into, if any.
Noticed ==
    req' = IF pc = "idle" THEN req
           ELSE [req EXCEPT
                   !.joined = @ \union {o \in Orgs : req.who \in Accounts /\ mem'[req.who][o].active},
                   !.alive = @ \union {o \in Orgs : org'[o] = "active"},
                   !.quiet = FALSE]

Elsewhere ==
    /\ upsets < MaxUpsets
    /\ upsets' = upsets + 1
    /\ Noticed
    /\ UNCHANGED <<session, site, conn, pc>>

edit_organization(o) ==
    /\ org[o] # "absent"
    /\ org' = [org EXCEPT ![o] = IF @ = "active" THEN "suspended" ELSE "active"]
    /\ UNCHANGED <<ws, mem, owner>>
    /\ Elsewhere

edit_membership(o, m) ==
    /\ org[o] # "absent"
    /\ mem["user"][o] # m
    /\ mem' = [mem EXCEPT !["user"][o] = m]
    /\ UNCHANGED <<org, ws, owner>>
    /\ Elsewhere

\* Deleting the workspace deletes its jobs.
edit_workspace(o, a) ==
    /\ org[o] # "absent"
    /\ ws[o] # a
    /\ ws' = [ws EXCEPT ![o] = a]
    /\ owner' = [owner EXCEPT ![o] = IF a = "absent" THEN "none" ELSE @]
    /\ UNCHANGED <<org, mem>>
    /\ Elsewhere

\* An organization appears: an operator's, or the user's own, made by another
\* request of the same account.
new_organization(o, mine) ==
    /\ org[o] = "absent"
    /\ org' = [org EXCEPT ![o] = "active"]
    /\ ws' = [ws EXCEPT ![o] = "open"]
    /\ mem' = IF mine THEN [mem EXCEPT !["user"][o] = [role |-> "owner", active |-> TRUE]] ELSE mem
    /\ owner' = owner
    /\ Elsewhere

-----------------------------------------------------------------------------
Step ==
    \/ \E a \in Accounts \union {"anon"}, k \in Kinds, o \in Orgs \union {NoOrg} : begin(a, k, o)
    \/ login_access \/ read_org_ids \/ apply_scope \/ apply_ids
    \/ visitor \/ fetch_job \/ fetch_workspace \/ check_acl \/ serve_job
    \/ session_workspace \/ session_access
    \/ ensure_personal_workspace \/ any_membership \/ create_personal
    \/ use_workspace \/ insert_job \/ submit_fails
    \/ clear_scope \/ clear_ids \/ finish
    \/ fault \/ reconnect

Edit ==
    \E o \in Orgs :
        \/ edit_organization(o)
        \/ \E m \in Memberships \union {NoMember} : edit_membership(o, m)
        \/ \E mine \in BOOLEAN : new_organization(o, mine)
        \/ \E a \in Acls : edit_workspace(o, a)

Next == Step \/ Edit

Spec == Init /\ [][Next]_vars

-----------------------------------------------------------------------------
\* While a view runs for the user, whatever failed on this connection before:
\* the policy shows rows only of organizations that were active, and the user an
\* active member of, at some moment of this request; and so are the rows that a
\* response hands out.  (apply_request_scope is outside the try, clear_scope may
\* fail, and the tables change under the request.)
TenureOnly ==
    req.who = "user" =>
        /\ site.postgres /\ pc \in ViewSteps =>
              tenant_isolation \subseteq req.joined \intersect req.alive
        /\ req.rows \subseteq req.joined \intersect req.alive

\* A plain member's way into a workspace: its access list, where there is one.
Admitted(o) == IF HasAcl(o) THEN ws[o] = "listed" ELSE mem["user"][o].role = "member"

\* What the roles grant on a job of an organization the user belongs to.
Granted(k, o) ==
    \/ mem["user"][o].role \in Managers
    \/ /\ Admitted(o)
       /\ \/ k = "page"
          \/ owner[o] = "user"
          \/ k = "download" /\ mem["user"][o].role = "auditor"

\* The answer a job's page, cancellation or download should get.
JobAnswer(a, k, o) ==
    LET ids     == active_membership_org_ids("user")
        barred  == a = "anon" \/ (a = "user" /\ ~site.staff /\ ids = {})
        visible == owner[o] # "none" /\ (a = "super" \/ o \in ids)
        allowed == IF a = "super" THEN org[o] = "active" ELSE Granted(k, o)
    IN  IF barred THEN "login"
        ELSE IF ~visible THEN "notfound"
        ELSE IF allowed THEN "served" ELSE "denied"

\* Where no table changed and no statement failed during the request, nor one
\* before that left the connection uncleared, the answer follows from the tables
\* alone, whoever used the connection before: the checks, made one by one in
\* middlewares, query sets and views, neither contradict each other nor the row
\* policy.  A job request gets the answer of the roles; an upload that is
\* permitted goes through unless its organization was made by the same request
\* (the scope was read before); and a dashboard fails only for want of a workspace.
QuietOutcome ==
    pc \in {"clear", "clear_ids", "end"} /\ req.quiet /\ req.clean =>
        /\ req.kind \in JobViews =>
              req.out = JobAnswer(req.who, req.kind, req.target)
        /\ req.kind \in WorkspaceViews /\ req.out # "login" =>
              /\ req.out = "failed" <=> req.ws = NoOrg /\ req.kind # "list"
              /\ req.out = "refused" <=>
                    req.kind = "upload" /\ req.made /\ req.who = "user" /\ site.postgres
              /\ req.out = "denied" <=>
                    /\ req.kind = "upload"
                    /\ req.ws # NoOrg
                    /\ ~user_may_write_workspace(req.who, req.ws)
        /\ req.kind = "switch" /\ req.out \notin {"login", "none"} =>
              (req.out = "served" <=>
                  /\ req.target \in accessible_workspaces(req.who)
                  /\ organization_is_active(req.target))

\* ensure_personal_workspace gives a new organization only to an account that
\* has none of any status: a user whose organizations are suspended, or who was
\* disabled, does not start afresh.  (Another request of the same account may
\* have created one since: that is the race the unique slug does not prevent.)
NoFreshStart ==
    [][pc = "create" /\ pc' = "use" /\ req.quiet =>
          \A o \in Orgs : mem[req.who][o] = NoMember]_vars

=============================================================================
