---------------------------- MODULE AccessProofs ----------------------------
(***************************************************************************)
(* Proofs about Access, for any organizations, roles and number of upsets. *)
(*                                                                         *)
(* TenureOnly speaks of the connection's settings, which are set long      *)
(* before they are used: the inductive invariant follows the list of       *)
(* organizations from the tables into the request, from there into the     *)
(* connection, and each organization that a check has passed up to the     *)
(* rows handed out.  QuietOutcome speaks of the answer, which many checks  *)
(* in a row decide: its invariant says what an undisturbed request knows   *)
(* when it comes to each of them.                                          *)
(***************************************************************************)
EXTENDS Access, TLAPS

Tenure == req.joined \intersect req.alive

\* The bookkeeping contains what holds now.
KeepsUp ==
    pc # "idle" /\ req.who = "user" =>
        \A o \in Orgs : /\ mem["user"][o].active => o \in req.joined
                        /\ org[o] = "active" => o \in req.alive

\* What a request names at each of its steps.
WellPlaced ==
    /\ pc # "idle" /\ req.kind \notin WorkspaceViews => req.target \in Orgs
    /\ pc \in ViewSteps \ {"view"} => req.who \in Accounts
    /\ pc \in {"acl", "permit"} => req.kind \notin WorkspaceViews
    /\ pc = "active" => req.sess \in Orgs
    /\ pc = "insert" => req.ws \in Orgs

\* From the tables to the policy.
ScopeInTenure ==
    req.who = "user" =>
        /\ pc \in {"scope", "ids"} => req.ids \subseteq Tenure
        /\ pc = "ids" => conn.scope = "on"
        /\ pc \in ViewSteps /\ site.postgres =>
              conn.scope = "on" /\ conn.ids \subseteq Tenure

\* From the checks to the rows.
RowsInTenure ==
    req.who = "user" =>
        /\ pc \in {"acl", "permit"} /\ req.kind \in JobViews => req.target \in Tenure
        /\ pc = "active" => req.sess \in req.alive
        /\ pc \in {"use", "insert"} => req.ws = NoOrg \/ req.ws \in Tenure
        /\ req.rows \subseteq Tenure

IInv == TypeOK /\ KeepsUp /\ WellPlaced /\ ScopeInTenure /\ RowsInTenure

\* A response from the view keeps the invariant if its rows are in tenure.
LEMMA AnswerInv ==
  ASSUME IInv, pc \in ViewSteps, NEW out \in Outcomes, NEW rows \in SUBSET Orgs,
         req.who = "user" => rows \subseteq Tenure,
         Answer(out, rows)
  PROVE  IInv'
<1>1. req' \in Request
  BY DEF Answer, IInv, TypeOK, Request
<1>2. /\ req'.who = req.who /\ req'.kind = req.kind /\ req'.target = req.target
      /\ req'.joined = req.joined /\ req'.alive = req.alive /\ req'.rows = rows
  BY DEF Answer, IInv, TypeOK, Request
<1>3. pc' \in {"clear", "end"}
  BY DEF Answer
<1>4. UNCHANGED <<org, ws, mem, owner, session, site, conn, upsets>>
  BY DEF Answer, tables
<1>5. TypeOK'
  BY <1>1, <1>3, <1>4 DEF IInv, TypeOK, Steps
<1>6. KeepsUp'
  BY <1>2, <1>3, <1>4 DEF IInv, KeepsUp, ViewSteps
<1>7. WellPlaced'
  BY <1>2, <1>3 DEF IInv, WellPlaced, ViewSteps
<1>8. ScopeInTenure'
  BY <1>3 DEF ScopeInTenure, ViewSteps
<1>9. RowsInTenure'
  BY <1>2, <1>3 DEF RowsInTenure, Tenure
<1> QED
  BY <1>5, <1>6, <1>7, <1>8, <1>9 DEF IInv

\* A step inside the view keeps it if what the next step relies on was checked.
LEMMA ProceedInv ==
  ASSUME IInv, pc \in ViewSteps, req.who \in Accounts,
         NEW step \in ViewSteps \ {"view"}, NEW r \in Request,
         r.who = req.who, r.kind = req.kind, r.target = req.target,
         r.joined = req.joined, r.alive = req.alive, r.rows = req.rows,
         step \in {"acl", "permit"} => req.kind \notin WorkspaceViews,
         step \in {"acl", "permit"} /\ req.kind \in JobViews /\ req.who = "user" =>
            req.target \in Tenure,
         step = "active" => r.sess \in Orgs /\ (req.who = "user" => r.sess \in req.alive),
         step = "insert" => r.ws \in Orgs,
         step \in {"use", "insert"} /\ req.who = "user" => r.ws = NoOrg \/ r.ws \in Tenure,
         Proceed(step, r)
  PROVE  IInv'
<1>1. req' = r /\ pc' = step /\ UNCHANGED <<org, ws, mem, owner, session, site, conn, upsets>>
  BY DEF Proceed, tables
<1>2. TypeOK'
  BY <1>1 DEF IInv, TypeOK, Steps
<1>3. KeepsUp'
  BY <1>1 DEF IInv, KeepsUp, ViewSteps
<1>4. WellPlaced'
  BY <1>1 DEF IInv, WellPlaced, ViewSteps
<1>5. ScopeInTenure'
  BY <1>1 DEF IInv, ScopeInTenure, Tenure, ViewSteps
<1>6. RowsInTenure'
  BY <1>1 DEF IInv, RowsInTenure, Tenure
<1> QED
  BY <1>2, <1>3, <1>4, <1>5, <1>6 DEF IInv

\* What is active now has been active during the request.
LEMMA NowInTenure ==
  ASSUME IInv, pc # "idle", req.who = "user"
  PROVE  /\ active_membership_org_ids(req.who) \subseteq Tenure
         /\ accessible_to(req.who) \subseteq Tenure
  BY DEF IInv, TypeOK, KeepsUp, Tenure, active_membership_org_ids, accessible_to,
         organization_is_active, Accounts

LEMMA Inv_visitor == ASSUME IInv, visitor PROVE IInv'
<1> QED
  BY AnswerInv DEF visitor, ViewSteps, Outcomes

LEMMA Inv_fetch_job == ASSUME IInv, fetch_job PROVE IInv'
<1> DEFINE r == [req EXCEPT !.live = organization_is_active(req.target)]
<1>1. pc \in ViewSteps /\ pc # "idle" /\ req.who \in Accounts /\ req.kind \in JobViews
  BY DEF fetch_job, ViewSteps
<1>2. /\ r \in Request /\ r.who = req.who /\ r.kind = req.kind /\ r.target = req.target
      /\ r.joined = req.joined /\ r.alive = req.alive /\ r.rows = req.rows
  BY DEF IInv, TypeOK, Request, organization_is_active
<1>3. CASE req.target \in accessible_to(req.who) \intersect tenant_isolation
  <2>1. Proceed("acl", r)
    BY <1>3 DEF fetch_job
  <2>2. req.kind \notin WorkspaceViews
    BY <1>1 DEF JobViews, WorkspaceViews
  <2>3. req.who = "user" => req.target \in Tenure
    BY <1>1, <1>3, NowInTenure
  <2> HIDE DEF r
  <2> QED
    BY <1>1, <1>2, <2>1, <2>2, <2>3, ProceedInv DEF ViewSteps
<1>4. CASE req.target \notin accessible_to(req.who) \intersect tenant_isolation
  BY <1>1, <1>4, AnswerInv DEF fetch_job, Outcomes
<1> QED
  BY <1>3, <1>4

LEMMA Inv_fetch_workspace == ASSUME IInv, fetch_workspace PROVE IInv'
<1> DEFINE r == [req EXCEPT !.live = TRUE]
<1>1. pc \in ViewSteps /\ req.who \in Accounts /\ req.kind = "switch"
  BY DEF fetch_workspace, ViewSteps
<1>2. /\ r \in Request /\ r.who = req.who /\ r.kind = req.kind /\ r.target = req.target
      /\ r.joined = req.joined /\ r.alive = req.alive /\ r.rows = req.rows
  BY DEF IInv, TypeOK, Request
<1>3. CASE Proceed("acl", r)
  <2>1. req.kind \notin WorkspaceViews /\ req.kind \notin JobViews
    BY <1>1 DEF JobViews, WorkspaceViews
  <2> HIDE DEF r
  <2> QED
    BY <1>1, <1>2, <1>3, <2>1, ProceedInv DEF ViewSteps
<1>4. CASE Answer("denied", {})
  BY <1>1, <1>4, AnswerInv DEF Outcomes
<1> QED
  BY <1>3, <1>4 DEF fetch_workspace

LEMMA Inv_check_acl == ASSUME IInv, check_acl PROVE IInv'
<1> DEFINE r == [req EXCEPT !.sess = req.target]
<1>1. /\ pc = "acl" /\ pc \in ViewSteps /\ req.who \in Accounts
      /\ req.kind \notin WorkspaceViews
      /\ req.target \in Orgs
      /\ req.kind \in JobViews /\ req.who = "user" => req.target \in Tenure
  BY DEF check_acl, ViewSteps, IInv, WellPlaced, RowsInTenure
<1>2. /\ r \in Request /\ r.who = req.who /\ r.kind = req.kind /\ r.target = req.target
      /\ r.joined = req.joined /\ r.alive = req.alive /\ r.rows = req.rows
  BY DEF IInv, TypeOK, Request
<1>3. req \in Request
  BY DEF IInv, TypeOK
<1>4. CASE Proceed("permit", r)
  <2> HIDE DEF r
  <2> QED
    BY <1>1, <1>2, <1>4, ProceedInv DEF ViewSteps
<1>5. CASE Proceed("permit", req)
  BY <1>1, <1>3, <1>5, ProceedInv DEF ViewSteps
<1>6. CASE Answer("denied", {})
  BY <1>1, <1>6, AnswerInv DEF Outcomes
<1> QED
  BY <1>4, <1>5, <1>6 DEF check_acl

LEMMA Inv_serve_job == ASSUME IInv, serve_job PROVE IInv'
<1>1. /\ pc \in ViewSteps /\ req.target \in Orgs
      /\ req.kind \in JobViews /\ req.who = "user" => req.target \in Tenure
  BY DEF serve_job, ViewSteps, IInv, WellPlaced, RowsInTenure
<1>2. CASE \E out \in Outcomes : Answer(out, {})
  BY <1>1, <1>2, AnswerInv
<1>3. CASE req.kind \in JobViews /\ Answer("served", {req.target})
  BY <1>1, <1>3, AnswerInv DEF Outcomes
<1> QED
  BY <1>2, <1>3 DEF serve_job, Outcomes

LEMMA Inv_session_workspace == ASSUME IInv, session_workspace PROVE IInv'
<1>1. /\ pc \in ViewSteps /\ pc # "idle" /\ req.who \in Accounts /\ req \in Request
      /\ req.sess \in Orgs \union {NoOrg}
  BY DEF session_workspace, ViewSteps, IInv, TypeOK, Request
<1>2. CASE req.sess # NoOrg /\ organization_is_active(req.sess) /\ Proceed("active", req)
  <2>1. req.who = "user" => req.sess \in req.alive
    BY <1>1, <1>2 DEF IInv, KeepsUp, organization_is_active
  <2> QED
    BY <1>1, <1>2, <2>1, ProceedInv DEF ViewSteps
<1>3. CASE Proceed("ensure", req)
  BY <1>1, <1>3, ProceedInv DEF ViewSteps
<1> QED
  BY <1>2, <1>3 DEF session_workspace

LEMMA Inv_session_access == ASSUME IInv, session_access PROVE IInv'
<1> DEFINE r == [req EXCEPT !.ws = req.sess]
<1>1. /\ pc = "active" /\ pc \in ViewSteps /\ req.who \in Accounts /\ req \in Request
      /\ req.sess \in Orgs
      /\ req.who = "user" => req.sess \in req.alive
  BY DEF session_access, ViewSteps, IInv, TypeOK, WellPlaced, RowsInTenure
<1>2. /\ r \in Request /\ r.who = req.who /\ r.kind = req.kind /\ r.target = req.target
      /\ r.joined = req.joined /\ r.alive = req.alive /\ r.rows = req.rows /\ r.ws = req.sess
  BY <1>1 DEF Request
<1>3. CASE user_can_access_workspace(req.who, req.sess) /\ Proceed("use", r)
  <2>1. req.who = "user" => r.ws \in Tenure
    BY <1>1, <1>2, <1>3 DEF IInv, KeepsUp, Tenure, user_can_access_workspace
  <2> HIDE DEF r
  <2> QED
    BY <1>1, <1>2, <1>3, <2>1, ProceedInv DEF ViewSteps
<1>4. CASE Proceed("ensure", req)
  BY <1>1, <1>4, ProceedInv DEF ViewSteps
<1> QED
  BY <1>3, <1>4 DEF session_access

LEMMA Inv_ensure_personal_workspace == ASSUME IInv, ensure_personal_workspace PROVE IInv'
<1>1. pc \in ViewSteps /\ pc # "idle" /\ req.who \in Accounts /\ req \in Request
  BY DEF ensure_personal_workspace, ViewSteps, IInv, TypeOK, WellPlaced
<1>2. ASSUME NEW o \in Orgs \union {NoOrg},
             o \in active_membership_org_ids(req.who),
             Proceed("use", [req EXCEPT !.ws = o, !.sess = o])
      PROVE  IInv'
  <2> DEFINE r == [req EXCEPT !.ws = o, !.sess = o]
  <2>1. /\ r \in Request /\ r.who = req.who /\ r.kind = req.kind /\ r.target = req.target
        /\ r.joined = req.joined /\ r.alive = req.alive /\ r.rows = req.rows /\ r.ws = o
    BY <1>1 DEF Request
  <2>2. req.who = "user" => r.ws \in Tenure
    BY <1>1, <1>2, <2>1, NowInTenure
  <2>3. Proceed("use", r)
    BY <1>2
  <2> HIDE DEF r
  <2> QED
    BY <1>1, <2>1, <2>2, <2>3, ProceedInv DEF ViewSteps
<1>3. CASE Proceed("exists", req)
  BY <1>1, <1>3, ProceedInv DEF ViewSteps
<1> QED
  BY <1>2, <1>3 DEF ensure_personal_workspace, active_membership_org_ids

LEMMA Inv_any_membership == ASSUME IInv, any_membership PROVE IInv'
<1>1. pc \in ViewSteps /\ pc # "idle" /\ req.who \in Accounts /\ req \in Request
  BY DEF any_membership, ViewSteps, IInv, TypeOK, WellPlaced
<1>2. CASE Proceed("create", req)
  BY <1>1, <1>2, ProceedInv DEF ViewSteps
<1>3. CASE Proceed("use", [req EXCEPT !.ws = NoOrg, !.sess = NoOrg])
  <2> DEFINE r == [req EXCEPT !.ws = NoOrg, !.sess = NoOrg]
  <2>1. /\ r \in Request /\ r.who = req.who /\ r.kind = req.kind /\ r.target = req.target
        /\ r.joined = req.joined /\ r.alive = req.alive /\ r.rows = req.rows /\ r.ws = NoOrg
    BY <1>1 DEF Request
  <2>2. Proceed("use", r)
    BY <1>3
  <2> HIDE DEF r
  <2> QED
    BY <1>1, <2>1, <2>2, ProceedInv DEF ViewSteps
<1> QED
  BY <1>2, <1>3 DEF any_membership

LEMMA Inv_use_workspace == ASSUME IInv, use_workspace PROVE IInv'
<1>1. /\ pc = "use" /\ pc \in ViewSteps /\ pc # "idle" /\ req.who \in Accounts /\ req \in Request
      /\ req.ws \in Orgs \union {NoOrg}
      /\ req.who = "user" => req.ws = NoOrg \/ req.ws \in Tenure
  BY DEF use_workspace, ViewSteps, IInv, TypeOK, WellPlaced, RowsInTenure, Request
<1>2. Listed \in SUBSET Orgs /\ (req.who = "user" => Listed \subseteq Tenure)
  BY <1>1, NowInTenure DEF Listed, accessible_to
<1>3. CASE \E out \in Outcomes : Answer(out, {}) \/ Answer(out, Listed)
  BY <1>1, <1>2, <1>3, AnswerInv
<1>4. CASE req.ws # NoOrg /\ Proceed("insert", req)
  BY <1>1, <1>4, ProceedInv DEF ViewSteps
<1> QED
  BY <1>3, <1>4 DEF use_workspace, Outcomes

\* Steps that only move the connection's settings.
LEMMA ConnectionInv ==
  ASSUME IInv, UNCHANGED <<tables, session, site, req, upsets>>,
         conn' \in [scope: {"off", "on"}, ids: SUBSET Orgs, hit: BOOLEAN],
         pc' \in {"idle", "ids", "view", "clear_ids", "end"},
         pc' = "idle" <=> pc = "idle",
         pc' = "ids" => pc = "scope" /\ conn'.scope = "on",
         pc' = "view" => pc = "ids" /\ conn'.scope = conn.scope /\ conn'.ids = req.ids
  PROVE  IInv'
<1>1. UNCHANGED <<org, ws, mem, owner, session, site, req, upsets>>
  BY DEF tables
<1>2. TypeOK'
  BY <1>1 DEF IInv, TypeOK, Steps, ViewSteps
<1>3. KeepsUp'
  BY <1>1 DEF IInv, KeepsUp
<1>4. WellPlaced'
  BY <1>1 DEF IInv, WellPlaced, ViewSteps
<1>5. ScopeInTenure'
  BY <1>1 DEF IInv, ScopeInTenure, Tenure, ViewSteps
<1>6. RowsInTenure'
  BY <1>1 DEF IInv, RowsInTenure, Tenure
<1> QED
  BY <1>2, <1>3, <1>4, <1>5, <1>6 DEF IInv

LEMMA Inv_connection ==
  ASSUME IInv, apply_scope \/ apply_ids \/ clear_scope \/ clear_ids \/ reconnect
  PROVE  IInv'
<1>1. /\ conn \in [scope: {"off", "on"}, ids: SUBSET Orgs, hit: BOOLEAN]
      /\ req.ids \in SUBSET Orgs
  BY DEF IInv, TypeOK, Request
<1>2. CASE apply_scope
  BY <1>1, <1>2, ConnectionInv DEF apply_scope
<1>3. CASE apply_ids
  BY <1>1, <1>3, ConnectionInv DEF apply_ids
<1>4. CASE clear_scope
  BY <1>1, <1>4, ConnectionInv DEF clear_scope, ClearedScope
<1>5. CASE clear_ids
  BY <1>1, <1>5, ConnectionInv DEF clear_ids
<1>6. CASE reconnect
  BY <1>1, <1>6, ConnectionInv DEF reconnect, NewConnection
<1> QED
  BY <1>2, <1>3, <1>4, <1>5, <1>6

LEMMA Inv_begin ==
  ASSUME IInv, NEW a \in Accounts \union {"anon"}, NEW k \in Kinds,
         NEW o \in Orgs \union {NoOrg}, begin(a, k, o)
  PROVE  IInv'
<1>1. /\ req' \in Request
      /\ req'.who = a /\ req'.kind = k /\ req'.target = o
      /\ req'.rows = {}
      /\ req'.joined = {q \in Orgs : a \in Accounts /\ mem[a][q].active}
      /\ req'.alive = {q \in Orgs : org[q] = "active"}
  <2> DEFINE s == IF a \in Accounts THEN session[a] ELSE NoOrg
             j == {q \in Orgs : a \in Accounts /\ mem[a][q].active}
             l == {q \in Orgs : org[q] = "active"}
  <2>1. req' = [NoRequest EXCEPT !.who = a, !.kind = k, !.target = o, !.sess = s,
                                 !.joined = j, !.alive = l, !.clean = ~conn.hit]
    BY DEF begin, organization_is_active
  <2>2. s \in Orgs \union {NoOrg} /\ (~conn.hit) \in BOOLEAN
    BY DEF IInv, TypeOK
  <2>3. j \in SUBSET Orgs /\ l \in SUBSET Orgs
    OBVIOUS
  <2> HIDE DEF s, j, l
  <2>4. req' \in Request
    BY <2>1, <2>2, <2>3 DEF NoRequest, Request, Outcomes
  <2>5. /\ req'.who = a /\ req'.kind = k /\ req'.target = o
        /\ req'.rows = {} /\ req'.joined = j /\ req'.alive = l
    BY <2>1 DEF NoRequest
  <2> QED
    BY <2>4, <2>5 DEF j, l
<1>2. pc' = "login" /\ UNCHANGED <<org, ws, mem, owner, session, site, conn, upsets>>
  BY DEF begin, tables
<1>3. TypeOK'
  BY <1>1, <1>2 DEF IInv, TypeOK, Steps
<1>4. KeepsUp'
  BY <1>1, <1>2 DEF KeepsUp, Accounts
<1>5. k \notin WorkspaceViews => o \in Orgs
  BY DEF begin
<1>6. WellPlaced' /\ ScopeInTenure' /\ RowsInTenure'
  BY <1>1, <1>2, <1>5 DEF WellPlaced, ScopeInTenure, RowsInTenure, ViewSteps
<1> QED
  BY <1>3, <1>4, <1>6 DEF IInv

LEMMA Inv_login_access == ASSUME IInv, login_access PROVE IInv'
<1>1. /\ req' \in Request
      /\ req'.who = req.who /\ req'.kind = req.kind /\ req'.target = req.target
      /\ req'.joined = req.joined /\ req'.alive = req.alive /\ req'.rows = req.rows
  <2>1. req' = req \/ req' = [req EXCEPT !.out = "login", !.sess = NoOrg]
    BY DEF login_access
  <2> QED
    BY <2>1 DEF IInv, TypeOK, Request, Outcomes
<1>2. /\ pc = "login"
      /\ pc' \in {"end", "orgs", "view"}
      /\ pc' = "view" => ~site.postgres
      /\ UNCHANGED <<org, ws, mem, owner, session, site, conn, upsets>>
  BY DEF login_access, tables, IInv, TypeOK
<1>3. TypeOK'
  BY <1>1, <1>2 DEF IInv, TypeOK, Steps, ViewSteps
<1>4. KeepsUp' /\ WellPlaced'
  BY <1>1, <1>2 DEF IInv, KeepsUp, WellPlaced, ViewSteps
<1>5. ScopeInTenure'
  BY <1>1, <1>2 DEF ScopeInTenure, ViewSteps
<1>6. RowsInTenure'
  BY <1>1, <1>2 DEF IInv, RowsInTenure, Tenure
<1> QED
  BY <1>3, <1>4, <1>5, <1>6 DEF IInv

LEMMA Inv_read_org_ids == ASSUME IInv, read_org_ids PROVE IInv'
<1>1. /\ req' \in Request
      /\ req'.who = req.who /\ req'.kind = req.kind /\ req'.target = req.target
      /\ req'.joined = req.joined /\ req'.alive = req.alive /\ req'.rows = req.rows
      /\ req.who = "user" => req'.ids = active_membership_org_ids(req.who)
  <2>1. active_membership_org_ids(req.who) \in SUBSET Orgs
    BY DEF active_membership_org_ids
  <2>2. req' = req \/ req' = [req EXCEPT !.ids = active_membership_org_ids(req.who)]
    BY DEF read_org_ids, request_org_ids
  <2>3. req.who = "user" => req' = [req EXCEPT !.ids = active_membership_org_ids(req.who)]
    BY DEF read_org_ids, request_org_ids
  <2> QED
    BY <2>1, <2>2, <2>3 DEF IInv, TypeOK, Request
<1>2. /\ pc = "orgs"
      /\ pc' = IF req.who = "user" THEN "scope" ELSE "view"
      /\ UNCHANGED <<org, ws, mem, owner, session, site, conn, upsets>>
  BY DEF read_org_ids, tables
<1>3. TypeOK'
  BY <1>1, <1>2 DEF IInv, TypeOK, Steps, ViewSteps
<1>4. KeepsUp' /\ WellPlaced'
  BY <1>1, <1>2 DEF IInv, KeepsUp, WellPlaced, ViewSteps
<1>5. req.who = "user" => active_membership_org_ids(req.who) \subseteq Tenure
  BY <1>2, NowInTenure
<1>6. ScopeInTenure'
  BY <1>1, <1>2, <1>5 DEF ScopeInTenure, Tenure, ViewSteps
<1>7. RowsInTenure'
  BY <1>1, <1>2 DEF IInv, RowsInTenure, Tenure
<1> QED
  BY <1>3, <1>4, <1>6, <1>7 DEF IInv

LEMMA Inv_create_personal == ASSUME IInv, create_personal PROVE IInv'
<1>1. pc = "create" /\ pc \in ViewSteps /\ req.who \in Accounts /\ req \in Request
  BY DEF create_personal, ViewSteps, IInv, TypeOK, WellPlaced
<1>2. CASE Answer("failed", {})
  BY <1>1, <1>2, AnswerInv DEF Outcomes
<1>3. ASSUME NEW o \in Orgs,
             org' = [org EXCEPT ![o] = "active"],
             ws' = [ws EXCEPT ![o] = "open"],
             mem' = [mem EXCEPT ![req.who][o] = [role |-> "owner", active |-> TRUE]],
             req' = [req EXCEPT !.ws = o, !.sess = o, !.made = TRUE,
                                !.joined = @ \union {o}, !.alive = @ \union {o}],
             pc' = "use", UNCHANGED <<owner, session, site, conn, upsets>>
      PROVE  IInv'
  <2>1. /\ req' \in Request
        /\ req'.who = req.who /\ req'.kind = req.kind /\ req'.target = req.target
        /\ req'.joined = req.joined \union {o} /\ req'.alive = req.alive \union {o}
        /\ req'.rows = req.rows /\ req'.ws = o
    BY <1>1, <1>3 DEF Request
  <2>2. [role |-> "owner", active |-> TRUE] \in Memberships
    BY AccessConstants DEF Memberships
  <2>3. mem' \in [Accounts -> [Orgs -> Memberships \union {NoMember}]]
    BY <1>1, <1>3, <2>2 DEF IInv, TypeOK
  <2>4. org' \in [Orgs -> {"absent", "active", "suspended"}] /\ ws' \in [Orgs -> Acls]
    BY <1>3 DEF IInv, TypeOK, Acls
  <2>5. TypeOK'
    BY <1>3, <2>1, <2>3, <2>4 DEF IInv, TypeOK, Steps, ViewSteps
  <2>6. KeepsUp'
    <3> SUFFICES ASSUME req.who = "user", NEW q \in Orgs
                 PROVE  /\ mem'["user"][q].active => q \in req'.joined
                        /\ org'[q] = "active" => q \in req'.alive
      BY <2>1 DEF KeepsUp
    <3>1. mem["user"][q].active => q \in req.joined
      BY <1>1 DEF IInv, KeepsUp
    <3>2. org[q] = "active" => q \in req.alive
      BY <1>1 DEF IInv, KeepsUp
    <3>3. q # o => mem'["user"][q] = mem["user"][q] /\ org'[q] = org[q]
      BY <1>1, <1>3 DEF IInv, TypeOK
    <3> QED
      BY <2>1, <3>1, <3>2, <3>3
  <2>7. WellPlaced'
    BY <1>1, <1>3, <2>1 DEF IInv, WellPlaced, ViewSteps
  <2>8. ScopeInTenure'
    BY <1>1, <1>3, <2>1 DEF IInv, ScopeInTenure, Tenure, ViewSteps
  <2>9. RowsInTenure'
    BY <1>1, <1>3, <2>1 DEF IInv, RowsInTenure, Tenure
  <2> QED
    BY <2>5, <2>6, <2>7, <2>8, <2>9 DEF IInv
<1> QED
  BY <1>2, <1>3 DEF create_personal

LEMMA Inv_insert_job == ASSUME IInv, insert_job PROVE IInv'
<1>1. /\ pc = "insert" /\ pc \in ViewSteps /\ pc # "idle" /\ req.who \in Accounts /\ req \in Request
      /\ req.ws \in Orgs
      /\ req.who = "user" => req.ws \in Tenure
  BY AccessConstants DEF insert_job, ViewSteps, IInv, TypeOK, WellPlaced, RowsInTenure
<1>2. Listed \in SUBSET Orgs /\ (req.who = "user" => Listed \subseteq Tenure)
  BY <1>1, NowInTenure DEF Listed, accessible_to
<1>3. CASE Answer("refused", Listed)
  BY <1>1, <1>2, <1>3, AnswerInv DEF Outcomes
<1>4. CASE /\ owner' = [owner EXCEPT ![req.ws] = IF @ = "none" THEN req.who ELSE @]
           /\ req' = [req EXCEPT !.out = "served", !.rows = {req.ws}]
           /\ pc' = IF site.postgres THEN "clear" ELSE "end"
           /\ UNCHANGED <<org, ws, mem, session, site, conn, upsets>>
  <2>1. /\ req' \in Request
        /\ req'.who = req.who /\ req'.kind = req.kind /\ req'.target = req.target
        /\ req'.joined = req.joined /\ req'.alive = req.alive /\ req'.rows = {req.ws}
    BY <1>1, <1>4 DEF Request, Outcomes
  <2>2. pc' \in {"clear", "end"}
    BY <1>4
  <2>3. owner' \in [Orgs -> Accounts \union {"other", "none"}]
    BY <1>1, <1>4 DEF IInv, TypeOK
  <2>4. TypeOK'
    BY <1>4, <2>1, <2>2, <2>3 DEF IInv, TypeOK, Steps
  <2>5. KeepsUp'
    BY <1>1, <1>4, <2>1 DEF IInv, KeepsUp
  <2>6. WellPlaced'
    BY <1>1, <2>1, <2>2 DEF IInv, WellPlaced, ViewSteps
  <2>7. ScopeInTenure'
    BY <2>2 DEF ScopeInTenure, ViewSteps
  <2>8. RowsInTenure'
    BY <1>1, <2>1, <2>2 DEF RowsInTenure, Tenure
  <2> QED
    BY <2>4, <2>5, <2>6, <2>7, <2>8 DEF IInv
<1> QED
  BY <1>3, <1>4 DEF insert_job

LEMMA Inv_submit_fails == ASSUME IInv, submit_fails PROVE IInv'
<1>1. pc # "idle" /\ req \in Request /\ pc' \in {"clear", "end"}
  BY DEF submit_fails, IInv, TypeOK
<1>2. Listed \in SUBSET Orgs /\ (req.who = "user" => Listed \subseteq Tenure)
  BY <1>1, NowInTenure DEF Listed, accessible_to
<1>3. /\ req' \in Request
      /\ req'.who = req.who /\ req'.kind = req.kind /\ req'.target = req.target
      /\ req'.joined = req.joined /\ req'.alive = req.alive /\ req'.rows = Listed
  BY <1>1, <1>2 DEF submit_fails, Request, Outcomes
<1>4. UNCHANGED <<org, ws, mem, owner, session, site, conn>> /\ upsets' \in 0..MaxUpsets
  BY AccessConstants DEF submit_fails, tables, IInv, TypeOK
<1>5. TypeOK'
  BY <1>1, <1>3, <1>4 DEF IInv, TypeOK, Steps
<1>6. KeepsUp' /\ WellPlaced'
  BY <1>1, <1>3, <1>4 DEF IInv, KeepsUp, WellPlaced, ViewSteps
<1>7. ScopeInTenure' /\ RowsInTenure'
  BY <1>1, <1>2, <1>3 DEF ScopeInTenure, RowsInTenure, ViewSteps, Tenure
<1> QED
  BY <1>5, <1>6, <1>7 DEF IInv

LEMMA Inv_finish == ASSUME IInv, finish PROVE IInv'
<1>1. /\ req' = NoRequest /\ pc' = "idle"
      /\ UNCHANGED <<org, ws, mem, owner, site, conn, upsets>>
  BY DEF finish, tables
<1>2. NoRequest \in Request /\ NoRequest.who = "anon"
  BY DEF NoRequest, Request, Outcomes, Kinds, JobViews
<1>3. session' \in [Accounts -> Orgs \union {NoOrg}]
  BY DEF finish, IInv, TypeOK, Request
<1>4. TypeOK'
  BY <1>1, <1>2, <1>3 DEF IInv, TypeOK, Steps
<1> QED
  BY <1>1, <1>2, <1>4 DEF IInv, KeepsUp, WellPlaced, ScopeInTenure, RowsInTenure, ViewSteps

LEMMA Inv_fault == ASSUME IInv, fault PROVE IInv'
<1>1. /\ req' \in Request
      /\ req'.who = req.who /\ req'.kind = req.kind /\ req'.target = req.target
      /\ req'.joined = req.joined /\ req'.alive = req.alive /\ req'.rows = {}
  BY DEF fault, IInv, TypeOK, Request, Outcomes
<1>2. /\ pc # "idle" /\ pc' \in {"clear", "end"}
      /\ UNCHANGED <<org, ws, mem, owner, session, site>>
  BY DEF fault, tables
<1>3. conn' \in [scope: {"off", "on"}, ids: SUBSET Orgs, hit: BOOLEAN]
  BY DEF fault, IInv, TypeOK
<1>7. upsets' \in 0..MaxUpsets
  BY AccessConstants DEF fault, IInv, TypeOK
<1>4. TypeOK'
  BY <1>1, <1>2, <1>3, <1>7 DEF IInv, TypeOK, Steps
<1>5. KeepsUp' /\ WellPlaced'
  BY <1>1, <1>2 DEF IInv, KeepsUp, WellPlaced, ViewSteps
<1>6. ScopeInTenure' /\ RowsInTenure'
  BY <1>1, <1>2 DEF ScopeInTenure, RowsInTenure, ViewSteps
<1> QED
  BY <1>4, <1>5, <1>6 DEF IInv

\* A change made elsewhere only adds to what the request may have seen.
LEMMA ElsewhereInv ==
  ASSUME IInv, Elsewhere,
         org' \in [Orgs -> {"absent", "active", "suspended"}], ws' \in [Orgs -> Acls],
         mem' \in [Accounts -> [Orgs -> Memberships \union {NoMember}]],
         owner' \in [Orgs -> Accounts \union {"other", "none"}]
  PROVE  IInv'
<1>1. UNCHANGED <<session, site, conn, pc>> /\ upsets' \in 0..MaxUpsets /\ Noticed
  BY AccessConstants DEF Elsewhere, IInv, TypeOK
<1>2. CASE pc = "idle"
  <2>1. req' = req
    BY <1>1, <1>2 DEF Noticed
  <2>2. TypeOK'
    BY <1>1, <2>1 DEF IInv, TypeOK
  <2> QED
    BY <1>1, <1>2, <2>1, <2>2
       DEF IInv, KeepsUp, WellPlaced, ScopeInTenure, RowsInTenure, Tenure, ViewSteps
<1>3. CASE pc # "idle"
  <2> DEFINE j == {o \in Orgs : req.who \in Accounts /\ mem'[req.who][o].active}
             a == {o \in Orgs : org'[o] = "active"}
  <2>1. /\ req' \in Request
        /\ req'.who = req.who /\ req'.kind = req.kind /\ req'.target = req.target
        /\ req'.ids = req.ids /\ req'.ws = req.ws /\ req'.sess = req.sess
        /\ req'.rows = req.rows
        /\ req'.joined = req.joined \union j /\ req'.alive = req.alive \union a
    BY <1>1, <1>3 DEF Noticed, IInv, TypeOK, Request
  <2>2. TypeOK'
    BY <1>1, <2>1 DEF IInv, TypeOK
  <2>3. KeepsUp'
    BY <1>1, <2>1 DEF KeepsUp, Accounts
  <2> HIDE DEF j, a
  <2>4. WellPlaced'
    BY <1>1, <2>1 DEF IInv, WellPlaced
  <2>5. ScopeInTenure' /\ RowsInTenure'
    BY <1>1, <2>1 DEF IInv, ScopeInTenure, RowsInTenure, Tenure
  <2> QED
    BY <2>2, <2>3, <2>4, <2>5 DEF IInv
<1> QED
  BY <1>2, <1>3

LEMMA Inv_edit == ASSUME IInv, Edit PROVE IInv'
<1> USE DEF IInv, TypeOK
<1>1. PICK o \in Orgs :
         \/ edit_organization(o)
         \/ \E m \in Memberships \union {NoMember} : edit_membership(o, m)
         \/ \E mine \in BOOLEAN : new_organization(o, mine)
         \/ \E a \in Acls : edit_workspace(o, a)
  BY DEF Edit
<1>2. CASE edit_organization(o)
  BY <1>2, ElsewhereInv DEF edit_organization
<1>3. CASE \E m \in Memberships \union {NoMember} : edit_membership(o, m)
  BY <1>3, ElsewhereInv DEF edit_membership, Accounts
<1>4. CASE \E mine \in BOOLEAN : new_organization(o, mine)
  <2>1. [role |-> "owner", active |-> TRUE] \in Memberships
    BY AccessConstants DEF Memberships
  <2>2. Elsewhere /\ owner' = owner
    BY <1>4 DEF new_organization
  <2>3. org' \in [Orgs -> {"absent", "active", "suspended"}] /\ ws' \in [Orgs -> Acls]
    BY <1>4 DEF new_organization, Acls
  <2>4. mem' \in [Accounts -> [Orgs -> Memberships \union {NoMember}]]
    BY <1>4, <2>1 DEF new_organization, Accounts
  <2> QED
    BY <2>2, <2>3, <2>4, ElsewhereInv
<1>5. CASE \E a \in Acls : edit_workspace(o, a)
  BY <1>5, ElsewhereInv DEF edit_workspace
<1> QED
  BY <1>1, <1>2, <1>3, <1>4, <1>5

LEMMA Inv_init == Init => IInv
<1> SUFFICES ASSUME Init PROVE IInv
  OBVIOUS
<1>1. PICK o \in Orgs, m \in Memberships \union {NoMember}, a \in Acls \ {"absent"}, w \in {"user", "other"} :
        /\ org = [q \in Orgs |-> IF q = o THEN "active" ELSE "absent"]
        /\ ws = [q \in Orgs |-> IF q = o THEN a ELSE "absent"]
        /\ mem = [u \in Accounts |-> [q \in Orgs |-> IF u = "user" /\ q = o THEN m ELSE NoMember]]
        /\ owner = [q \in Orgs |-> IF q = o THEN w ELSE "none"]
        /\ \E s \in {NoOrg, o} : session = [u \in Accounts |-> IF u = "user" THEN s ELSE NoOrg]
  BY DEF Init
<1>2. NoRequest \in Request /\ NoRequest.who = "anon"
  BY DEF NoRequest, Request, Outcomes, Kinds, JobViews
<1>3. org \in [Orgs -> {"absent", "active", "suspended"}] /\ ws \in [Orgs -> Acls]
  BY <1>1 DEF Acls
<1>4. mem \in [Accounts -> [Orgs -> Memberships \union {NoMember}]]
  BY <1>1
<1>5. /\ owner \in [Orgs -> Accounts \union {"other", "none"}]
      /\ session \in [Accounts -> Orgs \union {NoOrg}]
  BY <1>1 DEF Accounts
<1>6. site \in [postgres: BOOLEAN, staff: BOOLEAN] /\ req = NoRequest /\ pc = "idle"
  BY DEF Init
<1>7. /\ conn \in [scope: {"off", "on"}, ids: SUBSET Orgs, hit: BOOLEAN]
      /\ upsets \in 0..MaxUpsets
  BY AccessConstants DEF Init, NewConnection
<1>8. TypeOK
  BY <1>2, <1>3, <1>4, <1>5, <1>6, <1>7 DEF TypeOK, Steps
<1> QED
  BY <1>2, <1>6, <1>8 DEF IInv, KeepsUp, WellPlaced, ScopeInTenure, RowsInTenure, ViewSteps

LEMMA Inv_next == IInv /\ [Next]_vars => IInv'
<1> SUFFICES ASSUME IInv, [Next]_vars PROVE IInv'
  OBVIOUS
<1>1. CASE UNCHANGED vars
  BY <1>1 DEF vars, IInv, TypeOK, KeepsUp, WellPlaced, ScopeInTenure, RowsInTenure, Tenure
<1>2. CASE Edit
  BY <1>2, Inv_edit
<1>3. CASE Step
  BY <1>3, Inv_begin, Inv_login_access, Inv_read_org_ids, Inv_connection, Inv_visitor,
     Inv_fetch_job, Inv_fetch_workspace, Inv_check_acl, Inv_serve_job,
     Inv_session_workspace, Inv_session_access, Inv_ensure_personal_workspace,
     Inv_any_membership, Inv_submit_fails,
     Inv_create_personal, Inv_use_workspace, Inv_insert_job, Inv_finish, Inv_fault
     DEF Step
<1> QED
  BY <1>1, <1>2, <1>3 DEF Next

LEMMA Inductive == Spec => []IInv
  BY Inv_init, Inv_next, PTL DEF Spec

-----------------------------------------------------------------------------
\* Type correctness of the requests, the connection and the tables.
THEOREM TypeCorrect == Spec => []TypeOK
<1>1. IInv => TypeOK
  BY DEF IInv
<1> QED
  BY <1>1, Inductive, PTL

\* For any number of organizations, table changes and failed statements: the
\* policy shows a user's view, and a response hands out, only rows of
\* organizations that were active and the user's during that request.
THEOREM TenureOnlyHolds == Spec => []TenureOnly
<1>1. IInv => TenureOnly
  <2> SUFFICES ASSUME IInv, req.who = "user"
               PROVE  /\ site.postgres /\ pc \in ViewSteps => tenant_isolation \subseteq Tenure
                      /\ req.rows \subseteq Tenure
    BY DEF TenureOnly, Tenure
  <2>1. site.postgres /\ pc \in ViewSteps => tenant_isolation \subseteq Tenure
    BY DEF IInv, ScopeInTenure, tenant_isolation
  <2>2. req.rows \subseteq Tenure
    BY DEF IInv, RowsInTenure
  <2> QED
    BY <2>1, <2>2
<1> QED
  BY <1>1, Inductive, PTL

\* Reaching the creation step means that no membership row was found.
LEMMA FreshOnly == Spec => [](pc = "create" /\ req.quiet => NeverMember(req.who))
<1> DEFINE F == pc = "create" /\ req.quiet => NeverMember(req.who)
<1>1. Init => F
  BY DEF Init
<1>2. IInv /\ F /\ [Next]_vars => F'
  <2> SUFFICES ASSUME IInv, F, [Next]_vars, pc' = "create", req'.quiet
               PROVE  NeverMember(req.who)'
    OBVIOUS
  <2>1. CASE UNCHANGED vars
    BY <2>1 DEF vars, NeverMember
  <2>2. CASE any_membership
    BY <2>2 DEF any_membership, Proceed, tables, NeverMember
  <2>3. CASE Edit
    <3>1. Elsewhere
      BY <2>3 DEF Edit, edit_organization, edit_membership, edit_workspace, new_organization
    <3>2. pc = "create" /\ Noticed
      BY <3>1 DEF Elsewhere
    <3>3. req'.quiet = FALSE
      BY <3>2 DEF Noticed, IInv, TypeOK, Request
    <3> QED
      BY <3>3
  <2>4. CASE Step /\ ~any_membership
    <3>1. CASE \E a \in Accounts \union {"anon"}, k \in Kinds, o \in Orgs \union {NoOrg} : begin(a, k, o)
      BY <3>1 DEF begin
    <3>2. CASE \/ login_access \/ read_org_ids \/ apply_scope \/ apply_ids \/ clear_scope
               \/ clear_ids \/ finish \/ fault \/ reconnect
      BY <3>2 DEF login_access, read_org_ids, apply_scope, apply_ids, clear_scope,
                  clear_ids, finish, fault, reconnect
    <3>3. CASE \/ visitor \/ fetch_job \/ fetch_workspace \/ check_acl \/ serve_job
               \/ session_workspace \/ session_access \/ create_personal \/ use_workspace
               \/ insert_job \/ submit_fails \/ ensure_personal_workspace
      BY <3>3 DEF visitor, fetch_job, fetch_workspace, check_acl, serve_job,
                  session_workspace, session_access, create_personal, use_workspace,
                  insert_job, submit_fails, ensure_personal_workspace, Answer, Proceed
    <3> QED
      BY <2>4, <3>1, <3>2, <3>3 DEF Step
  <2> QED
    BY <2>1, <2>2, <2>3, <2>4 DEF Next
<1> QED
  BY <1>1, <1>2, Inductive, PTL DEF Spec

\* An organization of one's own is created only for an account without any
\* membership row, unless the tables changed while the request ran.
THEOREM NoFreshStartHolds == Spec => NoFreshStart
<1>1. (pc = "create" /\ req.quiet => NeverMember(req.who)) =>
         [pc = "create" /\ pc' = "use" /\ req.quiet =>
            \A o \in Orgs : mem[req.who][o] = NoMember]_vars
  BY DEF NeverMember
<1> QED
  BY <1>1, FreshOnly, PTL DEF NoFreshStart

\* Whoever may upload to a workspace may also open it: the two checks are
\* written out separately in permissions.py and services.py.
THEOREM WritersCanAccess ==
  ASSUME TypeOK, NEW a \in Accounts, NEW o \in Orgs, user_may_write_workspace(a, o)
  PROVE  user_can_access_workspace(a, o)
  BY DEF user_may_write_workspace, user_can_access_workspace, HasAcl

-----------------------------------------------------------------------------
(* QuietOutcome: what a request has found out at each step, given that no   *)
(* table changed and no statement failed since it began.                    *)

WorkspaceSteps == {"active", "ensure", "exists", "create", "use", "insert"}
Leaving == {"clear", "clear_ids", "end"}

\* A connection on which every statement went through has no scope left over:
\* only the request of a user turns it on, between its two statements and the
\* finally clause.
CleanConnection ==
    /\ pc # "idle" /\ req.clean => ~conn.hit
    /\ pc = "clear_ids" => conn.scope = "off"
    /\ ~conn.hit /\ pc \notin {"ids", "clear"} \union ViewSteps => conn.scope = "off"
    /\ ~conn.hit /\ pc \in ViewSteps /\ (req.who # "user" \/ ~site.postgres) =>
          conn.scope = "off"

\* Which views a step belongs to, and for whom.
Staged ==
    /\ pc # "idle" /\ req.who = "anon" => req.kind = "page"
    /\ pc \in {"orgs", "scope", "ids"} => site.postgres
    /\ pc \in {"scope", "ids"} => req.who = "user"
    /\ pc \in WorkspaceSteps => req.kind \in WorkspaceViews
    /\ pc \notin {"use", "insert"} \union Leaving => ~req.made

\* The workspace w that a view of account a works in.
Usable(a, w) ==
    w = NoOrg \/ /\ ws[w] # "absent"
                 /\ a = "user" => w \in active_membership_org_ids(a)

\* What a quiet request r knows when it comes to a step of the view.
Knows(step, r) ==
    /\ r.kind \in JobViews /\ r.who = "user" /\ ~site.staff => user_has_login_access("user")
    /\ r.who = "user" /\ site.postgres =>
          conn.ids = IF r.made THEN {} ELSE active_membership_org_ids("user")
    /\ step \in {"acl", "permit"} /\ r.kind \in JobViews =>
          r.target \in accessible_to(r.who) /\ (r.live <=> organization_is_active(r.target))
    /\ step \in {"acl", "permit"} /\ r.kind = "switch" =>
          ws[r.target] # "absent" /\ organization_is_active(r.target) /\ r.live
    /\ step = "permit" => user_can_access_workspace(r.who, r.target) /\ r.live
    /\ step = "active" => ws[r.sess] # "absent" /\ organization_is_active(r.sess)
    /\ step = "create" => NeverMember(r.who)
    /\ step \in {"use", "insert"} =>
          /\ Usable(r.who, r.ws)
          /\ r.made => r.ws # NoOrg /\ user_may_write_workspace(r.who, r.ws)
    /\ step = "insert" =>
          /\ r.kind = "upload" /\ r.ws # NoOrg
          /\ user_may_write_workspace(r.who, r.ws)

\* The answer out is what QuietOutcome asks for.
Right(out) ==
    /\ req.kind \in JobViews => out = JobAnswer(req.who, req.kind, req.target)
    /\ req.kind \in WorkspaceViews /\ out # "login" =>
          /\ out = "failed" <=> req.ws = NoOrg /\ req.kind # "list"
          /\ out = "refused" <=>
                req.kind = "upload" /\ req.made /\ req.who = "user" /\ site.postgres
          /\ out = "denied" <=>
                /\ req.kind = "upload"
                /\ req.ws # NoOrg
                /\ ~user_may_write_workspace(req.who, req.ws)
    /\ req.kind = "switch" /\ out \notin {"login", "none"} =>
          (out = "served" <=>
              /\ req.target \in accessible_workspaces(req.who)
              /\ organization_is_active(req.target))

\* The same along the whole way of a request.
Informed ==
    pc # "idle" /\ req.quiet /\ req.clean =>
        /\ pc \in {"orgs", "scope", "ids"} =>
              (req.kind \in JobViews /\ req.who = "user" /\ ~site.staff =>
                  user_has_login_access("user"))
        /\ pc \in {"scope", "ids"} => req.ids = active_membership_org_ids("user")
        /\ pc \in ViewSteps => Knows(pc, req)
        /\ pc \in Leaving => Right(req.out)

OutcomeInv == IInv /\ CleanConnection /\ Staged /\ Informed

\* Right and Knows speak of tables and settings only through these.
LEMMA SameAnswer ==
  ASSUME UNCHANGED <<org, ws, mem, owner, site>>, NEW out,
         req'.who = req.who, req'.kind = req.kind, req'.target = req.target,
         req'.ws = req.ws, req'.made = req.made
  PROVE  Right(out)' <=> Right(out)
  BY DEF Right, JobAnswer, Granted, Admitted, HasAcl, active_membership_org_ids,
         organization_is_active, accessible_workspaces, user_can_access_workspace,
         user_may_write_workspace

LEMMA SameKnowledge ==
  ASSUME UNCHANGED <<org, ws, mem, owner, site, conn>>, NEW step, NEW r
  PROVE  Knows(step, r)' <=> Knows(step, r)
  BY DEF Knows, HasAcl, active_membership_org_ids, user_has_login_access, accessible_to,
         organization_is_active, NeverMember, Usable, user_can_access_workspace,
         user_may_write_workspace

\* A right answer from a view ends the quiet request as promised.
LEMMA AnswerRight ==
  ASSUME OutcomeInv, pc \in ViewSteps, NEW out, NEW rows, Answer(out, rows),
         req.quiet /\ req.clean => Right(out)
  PROVE  CleanConnection' /\ Staged' /\ Informed'
<1>1. /\ req'.who = req.who /\ req'.kind = req.kind /\ req'.target = req.target
      /\ req'.ws = req.ws /\ req'.made = req.made /\ req'.out = out
      /\ req'.quiet = req.quiet /\ req'.clean = req.clean
  BY DEF Answer, OutcomeInv, IInv, TypeOK, Request
<1>2. /\ UNCHANGED <<org, ws, mem, owner, site, conn>>
      /\ pc' = IF site.postgres THEN "clear" ELSE "end"
  BY DEF Answer, tables
<1>3. CleanConnection'
  BY <1>1, <1>2 DEF OutcomeInv, CleanConnection, ViewSteps
<1>4. Staged'
  BY <1>1, <1>2 DEF OutcomeInv, Staged, ViewSteps, Leaving, WorkspaceSteps
<1>5. Right(out)' <=> Right(out)
  BY <1>1, <1>2, SameAnswer
<1>6. Informed'
  BY <1>1, <1>2, <1>5 DEF Informed, ViewSteps, Leaving, Right
<1> QED
  BY <1>3, <1>4, <1>6

\* A step inside a view adds to what a quiet request knows.
LEMMA ProceedKnowing ==
  ASSUME OutcomeInv, pc \in ViewSteps, req.who \in Accounts,
         NEW step \in ViewSteps \ {"view"}, NEW r \in Request,
         r.who = req.who, r.kind = req.kind, r.target = req.target, r.made = req.made,
         r.quiet = req.quiet, r.clean = req.clean,
         step \in WorkspaceSteps => req.kind \in WorkspaceViews,
         step \notin {"use", "insert"} => ~req.made,
         req.quiet /\ req.clean => Knows(step, r),
         Proceed(step, r)
  PROVE  CleanConnection' /\ Staged' /\ Informed'
<1>1. req' = r /\ pc' = step /\ UNCHANGED <<org, ws, mem, owner, session, site, conn>>
  BY DEF Proceed, tables
<1>2. CleanConnection'
  BY <1>1 DEF OutcomeInv, CleanConnection, ViewSteps
<1>3. Staged'
  BY <1>1 DEF OutcomeInv, Staged, ViewSteps, Leaving, WorkspaceSteps, Accounts
<1>4. Knows(step, r)' <=> Knows(step, r)
  BY <1>1, SameKnowledge
<1>5. Knows(pc, req)' <=> Knows(step, r)'
  BY <1>1 DEF Knows, Usable
<1>6. Informed'
  BY <1>1, <1>4, <1>5 DEF Informed, ViewSteps, Leaving
<1> QED
  BY <1>2, <1>3, <1>6

LEMMA Right_visitor == ASSUME OutcomeInv, visitor
                       PROVE  CleanConnection' /\ Staged' /\ Informed'
<1>1. pc \in ViewSteps /\ req.who = "anon" /\ req.kind = "page" /\ Answer("login", {})
  BY DEF visitor, ViewSteps, OutcomeInv, Staged
<1>2. Right("login")
  BY <1>1 DEF Right, JobAnswer, JobViews, WorkspaceViews
<1> QED
  BY <1>1, <1>2, AnswerRight

LEMMA Right_fetch_job == ASSUME OutcomeInv, fetch_job
                         PROVE  CleanConnection' /\ Staged' /\ Informed'
<1> DEFINE r == [req EXCEPT !.live = organization_is_active(req.target)]
<1>1. /\ pc = "view" /\ pc \in ViewSteps /\ req.who \in Accounts /\ req.kind \in JobViews
      /\ req.target \in Orgs /\ req \in Request /\ ~req.made
  BY DEF fetch_job, ViewSteps, OutcomeInv, IInv, TypeOK, WellPlaced, Staged, Leaving,
         JobViews, WorkspaceViews
<1>2. /\ r \in Request /\ r.who = req.who /\ r.kind = req.kind /\ r.target = req.target
      /\ r.made = req.made /\ r.quiet = req.quiet /\ r.clean = req.clean
      /\ r.live = organization_is_active(req.target)
  BY <1>1 DEF Request, organization_is_active
<1>3. ASSUME req.quiet, req.clean
      PROVE  /\ Knows("view", req)
             /\ req.target \in accessible_to(req.who) => req.target \in tenant_isolation
  <2>1. Knows("view", req)
    BY <1>1, <1>3 DEF OutcomeInv, Informed
  <2>2. req.who = "user" /\ site.postgres => conn.ids = active_membership_org_ids("user")
    BY <1>1, <2>1 DEF Knows
  <2>3. req.who # "user" \/ ~site.postgres => conn.scope = "off"
    BY <1>1, <1>3 DEF OutcomeInv, CleanConnection
  <2> QED
    BY <1>1, <2>1, <2>2, <2>3 DEF tenant_isolation, accessible_to, Accounts
<1>4. CASE req.target \in accessible_to(req.who) \intersect tenant_isolation
  <2>1. Proceed("acl", r)
    BY <1>4 DEF fetch_job
  <2> HIDE DEF r
  <2>2. ASSUME req.quiet, req.clean PROVE Knows("acl", r)
    BY <1>1, <1>2, <1>3, <1>4, <2>2 DEF Knows, JobViews
  <2> QED
    BY <1>1, <1>2, <2>1, <2>2, ProceedKnowing DEF ViewSteps, WorkspaceSteps
<1>5. CASE req.target \notin accessible_to(req.who) \intersect tenant_isolation
  <2>1. ASSUME req.quiet, req.clean PROVE Right("notfound")
    <3>1. req.target \notin accessible_to(req.who)
      BY <1>3, <1>5, <2>1
    <3>2. req.who = "user" /\ ~site.staff => active_membership_org_ids("user") # {}
      BY <1>1, <1>3, <2>1 DEF Knows, user_has_login_access
    <3>3. JobAnswer(req.who, req.kind, req.target) = "notfound"
      BY <1>1, <3>1, <3>2 DEF JobAnswer, accessible_to, Accounts
    <3> QED
      BY <1>1, <3>3 DEF Right, JobViews, WorkspaceViews
  <2>2. Answer("notfound", {})
    BY <1>5 DEF fetch_job
  <2> QED
    BY <1>1, <2>1, <2>2, AnswerRight
<1> QED
  BY <1>4, <1>5

LEMMA Right_fetch_workspace == ASSUME OutcomeInv, fetch_workspace
                               PROVE  CleanConnection' /\ Staged' /\ Informed'
<1> DEFINE r == [req EXCEPT !.live = TRUE]
<1>1. /\ pc = "view" /\ pc \in ViewSteps /\ req.who \in Accounts /\ req.kind = "switch"
      /\ req \in Request /\ ~req.made
  BY DEF fetch_workspace, ViewSteps, OutcomeInv, IInv, TypeOK, Staged, Leaving
<1>2. /\ r \in Request /\ r.who = req.who /\ r.kind = req.kind /\ r.target = req.target
      /\ r.made = req.made /\ r.quiet = req.quiet /\ r.clean = req.clean /\ r.live = TRUE
  BY <1>1 DEF Request
<1>3. CASE ws[req.target] # "absent" /\ organization_is_active(req.target)
  <2>1. Proceed("acl", r)
    BY <1>3 DEF fetch_workspace
  <2> HIDE DEF r
  <2>2. ASSUME req.quiet, req.clean PROVE Knows("acl", r)
    <3>1. Knows("view", req)
      BY <1>1, <2>2 DEF OutcomeInv, Informed
    <3> QED
      BY <1>1, <1>2, <1>3, <3>1 DEF Knows, JobViews
  <2> QED
    BY <1>1, <1>2, <2>1, <2>2, ProceedKnowing DEF ViewSteps, WorkspaceSteps
<1>4. CASE ~(ws[req.target] # "absent" /\ organization_is_active(req.target))
  <2>1. Right("denied")
    BY <1>1, <1>4 DEF Right, JobViews, WorkspaceViews, accessible_workspaces
  <2> QED
    BY <1>1, <1>4, <2>1, AnswerRight DEF fetch_workspace
<1> QED
  BY <1>3, <1>4

\* On a job that the user sees, the check of the access list and the view's own
\* check come to what the roles grant.
LEMMA ChecksGrant ==
  ASSUME TypeOK, NEW o \in Orgs, mem["user"][o].active
  PROVE  /\ Granted("page", o) <=> user_can_access_workspace("user", o)
         /\ Granted("cancel", o) <=>
               user_can_access_workspace("user", o) /\ user_may_cancel_job("user", o)
         /\ Granted("download", o) <=>
               user_can_access_workspace("user", o) /\ user_may_download_job("user", o)
<1>1. mem["user"][o].role \in {"owner", "admin", "member", "auditor"}
  <2>1. mem["user"][o] \in Memberships \union {NoMember}
    BY DEF TypeOK, Accounts
  <2>2. mem["user"][o] \in [role: Roles, active: {TRUE}] \union {Inactive, NoMember}
    BY <2>1, Zenon DEF Memberships
  <2>3. Inactive.active = FALSE /\ NoMember.active = FALSE
    BY DEF Inactive, NoMember
  <2>4. mem["user"][o] \in [role: Roles, active: {TRUE}]
    BY <2>2, <2>3
  <2> QED
    BY <2>4, AccessConstants
<1>2. ws[o] \in Acls
  BY DEF TypeOK
<1> QED
  BY <1>1, <1>2 DEF Granted, Admitted, HasAcl, Managers, Acls, user_can_access_workspace,
     user_may_cancel_job, user_may_download_job

LEMMA Right_check_acl == ASSUME OutcomeInv, check_acl
                         PROVE  CleanConnection' /\ Staged' /\ Informed'
<1> DEFINE r == [req EXCEPT !.sess = req.target]
<1>1. /\ pc = "acl" /\ pc \in ViewSteps /\ req.who \in Accounts
      /\ req.kind \in JobViews \union {"switch"} /\ req.kind \notin WorkspaceViews
      /\ req.target \in Orgs /\ req \in Request /\ ~req.made /\ TypeOK
  BY DEF check_acl, ViewSteps, OutcomeInv, IInv, TypeOK, WellPlaced, Staged, Leaving,
         Request, Kinds
<1>2. /\ r \in Request /\ r.who = req.who /\ r.kind = req.kind /\ r.target = req.target
      /\ r.made = req.made /\ r.quiet = req.quiet /\ r.clean = req.clean /\ r.live = req.live
  BY <1>1 DEF Request
<1>3. ASSUME req.quiet, req.clean PROVE Knows("acl", req)
  BY <1>1, <1>3 DEF OutcomeInv, Informed
<1>4. CASE ~user_can_access_workspace(req.who, req.target) \/ ~req.live
  <2>1. ASSUME req.quiet, req.clean, req.kind = "switch" PROVE Right("denied")
    BY <1>1, <1>3, <1>4, <2>1
       DEF Knows, Right, JobViews, accessible_workspaces, user_can_access_workspace
  <2>2. ASSUME req.quiet, req.clean, req.kind \in JobViews PROVE Right("denied")
    <3>1. /\ req.target \in accessible_to(req.who)
          /\ req.live <=> organization_is_active(req.target)
          /\ req.who = "user" /\ ~site.staff => active_membership_org_ids("user") # {}
      BY <1>1, <1>3, <2>2 DEF Knows, user_has_login_access
    <3>2. CASE req.who = "super"
      BY <1>1, <1>4, <2>2, <3>1, <3>2
         DEF Right, JobAnswer, accessible_to, user_can_access_workspace,
             organization_is_active, JobViews
    <3>3. CASE req.who = "user"
      <4>1. /\ req.target \in active_membership_org_ids("user") /\ owner[req.target] # "none"
            /\ mem["user"][req.target].active /\ req.live
        BY <3>1, <3>3 DEF accessible_to, active_membership_org_ids
      <4>2. ~Granted(req.kind, req.target)
        BY <1>1, <1>4, <2>2, <3>3, <4>1, ChecksGrant DEF JobViews
      <4> QED
        BY <1>1, <2>2, <3>1, <3>3, <4>1, <4>2 DEF Right, JobAnswer, JobViews
    <3> QED
      BY <1>1, <3>2, <3>3 DEF Accounts
  <2>3. Answer("denied", {})
    BY <1>4 DEF check_acl
  <2> QED
    BY <1>1, <2>1, <2>2, <2>3, AnswerRight
<1>5. CASE ~(~user_can_access_workspace(req.who, req.target) \/ ~req.live)
  <2>1. CASE req.kind = "switch"
    <3>1. Proceed("permit", r)
      BY <1>5, <2>1 DEF check_acl, JobViews
    <3> HIDE DEF r
    <3>2. ASSUME req.quiet, req.clean PROVE Knows("permit", r)
      BY <1>1, <1>2, <1>3, <1>5, <2>1, <3>2 DEF Knows, JobViews
    <3> QED
      BY <1>1, <1>2, <3>1, <3>2, ProceedKnowing DEF ViewSteps, WorkspaceSteps
  <2>2. CASE req.kind \in JobViews
    <3>1. Proceed("permit", req)
      BY <1>5, <2>2 DEF check_acl, JobViews
    <3>2. ASSUME req.quiet, req.clean PROVE Knows("permit", req)
      BY <1>1, <1>3, <1>5, <2>2, <3>2 DEF Knows, JobViews
    <3> QED
      BY <1>1, <3>1, <3>2, ProceedKnowing DEF ViewSteps, WorkspaceSteps
  <2> QED
    BY <1>1, <2>1, <2>2
<1> QED
  BY <1>4, <1>5

LEMMA Right_serve_job == ASSUME OutcomeInv, serve_job
                         PROVE  CleanConnection' /\ Staged' /\ Informed'
<1>1. /\ pc = "permit" /\ pc \in ViewSteps /\ req.who \in Accounts
      /\ req.kind \in JobViews \union {"switch"} /\ req.kind \notin WorkspaceViews
      /\ req.target \in Orgs /\ TypeOK
  BY DEF serve_job, ViewSteps, OutcomeInv, IInv, TypeOK, WellPlaced, Request, Kinds
<1>2. ASSUME req.quiet, req.clean PROVE Knows("permit", req)
  BY <1>1, <1>2 DEF OutcomeInv, Informed
<1>3. CASE req.kind = "switch"
  <2>1. ASSUME req.quiet, req.clean PROVE Right("served")
    BY <1>1, <1>2, <1>3, <2>1
       DEF Knows, Right, JobViews, accessible_workspaces, user_can_access_workspace
  <2> QED
    BY <1>1, <1>3, <2>1, AnswerRight DEF serve_job, JobViews
<1>4. CASE req.kind \in JobViews
  <2> DEFINE may == /\ req.kind = "cancel" => user_may_cancel_job(req.who, req.target)
                    /\ req.kind = "download" => user_may_download_job(req.who, req.target)
  <2>1. ASSUME req.quiet, req.clean PROVE Right(IF may THEN "served" ELSE "denied")
    <3>1. /\ req.target \in accessible_to(req.who) /\ organization_is_active(req.target)
          /\ user_can_access_workspace(req.who, req.target)
          /\ req.who = "user" /\ ~site.staff => active_membership_org_ids("user") # {}
      BY <1>1, <1>2, <1>4, <2>1 DEF Knows, user_has_login_access
    <3>2. CASE req.who = "super"
      BY <1>1, <1>4, <3>1, <3>2
         DEF Right, JobAnswer, accessible_to, organization_is_active, JobViews,
             user_may_cancel_job, user_may_download_job
    <3>3. CASE req.who = "user"
      <4>1. /\ req.target \in active_membership_org_ids("user") /\ owner[req.target] # "none"
            /\ mem["user"][req.target].active
        BY <3>1, <3>3 DEF accessible_to, active_membership_org_ids
      <4>2. Granted(req.kind, req.target) <=> may
        BY <1>1, <1>4, <3>1, <3>3, <4>1, ChecksGrant DEF JobViews
      <4> HIDE DEF may
      <4> QED
        BY <1>1, <1>4, <3>1, <3>3, <4>1, <4>2 DEF Right, JobAnswer, JobViews
    <3> QED
      BY <1>1, <3>2, <3>3 DEF Accounts
  <2>2. CASE may
    <3>1. Answer("served", {req.target})
      BY <1>4, <2>2 DEF serve_job, JobViews
    <3> HIDE DEF may
    <3> QED
      BY <1>1, <2>1, <2>2, <3>1, AnswerRight
  <2>3. CASE ~may
    <3>1. Answer("denied", {})
      BY <1>4, <2>3 DEF serve_job, JobViews
    <3> HIDE DEF may
    <3> QED
      BY <1>1, <2>1, <2>3, <3>1, AnswerRight
  <2> QED
    BY <2>2, <2>3
<1> QED
  BY <1>1, <1>3, <1>4

LEMMA Right_session_workspace == ASSUME OutcomeInv, session_workspace
                                 PROVE  CleanConnection' /\ Staged' /\ Informed'
<1>1. /\ pc = "view" /\ pc \in ViewSteps /\ req.who \in Accounts
      /\ req.kind \in WorkspaceViews /\ req \in Request /\ ~req.made
  BY DEF session_workspace, ViewSteps, OutcomeInv, IInv, TypeOK, Staged, Leaving
<1>2. ASSUME req.quiet, req.clean PROVE Knows("view", req)
  BY <1>1, <1>2 DEF OutcomeInv, Informed
<1>3. CASE /\ ws[req.sess] # "absent" /\ organization_is_active(req.sess)
           /\ Proceed("active", req)
  <2>1. ASSUME req.quiet, req.clean PROVE Knows("active", req)
    BY <1>1, <1>2, <1>3, <2>1 DEF Knows
  <2> QED
    BY <1>1, <1>3, <2>1, ProceedKnowing DEF ViewSteps
<1>4. CASE Proceed("ensure", req)
  <2>1. ASSUME req.quiet, req.clean PROVE Knows("ensure", req)
    BY <1>1, <1>2, <2>1 DEF Knows
  <2> QED
    BY <1>1, <1>4, <2>1, ProceedKnowing DEF ViewSteps
<1> QED
  BY <1>3, <1>4 DEF session_workspace

LEMMA Right_session_access == ASSUME OutcomeInv, session_access
                              PROVE  CleanConnection' /\ Staged' /\ Informed'
<1> DEFINE r == [req EXCEPT !.ws = req.sess]
<1>1. /\ pc = "active" /\ pc \in ViewSteps /\ req.who \in Accounts
      /\ req.kind \in WorkspaceViews /\ req \in Request /\ ~req.made /\ req.sess \in Orgs
  BY DEF session_access, ViewSteps, OutcomeInv, IInv, TypeOK, WellPlaced, Staged, Leaving,
         WorkspaceSteps
<1>2. /\ r \in Request /\ r.who = req.who /\ r.kind = req.kind /\ r.target = req.target
      /\ r.made = req.made /\ r.quiet = req.quiet /\ r.clean = req.clean /\ r.ws = req.sess
  BY <1>1 DEF Request
<1>3. ASSUME req.quiet, req.clean PROVE Knows("active", req)
  BY <1>1, <1>3 DEF OutcomeInv, Informed
<1>4. CASE user_can_access_workspace(req.who, req.sess) /\ Proceed("use", r)
  <2> HIDE DEF r
  <2>1. ASSUME req.quiet, req.clean PROVE Knows("use", r)
    <3>1. Usable(req.who, req.sess)
      BY <1>1, <1>3, <1>4, <2>1
         DEF Knows, Usable, user_can_access_workspace, active_membership_org_ids
    <3> QED
      BY <1>1, <1>2, <1>3, <2>1, <3>1 DEF Knows
  <2> QED
    BY <1>1, <1>2, <1>4, <2>1, ProceedKnowing DEF ViewSteps
<1>5. CASE Proceed("ensure", req)
  <2>1. ASSUME req.quiet, req.clean PROVE Knows("ensure", req)
    BY <1>1, <1>3, <2>1 DEF Knows
  <2> QED
    BY <1>1, <1>5, <2>1, ProceedKnowing DEF ViewSteps
<1> QED
  BY <1>4, <1>5 DEF session_access

LEMMA Right_ensure_personal_workspace ==
  ASSUME OutcomeInv, ensure_personal_workspace
  PROVE  CleanConnection' /\ Staged' /\ Informed'
<1>1. /\ pc = "ensure" /\ pc \in ViewSteps /\ req.who \in Accounts
      /\ req.kind \in WorkspaceViews /\ req \in Request /\ ~req.made
  BY DEF ensure_personal_workspace, ViewSteps, OutcomeInv, IInv, TypeOK, WellPlaced,
         Staged, Leaving, WorkspaceSteps
<1>2. ASSUME req.quiet, req.clean PROVE Knows("ensure", req)
  BY <1>1, <1>2 DEF OutcomeInv, Informed
<1>3. ASSUME NEW o \in Orgs, o \in active_membership_org_ids(req.who), ws[o] # "absent",
             Proceed("use", [req EXCEPT !.ws = o, !.sess = o])
      PROVE  CleanConnection' /\ Staged' /\ Informed'
  <2> DEFINE r == [req EXCEPT !.ws = o, !.sess = o]
  <2>1. /\ r \in Request /\ r.who = req.who /\ r.kind = req.kind /\ r.target = req.target
        /\ r.made = req.made /\ r.quiet = req.quiet /\ r.clean = req.clean /\ r.ws = o
    BY <1>1 DEF Request
  <2>2. Proceed("use", r)
    BY <1>3
  <2> HIDE DEF r
  <2>3. ASSUME req.quiet, req.clean PROVE Knows("use", r)
    BY <1>1, <1>2, <1>3, <2>1, <2>3 DEF Knows, Usable
  <2> QED
    BY <1>1, <2>1, <2>2, <2>3, ProceedKnowing DEF ViewSteps
<1>4. CASE Proceed("exists", req)
  <2>1. ASSUME req.quiet, req.clean PROVE Knows("exists", req)
    BY <1>1, <1>2, <2>1 DEF Knows
  <2> QED
    BY <1>1, <1>4, <2>1, ProceedKnowing DEF ViewSteps
<1> QED
  BY <1>3, <1>4 DEF ensure_personal_workspace, active_membership_org_ids

LEMMA Right_any_membership == ASSUME OutcomeInv, any_membership
                              PROVE  CleanConnection' /\ Staged' /\ Informed'
<1>1. /\ pc = "exists" /\ pc \in ViewSteps /\ req.who \in Accounts
      /\ req.kind \in WorkspaceViews /\ req \in Request /\ ~req.made
  BY DEF any_membership, ViewSteps, OutcomeInv, IInv, TypeOK, WellPlaced, Staged, Leaving,
         WorkspaceSteps
<1>2. ASSUME req.quiet, req.clean PROVE Knows("exists", req)
  BY <1>1, <1>2 DEF OutcomeInv, Informed
<1>3. CASE NeverMember(req.who) /\ Proceed("create", req)
  <2>1. ASSUME req.quiet, req.clean PROVE Knows("create", req)
    BY <1>1, <1>2, <1>3, <2>1 DEF Knows
  <2> QED
    BY <1>1, <1>3, <2>1, ProceedKnowing DEF ViewSteps
<1>4. CASE Proceed("use", [req EXCEPT !.ws = NoOrg, !.sess = NoOrg])
  <2> DEFINE r == [req EXCEPT !.ws = NoOrg, !.sess = NoOrg]
  <2>1. /\ r \in Request /\ r.who = req.who /\ r.kind = req.kind /\ r.target = req.target
        /\ r.made = req.made /\ r.quiet = req.quiet /\ r.clean = req.clean /\ r.ws = NoOrg
    BY <1>1 DEF Request
  <2>2. Proceed("use", r)
    BY <1>4
  <2> HIDE DEF r
  <2>3. ASSUME req.quiet, req.clean PROVE Knows("use", r)
    BY <1>1, <1>2, <2>1, <2>3 DEF Knows, Usable
  <2> QED
    BY <1>1, <2>1, <2>2, <2>3, ProceedKnowing DEF ViewSteps
<1> QED
  BY <1>3, <1>4 DEF any_membership

\* The new organization is the account's own, and not in the scope that was
\* read before: a user without any membership has an empty one.
LEMMA Right_create_personal == ASSUME OutcomeInv, create_personal
                               PROVE  CleanConnection' /\ Staged' /\ Informed'
<1>1. /\ pc = "create" /\ pc \in ViewSteps /\ req.who \in Accounts
      /\ req.kind \in WorkspaceViews /\ req \in Request /\ ~req.made /\ TypeOK
  BY DEF create_personal, ViewSteps, OutcomeInv, IInv, TypeOK, WellPlaced, Staged, Leaving,
         WorkspaceSteps
<1>2. CASE ~req.quiet /\ Answer("failed", {})
  BY <1>1, <1>2, AnswerRight
<1>3. ASSUME NEW o \in Orgs,
             org' = [org EXCEPT ![o] = "active"],
             ws' = [ws EXCEPT ![o] = "open"],
             mem' = [mem EXCEPT ![req.who][o] = [role |-> "owner", active |-> TRUE]],
             req' = [req EXCEPT !.ws = o, !.sess = o, !.made = TRUE,
                                !.joined = @ \union {o}, !.alive = @ \union {o}],
             pc' = "use", UNCHANGED <<owner, session, site, conn, upsets>>
      PROVE  CleanConnection' /\ Staged' /\ Informed'
  <2>1. /\ req'.who = req.who /\ req'.kind = req.kind /\ req'.ws = o /\ req'.made
        /\ req'.quiet = req.quiet /\ req'.clean = req.clean
    BY <1>1, <1>3 DEF Request
  <2>2. /\ org'[o] = "active" /\ ws'[o] = "open"
        /\ mem'[req.who][o] = [role |-> "owner", active |-> TRUE]
    BY <1>1, <1>3 DEF TypeOK
  <2>3. CleanConnection' /\ Staged'
    BY <1>1, <1>3, <2>1
       DEF OutcomeInv, CleanConnection, Staged, ViewSteps, WorkspaceSteps, Leaving, Accounts
  <2>4. ASSUME req.quiet, req.clean PROVE Knows("use", req)'
    <3>1. Knows("create", req)
      BY <1>1, <2>4 DEF OutcomeInv, Informed
    <3>2. req.who = "user" => active_membership_org_ids("user") = {}
      BY <3>1 DEF Knows, NeverMember, NoMember, active_membership_org_ids
    <3>3. req.who = "user" /\ site.postgres => conn.ids = {}
      BY <1>1, <3>1, <3>2 DEF Knows
    <3>4. user_may_write_workspace(req.who, o)' /\ Usable(req.who, o)'
      BY <1>1, <2>1, <2>2
         DEF user_may_write_workspace, Usable, Managers, active_membership_org_ids,
             organization_is_active
    <3>5. o # NoOrg /\ req.kind \notin JobViews
      BY <1>1, AccessConstants DEF JobViews, WorkspaceViews
    <3> QED
      BY <1>3, <2>1, <3>3, <3>4, <3>5 DEF Knows
  <2>5. Informed'
    BY <1>3, <2>1, <2>4 DEF Informed, ViewSteps, Leaving, Knows
  <2> QED
    BY <2>3, <2>5
<1> QED
  BY <1>2, <1>3 DEF create_personal

LEMMA Right_use_workspace == ASSUME OutcomeInv, use_workspace
                             PROVE  CleanConnection' /\ Staged' /\ Informed'
<1>1. /\ pc = "use" /\ pc \in ViewSteps /\ req.who \in Accounts
      /\ req.kind \in WorkspaceViews /\ req.kind \notin JobViews /\ req.kind # "switch"
      /\ req \in Request
  BY DEF use_workspace, ViewSteps, OutcomeInv, IInv, TypeOK, WellPlaced, Staged,
         WorkspaceSteps, WorkspaceViews, JobViews
<1>2. ASSUME req.quiet, req.clean PROVE Knows("use", req)
  BY <1>1, <1>2 DEF OutcomeInv, Informed
<1>3. ASSUME req.quiet, req.clean
      PROVE  req.made => req.ws # NoOrg /\ user_may_write_workspace(req.who, req.ws)
  BY <1>2, <1>3 DEF Knows
<1>4. CASE req.kind \in {"list", "dashboard"}
  <2>1. CASE req.ws = NoOrg /\ req.kind = "dashboard"
    <3>1. Right("failed")
      BY <1>1, <2>1 DEF Right
    <3> QED
      BY <1>1, <1>4, <2>1, <3>1, AnswerRight DEF use_workspace
  <2>2. CASE ~(req.ws = NoOrg /\ req.kind = "dashboard")
    <3>1. Right("served")
      BY <1>1, <1>4, <2>2 DEF Right
    <3> QED
      BY <1>1, <1>4, <2>2, <3>1, AnswerRight DEF use_workspace
  <2> QED
    BY <2>1, <2>2
<1>5. CASE req.kind = "upload"
  <2>1. CASE req.ws = NoOrg
    <3>1. ASSUME req.quiet, req.clean PROVE Right("failed")
      BY <1>1, <1>3, <1>5, <2>1, <3>1 DEF Right
    <3> QED
      BY <1>1, <1>5, <2>1, <3>1, AnswerRight DEF use_workspace
  <2>2. CASE req.ws # NoOrg /\ ~user_may_write_workspace(req.who, req.ws)
    <3>1. ASSUME req.quiet, req.clean PROVE Right("denied")
      BY <1>1, <1>3, <1>5, <2>2, <3>1 DEF Right
    <3> QED
      BY <1>1, <1>5, <2>2, <3>1, AnswerRight DEF use_workspace
  <2>3. CASE req.ws # NoOrg /\ user_may_write_workspace(req.who, req.ws)
    <3>1. ASSUME req.quiet, req.clean PROVE Knows("insert", req)
      BY <1>2, <1>5, <2>3, <3>1 DEF Knows
    <3> QED
      BY <1>1, <1>5, <2>3, <3>1, ProceedKnowing DEF use_workspace, ViewSteps
  <2> QED
    BY <2>1, <2>2, <2>3
<1> QED
  BY <1>4, <1>5 DEF use_workspace

\* The policy accepts the rows of an upload unless the organization came into
\* being after the scope was read.
LEMMA Right_insert_job == ASSUME OutcomeInv, insert_job
                          PROVE  CleanConnection' /\ Staged' /\ Informed'
<1>1. /\ pc = "insert" /\ pc \in ViewSteps /\ req.who \in Accounts
      /\ req.kind \in WorkspaceViews /\ req.kind \notin JobViews /\ req.kind # "switch"
      /\ req \in Request /\ req.ws \in Orgs
  BY DEF insert_job, ViewSteps, OutcomeInv, IInv, TypeOK, WellPlaced, Staged,
         WorkspaceSteps, WorkspaceViews, JobViews
<1>2. ASSUME req.quiet, req.clean
      PROVE  /\ req.kind = "upload" /\ req.ws # NoOrg /\ ws[req.ws] # "absent"
             /\ user_may_write_workspace(req.who, req.ws)
             /\ req.ws \in tenant_isolation <=>
                   ~(req.made /\ req.who = "user" /\ site.postgres)
  <2>1. Knows("insert", req)
    BY <1>1, <1>2 DEF OutcomeInv, Informed
  <2>2. /\ req.kind = "upload" /\ req.ws # NoOrg /\ Usable(req.who, req.ws)
        /\ user_may_write_workspace(req.who, req.ws)
        /\ req.who = "user" /\ site.postgres =>
              conn.ids = IF req.made THEN {} ELSE active_membership_org_ids("user")
    BY <2>1 DEF Knows
  <2>3. req.who # "user" \/ ~site.postgres => conn.scope = "off"
    BY <1>1, <1>2 DEF OutcomeInv, CleanConnection
  <2>4. req.who = "user" /\ site.postgres => conn.scope = "on"
    BY <1>1 DEF OutcomeInv, IInv, ScopeInTenure
  <2> QED
    BY <1>1, <2>2, <2>3, <2>4 DEF Usable, tenant_isolation
<1>3. CASE Answer("refused", Listed) /\ ~(req.ws \in tenant_isolation /\ ws[req.ws] # "absent")
  <2>1. ASSUME req.quiet, req.clean PROVE Right("refused")
    BY <1>1, <1>2, <1>3, <2>1 DEF Right
  <2> QED
    BY <1>1, <1>3, <2>1, AnswerRight
<1>4. CASE /\ req.ws \in tenant_isolation
           /\ req' = [req EXCEPT !.out = "served", !.rows = {req.ws}]
           /\ pc' = IF site.postgres THEN "clear" ELSE "end"
           /\ UNCHANGED <<org, ws, mem, session, site, conn, upsets>>
  <2>1. /\ req'.who = req.who /\ req'.kind = req.kind /\ req'.target = req.target
        /\ req'.ws = req.ws /\ req'.made = req.made /\ req'.out = "served"
        /\ req'.quiet = req.quiet /\ req'.clean = req.clean
    BY <1>1, <1>4 DEF Request
  <2>2. CleanConnection'
    BY <1>1, <1>4, <2>1 DEF OutcomeInv, CleanConnection, ViewSteps
  <2>3. Staged'
    BY <1>1, <1>4, <2>1 DEF OutcomeInv, Staged, ViewSteps, Leaving, WorkspaceSteps
  <2>4. ASSUME req.quiet, req.clean PROVE Right(req.out)'
    BY <1>1, <1>2, <1>4, <2>1, <2>4 DEF Right, user_may_write_workspace, HasAcl
  <2>5. Informed'
    BY <1>4, <2>1, <2>4 DEF Informed, ViewSteps, Leaving
  <2> QED
    BY <2>2, <2>3, <2>5
<1> QED
  BY <1>3, <1>4 DEF insert_job

\* A failed statement or a refused submission takes the promise back, and so
\* does a change made elsewhere.
LEMMA Right_submit_fails == ASSUME OutcomeInv, submit_fails
                            PROVE  CleanConnection' /\ Staged' /\ Informed'
<1>1. /\ pc = "insert" /\ pc' = IF site.postgres THEN "clear" ELSE "end"
      /\ UNCHANGED <<site, conn>>
      /\ req'.who = req.who /\ req'.kind = req.kind /\ req'.clean = FALSE
  BY DEF submit_fails, OutcomeInv, IInv, TypeOK, Request
<1> QED
  BY <1>1 DEF OutcomeInv, CleanConnection, Staged, Informed, ViewSteps, Leaving,
              WorkspaceSteps

LEMMA Right_fault == ASSUME OutcomeInv, fault
                     PROVE  CleanConnection' /\ Staged' /\ Informed'
<1>1. /\ pc # "idle" /\ pc' \in {"clear", "end"} /\ conn'.hit = TRUE
      /\ req'.who = req.who /\ req'.kind = req.kind /\ req'.clean = FALSE
  BY DEF fault, OutcomeInv, IInv, TypeOK, Request
<1> QED
  BY <1>1 DEF OutcomeInv, CleanConnection, Staged, Informed, ViewSteps, Leaving,
              WorkspaceSteps

LEMMA Right_edit == ASSUME OutcomeInv, Edit
                    PROVE  CleanConnection' /\ Staged' /\ Informed'
<1>1. UNCHANGED <<site, conn, pc>> /\ Noticed
  BY DEF Edit, edit_organization, edit_membership, edit_workspace, new_organization,
         Elsewhere
<1>2. CASE pc = "idle"
  <2>1. req' = req
    BY <1>1, <1>2 DEF Noticed
  <2> QED
    BY <1>1, <1>2, <2>1
       DEF OutcomeInv, CleanConnection, Staged, Informed, ViewSteps, Leaving, WorkspaceSteps
<1>3. CASE pc # "idle"
  <2>1. /\ req'.who = req.who /\ req'.kind = req.kind /\ req'.made = req.made
        /\ req'.clean = req.clean /\ req'.quiet = FALSE
    BY <1>1, <1>3 DEF Noticed, OutcomeInv, IInv, TypeOK, Request
  <2> QED
    BY <1>1, <2>1 DEF OutcomeInv, CleanConnection, Staged, Informed
<1> QED
  BY <1>2, <1>3

LEMMA Right_begin ==
  ASSUME OutcomeInv, NEW a \in Accounts \union {"anon"}, NEW k \in Kinds,
         NEW o \in Orgs \union {NoOrg}, begin(a, k, o)
  PROVE  CleanConnection' /\ Staged' /\ Informed'
<1>1. /\ req'.who = a /\ req'.kind = k /\ req'.made = FALSE /\ req'.clean = ~conn.hit
      /\ a = "anon" => k = "page"
      /\ pc = "idle" /\ pc' = "login" /\ conn' = conn
  BY DEF begin, NoRequest
<1> QED
  BY <1>1 DEF OutcomeInv, CleanConnection, Staged, Informed, ViewSteps, Leaving,
              WorkspaceSteps

LEMMA Right_login_access == ASSUME OutcomeInv, login_access
                            PROVE  CleanConnection' /\ Staged' /\ Informed'
<1>1. /\ pc = "login" /\ UNCHANGED <<org, ws, mem, owner, session, site, conn>>
      /\ req \in Request /\ ~req.made /\ site.postgres \in BOOLEAN
      /\ ~conn.hit => conn.scope = "off"
  BY DEF login_access, tables, OutcomeInv, IInv, TypeOK, Staged, Leaving, CleanConnection,
         ViewSteps
<1>2. CASE req.who = "user" /\ ~site.staff /\ ~user_has_login_access("user")
  <2>1. /\ pc' = "end" /\ req'.who = req.who /\ req'.kind = req.kind
        /\ req'.target = req.target /\ req'.out = "login" /\ req'.clean = req.clean
        /\ req'.ws = req.ws /\ req'.made = req.made
    BY <1>1, <1>2 DEF login_access, Request
  <2>2. Right("login")
    BY <1>2 DEF Right, JobAnswer, user_has_login_access
  <2>3. Right("login")' <=> Right("login")
    BY <1>1, <2>1, SameAnswer
  <2>4. Right(req.out)'
    BY <2>1, <2>2, <2>3 DEF Right
  <2> QED
    BY <1>1, <2>1, <2>4
       DEF OutcomeInv, CleanConnection, Staged, Informed, ViewSteps, Leaving, WorkspaceSteps
<1>3. CASE ~(req.who = "user" /\ ~site.staff /\ ~user_has_login_access("user"))
  <2>1. req' = req /\ pc' = IF site.postgres THEN "orgs" ELSE "view"
    BY <1>3 DEF login_access
  <2>2. CleanConnection' /\ Staged'
    BY <1>1, <2>1 DEF OutcomeInv, CleanConnection, Staged, ViewSteps, Leaving, WorkspaceSteps
  <2>3. ~site.postgres => Knows("view", req)
    BY <1>1, <1>3 DEF Knows
  <2>4. Knows("view", req)' <=> Knows("view", req)
    BY <1>1, <2>1, SameKnowledge DEF Knows, Usable
  <2>5. user_has_login_access("user")' <=> user_has_login_access("user")
    BY <1>1 DEF user_has_login_access, active_membership_org_ids, organization_is_active
  <2>6. Informed'
    BY <1>1, <1>3, <2>1, <2>3, <2>4, <2>5 DEF Informed, ViewSteps, Leaving
  <2> QED
    BY <2>2, <2>6
<1> QED
  BY <1>2, <1>3

LEMMA Right_read_org_ids == ASSUME OutcomeInv, read_org_ids
                            PROVE  CleanConnection' /\ Staged' /\ Informed'
<1>1. /\ pc = "orgs" /\ UNCHANGED <<org, ws, mem, owner, site, conn>>
      /\ req \in Request /\ ~req.made
      /\ ~conn.hit => conn.scope = "off"
  BY DEF read_org_ids, tables, OutcomeInv, IInv, TypeOK, Staged, Leaving, CleanConnection,
         ViewSteps
<1>2. /\ user_has_login_access("user")' <=> user_has_login_access("user")
      /\ active_membership_org_ids("user")' = active_membership_org_ids("user")
  BY <1>1 DEF user_has_login_access, active_membership_org_ids, organization_is_active
<1>3. CASE req.who = "user"
  <2>1. /\ pc' = "scope" /\ req'.who = req.who /\ req'.kind = req.kind
        /\ req'.made = req.made /\ req'.quiet = req.quiet /\ req'.clean = req.clean
        /\ req'.ids = active_membership_org_ids("user")
    BY <1>1, <1>3 DEF read_org_ids, request_org_ids, Request
  <2>2. site.postgres
    BY <1>1 DEF OutcomeInv, Staged
  <2> QED
    BY <1>1, <1>2, <1>3, <2>1, <2>2
       DEF OutcomeInv, CleanConnection, Staged, Informed, ViewSteps, Leaving, WorkspaceSteps
<1>4. CASE req.who # "user"
  <2>1. pc' = "view" /\ req' = req
    BY <1>4 DEF read_org_ids
  <2>2. CleanConnection' /\ Staged'
    BY <1>1, <1>4, <2>1
       DEF OutcomeInv, CleanConnection, Staged, ViewSteps, Leaving, WorkspaceSteps
  <2>3. Knows("view", req)'
    BY <1>4, <2>1 DEF Knows
  <2> QED
    BY <2>1, <2>2, <2>3 DEF Informed, ViewSteps, Leaving
<1> QED
  BY <1>3, <1>4

LEMMA Right_connection ==
  ASSUME OutcomeInv, apply_scope \/ apply_ids \/ clear_scope \/ clear_ids \/ reconnect
  PROVE  CleanConnection' /\ Staged' /\ Informed'
<1>1. /\ UNCHANGED <<org, ws, mem, owner, site, req>>
      /\ conn \in [scope: {"off", "on"}, ids: SUBSET Orgs, hit: BOOLEAN]
  BY DEF apply_scope, apply_ids, clear_scope, clear_ids, reconnect, tables, OutcomeInv,
         IInv, TypeOK
<1>2. /\ user_has_login_access("user")' <=> user_has_login_access("user")
      /\ active_membership_org_ids("user")' = active_membership_org_ids("user")
  BY <1>1 DEF user_has_login_access, active_membership_org_ids, organization_is_active
<1>3. Right(req.out)' <=> Right(req.out)
  BY <1>1, SameAnswer DEF Right
<1> USE DEF OutcomeInv, CleanConnection, Staged, Informed, ViewSteps, Leaving, WorkspaceSteps
<1>4. CASE apply_scope
  <2>1. pc = "scope" /\ pc' = "ids" /\ conn'.hit = conn.hit
    BY <1>1, <1>4 DEF apply_scope
  <2> QED
    BY <1>1, <1>2, <2>1
<1>5. CASE apply_ids
  <2>1. /\ pc = "ids" /\ pc' = "view" /\ conn'.hit = conn.hit /\ conn'.ids = req.ids
        /\ ~req.made
    BY <1>1, <1>5 DEF apply_ids
  <2>2. CleanConnection' /\ Staged'
    BY <1>1, <2>1
  <2>3. ASSUME req.quiet, req.clean PROVE Knows("view", req)'
    BY <1>1, <1>2, <2>1, <2>3 DEF Knows
  <2> QED
    BY <1>1, <2>1, <2>2, <2>3
<1>6. CASE clear_scope
  <2>1. pc = "clear" /\ pc' = "clear_ids" /\ conn'.hit = conn.hit /\ conn'.scope = "off"
    BY <1>1, <1>6 DEF clear_scope, ClearedScope
  <2> QED
    BY <1>1, <1>3, <2>1
<1>7. CASE clear_ids
  <2>1. pc = "clear_ids" /\ pc' = "end" /\ ~conn'.hit /\ conn'.scope = "off"
    BY <1>1, <1>7 DEF clear_ids
  <2> QED
    BY <1>1, <1>3, <2>1
<1>8. CASE reconnect
  <2>1. pc = "idle" /\ pc' = "idle" /\ conn'.scope = "off"
    BY <1>8 DEF reconnect, NewConnection
  <2> QED
    BY <1>1, <2>1
<1> QED
  BY <1>4, <1>5, <1>6, <1>7, <1>8

LEMMA Right_finish == ASSUME OutcomeInv, finish
                      PROVE  CleanConnection' /\ Staged' /\ Informed'
<1>1. pc = "end" /\ pc' = "idle" /\ conn' = conn /\ req'.made = FALSE
  BY DEF finish, NoRequest
<1> QED
  BY <1>1 DEF OutcomeInv, CleanConnection, Staged, Informed, ViewSteps, Leaving,
              WorkspaceSteps

LEMMA Right_init == Init => OutcomeInv
<1> SUFFICES ASSUME Init PROVE OutcomeInv
  OBVIOUS
<1>1. pc = "idle" /\ req.made = FALSE /\ conn.scope = "off"
  BY DEF Init, NoRequest, NewConnection
<1> QED
  BY <1>1, Inv_init DEF OutcomeInv, CleanConnection, Staged, Informed, ViewSteps, Leaving,
                        WorkspaceSteps

LEMMA Right_next == OutcomeInv /\ [Next]_vars => OutcomeInv'
<1> SUFFICES ASSUME OutcomeInv, [Next]_vars PROVE CleanConnection' /\ Staged' /\ Informed'
  BY Inv_next DEF OutcomeInv
<1>1. CASE UNCHANGED vars
  <2>1. UNCHANGED <<org, ws, mem, owner, site, conn, pc, req>>
    BY <1>1 DEF vars
  <2>2. CleanConnection' /\ Staged'
    BY <2>1 DEF OutcomeInv, CleanConnection, Staged
  <2>3. Right(req.out)' <=> Right(req.out)
    BY <2>1, SameAnswer DEF Right
  <2>4. Knows(pc, req)' <=> Knows(pc, req)
    BY <2>1, SameKnowledge DEF Knows, Usable
  <2>5. /\ user_has_login_access("user")' <=> user_has_login_access("user")
        /\ active_membership_org_ids("user")' = active_membership_org_ids("user")
    BY <2>1 DEF user_has_login_access, active_membership_org_ids, organization_is_active
  <2> QED
    BY <2>1, <2>2, <2>3, <2>4, <2>5 DEF OutcomeInv, Informed
<1>2. CASE Edit
  BY <1>2, Right_edit
<1>3. CASE Step
  BY <1>3, Right_begin, Right_login_access, Right_read_org_ids, Right_connection,
     Right_visitor, Right_fetch_job, Right_fetch_workspace, Right_check_acl,
     Right_serve_job, Right_session_workspace, Right_session_access,
     Right_ensure_personal_workspace, Right_any_membership, Right_submit_fails,
     Right_create_personal, Right_use_workspace, Right_insert_job, Right_finish,
     Right_fault
     DEF Step
<1> QED
  BY <1>1, <1>2, <1>3 DEF Next

\* For any organizations, roles and access lists, whatever earlier requests left
\* in the connection: unless the tables change or a statement fails under it, a
\* request gets exactly the answer that the tables call for.
THEOREM QuietOutcomeHolds == Spec => []QuietOutcome
<1>1. OutcomeInv => QuietOutcome
  BY DEF OutcomeInv, Informed, QuietOutcome, Right, Leaving
<1> QED
  BY <1>1, Right_init, Right_next, PTL DEF Spec

=============================================================================
