------------------------------- MODULE Access -------------------------------
(***************************************************************************)
(* Who may do what: accounts, sessions, organizations, memberships and API *)
(* keys of the control plane (services/api), the principal a request is    *)
(* resolved to, and the two doors an API key opens, the control plane and  *)
(* the gateway's public endpoint.                                          *)
(*                                                                         *)
(* A user is an e-mail address.  An organization, a session or a key is    *)
(* named after the request that creates it.  A principal is resolved in    *)
(* two transactions and then frozen; the handler's own transaction comes   *)
(* after both.  What a handler has written and not committed is in its     *)
(* phase "written", and holds the locks of the rows it touched.  Failed    *)
(* transactions, and instances that die, roll back.                        *)
(*                                                                         *)
(* No operation deactivates a user or an organization, removes a member or *)
(* changes a role.  Slugs, names, passwords and last-used times are left   *)
(* out, and which of a user's organizations a sign-in picks is left open.  *)
(***************************************************************************)
EXTENDS Naturals, FiniteSets, Policy

CONSTANTS
    Users,          \* e-mail addresses
    Requests,       \* requests; also what they create
    Workloads,      \* the kinds of request that may be made together
    OfferedRoles,   \* the roles members are added with
    OfferedModes,   \* the modes asked of organizations, keys and the gateway
    None,           \* absent
    Pool,           \* connections (pool_size + max_overflow)
    MaxConcurrent,  \* bound: requests under way at a time
    Expiring,       \* the sessions that may expire
    Disturbances    \* whether the "database" may fail

SessionKind ==
    {"create_organization", "switch_organization", "add_member",
     "create_api_key", "revoke_api_key", "update_organization"}
Kind == SessionKind \cup {"register", "login", "logout", "use_api_key", "call_gateway"}

\* The order of roles.
ROLE_ORDER ==
    [viewer |-> 0, billing |-> 1, member |-> 2, admin |-> 3, owner |-> 4]
Role == DOMAIN ROLE_ORDER

\* What is recorded in the audit log.
Action ==
    {"user.registered", "user.signed_in", "organization.created", "organization.updated",
     "member.added", "api_key.created", "api_key.revoked"}

ASSUME AccessAssumption ==
    /\ Workloads \subseteq [Requests -> Kind]
    /\ OfferedRoles \subseteq Role
    /\ OfferedModes \subseteq ExecutionMode
    /\ None \notin Users \cup Requests \cup Role \cup ExecutionMode \cup Action
    /\ Pool \in Nat \ {0} /\ MaxConcurrent \in Nat \ {0}
    /\ Disturbances \subseteq {"database"}

VARIABLES
    kind,           \* what each request asks for
    users,          \* core.users
    role,           \* core.organization_members: role[o][u]
    default_mode,   \* core.organizations
    session,        \* core.sessions
    key,            \* core.api_keys
    audit,          \* core.audit_events: the one event a request may record
    request         \* the requests and their principals

accessVars == <<kind, users, role, default_mode, session, key, audit, request>>

\* revoked_at is set, or expires_at has passed.
Session ==
    [user : Users \cup {None}, org : Requests \cup {None},
     revoked : BOOLEAN, expired : BOOLEAN]
NoSession == [user |-> None, org |-> None, revoked |-> FALSE, expired |-> FALSE]

ApiKey ==
    [org : Requests \cup {None}, created_by : Users \cup {None},
     mode_ceiling : ExecutionMode \cup {None}, revoked : BOOLEAN]
NoKey == [org |-> None, created_by |-> None, mode_ceiling |-> None, revoked |-> FALSE]

AuditEvent ==
    [action : Action \cup {None}, org : Requests \cup {None},
     actor : Users \cup {None}, subject : Users \cup Requests]
NoEvent(r) == [action |-> None, org |-> None, actor |-> None, subject |-> r]

\* A request: its principal (whom, org, role, token), what it is about and the
\* role or mode it gives.  A switch that reads its session again keeps as org
\* what it reads.
RequestState ==
    [phase : {"new", "checked", "known", "resolved", "admitted", "reread", "permitted",
              "written", "done", "failed"},
     whom : Users \cup {None}, org : Requests \cup {None}, role : Role \cup {None},
     token : Requests \cup {None}, subject : Users \cup Requests \cup {None},
     value : Role \cup ExecutionMode \cup {None}]
Blank ==
    [phase |-> "new", whom |-> None, org |-> None, role |-> None,
     token |-> None, subject |-> None, value |-> None]

\* The tables and their keys: one user to an address, one role to a member.
Tables ==
    /\ users \in SUBSET Users
    /\ role \in [Requests -> [Users -> Role \cup {None}]]
    /\ default_mode \in [Requests -> ExecutionMode]
    /\ session \in [Requests -> Session]
    /\ key \in [Requests -> ApiKey]
    /\ audit \in [Requests -> AuditEvent]

\* Types: what is stored fits the schema, whatever the handlers make of it.
AccessTypeOK ==
    /\ kind \in [Requests -> Kind]
    /\ Tables
    /\ request \in [Requests -> RequestState]

-----------------------------------------------------------------------------
role_at_least(given, required) ==
    given # None /\ ROLE_ORDER[given] >= ROLE_ORDER[required]

\* A session that authenticates, and a key that does: at the control plane, and
\* at the gateway, which asks the same function of the database.
Valid(s) == session[s].user # None /\ ~session[s].revoked /\ ~session[s].expired
Usable(k) == key[k].org # None /\ ~key[k].revoked
UsableAtTheGateway(k) == key[k].org # None /\ ~key[k].revoked

\* The settings a transaction runs under, and row-level security on memberships:
\* those of its organization, and those of its user.
Scope(organization_id, user_id) == [org |-> organization_id, user |-> user_id]
Membership(scope, o, u) == IF scope.org = o \/ scope.user = u THEN role[o][u] ELSE None
IsMember(scope, o, u) == Membership(scope, o, u) # None

\* Requests with a connection: inside a transaction, or with the tenant's
\* transaction open before the handler's first statement.
Connected ==
    {r \in Requests :
        \/ request[r].phase \in {"checked", "reread", "permitted", "written"}
        \/ request[r].phase = "admitted" /\ kind[r] \in
              {"add_member", "create_api_key", "revoke_api_key", "update_organization"}}
FreeConnection == Cardinality(Connected) < Pool

UnderWay == {r \in Requests : request[r].phase \notin {"new", "done", "failed"}}
MayStart(r) ==
    /\ request[r].phase = "new"
    /\ Cardinality(UnderWay) < MaxConcurrent
    /\ FreeConnection

\* Another request has written the same row and not committed.
Writing(k, r) == kind[r] = k /\ request[r].phase = "written"

Ended(r, phase) == request' = [request EXCEPT ![r] = [Blank EXCEPT !.phase = phase]]

Recorded(r, action, org, actor, subject) ==
    audit' = [audit EXCEPT ![r] =
                 [action |-> action, org |-> org, actor |-> actor, subject |-> subject]]

-----------------------------------------------------------------------------
\* register: one transaction, in which the address is looked up ...
CheckEmail(r, u) ==
    /\ kind[r] = "register"
    /\ MayStart(r)
    /\ u \notin users
    /\ request' = [request EXCEPT ![r] = [Blank EXCEPT !.phase = "checked", !.whom = u]]
    /\ UNCHANGED <<kind, users, role, default_mode, session, key, audit>>

\* Mutant of InsertUser: the address has no unique index.
InsertUserTwice(r) ==
    /\ kind[r] = "register"
    /\ request[r].phase = "checked"
    /\ request' = [request EXCEPT ![r].phase = "written"]
    /\ UNCHANGED <<kind, users, role, default_mode, session, key, audit>>

\* ... and inserted, with its organization, its membership and a session.  The
\* INSERT waits for another of the same address and fails on its commit.
InsertUser(r) ==
    LET u == request[r].whom IN
    /\ kind[r] = "register"
    /\ request[r].phase = "checked"
    /\ ~\E q \in Requests : Writing("register", q) /\ request[q].whom = u
    /\ IF u \in users THEN Ended(r, "failed")
       ELSE request' = [request EXCEPT ![r].phase = "written"]
    /\ UNCHANGED <<kind, users, role, default_mode, session, key, audit>>

CommitRegister(r) ==
    LET u == request[r].whom IN
    /\ Writing("register", r)
    /\ users' = users \cup {u}
    /\ role' = [role EXCEPT ![r][u] = "owner"]
    /\ session' = [session EXCEPT ![r] = [NoSession EXCEPT !.user = u, !.org = r]]
    /\ Recorded(r, "user.registered", r, u, u)
    /\ Ended(r, "done")
    /\ UNCHANGED <<kind, default_mode, key>>

\* login: a transaction that checks the password, and one that reads the
\* memberships and starts a session in the first of them.
Authenticate(r, u) ==
    /\ kind[r] = "login"
    /\ MayStart(r)
    /\ u \in users
    /\ request' = [request EXCEPT ![r] = [Blank EXCEPT !.phase = "known", !.whom = u]]
    /\ UNCHANGED <<kind, users, role, default_mode, session, key, audit>>

StartSession(r, o) ==
    /\ request[r].phase = "known"
    /\ FreeConnection
    /\ IsMember(Scope(None, request[r].whom), o, request[r].whom)
    /\ request' = [request EXCEPT ![r].phase = "written", ![r].org = o]
    /\ UNCHANGED <<kind, users, role, default_mode, session, key, audit>>

CommitLogin(r) ==
    LET p == request[r] IN
    /\ Writing("login", r)
    /\ session' = [session EXCEPT ![r] = [NoSession EXCEPT !.user = p.whom, !.org = p.org]]
    /\ Recorded(r, "user.signed_in", p.org, p.whom, r)
    /\ Ended(r, "done")
    /\ UNCHANGED <<kind, users, role, default_mode, key>>

\* A switch holds its session's row from the UPDATE on, which an unchanged
\* organization does without.
Switches(r) == request[r].org # request[r].subject
SessionLocked(s) ==
    \E q \in Requests :
        Writing("switch_organization", q) /\ request[q].token = s /\ Switches(q)

\* logout: one UPDATE by the token, which asks for no principal.
RevokeSession(r, s) ==
    /\ kind[r] = "logout"
    /\ MayStart(r)
    /\ session[s].user # None
    /\ ~SessionLocked(s)
    /\ session' = [session EXCEPT ![s].revoked = TRUE]
    /\ Ended(r, "done")
    /\ UNCHANGED <<kind, users, role, default_mode, key, audit>>

Expire(s) ==
    /\ s \in Expiring
    /\ Valid(s)
    /\ session' = [session EXCEPT ![s].expired = TRUE]
    /\ UNCHANGED <<kind, users, role, default_mode, key, audit, request>>

-----------------------------------------------------------------------------
\* require_principal with a cookie: the session and its organization are read
\* in one transaction, the role in the next.
ResolveSession(r, s) ==
    /\ kind[r] \in SessionKind
    /\ MayStart(r)
    /\ Valid(s)
    /\ request' = [request EXCEPT ![r] =
                      [Blank EXCEPT !.phase = "resolved", !.whom = session[s].user,
                                    !.org = session[s].org, !.token = s]]
    /\ UNCHANGED <<kind, users, role, default_mode, session, key, audit>>

RequireMembership(r) ==
    LET p == request[r] IN
    /\ kind[r] \in SessionKind
    /\ p.phase = "resolved"
    /\ FreeConnection
    /\ IsMember(Scope(p.org, p.whom), p.org, p.whom)
    /\ request' = [request EXCEPT ![r].phase = "admitted",
                      ![r].role = Membership(Scope(p.org, p.whom), p.org, p.whom)]
    /\ UNCHANGED <<kind, users, role, default_mode, session, key, audit>>

\* The role each handler requires of its principal; a switch requires none.
Required(k) == IF k = "create_organization" THEN "member" ELSE "admin"

Admitted(r, k) ==
    /\ kind[r] = k
    /\ request[r].phase = "admitted"
    /\ role_at_least(request[r].role, Required(k))

RefuseRole(r) ==
    /\ kind[r] \in SessionKind \ {"switch_organization"}
    /\ request[r].phase = "admitted"
    /\ ~role_at_least(request[r].role, Required(kind[r]))
    /\ Ended(r, "failed")
    /\ UNCHANGED <<kind, users, role, default_mode, session, key, audit>>

-----------------------------------------------------------------------------
\* switch_organization, in a transaction of its own: the session is read again,
\* and no lock is taken ...
ResolveAgain(r, o) ==
    LET p == request[r] IN
    /\ kind[r] = "switch_organization"
    /\ p.phase = "admitted"
    /\ FreeConnection
    /\ IF Valid(p.token)
       THEN request' = [request EXCEPT ![r].phase = "reread", ![r].subject = o,
                                       ![r].org = session[p.token].org, ![r].role = None]
       ELSE Ended(r, "failed")
    /\ UNCHANGED <<kind, users, role, default_mode, session, key, audit>>

\* Mutant of RequireNewMembership: nobody looks for the membership.
SwitchAnywhere(r) ==
    /\ kind[r] = "switch_organization"
    /\ request[r].phase = "reread"
    /\ request' = [request EXCEPT ![r].phase = "permitted"]
    /\ UNCHANGED <<kind, users, role, default_mode, session, key, audit>>

\* ... the membership is looked for ...
RequireNewMembership(r) ==
    LET p == request[r] IN
    /\ kind[r] = "switch_organization"
    /\ p.phase = "reread"
    /\ IF IsMember(Scope(None, p.whom), p.subject, p.whom)
       THEN request' = [request EXCEPT ![r].phase = "permitted"]
       ELSE Ended(r, "failed")
    /\ UNCHANGED <<kind, users, role, default_mode, session, key, audit>>

\* ... and the next statement flushes the UPDATE of the row, by its identifier:
\* it waits for another switch, and does not ask whether the session has ended.
FlushSwitch(r) ==
    /\ kind[r] = "switch_organization"
    /\ request[r].phase = "permitted"
    /\ Switches(r) => ~SessionLocked(request[r].token)
    /\ request' = [request EXCEPT ![r].phase = "written"]
    /\ UNCHANGED <<kind, users, role, default_mode, session, key, audit>>

\* Mutant of CommitSwitch: the whole row is written, as it was read.
CommitSwitchWholeRow(r) ==
    LET p == request[r] IN
    /\ Writing("switch_organization", r)
    /\ session' = IF Switches(r)
                  THEN [session EXCEPT ![p.token].org = p.subject, ![p.token].revoked = FALSE]
                  ELSE session
    /\ Ended(r, "done")
    /\ UNCHANGED <<kind, users, role, default_mode, key, audit>>

\* It writes the organization and nothing else.
CommitSwitch(r) ==
    LET p == request[r] IN
    /\ Writing("switch_organization", r)
    /\ session' = IF Switches(r) THEN [session EXCEPT ![p.token].org = p.subject]
                  ELSE session
    /\ Ended(r, "done")
    /\ UNCHANGED <<kind, users, role, default_mode, key, audit>>

\* create_organization, in a transaction of its own.
CreateOrganization(r) ==
    /\ Admitted(r, "create_organization")
    /\ FreeConnection
    /\ request' = [request EXCEPT ![r].phase = "written"]
    /\ UNCHANGED <<kind, users, role, default_mode, session, key, audit>>

CommitOrganization(r) ==
    LET p == request[r] IN
    /\ Writing("create_organization", r)
    /\ role' = [role EXCEPT ![r][p.whom] = "owner"]
    /\ Recorded(r, "organization.created", r, p.whom, r)
    /\ Ended(r, "done")
    /\ UNCHANGED <<kind, users, default_mode, session, key>>

-----------------------------------------------------------------------------
\* add_member: the account is looked up over a second connection, and its
\* membership over the tenant's own ...
LookUpMember(r, u, given) ==
    LET p == request[r] IN
    /\ Admitted(r, "add_member")
    /\ FreeConnection
    /\ IF u \in users /\ ~IsMember(Scope(p.org, p.whom), p.org, u)
       THEN request' = [request EXCEPT ![r].phase = "checked",
                                       ![r].subject = u, ![r].value = given]
       ELSE Ended(r, "failed")
    /\ UNCHANGED <<kind, users, role, default_mode, session, key, audit>>

\* ... and the row is inserted, which waits for another of the same member and
\* fails on its commit.
InsertMember(r) ==
    LET p == request[r] IN
    /\ kind[r] = "add_member"
    /\ p.phase = "checked"
    /\ ~\E q \in Requests : /\ Writing("add_member", q)
                            /\ request[q].org = p.org /\ request[q].subject = p.subject
    /\ IF role[p.org][p.subject] # None THEN Ended(r, "failed")
       ELSE request' = [request EXCEPT ![r].phase = "written"]
    /\ UNCHANGED <<kind, users, role, default_mode, session, key, audit>>

CommitMember(r) ==
    LET p == request[r] IN
    /\ Writing("add_member", r)
    /\ role' = [role EXCEPT ![p.org][p.subject] = p.value]
    /\ Recorded(r, "member.added", p.org, p.whom, p.subject)
    /\ Ended(r, "done")
    /\ UNCHANGED <<kind, users, default_mode, session, key>>

CreateKey(r, ceiling) ==
    /\ Admitted(r, "create_api_key")
    /\ request' = [request EXCEPT ![r].phase = "written", ![r].value = ceiling]
    /\ UNCHANGED <<kind, users, role, default_mode, session, key, audit>>

\* Mutant of CommitKey: the session's organization is read again.
CommitKeyForTheSession(r) ==
    LET p == request[r]
        o == session[p.token].org IN
    /\ Writing("create_api_key", r)
    /\ key' = [key EXCEPT ![r] = [org |-> o, created_by |-> p.whom,
                                  mode_ceiling |-> p.value, revoked |-> FALSE]]
    /\ Recorded(r, "api_key.created", o, p.whom, r)
    /\ Ended(r, "done")
    /\ UNCHANGED <<kind, users, role, default_mode, session>>

\* The key belongs to the organization of the principal.
CommitKey(r) ==
    LET p == request[r] IN
    /\ Writing("create_api_key", r)
    /\ key' = [key EXCEPT ![r] = [org |-> p.org, created_by |-> p.whom,
                                  mode_ceiling |-> p.value, revoked |-> FALSE]]
    /\ Recorded(r, "api_key.created", p.org, p.whom, r)
    /\ Ended(r, "done")
    /\ UNCHANGED <<kind, users, role, default_mode, session>>

KeyLocked(k) == \E q \in Requests : Writing("revoke_api_key", q) /\ request[q].subject = k

\* Mutant of RevokeKey: WHERE revoked_at IS NULL is left out.
RevokeKeyAgain(r, k) ==
    LET p == request[r] IN
    /\ Admitted(r, "revoke_api_key")
    /\ ~KeyLocked(k)
    /\ IF key[k].org = p.org
       THEN request' = [request EXCEPT ![r].phase = "written", ![r].subject = k]
       ELSE Ended(r, "failed")
    /\ UNCHANGED <<kind, users, role, default_mode, session, key, audit>>

\* UPDATE ... WHERE revoked_at IS NULL, which waits for the row; none updated
\* means none found.
RevokeKey(r, k) ==
    LET p == request[r] IN
    /\ Admitted(r, "revoke_api_key")
    /\ ~KeyLocked(k)
    /\ IF key[k].org = p.org /\ ~key[k].revoked
       THEN request' = [request EXCEPT ![r].phase = "written", ![r].subject = k]
       ELSE Ended(r, "failed")
    /\ UNCHANGED <<kind, users, role, default_mode, session, key, audit>>

CommitRevoke(r) ==
    LET p == request[r] IN
    /\ Writing("revoke_api_key", r)
    /\ key' = [key EXCEPT ![p.subject].revoked = TRUE]
    /\ Recorded(r, "api_key.revoked", p.org, p.whom, p.subject)
    /\ Ended(r, "done")
    /\ UNCHANGED <<kind, users, role, default_mode, session>>

\* update_current_organization: what was read is remembered, for an unchanged
\* column is not written.
SetMode(r, m) ==
    /\ Admitted(r, "update_organization")
    /\ request' = [request EXCEPT ![r].phase = "written", ![r].value =
                      IF default_mode[request[r].org] = m THEN None ELSE m]
    /\ UNCHANGED <<kind, users, role, default_mode, session, key, audit>>

\* Mutant of CommitMode: an unchanged column is written.
CommitModeUnread(r) ==
    LET p == request[r] IN
    /\ Writing("update_organization", r)
    /\ default_mode' = [default_mode EXCEPT ![p.org] = p.value]
    /\ Recorded(r, "organization.updated", p.org, p.whom, p.org)
    /\ Ended(r, "done")
    /\ UNCHANGED <<kind, users, role, session, key>>

CommitMode(r) ==
    LET p == request[r] IN
    /\ Writing("update_organization", r)
    /\ default_mode' = IF p.value = None THEN default_mode
                       ELSE [default_mode EXCEPT ![p.org] = p.value]
    /\ Recorded(r, "organization.updated", p.org, p.whom, p.org)
    /\ Ended(r, "done")
    /\ UNCHANGED <<kind, users, role, session, key>>

-----------------------------------------------------------------------------
\* An API key at the control plane: authenticated in one transaction, its last
\* use recorded in the next, which waits for a revocation of the row.
ResolveKey(r, k) ==
    /\ kind[r] = "use_api_key"
    /\ MayStart(r)
    /\ Usable(k)
    /\ request' = [request EXCEPT ![r] =
                      [Blank EXCEPT !.phase = "resolved", !.org = key[k].org, !.subject = k]]
    /\ UNCHANGED <<kind, users, role, default_mode, session, key, audit>>

\* effective_mode: the organization's mode, narrowed by the key's ceiling.
Narrowed(mode, ceiling) == IF ceiling = None THEN mode ELSE EffectiveMode(mode, ceiling)

Served(r, o, mode) ==
    request' = [request EXCEPT ![r] =
                   [Blank EXCEPT !.phase = "done", !.org = o, !.value = mode]]

TouchKey(r) ==
    LET p == request[r] IN
    /\ kind[r] = "use_api_key"
    /\ p.phase = "resolved"
    /\ FreeConnection
    /\ ~KeyLocked(p.subject)
    /\ Served(r, p.org, Narrowed(default_mode[p.org], key[p.subject].mode_ceiling))
    /\ UNCHANGED <<kind, users, role, default_mode, session, key, audit>>

\* The same key at the gateway: the mode the caller asks for, narrowed by the
\* ceiling.  The gateway has connections of its own.
CallGateway(r, k, asked) ==
    /\ kind[r] = "call_gateway"
    /\ request[r].phase = "new"
    /\ UsableAtTheGateway(k)
    /\ Served(r, key[k].org, Narrowed(asked, key[k].mode_ceiling))
    /\ UNCHANGED <<kind, users, role, default_mode, session, key, audit>>

-----------------------------------------------------------------------------
\* A transaction fails, or its instance dies, before it has committed.
LoseTransaction(r) ==
    /\ "database" \in Disturbances
    /\ request[r].phase \in {"checked", "reread", "permitted", "written"}
    /\ Ended(r, "failed")
    /\ UNCHANGED <<kind, users, role, default_mode, session, key, audit>>

\* Mutant of PoolTimeout: the pool has no timeout.
PoolWaitsForEver(r) == FALSE /\ UNCHANGED accessVars

\* Waiting for a connection ends with an error.
PoolTimeout(r) ==
    /\ ~FreeConnection
    /\ \/ request[r].phase \in {"known", "resolved"}
       \/ request[r].phase = "admitted" /\ kind[r] \in
             {"add_member", "create_organization", "switch_organization"}
    /\ Ended(r, "failed")
    /\ UNCHANGED <<kind, users, role, default_mode, session, key, audit>>

Init ==
    /\ kind \in Workloads
    /\ users = {}
    /\ role = [o \in Requests |-> [u \in Users |-> None]]
    /\ default_mode = [o \in Requests |-> "auto"]
    /\ session = [s \in Requests |-> NoSession]
    /\ key = [k \in Requests |-> NoKey]
    /\ audit = [r \in Requests |-> NoEvent(r)]
    /\ request = [r \in Requests |-> Blank]

Arrive(r) ==
    \/ \E u \in Users : CheckEmail(r, u) \/ Authenticate(r, u)
    \/ \E s \in Requests : RevokeSession(r, s) \/ ResolveSession(r, s)
    \/ \E k \in Requests : ResolveKey(r, k)
    \/ \E k \in Requests, asked \in OfferedModes : CallGateway(r, k, asked)

Handle(r) ==
    \/ InsertUser(r)
    \/ \E o \in Requests : StartSession(r, o)
    \/ RequireMembership(r)
    \/ RefuseRole(r)
    \/ \E o \in Requests : ResolveAgain(r, o)
    \/ RequireNewMembership(r)
    \/ FlushSwitch(r)
    \/ CreateOrganization(r)
    \/ \E u \in Users, given \in OfferedRoles : LookUpMember(r, u, given)
    \/ InsertMember(r)
    \/ \E ceiling \in OfferedModes \cup {None} : CreateKey(r, ceiling)
    \/ \E k \in Requests : RevokeKey(r, k)
    \/ \E m \in OfferedModes : SetMode(r, m)
    \/ TouchKey(r)
    \/ PoolTimeout(r)

Commit(r) ==
    \/ CommitRegister(r) \/ CommitLogin(r) \/ CommitSwitch(r) \/ CommitOrganization(r)
    \/ CommitMember(r) \/ CommitKey(r) \/ CommitRevoke(r) \/ CommitMode(r)

Next ==
    \/ \E r \in Requests : Arrive(r) \/ Handle(r) \/ Commit(r) \/ LoseTransaction(r)
    \/ \E s \in Requests : Expire(s)

Spec == Init /\ [][Next]_accessVars

\* As long as some handler may go on, some handler does; a wait for the pool
\* ends.  With finitely many requests that is enough for each.
FairSpec == Spec /\ WF_accessVars(\E r \in Requests : Handle(r) \/ Commit(r))

-----------------------------------------------------------------------------
(***************************************************************************)
(* No user without a tenant: every user owns an organization, every        *)
(* organization has an owner, and every session is in an organization its  *)
(* user is a member of, whatever it is switched to, by several requests    *)
(* and while it is signed out.       (identity.py:7-10, require_membership) *)
(***************************************************************************)
NobodyWithoutATenant ==
    /\ \A u \in users : \E o \in Requests : role[o][u] = "owner"
    /\ \A o \in Requests : (\E u \in Users : role[o][u] # None) =>
          \E u \in users : role[o][u] = "owner"
    /\ \A s \in Requests : session[s].user # None =>
          session[s].org # None /\ role[session[s].org][session[s].user] # None

(***************************************************************************)
(* An address is registered once: several registrations that found it free *)
(* (identity.py:87) leave one account and one event; one that is lost      *)
(* leaves neither, and the address is free for the next.                   *)
(***************************************************************************)
RegisteredOnce ==
    \A u \in Users :
        Cardinality({r \in Requests : /\ audit[r].action = "user.registered"
                                     /\ audit[r].actor = u}) = IF u \in users THEN 1 ELSE 0

(***************************************************************************)
(* Only admins administer: whoever is recorded to have added a member,     *)
(* issued or revoked a key or changed an organization is an admin of that  *)
(* organization, and so is whoever a key is issued by, although a session  *)
(* may be switched to another organization, where its user is less, while  *)
(* the request is under way.  (Principal.require_role)                     *)
(***************************************************************************)
OnlyAdminsAdminister ==
    /\ \A k \in Requests : key[k].org # None =>
          role_at_least(role[key[k].org][key[k].created_by], "admin")
    /\ \A r \in Requests :
          audit[r].action \in {"organization.updated", "member.added",
                               "api_key.created", "api_key.revoked"} =>
             role_at_least(role[audit[r].org][audit[r].actor], "admin")

(***************************************************************************)
(* Everything is accounted for, once: a membership, a key and a revocation *)
(* have each one audit event, of their own organization, however many      *)
(* requests for the same thing race or are lost; and no event tells of     *)
(* what did not happen.  (record_audit)                                    *)
(***************************************************************************)
Accounted(action, org, subject) ==
    Cardinality({r \in Requests : /\ audit[r].action \in action
                                  /\ audit[r].org = org /\ audit[r].subject = subject})

AccountedForOnce ==
    /\ \A o \in Requests, u \in Users :
          Accounted({"member.added"}, o, u)
             = IF role[o][u] # None /\ audit[o].actor # u THEN 1 ELSE 0
    /\ \A k, o \in Requests :
          /\ Accounted({"api_key.created"}, o, k) = IF key[k].org = o THEN 1 ELSE 0
          /\ Accounted({"api_key.revoked"}, o, k) =
                IF key[k].org = o /\ key[k].revoked THEN 1 ELSE 0

(***************************************************************************)
(* What has ended stays ended: a session that was revoked or has expired,  *)
(* and a key that was revoked, never come back, whatever was read of them  *)
(* before and is written after, a sign-out between the two included; a     *)
(* session keeps its user, a key all it was issued with, and an audit      *)
(* event is not rewritten.          (resolve_session, switch_organization) *)
(***************************************************************************)
EndedForGood ==
    [][/\ \A s \in Requests : session[s].user # None =>
             /\ session'[s].user = session[s].user
             /\ session[s].revoked => session'[s].revoked
             /\ session[s].expired => session'[s].expired
       /\ \A k \in Requests : key[k].org # None =>
             key'[k] \in {key[k], [key[k] EXCEPT !.revoked = TRUE]}
       /\ \A r \in Requests : audit[r].action # None => audit'[r] = audit[r]]_accessVars

(***************************************************************************)
(* Every request ends: rows that others have written and connections that  *)
(* others hold, the second one of add_member among them, are waited for,   *)
(* not for ever.                                                           *)
(***************************************************************************)
EveryRequestEnds ==
    UnderWay # {} ~> UnderWay = {}

=============================================================================
