---------------------------- MODULE AccessProofs ----------------------------
(***************************************************************************)
(* Theorems about module Access, for every set of users and requests,      *)
(* every workload, pool of connections and bound, and whatever fails.      *)
(***************************************************************************)
EXTENDS Access, TLAPS, FiniteSetTheorems

stored == <<kind, users, role, default_mode, session, key, audit>>

\* Phases of a request whose principal has been resolved.
Inside == {"resolved", "admitted", "reread", "permitted", "checked", "written"}

\* The kinds that a role is required for.
AdminKind == SessionKind \ {"create_organization", "switch_organization"}

\* What a request in state q has gone through to get there.
Reached(r, q) ==
    /\ q.phase = "checked" => kind[r] \in {"register", "add_member"}
    /\ q.phase = "known" => kind[r] = "login"
    /\ q.phase = "resolved" => kind[r] \in SessionKind \cup {"use_api_key"}
    /\ q.phase = "admitted" => kind[r] \in SessionKind
    /\ q.phase \in {"reread", "permitted"} => kind[r] = "switch_organization"
    /\ q.phase = "written" => kind[r] \in SessionKind \cup {"register", "login"}

\* Who it is for: the principal is a member, and is what it was resolved to,
\* once or, for a switch, again.
Principal(r, q) ==
    /\ kind[r] \in {"register", "login"} /\ q.phase \in {"checked", "known", "written"} =>
          q.whom \in Users
    /\ kind[r] = "login" /\ q.phase = "written" =>
          q.org \in Requests /\ role[q.org][q.whom] # None
    /\ kind[r] \in SessionKind /\ q.phase \in Inside =>
          /\ q.whom \in Users /\ q.org \in Requests /\ q.token \in Requests
          /\ role[q.org][q.whom] # None
          /\ session[q.token].user = q.whom
    /\ kind[r] \in SessionKind \ {"switch_organization"}
       /\ q.phase \in Inside \ {"resolved"} =>
          q.role = role[q.org][q.whom]
    /\ kind[r] \in AdminKind /\ q.phase \in {"checked", "written"} =>
          role_at_least(q.role, "admin")

\* What it is about to write is still to be written.
Intent(r, q) ==
    /\ kind[r] = "switch_organization" /\ q.phase \in {"reread", "permitted", "written"} =>
          q.subject \in Requests
    /\ kind[r] = "switch_organization" /\ q.phase \in {"permitted", "written"} =>
          role[q.subject][q.whom] # None
    /\ kind[r] = "add_member" /\ q.phase \in {"checked", "written"} =>
          q.subject \in users /\ q.subject \in Users /\ q.value \in Role
    /\ kind[r] = "add_member" /\ q.phase = "written" => role[q.org][q.subject] = None
    /\ kind[r] \in {"create_api_key", "update_organization"} /\ q.phase = "written" =>
          q.value \in ExecutionMode \cup {None}
    /\ kind[r] = "revoke_api_key" /\ q.phase = "written" =>
          /\ q.subject \in Requests
          /\ key[q.subject].org = q.org /\ ~key[q.subject].revoked
    /\ kind[r] = "use_api_key" /\ q.phase = "resolved" =>
          q.org \in Requests /\ q.subject \in Requests

\* Until it is done, nothing is named after it.
Unborn(r) ==
    /\ session[r] = NoSession /\ key[r] = NoKey /\ audit[r] = NoEvent(r)
    /\ \A u \in Users : role[r][u] = None

Sound(r, q) ==
    /\ Reached(r, q) /\ Principal(r, q) /\ Intent(r, q)
    /\ q.phase # "done" => Unborn(r)

\* Two requests that have both written have not written the same row.
Apart(r, q, x, p) ==
    q.phase = "written" /\ p.phase = "written" /\ kind[r] = kind[x] =>
        /\ kind[r] = "add_member" => q.org # p.org \/ q.subject # p.subject
        /\ kind[r] = "revoke_api_key" => q.subject # p.subject

Members == \A o \in Requests, u \in Users : role[o][u] # None => u \in users

\* Whoever is recorded to have done something is a user of an organization.
Authored ==
    /\ \A k \in Requests : key[k].org # None => key[k].created_by \in Users
    /\ \A r \in Requests : audit[r].action # None =>
          audit[r].actor \in Users /\ audit[r].org \in Requests

AccessInv ==
    /\ AccessTypeOK
    /\ \A r \in Requests : Sound(r, request[r])
    /\ \A r, x \in Requests : r # x => Apart(r, request[r], x, request[x])
    /\ Members /\ Authored
    /\ NobodyWithoutATenant
    /\ OnlyAdminsAdminister

\* What a step leaves as it was.
Kept ==
    /\ users \subseteq users'
    /\ \A o \in Requests, u \in Users : role[o][u] # None => role'[o][u] = role[o][u]
    /\ \A s \in Requests : session[s].user # None =>
          /\ session'[s].user = session[s].user
          /\ session[s].revoked => session'[s].revoked
          /\ session[s].expired => session'[s].expired
    /\ \A k \in Requests : key[k].org # None =>
          key'[k] \in {key[k], [key[k] EXCEPT !.revoked = TRUE]}
    /\ \A r \in Requests : audit[r].action # None => audit'[r] = audit[r]

-----------------------------------------------------------------------------
(***************************************************************************)
(* A step of one request that writes nothing: it is as sound as its new    *)
(* state is.                                                               *)
(***************************************************************************)
LEMMA QuietStep ==
    ASSUME AccessInv, NEW r \in Requests, NEW q \in RequestState,
           request' = [request EXCEPT ![r] = q], UNCHANGED stored,
           request[r].phase # "done",
           Reached(r, q), Principal(r, q), Intent(r, q),
           \A x \in Requests : x # r => Apart(r, q, x, request[x])
    PROVE  AccessInv' /\ Kept
<1>1. /\ AccessTypeOK
      /\ \A x \in Requests : Sound(x, request[x])
      /\ \A y, x \in Requests : y # x => Apart(y, request[y], x, request[x])
      /\ Members /\ Authored /\ NobodyWithoutATenant /\ OnlyAdminsAdminister
  BY DEF AccessInv
<1>2. /\ request' \in [Requests -> RequestState]
      /\ request'[r] = q
      /\ \A x \in Requests \ {r} : request'[x] = request[x]
  BY <1>1 DEF AccessTypeOK
<1>3. AccessTypeOK'
  BY <1>1, <1>2 DEF AccessTypeOK, Tables, stored
<1>4. ASSUME NEW x \in Requests PROVE Sound(x, request[x])'
  <2>1. CASE x = r
    <3>1. Unborn(r)
      BY <1>1 DEF Sound
    <3>2. Sound(r, q)
      BY <3>1 DEF Sound
    <3> QED BY <1>2, <2>1, <3>2
            DEF Sound, Reached, Principal, Intent, Unborn, stored
  <2>2. CASE x # r
    <3>1. Sound(x, request[x]) /\ request'[x] = request[x]
      BY <1>1, <1>2, <2>2
    <3> QED BY <3>1 DEF Sound, Reached, Principal, Intent, Unborn, stored
  <2> QED BY <2>1, <2>2
<1>5. ASSUME NEW y \in Requests, NEW x \in Requests, y # x
      PROVE  Apart(y, request[y], x, request[x])'
  <2>1. CASE y # r /\ x # r
    BY <1>1, <1>2, <1>5, <2>1 DEF Apart, stored
  <2>2. CASE y = r
    BY <1>2, <1>5, <2>2 DEF Apart, stored
  <2>3. CASE x = r
    BY <1>2, <1>5, <2>3 DEF Apart, stored
  <2> QED BY <2>1, <2>2, <2>3
<1>6. (Members /\ Authored /\ NobodyWithoutATenant /\ OnlyAdminsAdminister)'
  BY <1>1 DEF Members, Authored, NobodyWithoutATenant, OnlyAdminsAdminister, stored
<1>7. Kept
  BY DEF Kept, stored
<1> QED BY <1>3, <1>4, <1>5, <1>6, <1>7 DEF AccessInv

\* A request that fails, is served or is signed out is sound.
LEMMA EndStep ==
    ASSUME AccessInv, NEW r \in Requests, NEW q \in RequestState,
           q.phase \in {"done", "failed"},
           request' = [request EXCEPT ![r] = q], UNCHANGED stored,
           request[r].phase # "done"
    PROVE  AccessInv' /\ Kept
<1>1. Reached(r, q) /\ Principal(r, q) /\ Intent(r, q)
  BY DEF Reached, Principal, Intent, Inside
<1>2. \A x \in Requests : x # r => Apart(r, q, x, request[x])
  BY DEF Apart
<1> QED BY <1>1, <1>2, QuietStep

LEMMA BlankIsAState ==
    ASSUME NEW phase \in {"done", "failed"}
    PROVE  [Blank EXCEPT !.phase = phase] \in RequestState
  BY DEF Blank, RequestState

LEMMA FailedStep ==
    ASSUME AccessInv, NEW r \in Requests, Ended(r, "failed"), UNCHANGED stored,
           request[r].phase # "done"
    PROVE  AccessInv' /\ Kept
<1>1. [Blank EXCEPT !.phase = "failed"] \in RequestState
  BY BlankIsAState
<1>2. [Blank EXCEPT !.phase = "failed"].phase = "failed"
  BY DEF Blank
<1> QED BY <1>1, <1>2, EndStep DEF Ended

-----------------------------------------------------------------------------
(***************************************************************************)
(* The facts of a request that a step needs.                               *)
(***************************************************************************)
LEMMA FactsOf ==
    ASSUME AccessInv, NEW r \in Requests
    PROVE  /\ AccessTypeOK /\ request[r] \in RequestState
           /\ Reached(r, request[r]) /\ Principal(r, request[r]) /\ Intent(r, request[r])
           /\ request[r].phase # "done" => Unborn(r)
           /\ \A x \in Requests : x # r => Apart(r, request[r], x, request[x])
           /\ Members /\ Authored /\ NobodyWithoutATenant /\ OnlyAdminsAdminister
  BY DEF AccessInv, AccessTypeOK, Sound

LEMMA ArriveStep ==
    ASSUME AccessInv, NEW r \in Requests, UNCHANGED stored,
           \/ \E u \in Users : CheckEmail(r, u) \/ Authenticate(r, u)
           \/ \E s \in Requests : ResolveSession(r, s)
           \/ \E k \in Requests : ResolveKey(r, k)
    PROVE  AccessInv' /\ Kept
<1>1. AccessTypeOK /\ NobodyWithoutATenant
  BY FactsOf
<1>2. ASSUME NEW u \in Users, CheckEmail(r, u) \/ Authenticate(r, u)
      PROVE  AccessInv' /\ Kept
  <2>1. PICK phase \in {"checked", "known"} :
           /\ request' = [request EXCEPT ![r] = [Blank EXCEPT !.phase = phase, !.whom = u]]
           /\ phase = "checked" => kind[r] = "register"
           /\ phase = "known" => kind[r] = "login"
           /\ request[r].phase = "new"
    BY <1>2 DEF CheckEmail, Authenticate, MayStart
  <2>. SUFFICES ASSUME NEW q, q = [Blank EXCEPT !.phase = phase, !.whom = u]
                PROVE  AccessInv' /\ Kept
    OBVIOUS
  <2>2. /\ q \in RequestState /\ q.phase = phase /\ q.whom = u
    BY DEF Blank, RequestState
  <2>3. Reached(r, q) /\ Principal(r, q) /\ Intent(r, q)
    BY <2>1, <2>2 DEF Reached, Principal, Intent, Inside, SessionKind, AdminKind
  <2>4. \A x \in Requests : x # r => Apart(r, q, x, request[x])
    BY <2>2 DEF Apart
  <2> QED BY <2>1, <2>2, <2>3, <2>4, QuietStep
<1>3. ASSUME NEW s \in Requests, ResolveSession(r, s)
      PROVE  AccessInv' /\ Kept
  <2>. SUFFICES ASSUME NEW q,
                       q = [Blank EXCEPT !.phase = "resolved", !.whom = session[s].user,
                                         !.org = session[s].org, !.token = s]
                PROVE  AccessInv' /\ Kept
    OBVIOUS
  <2>1. /\ kind[r] \in SessionKind /\ request[r].phase = "new"
        /\ request' = [request EXCEPT ![r] = q]
        /\ session[s].user # None
    BY <1>3 DEF ResolveSession, MayStart, Valid
  <2>2. /\ session[s] \in Session
        /\ session[s].org # None /\ role[session[s].org][session[s].user] # None
    BY <1>1, <2>1 DEF AccessTypeOK, Tables, NobodyWithoutATenant
  <2>3. /\ q \in RequestState /\ q.phase = "resolved" /\ q.whom = session[s].user
        /\ q.org = session[s].org /\ q.token = s
    BY <2>2 DEF Blank, RequestState, Session
  <2>4. Reached(r, q) /\ Principal(r, q) /\ Intent(r, q)
    BY <2>1, <2>2, <2>3
       DEF Reached, Principal, Intent, Inside, SessionKind, AdminKind, Session
  <2>5. \A x \in Requests : x # r => Apart(r, q, x, request[x])
    BY <2>3 DEF Apart
  <2> QED BY <2>1, <2>3, <2>4, <2>5, QuietStep
<1>4. ASSUME NEW k \in Requests, ResolveKey(r, k)
      PROVE  AccessInv' /\ Kept
  <2>. SUFFICES ASSUME NEW q,
                       q = [Blank EXCEPT !.phase = "resolved", !.org = key[k].org,
                                         !.subject = k]
                PROVE  AccessInv' /\ Kept
    OBVIOUS
  <2>1. /\ kind[r] = "use_api_key" /\ request[r].phase = "new"
        /\ request' = [request EXCEPT ![r] = q]
        /\ key[k].org # None
    BY <1>4 DEF ResolveKey, MayStart, Usable
  <2>2. key[k] \in ApiKey
    BY <1>1 DEF AccessTypeOK, Tables
  <2>3. /\ q \in RequestState /\ q.phase = "resolved" /\ q.org \in Requests /\ q.subject = k
    BY <2>1, <2>2 DEF Blank, RequestState, ApiKey
  <2>4. Reached(r, q) /\ Principal(r, q) /\ Intent(r, q)
    BY <2>1, <2>3 DEF Reached, Principal, Intent, Inside, SessionKind, AdminKind
  <2>5. \A x \in Requests : x # r => Apart(r, q, x, request[x])
    BY <2>3 DEF Apart
  <2> QED BY <2>1, <2>3, <2>4, <2>5, QuietStep
<1> QED BY <1>2, <1>3, <1>4

\* The organization's mode, or the caller's, narrowed by a ceiling, is a mode.
LEMMA ServedStep ==
    ASSUME AccessInv, NEW r \in Requests, UNCHANGED stored,
           TouchKey(r) \/ \E k \in Requests, asked \in OfferedModes : CallGateway(r, k, asked)
    PROVE  AccessInv' /\ Kept
<1>1. AccessTypeOK /\ Intent(r, request[r])
  BY FactsOf
<1>2. \A mode \in ExecutionMode, ceiling \in ExecutionMode \cup {None} :
         Narrowed(mode, ceiling) \in ExecutionMode
  BY DEF Narrowed, EffectiveMode
<1>3. \E o \in Requests, mode \in ExecutionMode :
         Served(r, o, mode) /\ request[r].phase # "done"
  <2>1. CASE TouchKey(r)
    <3>1. /\ kind[r] = "use_api_key" /\ request[r].phase = "resolved"
          /\ Served(r, request[r].org,
                    Narrowed(default_mode[request[r].org],
                             key[request[r].subject].mode_ceiling))
      BY <2>1 DEF TouchKey
    <3>2. request[r].org \in Requests /\ request[r].subject \in Requests
      BY <1>1, <3>1 DEF Intent
    <3>3. /\ default_mode[request[r].org] \in ExecutionMode
          /\ key[request[r].subject].mode_ceiling \in ExecutionMode \cup {None}
      BY <1>1, <3>2 DEF AccessTypeOK, Tables, ApiKey
    <3> QED BY <1>2, <3>1, <3>2, <3>3
  <2>2. ASSUME NEW k \in Requests, NEW asked \in OfferedModes, CallGateway(r, k, asked)
        PROVE  \E o \in Requests, mode \in ExecutionMode :
                  Served(r, o, mode) /\ request[r].phase # "done"
    <3>1. /\ request[r].phase = "new" /\ key[k].org # None
          /\ Served(r, key[k].org, Narrowed(asked, key[k].mode_ceiling))
      BY <2>2 DEF CallGateway, UsableAtTheGateway
    <3>2. key[k].org \in Requests /\ key[k].mode_ceiling \in ExecutionMode \cup {None}
      BY <1>1, <3>1 DEF AccessTypeOK, Tables, ApiKey
    <3>3. asked \in ExecutionMode
      BY AccessAssumption
    <3> QED BY <1>2, <3>1, <3>2, <3>3
  <2> QED BY <2>1, <2>2
<1>4. PICK o \in Requests, mode \in ExecutionMode :
         Served(r, o, mode) /\ request[r].phase # "done"
  BY <1>3
<1>. SUFFICES ASSUME NEW q,
                     q = [Blank EXCEPT !.phase = "done", !.org = o, !.value = mode]
              PROVE  AccessInv' /\ Kept
  OBVIOUS
<1>5. q \in RequestState /\ q.phase = "done"
  BY DEF Blank, RequestState
<1>6. request' = [request EXCEPT ![r] = q]
  BY <1>4 DEF Served
<1> QED BY <1>4, <1>5, <1>6, EndStep

-----------------------------------------------------------------------------
(***************************************************************************)
(* Steps of a handler up to its commit.                                    *)
(***************************************************************************)
LEMMA InsertUserStep ==
    ASSUME AccessInv, NEW r \in Requests, InsertUser(r), UNCHANGED stored
    PROVE  AccessInv' /\ Kept
<1>1. request[r] \in RequestState /\ Principal(r, request[r])
  BY FactsOf
<1>2. kind[r] = "register" /\ request[r].phase = "checked"
  BY DEF InsertUser
<1>. SUFFICES ASSUME NEW q, q = [request[r] EXCEPT !.phase = "written"]
              PROVE  AccessInv' /\ Kept
  OBVIOUS
<1>3. /\ q \in RequestState /\ q.phase = "written" /\ q.whom = request[r].whom
  BY <1>1 DEF RequestState
<1>4. Reached(r, q) /\ Principal(r, q) /\ Intent(r, q)
  BY <1>1, <1>2, <1>3 DEF Reached, Principal, Intent, SessionKind, AdminKind
<1>5. \A x \in Requests : x # r => Apart(r, q, x, request[x])
  BY <1>2 DEF Apart
<1>6. CASE Ended(r, "failed")
  BY <1>2, <1>6, FailedStep
<1>7. CASE request' = [request EXCEPT ![r] = q]
  BY <1>2, <1>3, <1>4, <1>5, <1>7, QuietStep
<1> QED BY <1>6, <1>7 DEF InsertUser

LEMMA StartSessionStep ==
    ASSUME AccessInv, NEW r \in Requests, NEW o \in Requests, StartSession(r, o),
           UNCHANGED stored
    PROVE  AccessInv' /\ Kept
<1>1. /\ AccessTypeOK /\ request[r] \in RequestState
      /\ Reached(r, request[r]) /\ Principal(r, request[r])
  BY FactsOf
<1>2. /\ kind[r] = "login" /\ request[r].phase = "known"
      /\ request[r].whom \in Users
  BY <1>1 DEF StartSession, Reached, Principal
<1>. SUFFICES ASSUME NEW q, q = [request[r] EXCEPT !.phase = "written", !.org = o]
              PROVE  AccessInv' /\ Kept
  OBVIOUS
<1>3. /\ q \in RequestState /\ q.phase = "written" /\ q.whom = request[r].whom
      /\ q.org = o
  BY <1>1 DEF RequestState
<1>4. role[o][request[r].whom] # None
  BY DEF StartSession, IsMember, Membership
<1>5. Reached(r, q) /\ Principal(r, q) /\ Intent(r, q)
  BY <1>2, <1>3, <1>4 DEF Reached, Principal, Intent, SessionKind, AdminKind
<1>6. \A x \in Requests : x # r => Apart(r, q, x, request[x])
  BY <1>2 DEF Apart
<1>7. request' = [request EXCEPT ![r] = q]
  BY DEF StartSession
<1> QED BY <1>2, <1>3, <1>5, <1>6, <1>7, QuietStep

LEMMA RequireMembershipStep ==
    ASSUME AccessInv, NEW r \in Requests, RequireMembership(r), UNCHANGED stored
    PROVE  AccessInv' /\ Kept
<1>1. /\ AccessTypeOK /\ request[r] \in RequestState /\ Principal(r, request[r])
  BY FactsOf
<1>2. /\ kind[r] \in SessionKind /\ request[r].phase = "resolved"
  BY DEF RequireMembership
<1>3. /\ request[r].whom \in Users /\ request[r].org \in Requests
      /\ request[r].token \in Requests
      /\ role[request[r].org][request[r].whom] # None
      /\ session[request[r].token].user = request[r].whom
  BY <1>1, <1>2 DEF Principal, Inside
<1>. SUFFICES ASSUME NEW q,
                     q = [request[r] EXCEPT !.phase = "admitted",
                                            !.role = role[request[r].org][request[r].whom]]
              PROVE  AccessInv' /\ Kept
  OBVIOUS
<1>4. /\ q \in RequestState /\ q.phase = "admitted" /\ q.whom = request[r].whom
      /\ q.org = request[r].org /\ q.token = request[r].token
      /\ q.role = role[q.org][q.whom]
  <2>1. role[request[r].org][request[r].whom] \in Role \cup {None}
    BY <1>1, <1>3 DEF AccessTypeOK, Tables
  <2> QED BY <1>1, <1>3, <2>1 DEF RequestState
<1>5. Reached(r, q) /\ Principal(r, q) /\ Intent(r, q)
  BY <1>2, <1>3, <1>4 DEF Reached, Principal, Intent, Inside, SessionKind, AdminKind
<1>6. \A x \in Requests : x # r => Apart(r, q, x, request[x])
  BY <1>4 DEF Apart
<1>7. request' = [request EXCEPT ![r] = q]
  BY DEF RequireMembership, Membership, Scope
<1> QED BY <1>2, <1>4, <1>5, <1>6, <1>7, QuietStep

\* The session is read again: its user is still a member of what it is in.
LEMMA ResolveAgainStep ==
    ASSUME AccessInv, NEW r \in Requests, NEW o \in Requests, ResolveAgain(r, o),
           UNCHANGED stored
    PROVE  AccessInv' /\ Kept
<1>1. /\ AccessTypeOK /\ request[r] \in RequestState /\ Principal(r, request[r])
      /\ NobodyWithoutATenant
  BY FactsOf
<1>2. kind[r] = "switch_organization" /\ request[r].phase = "admitted"
  BY DEF ResolveAgain
<1>. SUFFICES ASSUME NEW h, h = session[request[r].token].org PROVE AccessInv' /\ Kept
  OBVIOUS
<1>3. CASE Ended(r, "failed")
  BY <1>2, <1>3, FailedStep
<1>4. CASE /\ Valid(request[r].token)
           /\ request' = [request EXCEPT ![r] =
                            [request[r] EXCEPT !.phase = "reread", !.subject = o,
                                               !.org = h, !.role = None]]
  <2>. SUFFICES ASSUME NEW q, q = [request[r] EXCEPT !.phase = "reread", !.subject = o,
                                                     !.org = h, !.role = None]
                PROVE  AccessInv' /\ Kept
    OBVIOUS
  <2>1. /\ request[r].whom \in Users /\ request[r].token \in Requests
        /\ session[request[r].token].user = request[r].whom
    BY <1>1, <1>2 DEF Principal, Inside, SessionKind
  <2>2. /\ session[request[r].token] \in Session
        /\ h # None /\ role[h][request[r].whom] # None
    BY <1>1, <1>4, <2>1 DEF AccessTypeOK, Tables, NobodyWithoutATenant, Valid
  <2>3. h \in Requests
    BY <2>2 DEF Session
  <2>4. /\ q \in RequestState /\ q.phase = "reread" /\ q.whom = request[r].whom
        /\ q.org = h /\ q.token = request[r].token /\ q.subject = o
    BY <1>1, <2>3 DEF RequestState
  <2>5. Principal(r, q)
    BY <1>2, <2>1, <2>2, <2>3, <2>4 DEF Principal, Inside, SessionKind, AdminKind
  <2>6. Reached(r, q) /\ Intent(r, q)
    BY <1>2, <2>4 DEF Reached, Intent, SessionKind
  <2>7. \A x \in Requests : x # r => Apart(r, q, x, request[x])
    BY <1>2 DEF Apart
  <2> QED BY <1>2, <1>4, <2>4, <2>5, <2>6, <2>7, QuietStep
<1> QED BY <1>3, <1>4 DEF ResolveAgain

\* A switch that goes on, with its session, its principal and its target.
LEMMA SwitchGoesOn ==
    ASSUME AccessInv, NEW r \in Requests, UNCHANGED stored,
           kind[r] = "switch_organization",
           request[r].phase \in {"reread", "permitted"}, NEW phase \in {"permitted", "written"},
           role[request[r].subject][request[r].whom] # None,
           request' = [request EXCEPT ![r] = [request[r] EXCEPT !.phase = phase]]
    PROVE  AccessInv' /\ Kept
<1>1. /\ request[r] \in RequestState /\ Principal(r, request[r]) /\ Intent(r, request[r])
  BY FactsOf
<1>. SUFFICES ASSUME NEW q, q = [request[r] EXCEPT !.phase = phase]
              PROVE  AccessInv' /\ Kept
  OBVIOUS
<1>2. /\ q \in RequestState /\ q.phase = phase /\ q.whom = request[r].whom
      /\ q.org = request[r].org /\ q.token = request[r].token
      /\ q.subject = request[r].subject
  BY <1>1 DEF RequestState
<1>3. Principal(r, q)
  BY <1>1, <1>2 DEF Principal, Inside, SessionKind, AdminKind
<1>4. Reached(r, q) /\ Intent(r, q)
  BY <1>1, <1>2 DEF Reached, Intent, SessionKind
<1>5. \A x \in Requests : x # r => Apart(r, q, x, request[x])
  BY DEF Apart
<1> QED BY <1>2, <1>3, <1>4, <1>5, QuietStep

LEMMA RequireNewMembershipStep ==
    ASSUME AccessInv, NEW r \in Requests, RequireNewMembership(r), UNCHANGED stored
    PROVE  AccessInv' /\ Kept
<1>1. kind[r] = "switch_organization" /\ request[r].phase = "reread"
  BY DEF RequireNewMembership
<1>2. CASE Ended(r, "failed")
  BY <1>1, <1>2, FailedStep
<1>3. CASE /\ IsMember(Scope(None, request[r].whom), request[r].subject, request[r].whom)
           /\ request' = [request EXCEPT ![r] = [request[r] EXCEPT !.phase = "permitted"]]
  <2>1. role[request[r].subject][request[r].whom] # None
    BY <1>3 DEF IsMember, Membership
  <2> QED BY <1>1, <1>3, <2>1, SwitchGoesOn
<1> QED BY <1>2, <1>3 DEF RequireNewMembership

LEMMA FlushSwitchStep ==
    ASSUME AccessInv, NEW r \in Requests, FlushSwitch(r), UNCHANGED stored
    PROVE  AccessInv' /\ Kept
<1>1. /\ kind[r] = "switch_organization" /\ request[r].phase = "permitted"
      /\ request' = [request EXCEPT ![r] = [request[r] EXCEPT !.phase = "written"]]
  BY DEF FlushSwitch
<1>2. role[request[r].subject][request[r].whom] # None
  BY <1>1, FactsOf DEF Intent
<1> QED BY <1>1, <1>2, SwitchGoesOn

\* The role an admitted request was given is enough for what it asks.
LEMMA AdmittedFacts ==
    ASSUME AccessInv, NEW r \in Requests, kind[r] \in AdminKind,
           Admitted(r, kind[r])
    PROVE  /\ request[r] \in RequestState /\ request[r].phase = "admitted"
           /\ role_at_least(request[r].role, "admin")
           /\ request[r].role = role[request[r].org][request[r].whom]
           /\ request[r].whom \in Users /\ request[r].org \in Requests
           /\ request[r].token \in Requests
           /\ role[request[r].org][request[r].whom] # None
           /\ session[request[r].token].user = request[r].whom
<1>1. request[r] \in RequestState /\ Principal(r, request[r])
  BY FactsOf
<1>2. /\ request[r].phase = "admitted"
      /\ role_at_least(request[r].role, "admin")
  BY DEF Admitted, Required, AdminKind
<1> QED BY <1>1, <1>2 DEF Principal, Inside, AdminKind

\* An admin's request, whatever it is about, keeps its principal.
LEMMA AdminKeepsPrincipal ==
    ASSUME AccessInv, NEW r \in Requests, kind[r] \in AdminKind,
           Admitted(r, kind[r]), NEW q,
           q.whom = request[r].whom, q.org = request[r].org, q.token = request[r].token,
           q.role = request[r].role, q.phase \in {"checked", "written"}
    PROVE  Principal(r, q)
  BY AdmittedFacts DEF Principal, Inside, AdminKind, SessionKind

LEMMA CreateOrganizationStep ==
    ASSUME AccessInv, NEW r \in Requests, CreateOrganization(r), UNCHANGED stored
    PROVE  AccessInv' /\ Kept
<1>1. /\ AccessTypeOK /\ request[r] \in RequestState /\ Principal(r, request[r])
  BY FactsOf
<1>2. kind[r] = "create_organization" /\ request[r].phase = "admitted"
  BY DEF CreateOrganization, Admitted
<1>. SUFFICES ASSUME NEW q, q = [request[r] EXCEPT !.phase = "written"]
              PROVE  AccessInv' /\ Kept
  OBVIOUS
<1>3. /\ q \in RequestState /\ q.phase = "written" /\ q.whom = request[r].whom
      /\ q.org = request[r].org /\ q.token = request[r].token /\ q.role = request[r].role
  BY <1>1 DEF RequestState
<1>4. Principal(r, q)
  BY <1>1, <1>2, <1>3 DEF Principal, Inside, SessionKind, AdminKind
<1>5. Reached(r, q) /\ Intent(r, q)
  BY <1>2, <1>3 DEF Reached, Intent, SessionKind
<1>6. \A x \in Requests : x # r => Apart(r, q, x, request[x])
  BY <1>2 DEF Apart
<1>7. request' = [request EXCEPT ![r] = q]
  BY DEF CreateOrganization
<1> QED BY <1>2, <1>3, <1>4, <1>5, <1>6, <1>7, QuietStep

LEMMA LookUpMemberStep ==
    ASSUME AccessInv, NEW r \in Requests, NEW u \in Users, NEW given \in OfferedRoles,
           LookUpMember(r, u, given), UNCHANGED stored
    PROVE  AccessInv' /\ Kept
<1>1. kind[r] = "add_member" /\ kind[r] \in AdminKind /\ Admitted(r, kind[r])
  BY DEF LookUpMember, Admitted, AdminKind, SessionKind
<1>2. request[r] \in RequestState /\ request[r].phase = "admitted"
  BY <1>1, AdmittedFacts
<1>3. CASE Ended(r, "failed")
  BY <1>2, <1>3, FailedStep
<1>4. CASE /\ u \in users
           /\ request' = [request EXCEPT ![r] =
                 [request[r] EXCEPT !.phase = "checked", !.subject = u, !.value = given]]
  <2>. SUFFICES ASSUME NEW q,
                       q = [request[r] EXCEPT !.phase = "checked", !.subject = u,
                                              !.value = given]
                PROVE  AccessInv' /\ Kept
    OBVIOUS
  <2>1. given \in Role
    BY AccessAssumption
  <2>2. /\ q \in RequestState /\ q.phase = "checked" /\ q.whom = request[r].whom
        /\ q.org = request[r].org /\ q.token = request[r].token
        /\ q.role = request[r].role /\ q.subject = u /\ q.value = given
    BY <1>2, <2>1 DEF RequestState
  <2>3. Principal(r, q)
    BY <1>1, <2>2, AdminKeepsPrincipal
  <2>4. Reached(r, q) /\ Intent(r, q)
    BY <1>1, <1>4, <2>1, <2>2 DEF Reached, Intent
  <2>5. \A x \in Requests : x # r => Apart(r, q, x, request[x])
    BY <2>2 DEF Apart
  <2> QED BY <1>2, <1>4, <2>2, <2>3, <2>4, <2>5, QuietStep
<1> QED BY <1>3, <1>4 DEF LookUpMember

LEMMA InsertMemberStep ==
    ASSUME AccessInv, NEW r \in Requests, InsertMember(r), UNCHANGED stored
    PROVE  AccessInv' /\ Kept
<1>1. /\ AccessTypeOK /\ request[r] \in RequestState
      /\ Principal(r, request[r]) /\ Intent(r, request[r])
  BY FactsOf
<1>2. kind[r] = "add_member" /\ request[r].phase = "checked"
  BY DEF InsertMember
<1>3. CASE Ended(r, "failed")
  BY <1>2, <1>3, FailedStep
<1>4. CASE /\ role[request[r].org][request[r].subject] = None
           /\ request' = [request EXCEPT ![r] = [request[r] EXCEPT !.phase = "written"]]
  <2>. SUFFICES ASSUME NEW q, q = [request[r] EXCEPT !.phase = "written"]
                PROVE  AccessInv' /\ Kept
    OBVIOUS
  <2>1. /\ q \in RequestState /\ q.phase = "written" /\ q.whom = request[r].whom
        /\ q.org = request[r].org /\ q.token = request[r].token /\ q.role = request[r].role
        /\ q.subject = request[r].subject /\ q.value = request[r].value
    BY <1>1 DEF RequestState
  <2>2. Principal(r, q)
    BY <1>1, <1>2, <2>1 DEF Principal, Inside, SessionKind, AdminKind
  <2>3. Reached(r, q) /\ Intent(r, q)
    BY <1>1, <1>2, <1>4, <2>1 DEF Reached, Intent, SessionKind
  <2>4. \A x \in Requests : x # r => Apart(r, q, x, request[x])
    BY <1>2, <2>1 DEF Apart, InsertMember, Writing
  <2> QED BY <1>2, <1>4, <2>1, <2>2, <2>3, <2>4, QuietStep
<1> QED BY <1>3, <1>4 DEF InsertMember

LEMMA CreateKeyStep ==
    ASSUME AccessInv, NEW r \in Requests, NEW ceiling \in OfferedModes \cup {None},
           CreateKey(r, ceiling), UNCHANGED stored
    PROVE  AccessInv' /\ Kept
<1>1. kind[r] = "create_api_key" /\ kind[r] \in AdminKind /\ Admitted(r, kind[r])
  BY DEF CreateKey, Admitted, AdminKind, SessionKind
<1>2. request[r] \in RequestState /\ request[r].phase = "admitted"
  BY <1>1, AdmittedFacts
<1>. SUFFICES ASSUME NEW q,
                     q = [request[r] EXCEPT !.phase = "written", !.value = ceiling]
              PROVE  AccessInv' /\ Kept
  OBVIOUS
<1>3. ceiling \in ExecutionMode \cup {None}
  BY AccessAssumption
<1>4. /\ q \in RequestState /\ q.phase = "written" /\ q.whom = request[r].whom
      /\ q.org = request[r].org /\ q.token = request[r].token
      /\ q.role = request[r].role /\ q.value = ceiling
  BY <1>2, <1>3 DEF RequestState
<1>5. Principal(r, q)
  BY <1>1, <1>4, AdminKeepsPrincipal
<1>6. Reached(r, q) /\ Intent(r, q)
  BY <1>1, <1>3, <1>4 DEF Reached, Intent, AdminKind
<1>7. \A x \in Requests : x # r => Apart(r, q, x, request[x])
  BY <1>1 DEF Apart
<1>8. request' = [request EXCEPT ![r] = q]
  BY DEF CreateKey
<1> QED BY <1>2, <1>4, <1>5, <1>6, <1>7, <1>8, QuietStep

LEMMA RevokeKeyStep ==
    ASSUME AccessInv, NEW r \in Requests, NEW k \in Requests, RevokeKey(r, k),
           UNCHANGED stored
    PROVE  AccessInv' /\ Kept
<1>1. kind[r] = "revoke_api_key" /\ kind[r] \in AdminKind /\ Admitted(r, kind[r])
  BY DEF RevokeKey, Admitted, AdminKind, SessionKind
<1>2. request[r] \in RequestState /\ request[r].phase = "admitted"
  BY <1>1, AdmittedFacts
<1>3. CASE Ended(r, "failed")
  BY <1>2, <1>3, FailedStep
<1>4. CASE /\ key[k].org = request[r].org /\ ~key[k].revoked
           /\ request' = [request EXCEPT ![r] =
                            [request[r] EXCEPT !.phase = "written", !.subject = k]]
  <2>. SUFFICES ASSUME NEW q,
                       q = [request[r] EXCEPT !.phase = "written", !.subject = k]
                PROVE  AccessInv' /\ Kept
    OBVIOUS
  <2>1. /\ q \in RequestState /\ q.phase = "written" /\ q.whom = request[r].whom
        /\ q.org = request[r].org /\ q.token = request[r].token
        /\ q.role = request[r].role /\ q.subject = k
    BY <1>2 DEF RequestState
  <2>2. Principal(r, q)
    BY <1>1, <2>1, AdminKeepsPrincipal
  <2>3. Reached(r, q) /\ Intent(r, q)
    BY <1>1, <1>4, <2>1 DEF Reached, Intent, AdminKind
  <2>4. \A x \in Requests : x # r => Apart(r, q, x, request[x])
    BY <1>1, <2>1 DEF Apart, RevokeKey, KeyLocked, Writing
  <2> QED BY <1>2, <1>4, <2>1, <2>2, <2>3, <2>4, QuietStep
<1> QED BY <1>3, <1>4 DEF RevokeKey

LEMMA SetModeStep ==
    ASSUME AccessInv, NEW r \in Requests, NEW m \in OfferedModes, SetMode(r, m),
           UNCHANGED stored
    PROVE  AccessInv' /\ Kept
<1>1. kind[r] = "update_organization" /\ kind[r] \in AdminKind /\ Admitted(r, kind[r])
  BY DEF SetMode, Admitted, AdminKind, SessionKind
<1>2. request[r] \in RequestState /\ request[r].phase = "admitted"
  BY <1>1, AdmittedFacts
<1>. SUFFICES ASSUME NEW v, v = IF default_mode[request[r].org] = m THEN None ELSE m,
                     NEW q, q = [request[r] EXCEPT !.phase = "written", !.value = v]
              PROVE  AccessInv' /\ Kept
  OBVIOUS
<1>3. v \in ExecutionMode \cup {None}
  BY AccessAssumption
<1>4. /\ q \in RequestState /\ q.phase = "written" /\ q.whom = request[r].whom
      /\ q.org = request[r].org /\ q.token = request[r].token
      /\ q.role = request[r].role /\ q.value = v
  BY <1>2, <1>3 DEF RequestState
<1>5. Principal(r, q)
  BY <1>1, <1>4, AdminKeepsPrincipal
<1>6. Reached(r, q) /\ Intent(r, q)
  BY <1>1, <1>3, <1>4 DEF Reached, Intent, AdminKind
<1>7. \A x \in Requests : x # r => Apart(r, q, x, request[x])
  BY <1>1 DEF Apart
<1>8. request' = [request EXCEPT ![r] = q]
  BY DEF SetMode
<1> QED BY <1>2, <1>4, <1>5, <1>6, <1>7, <1>8, QuietStep

-----------------------------------------------------------------------------
(***************************************************************************)
(* Steps that write to the tables.  Whoever is not done by the step finds  *)
(* nothing named after it and its intent still to be carried out.          *)
(***************************************************************************)
LEMMA TablesStep ==
    ASSUME AccessInv, request' \in [Requests -> RequestState], kind' = kind,
           \A x \in Requests : request'[x] = request[x] \/ request'[x].phase = "done",
           Tables', Kept,
           \A x \in Requests : request'[x].phase # "done" => Unborn(x)',
           \A x \in Requests : kind[x] = "add_member" /\ request'[x].phase = "written" =>
              role'[request[x].org][request[x].subject] = None,
           \A x \in Requests : kind[x] = "revoke_api_key" /\ request'[x].phase = "written" =>
              key'[request[x].subject] = key[request[x].subject],
           Members', Authored', NobodyWithoutATenant', OnlyAdminsAdminister'
    PROVE  AccessInv'
<1>1. AccessTypeOK'
  BY DEF AccessTypeOK, AccessInv
<1>2. ASSUME NEW x \in Requests, request'[x] = request[x] PROVE Principal(x, request[x])'
  <2>. SUFFICES ASSUME NEW q, q = request[x] PROVE Principal(x, q)'
    BY <1>2
  <2>1. Principal(x, q) /\ AccessTypeOK
    BY FactsOf
  <2>2. \A o \in Requests, u \in Users : role[o][u] # None => role'[o][u] = role[o][u]
    BY DEF Kept
  <2>3. \A s \in Requests : session[s].user # None => session'[s].user = session[s].user
    BY DEF Kept
  <2>4. None \notin Users
    BY AccessAssumption
  <2> QED BY <2>1, <2>2, <2>3, <2>4 DEF Principal
<1>3. ASSUME NEW x \in Requests, request'[x] = request[x] PROVE Intent(x, request[x])'
  <2>. SUFFICES ASSUME NEW q, q = request[x] PROVE Intent(x, q)'
    BY <1>3
  <2>1. Intent(x, q) /\ Principal(x, q)
    BY FactsOf
  <2>2. kind[x] = "switch_organization" /\ q.phase \in {"permitted", "written"} =>
           q.whom \in Users
    BY <2>1 DEF Principal, Inside, SessionKind
  <2>3. \A o \in Requests, u \in Users : role[o][u] # None => role'[o][u] = role[o][u]
    BY DEF Kept
  <2>4. users \subseteq users'
    BY DEF Kept
  <2> QED BY <1>3, <2>1, <2>2, <2>3, <2>4 DEF Intent
<1>4. ASSUME NEW x \in Requests PROVE Sound(x, request[x])'
  <2>1. CASE request'[x].phase = "done"
    BY <2>1 DEF Sound, Reached, Principal, Intent, Inside
  <2>2. CASE request'[x].phase # "done"
    <3>1. request'[x] = request[x] /\ Reached(x, request[x])
      BY <2>2, FactsOf
    <3>2. Reached(x, request[x])'
      BY <3>1 DEF Reached
    <3> QED BY <1>2, <1>3, <2>2, <3>1, <3>2 DEF Sound
  <2> QED BY <2>1, <2>2
<1>5. ASSUME NEW y \in Requests, NEW x \in Requests, y # x
      PROVE  Apart(y, request[y], x, request[x])'
  <2>1. CASE request'[y] = request[y] /\ request'[x] = request[x]
    BY <1>5, <2>1 DEF AccessInv, Apart
  <2>2. CASE request'[y].phase = "done" \/ request'[x].phase = "done"
    BY <2>2 DEF Apart
  <2> QED BY <2>1, <2>2
<1> QED BY <1>1, <1>4, <1>5 DEF AccessInv

LEMMA DoneRequest ==
    ASSUME AccessTypeOK, NEW r \in Requests, Ended(r, "done")
    PROVE  /\ request' \in [Requests -> RequestState]
           /\ request'[r].phase = "done"
           /\ \A x \in Requests \ {r} : request'[x] = request[x]
<1>1. [Blank EXCEPT !.phase = "done"] \in RequestState
  BY BlankIsAState
<1>2. [Blank EXCEPT !.phase = "done"].phase = "done"
  BY DEF Blank
<1> QED BY <1>1, <1>2 DEF Ended, AccessTypeOK

\* Tenants stay as long as what a step adds has one.
LEMMA TenantsKept ==
    ASSUME AccessInv, Kept, Tables',
           \A u \in users' \ users : \E o \in Requests : role'[o][u] = "owner",
           \A o \in Requests : (\A u \in Users : role[o][u] = None) =>
              \/ \A u \in Users : role'[o][u] = None
              \/ \E u \in users' : role'[o][u] = "owner",
           \A s \in Requests :
              \/ session'[s].user = session[s].user /\ session'[s].org = session[s].org
              \/ /\ session'[s].org # None
                 /\ role'[session'[s].org][session'[s].user] # None
    PROVE  NobodyWithoutATenant'
<1>1. AccessTypeOK /\ NobodyWithoutATenant
  BY DEF AccessInv
<1>2. \A o \in Requests, u \in Users : role[o][u] # None => role'[o][u] = role[o][u]
  BY DEF Kept
<1>3. users \subseteq users' /\ users \subseteq Users /\ None \notin Users \cup Role
  BY <1>1, AccessAssumption DEF Kept, AccessTypeOK, Tables
<1>4. "owner" # None
  BY AccessAssumption DEF Role, ROLE_ORDER
<1>5. ASSUME NEW u \in users' PROVE \E o \in Requests : role'[o][u] = "owner"
  <2>1. CASE u \in users
    <3>1. PICK o \in Requests : role[o][u] = "owner"
      BY <1>1, <2>1 DEF NobodyWithoutATenant
    <3> QED BY <1>2, <1>3, <1>4, <2>1, <3>1
  <2> QED BY <2>1
<1>6. ASSUME NEW o \in Requests, NEW v \in Users, role'[o][v] # None
      PROVE  \E u \in users' : role'[o][u] = "owner"
  <2>1. CASE \A u \in Users : role[o][u] = None
    BY <1>6, <2>1
  <2>2. CASE \E u \in Users : role[o][u] # None
    <3>1. PICK u \in users : role[o][u] = "owner"
      BY <1>1, <2>2 DEF NobodyWithoutATenant
    <3> QED BY <1>2, <1>3, <1>4, <3>1
  <2> QED BY <2>1, <2>2
<1>7. ASSUME NEW s \in Requests, session'[s].user # None
      PROVE  /\ session'[s].org # None
             /\ role'[session'[s].org][session'[s].user] # None
  <2>1. CASE session'[s].user = session[s].user /\ session'[s].org = session[s].org
    <3>1. session[s].org # None /\ role[session[s].org][session[s].user] # None
      BY <1>1, <1>7, <2>1 DEF NobodyWithoutATenant
    <3>2. session[s].org \in Requests /\ session[s].user \in Users
      BY <1>1, <1>7, <2>1, <3>1 DEF AccessTypeOK, Tables, Session
    <3> QED BY <1>2, <2>1, <3>1, <3>2
  <2> QED BY <1>7, <2>1
<1> QED BY <1>5, <1>6, <1>7 DEF NobodyWithoutATenant

AdminAction ==
    {"organization.updated", "member.added", "api_key.created", "api_key.revoked"}

\* Admins stay as long as what a step records and issues is an admin's.
LEMMA AdminsKept ==
    ASSUME AccessInv, Kept, Tables', NEW r \in Requests,
           \A x \in Requests \ {r} : /\ key[x].org = None => key'[x] = key[x]
                                     /\ audit[x].action = None => audit'[x] = audit[x],
           key'[r].org # None => \/ key[r].org # None
                                 \/ /\ key'[r].created_by \in Users
                                    /\ role_at_least(role'[key'[r].org][key'[r].created_by],
                                                     "admin"),
           audit'[r].action # None => \/ audit[r].action # None
                                      \/ audit'[r].actor \in Users /\ audit'[r].org \in Requests,
           audit'[r].action \in AdminAction =>
              \/ audit[r].action # None
              \/ role_at_least(role'[audit'[r].org][audit'[r].actor], "admin")
    PROVE  OnlyAdminsAdminister' /\ Authored'
<1>1. AccessTypeOK /\ OnlyAdminsAdminister /\ Authored
  BY FactsOf
<1>2. \A o \in Requests, u \in Users : role[o][u] # None => role'[o][u] = role[o][u]
  BY DEF Kept
<1>3. ASSUME NEW k \in Requests, key'[k].org # None
      PROVE  /\ key'[k].created_by \in Users
             /\ role_at_least(role'[key'[k].org][key'[k].created_by], "admin")
  <2>1. CASE key[k].org # None
    <3>1. /\ key'[k].org = key[k].org /\ key'[k].created_by = key[k].created_by
          /\ key[k].org \in Requests /\ key[k].created_by \in Users
      <4>1. key[k] \in ApiKey /\ key'[k] \in {key[k], [key[k] EXCEPT !.revoked = TRUE]}
        BY <1>1, <2>1 DEF Kept, AccessTypeOK, Tables
      <4> QED BY <1>1, <2>1, <4>1 DEF ApiKey, Authored
    <3>2. role_at_least(role[key[k].org][key[k].created_by], "admin")
      BY <1>1, <2>1 DEF OnlyAdminsAdminister
    <3>3. role[key[k].org][key[k].created_by] # None
      BY <3>2 DEF role_at_least
    <3> QED BY <1>2, <3>1, <3>2, <3>3
  <2>2. CASE key[k].org = None
    BY <1>3, <2>2
  <2> QED BY <2>1, <2>2
<1>4. ASSUME NEW x \in Requests, audit'[x].action # None
      PROVE  /\ audit'[x].actor \in Users /\ audit'[x].org \in Requests
             /\ audit'[x].action \in AdminAction =>
                   role_at_least(role'[audit'[x].org][audit'[x].actor], "admin")
  <2>1. CASE audit[x].action # None
    <3>1. audit'[x] = audit[x] /\ audit[x].actor \in Users /\ audit[x].org \in Requests
      BY <1>1, <2>1 DEF Kept, Authored
    <3>2. audit[x].action \in AdminAction =>
             role_at_least(role[audit[x].org][audit[x].actor], "admin")
      BY <1>1 DEF OnlyAdminsAdminister, AdminAction
    <3>3. audit[x].action \in AdminAction => role[audit[x].org][audit[x].actor] # None
      BY <3>2 DEF role_at_least
    <3> QED BY <1>2, <3>1, <3>2, <3>3
  <2>2. CASE audit[x].action = None
    BY <1>4, <2>2
  <2> QED BY <2>1, <2>2
<1>5. None \notin AdminAction
  BY AccessAssumption DEF AdminAction, Action
<1> QED BY <1>3, <1>4, <1>5 DEF OnlyAdminsAdminister, Authored, AdminAction


-----------------------------------------------------------------------------
(***************************************************************************)
(* What is not yet made has no members; a principal's organization is made *)
(* by somebody else.                                                       *)
(***************************************************************************)
LEMMA OrganizationsAreMade ==
    ASSUME AccessInv, NEW r \in Requests, request[r].phase # "done"
    PROVE  /\ session[r] = NoSession /\ key[r] = NoKey /\ audit[r] = NoEvent(r)
           /\ \A u \in Users : role[r][u] = None
           /\ \A o \in Requests, u \in Users : role[o][u] # None => o # r
           /\ \A s \in Requests : session[s].user # None => s # r
           /\ \A k \in Requests : key[k].org # None => k # r
           /\ audit[r].action = None /\ key[r].org = None /\ session[r].user = None
<1>1. /\ session[r] = NoSession /\ key[r] = NoKey /\ audit[r] = NoEvent(r)
      /\ \A u \in Users : role[r][u] = None
  BY FactsOf DEF Unborn
<1>2. audit[r].action = None /\ key[r].org = None /\ session[r].user = None
  BY <1>1 DEF NoSession, NoKey, NoEvent
<1> QED BY <1>1, <1>2

\* The intents that a step could disturb, as they were.
LEMMA IntentsOf ==
    ASSUME AccessInv, NEW x \in Requests, request[x].phase = "written"
    PROVE  /\ kind[x] = "add_member" =>
                /\ request[x].org \in Requests /\ request[x].whom \in Users
                /\ request[x].subject \in Users /\ request[x].subject \in users
                /\ request[x].value \in Role
                /\ role[request[x].org][request[x].whom] # None
                /\ role[request[x].org][request[x].subject] = None
           /\ kind[x] = "revoke_api_key" =>
                /\ request[x].subject \in Requests
                /\ key[request[x].subject].org = request[x].org
                /\ ~key[request[x].subject].revoked
           /\ kind[x] \in AdminKind =>
                /\ request[x].org \in Requests /\ request[x].whom \in Users
                /\ role_at_least(role[request[x].org][request[x].whom], "admin")
           /\ kind[x] \in SessionKind =>
                /\ request[x].org \in Requests /\ request[x].whom \in Users
                /\ request[x].token \in Requests
                /\ role[request[x].org][request[x].whom] # None
                /\ session[request[x].token].user = request[x].whom
  BY FactsOf DEF Principal, Intent, Inside, SessionKind, AdminKind

LEMMA CommitRegisterStep ==
    ASSUME AccessInv, NEW r \in Requests, CommitRegister(r)
    PROVE  AccessInv' /\ Kept
<1>. SUFFICES ASSUME NEW w, w = request[r].whom PROVE AccessInv' /\ Kept
  OBVIOUS
<1>1. AccessTypeOK /\ Members /\ Authored
  BY FactsOf
<1>2. kind[r] = "register" /\ request[r].phase = "written" /\ w \in Users
  BY FactsOf DEF CommitRegister, Writing, Principal
<1>3. /\ users' = users \cup {w}
      /\ role' = [role EXCEPT ![r][w] = "owner"]
      /\ session' = [session EXCEPT ![r] = [NoSession EXCEPT !.user = w, !.org = r]]
      /\ audit' = [audit EXCEPT ![r] = [action |-> "user.registered", org |-> r,
                                        actor |-> w, subject |-> w]]
      /\ Ended(r, "done") /\ kind' = kind /\ default_mode' = default_mode /\ key' = key
  BY DEF CommitRegister, Recorded
<1>4. /\ request' \in [Requests -> RequestState]
      /\ request'[r].phase = "done"
      /\ \A x \in Requests \ {r} : request'[x] = request[x]
  BY <1>1, <1>3, DoneRequest
<1>5. /\ Tables'
      /\ \A o \in Requests, u \in Users :
            role'[o][u] = IF o = r /\ u = w THEN "owner" ELSE role[o][u]
      /\ session'[r].user = w /\ session'[r].org = r
      /\ \A s \in Requests \ {r} : session'[s] = session[s]
      /\ audit'[r].action = "user.registered" /\ audit'[r].actor = w /\ audit'[r].org = r
      /\ \A x \in Requests \ {r} : audit'[x] = audit[x]
  <2>1. "owner" \in Role
    BY DEF Role, ROLE_ORDER
  <2>2. [NoSession EXCEPT !.user = w, !.org = r] \in Session
    BY <1>2 DEF NoSession, Session
  <2>3. [action |-> "user.registered", org |-> r, actor |-> w, subject |-> w] \in AuditEvent
    BY <1>2 DEF AuditEvent, Action
  <2>4. /\ role' \in [Requests -> [Users -> Role \cup {None}]]
        /\ \A o \in Requests, u \in Users :
              role'[o][u] = IF o = r /\ u = w THEN "owner" ELSE role[o][u]
    BY <1>1, <1>2, <1>3, <2>1 DEF AccessTypeOK, Tables
  <2>5. /\ session' \in [Requests -> Session]
        /\ session'[r].user = w /\ session'[r].org = r
        /\ \A s \in Requests \ {r} : session'[s] = session[s]
    BY <1>1, <1>3, <2>2 DEF AccessTypeOK, Tables, NoSession
  <2>6. /\ audit' \in [Requests -> AuditEvent]
        /\ audit'[r].action = "user.registered" /\ audit'[r].actor = w /\ audit'[r].org = r
        /\ \A x \in Requests \ {r} : audit'[x] = audit[x]
    BY <1>1, <1>3, <2>3 DEF AccessTypeOK, Tables
  <2>7. users' \in SUBSET Users
    BY <1>1, <1>2, <1>3 DEF AccessTypeOK, Tables
  <2> QED BY <1>1, <1>3, <2>4, <2>5, <2>6, <2>7 DEF AccessTypeOK, Tables
<1>6. /\ session[r].user = None /\ audit[r].action = None
      /\ \A u \in Users : role[r][u] = None
      /\ \A o \in Requests, u \in Users : role[o][u] # None => o # r
  BY <1>2, OrganizationsAreMade
<1>7. Kept
  BY <1>3, <1>5, <1>6 DEF Kept
<1>8. \A x \in Requests : request'[x].phase # "done" => Unborn(x)'
  <2>1. \A x \in Requests : request'[x].phase # "done" => x # r /\ Unborn(x)
    BY <1>4, FactsOf
  <2> QED BY <1>3, <1>5, <2>1 DEF Unborn
<1>9. \A x \in Requests : kind[x] = "add_member" /\ request'[x].phase = "written" =>
         role'[request[x].org][request[x].subject] = None
  BY <1>4, <1>5, <1>6, IntentsOf
<1>10. Members'
  BY <1>1, <1>3, <1>5 DEF Members
<1>11. NobodyWithoutATenant'
  <2>1. \A u \in users' \ users : \E o \in Requests : role'[o][u] = "owner"
    BY <1>2, <1>3, <1>5
  <2>2. \A o \in Requests : (\A u \in Users : role[o][u] = None) =>
           \/ \A u \in Users : role'[o][u] = None
           \/ \E u \in users' : role'[o][u] = "owner"
    BY <1>2, <1>3, <1>5
  <2>3. role'[r][w] # None
    BY <1>2, <1>5, AccessAssumption DEF Role, ROLE_ORDER
  <2>4. \A s \in Requests :
           \/ session'[s].user = session[s].user /\ session'[s].org = session[s].org
           \/ /\ session'[s].org # None
              /\ role'[session'[s].org][session'[s].user] # None
    BY <1>5, <2>3, AccessAssumption
  <2> QED BY <1>5, <1>7, <2>1, <2>2, <2>4, TenantsKept
<1>12. OnlyAdminsAdminister' /\ Authored'
  <2>1. audit'[r].action \notin AdminAction
    BY <1>5 DEF AdminAction
  <2>2. key[r].org = None
    BY <1>2, OrganizationsAreMade
  <2> QED BY <1>2, <1>3, <1>5, <1>7, <2>1, <2>2, AdminsKept
<1> QED BY <1>3, <1>4, <1>5, <1>7, <1>8, <1>9, <1>10, <1>11, <1>12, TablesStep

LEMMA CommitLoginStep ==
    ASSUME AccessInv, NEW r \in Requests, CommitLogin(r)
    PROVE  AccessInv' /\ Kept
<1>. SUFFICES ASSUME NEW w, w = request[r].whom, NEW o, o = request[r].org
              PROVE  AccessInv' /\ Kept
  OBVIOUS
<1>1. AccessTypeOK /\ Members /\ Authored
  BY FactsOf
<1>2. /\ kind[r] = "login" /\ request[r].phase = "written"
      /\ w \in Users /\ o \in Requests /\ role[o][w] # None
  BY FactsOf DEF CommitLogin, Writing, Principal
<1>3. /\ session' = [session EXCEPT ![r] = [NoSession EXCEPT !.user = w, !.org = o]]
      /\ audit' = [audit EXCEPT ![r] = [action |-> "user.signed_in", org |-> o,
                                        actor |-> w, subject |-> r]]
      /\ Ended(r, "done")
      /\ UNCHANGED <<kind, users, role, default_mode, key>>
  BY DEF CommitLogin, Recorded
<1>4. /\ request' \in [Requests -> RequestState]
      /\ request'[r].phase = "done"
      /\ \A x \in Requests \ {r} : request'[x] = request[x]
  BY <1>1, <1>3, DoneRequest
<1>5. /\ Tables'
      /\ session'[r].user = w /\ session'[r].org = o
      /\ \A s \in Requests \ {r} : session'[s] = session[s]
      /\ audit'[r].action = "user.signed_in" /\ audit'[r].actor = w /\ audit'[r].org = o
      /\ \A x \in Requests \ {r} : audit'[x] = audit[x]
  <2>1. [NoSession EXCEPT !.user = w, !.org = o] \in Session
    BY <1>2 DEF NoSession, Session
  <2>2. [action |-> "user.signed_in", org |-> o, actor |-> w, subject |-> r] \in AuditEvent
    BY <1>2 DEF AuditEvent, Action
  <2>3. /\ session' \in [Requests -> Session]
        /\ session'[r].user = w /\ session'[r].org = o
        /\ \A s \in Requests \ {r} : session'[s] = session[s]
    BY <1>1, <1>3, <2>1 DEF AccessTypeOK, Tables, NoSession
  <2>4. /\ audit' \in [Requests -> AuditEvent]
        /\ audit'[r].action = "user.signed_in" /\ audit'[r].actor = w /\ audit'[r].org = o
        /\ \A x \in Requests \ {r} : audit'[x] = audit[x]
    BY <1>1, <1>3, <2>2 DEF AccessTypeOK, Tables
  <2> QED BY <1>1, <1>3, <2>3, <2>4 DEF AccessTypeOK, Tables
<1>6. session[r].user = None /\ audit[r].action = None /\ key[r].org = None
  BY <1>2, OrganizationsAreMade
<1>7. Kept
  BY <1>3, <1>5, <1>6 DEF Kept
<1>8. \A x \in Requests : request'[x].phase # "done" => Unborn(x)'
  <2>1. \A x \in Requests : request'[x].phase # "done" => x # r /\ Unborn(x)
    BY <1>4, FactsOf
  <2> QED BY <1>3, <1>5, <2>1 DEF Unborn
<1>9. \A x \in Requests : kind[x] = "add_member" /\ request'[x].phase = "written" =>
         role'[request[x].org][request[x].subject] = None
  BY <1>3, <1>4, IntentsOf
<1>10. Members'
  BY <1>1, <1>3 DEF Members
<1>11. NobodyWithoutATenant'
  <2>1. \A s \in Requests :
           \/ session'[s].user = session[s].user /\ session'[s].org = session[s].org
           \/ /\ session'[s].org # None
              /\ role'[session'[s].org][session'[s].user] # None
    BY <1>2, <1>3, <1>5, AccessAssumption
  <2> QED BY <1>3, <1>5, <1>7, <2>1, TenantsKept
<1>12. OnlyAdminsAdminister' /\ Authored'
  <2>1. audit'[r].action \notin AdminAction
    BY <1>5 DEF AdminAction
  <2> QED BY <1>2, <1>3, <1>5, <1>6, <1>7, <2>1, AdminsKept
<1> QED BY <1>3, <1>4, <1>5, <1>7, <1>8, <1>9, <1>10, <1>11, <1>12, TablesStep


\* A step that leaves accounts, memberships, keys and the log alone.
LEMMA SessionsStep ==
    ASSUME AccessInv, request' \in [Requests -> RequestState],
           \A x \in Requests : request'[x] = request[x] \/ request'[x].phase = "done",
           UNCHANGED <<kind, users, role, default_mode, key, audit>>,
           session' \in [Requests -> Session],
           \A s \in Requests :
              \/ session'[s] = session[s]
              \/ /\ session[s].user # None
                 /\ session'[s].user = session[s].user
                 /\ session[s].revoked => session'[s].revoked
                 /\ session[s].expired => session'[s].expired
                 /\ \/ session'[s].org = session[s].org
                    \/ /\ session'[s].org # None
                       /\ role[session'[s].org][session'[s].user] # None
    PROVE  AccessInv' /\ Kept
<1>1. AccessTypeOK /\ Members /\ Authored /\ NobodyWithoutATenant /\ OnlyAdminsAdminister
  BY FactsOf DEF AccessInv
<1>2. Tables'
  BY <1>1 DEF AccessTypeOK, Tables
<1>3. Kept
  BY DEF Kept
<1>4. \A x \in Requests : request'[x].phase # "done" => Unborn(x)'
  <2>1. ASSUME NEW x \in Requests, request'[x].phase # "done" PROVE Unborn(x)'
    <3>1. Unborn(x)
      BY <2>1, FactsOf
    <3>2. session'[x] = session[x]
      BY <3>1 DEF Unborn, NoSession
    <3> QED BY <3>1, <3>2 DEF Unborn
  <2> QED BY <2>1
<1>5. \A x \in Requests : kind[x] = "add_member" /\ request'[x].phase = "written" =>
         role'[request[x].org][request[x].subject] = None
  BY IntentsOf
<1>6. Members' /\ Authored' /\ OnlyAdminsAdminister'
  BY <1>1 DEF Members, Authored, OnlyAdminsAdminister
<1>7. NobodyWithoutATenant'
  BY <1>2, <1>3, TenantsKept
<1> QED BY <1>2, <1>3, <1>4, <1>5, <1>6, <1>7, TablesStep

LEMMA CommitSwitchStep ==
    ASSUME AccessInv, NEW r \in Requests, CommitSwitch(r)
    PROVE  AccessInv' /\ Kept
<1>. SUFFICES ASSUME NEW t, t = request[r].token, NEW o, o = request[r].subject
              PROVE  AccessInv' /\ Kept
  OBVIOUS
<1>1. AccessTypeOK
  BY FactsOf
<1>2. /\ kind[r] = "switch_organization" /\ request[r].phase = "written"
      /\ \/ session' = session
         \/ session' = [session EXCEPT ![t] = [session[t] EXCEPT !.org = o]]
      /\ Ended(r, "done") /\ UNCHANGED <<kind, users, role, default_mode, key, audit>>
  BY DEF CommitSwitch, Writing
<1>3. /\ t \in Requests /\ session[t].user = request[r].whom /\ request[r].whom \in Users
      /\ o \in Requests /\ role[o][request[r].whom] # None
  BY <1>2, FactsOf DEF Principal, Intent, Inside, SessionKind
<1>4. CASE session' = session
  <2>1. session' \in [Requests -> Session]
    BY <1>1, <1>4 DEF AccessTypeOK, Tables
  <2> QED BY <1>1, <1>2, <1>4, <2>1, DoneRequest, SessionsStep
<1>5. CASE session' = [session EXCEPT ![t] = [session[t] EXCEPT !.org = o]]
  <2>1. session[t] \in Session /\ [session[t] EXCEPT !.org = o] \in Session
    BY <1>1, <1>3 DEF AccessTypeOK, Tables, Session
  <2>2. /\ session' \in [Requests -> Session]
        /\ session'[t].user = session[t].user /\ session'[t].org = o
        /\ session'[t].revoked = session[t].revoked
        /\ session'[t].expired = session[t].expired
        /\ \A s \in Requests \ {t} : session'[s] = session[s]
    BY <1>1, <1>3, <1>5, <2>1 DEF AccessTypeOK, Tables, Session
  <2>3. session[t].user # None /\ o # None
    BY <1>3, AccessAssumption
  <2> QED BY <1>1, <1>2, <1>3, <2>2, <2>3, DoneRequest, SessionsStep
<1> QED BY <1>2, <1>4, <1>5

LEMMA EndSessionStep ==
    ASSUME AccessInv, NEW s \in Requests, session[s].user # None,
           \/ session' = [session EXCEPT ![s].revoked = TRUE]
           \/ session' = [session EXCEPT ![s].expired = TRUE],
           UNCHANGED <<kind, users, role, default_mode, key, audit>>,
           \/ request' = request
           \/ \E r \in Requests : Ended(r, "done")
    PROVE  AccessInv' /\ Kept
<1>1. AccessTypeOK
  BY FactsOf
<1>2. session[s] \in Session
  BY <1>1 DEF AccessTypeOK, Tables
<1>3. PICK e \in Session :
         /\ session' = [session EXCEPT ![s] = e]
         /\ e.user = session[s].user /\ e.org = session[s].org
         /\ session[s].revoked => e.revoked
         /\ session[s].expired => e.expired
  <2>1. CASE session' = [session EXCEPT ![s].revoked = TRUE]
    <3>1. [session[s] EXCEPT !.revoked = TRUE] \in Session
      BY <1>2 DEF Session
    <3> QED BY <1>1, <1>2, <2>1, <3>1 DEF AccessTypeOK, Tables, Session
  <2>2. CASE session' = [session EXCEPT ![s].expired = TRUE]
    <3>1. [session[s] EXCEPT !.expired = TRUE] \in Session
      BY <1>2 DEF Session
    <3> QED BY <1>1, <1>2, <2>2, <3>1 DEF AccessTypeOK, Tables, Session
  <2> QED BY <2>1, <2>2
<1>4. /\ session' \in [Requests -> Session] /\ session'[s] = e
      /\ \A x \in Requests \ {s} : session'[x] = session[x]
  BY <1>1, <1>3 DEF AccessTypeOK, Tables
<1>5. /\ request' \in [Requests -> RequestState]
      /\ \A x \in Requests : request'[x] = request[x] \/ request'[x].phase = "done"
  BY <1>1, DoneRequest DEF AccessTypeOK
<1> QED BY <1>3, <1>4, <1>5, SessionsStep

LEMMA CommitOrganizationStep ==
    ASSUME AccessInv, NEW r \in Requests, CommitOrganization(r)
    PROVE  AccessInv' /\ Kept
<1>. SUFFICES ASSUME NEW w, w = request[r].whom PROVE AccessInv' /\ Kept
  OBVIOUS
<1>1. AccessTypeOK /\ Members /\ Authored
  BY FactsOf
<1>2. /\ kind[r] = "create_organization" /\ request[r].phase = "written"
      /\ w \in Users /\ w \in users
  <2>1. kind[r] = "create_organization" /\ request[r].phase = "written"
    BY DEF CommitOrganization, Writing
  <2>2. w \in Users /\ request[r].org \in Requests /\ role[request[r].org][w] # None
    BY <2>1, FactsOf DEF Principal, Inside, SessionKind
  <2> QED BY <1>1, <2>1, <2>2 DEF Members
<1>3. /\ role' = [role EXCEPT ![r][w] = "owner"]
      /\ audit' = [audit EXCEPT ![r] = [action |-> "organization.created", org |-> r,
                                        actor |-> w, subject |-> r]]
      /\ Ended(r, "done") /\ UNCHANGED <<kind, users, default_mode, session, key>>
  BY DEF CommitOrganization, Recorded
<1>4. /\ request' \in [Requests -> RequestState]
      /\ request'[r].phase = "done"
      /\ \A x \in Requests \ {r} : request'[x] = request[x]
  BY <1>1, <1>3, DoneRequest
<1>5. /\ Tables'
      /\ \A o \in Requests, u \in Users :
            role'[o][u] = IF o = r /\ u = w THEN "owner" ELSE role[o][u]
      /\ audit'[r].action = "organization.created" /\ audit'[r].actor = w
      /\ audit'[r].org = r
      /\ \A x \in Requests \ {r} : audit'[x] = audit[x]
  <2>1. "owner" \in Role
    BY DEF Role, ROLE_ORDER
  <2>2. [action |-> "organization.created", org |-> r, actor |-> w, subject |-> r]
           \in AuditEvent
    BY <1>2 DEF AuditEvent, Action
  <2>3. /\ role' \in [Requests -> [Users -> Role \cup {None}]]
        /\ \A o \in Requests, u \in Users :
              role'[o][u] = IF o = r /\ u = w THEN "owner" ELSE role[o][u]
    BY <1>1, <1>2, <1>3, <2>1 DEF AccessTypeOK, Tables
  <2>4. /\ audit' \in [Requests -> AuditEvent]
        /\ audit'[r].action = "organization.created" /\ audit'[r].actor = w
        /\ audit'[r].org = r
        /\ \A x \in Requests \ {r} : audit'[x] = audit[x]
    BY <1>1, <1>3, <2>2 DEF AccessTypeOK, Tables
  <2> QED BY <1>1, <1>3, <2>3, <2>4 DEF AccessTypeOK, Tables
<1>6. /\ audit[r].action = None /\ key[r].org = None
      /\ \A u \in Users : role[r][u] = None
      /\ \A o \in Requests, u \in Users : role[o][u] # None => o # r
  BY <1>2, OrganizationsAreMade
<1>7. Kept
  BY <1>3, <1>5, <1>6 DEF Kept
<1>8. \A x \in Requests : request'[x].phase # "done" => Unborn(x)'
  <2>1. \A x \in Requests : request'[x].phase # "done" => x # r /\ Unborn(x)
    BY <1>4, FactsOf
  <2> QED BY <1>3, <1>5, <2>1 DEF Unborn
<1>9. \A x \in Requests : kind[x] = "add_member" /\ request'[x].phase = "written" =>
         role'[request[x].org][request[x].subject] = None
  BY <1>4, <1>5, <1>6, IntentsOf
<1>10. Members'
  BY <1>1, <1>2, <1>3, <1>5 DEF Members
<1>11. NobodyWithoutATenant'
  <2>1. \A o \in Requests : (\A u \in Users : role[o][u] = None) =>
           \/ \A u \in Users : role'[o][u] = None
           \/ \E u \in users' : role'[o][u] = "owner"
    BY <1>2, <1>3, <1>5
  <2> QED BY <1>3, <1>5, <1>7, <2>1, TenantsKept
<1>12. OnlyAdminsAdminister' /\ Authored'
  <2>1. audit'[r].action \notin AdminAction
    BY <1>5 DEF AdminAction
  <2> QED BY <1>2, <1>3, <1>5, <1>6, <1>7, <2>1, AdminsKept
<1> QED BY <1>3, <1>4, <1>5, <1>7, <1>8, <1>9, <1>10, <1>11, <1>12, TablesStep

LEMMA CommitMemberStep ==
    ASSUME AccessInv, NEW r \in Requests, CommitMember(r)
    PROVE  AccessInv' /\ Kept
<1>. SUFFICES ASSUME NEW w, w = request[r].whom, NEW o, o = request[r].org,
                     NEW m, m = request[r].subject, NEW v, v = request[r].value
              PROVE  AccessInv' /\ Kept
  OBVIOUS
<1>1. AccessTypeOK /\ Members /\ Authored
  BY FactsOf
<1>2. kind[r] = "add_member" /\ request[r].phase = "written"
  BY DEF CommitMember, Writing
<1>3. /\ w \in Users /\ o \in Requests /\ m \in Users /\ m \in users /\ v \in Role
      /\ role[o][w] # None /\ role[o][m] = None
      /\ role_at_least(role[o][w], "admin")
  BY <1>2, IntentsOf DEF AdminKind, SessionKind
<1>4. /\ role' = [role EXCEPT ![o][m] = v]
      /\ audit' = [audit EXCEPT ![r] = [action |-> "member.added", org |-> o,
                                        actor |-> w, subject |-> m]]
      /\ Ended(r, "done") /\ UNCHANGED <<kind, users, default_mode, session, key>>
  BY DEF CommitMember, Recorded
<1>5. /\ request' \in [Requests -> RequestState]
      /\ request'[r].phase = "done"
      /\ \A x \in Requests \ {r} : request'[x] = request[x]
  BY <1>1, <1>4, DoneRequest
<1>6. /\ Tables'
      /\ \A p \in Requests, u \in Users :
            role'[p][u] = IF p = o /\ u = m THEN v ELSE role[p][u]
      /\ audit'[r].action = "member.added" /\ audit'[r].actor = w /\ audit'[r].org = o
      /\ \A x \in Requests \ {r} : audit'[x] = audit[x]
  <2>1. [action |-> "member.added", org |-> o, actor |-> w, subject |-> m] \in AuditEvent
    BY <1>3 DEF AuditEvent, Action
  <2>2. /\ role' \in [Requests -> [Users -> Role \cup {None}]]
        /\ \A p \in Requests, u \in Users :
              role'[p][u] = IF p = o /\ u = m THEN v ELSE role[p][u]
    BY <1>1, <1>3, <1>4 DEF AccessTypeOK, Tables
  <2>3. /\ audit' \in [Requests -> AuditEvent]
        /\ audit'[r].action = "member.added" /\ audit'[r].actor = w /\ audit'[r].org = o
        /\ \A x \in Requests \ {r} : audit'[x] = audit[x]
    BY <1>1, <1>4, <2>1 DEF AccessTypeOK, Tables
  <2> QED BY <1>1, <1>4, <2>2, <2>3 DEF AccessTypeOK, Tables
<1>7. audit[r].action = None /\ key[r].org = None
  BY <1>2, OrganizationsAreMade
<1>8. Kept
  BY <1>3, <1>4, <1>6, <1>7 DEF Kept
<1>9. \A x \in Requests : request'[x].phase # "done" => Unborn(x)'
  <2>1. ASSUME NEW x \in Requests, request'[x].phase # "done" PROVE Unborn(x)'
    <3>1. x # r /\ Unborn(x) /\ request[x].phase # "done"
      BY <1>5, <2>1, FactsOf
    <3>2. o # x
      BY <1>3, <3>1, OrganizationsAreMade
    <3> QED BY <1>4, <1>6, <3>1, <3>2 DEF Unborn
  <2> QED BY <2>1
<1>10. \A x \in Requests : kind[x] = "add_member" /\ request'[x].phase = "written" =>
          role'[request[x].org][request[x].subject] = None
  <2>1. ASSUME NEW x \in Requests, kind[x] = "add_member", request'[x].phase = "written"
        PROVE  role'[request[x].org][request[x].subject] = None
    <3>1. x # r /\ request[x].phase = "written"
      BY <1>5, <2>1
    <3>2. request[x].org # o \/ request[x].subject # m
      BY <1>2, <2>1, <3>1, FactsOf DEF Apart
    <3> QED BY <1>6, <2>1, <3>1, <3>2, IntentsOf
  <2> QED BY <2>1
<1>11. Members'
  BY <1>1, <1>3, <1>4, <1>6 DEF Members
<1>12. NobodyWithoutATenant'
  <2>1. \A p \in Requests : (\A u \in Users : role[p][u] = None) =>
           \A u \in Users : role'[p][u] = None
    BY <1>3, <1>6
  <2> QED BY <1>4, <1>6, <1>8, <2>1, TenantsKept
<1>13. OnlyAdminsAdminister' /\ Authored'
  <2>1. role'[o][w] = role[o][w]
    BY <1>3, <1>8 DEF Kept
  <2> QED BY <1>3, <1>4, <1>6, <1>7, <1>8, <2>1, AdminsKept
<1> QED BY <1>4, <1>5, <1>6, <1>8, <1>9, <1>10, <1>11, <1>12, <1>13, TablesStep

\* A step that leaves accounts, memberships and sessions alone: what it issues,
\* revokes or changes is an admin's.
LEMMA AdminStep ==
    ASSUME AccessInv, NEW r \in Requests, request[r].phase = "written",
           kind[r] \in AdminKind, Ended(r, "done"),
           UNCHANGED <<kind, users, role, session>>, Tables',
           \A x \in Requests \ {r} : audit'[x] = audit[x],
           audit'[r].actor = request[r].whom, audit'[r].org = request[r].org,
           \A k \in Requests :
              \/ key'[k] = key[k]
              \/ k = r /\ key'[r].org = request[r].org
                       /\ key'[r].created_by = request[r].whom
              \/ /\ key[k].org # None
                 /\ key'[k] = [key[k] EXCEPT !.revoked = TRUE]
                 /\ \A x \in Requests \ {r} :
                       kind[x] = "revoke_api_key" /\ request[x].phase = "written" =>
                          request[x].subject # k
    PROVE  AccessInv' /\ Kept
<1>1. AccessTypeOK /\ Members /\ Authored /\ NobodyWithoutATenant
  BY FactsOf
<1>2. /\ request[r].org \in Requests /\ request[r].whom \in Users
      /\ role_at_least(role[request[r].org][request[r].whom], "admin")
  BY IntentsOf
<1>3. /\ request' \in [Requests -> RequestState]
      /\ request'[r].phase = "done"
      /\ \A x \in Requests \ {r} : request'[x] = request[x]
  BY <1>1, DoneRequest
<1>4. session[r] = NoSession /\ key[r].org = None /\ audit[r].action = None
  BY OrganizationsAreMade
<1>5. Kept
  BY <1>4 DEF Kept
<1>6. \A x \in Requests : request'[x].phase # "done" => Unborn(x)'
  <2>1. ASSUME NEW x \in Requests, request'[x].phase # "done" PROVE Unborn(x)'
    <3>1. x # r /\ Unborn(x)
      BY <1>3, <2>1, FactsOf
    <3>2. key'[x] = key[x]
      <4>1. key[x].org = None
        BY <3>1 DEF Unborn, NoKey
      <4> QED BY <2>1, <3>1, <4>1
    <3> QED BY <3>1, <3>2 DEF Unborn
  <2> QED BY <2>1
<1>7. \A x \in Requests : kind[x] = "add_member" /\ request'[x].phase = "written" =>
         role'[request[x].org][request[x].subject] = None
  BY <1>3, IntentsOf
<1>8. \A x \in Requests : kind[x] = "revoke_api_key" /\ request'[x].phase = "written" =>
         key'[request[x].subject] = key[request[x].subject]
  <2>1. ASSUME NEW x \in Requests, kind[x] = "revoke_api_key", request'[x].phase = "written"
        PROVE  key'[request[x].subject] = key[request[x].subject]
    <3>1. x # r /\ request[x].phase = "written"
      BY <1>3, <2>1
    <3>2. /\ request[x].subject \in Requests
          /\ key[request[x].subject].org = request[x].org /\ request[x].org \in Requests
      BY <2>1, <3>1, IntentsOf DEF AdminKind, SessionKind
    <3>3. request[x].subject # r
      BY <1>4, <3>2, AccessAssumption
    <3> QED BY <2>1, <3>1, <3>2, <3>3
  <2> QED BY <2>1
<1>9. Members'
  BY <1>1 DEF Members
<1>10. NobodyWithoutATenant'
  BY <1>5, TenantsKept
<1>11. OnlyAdminsAdminister' /\ Authored'
  <2>1. \A x \in Requests \ {r} : key[x].org = None => key'[x] = key[x]
    OBVIOUS
  <2>2. key'[r].org # None =>
           /\ key'[r].created_by \in Users
           /\ role_at_least(role'[key'[r].org][key'[r].created_by], "admin")
    BY <1>2, <1>4
  <2> QED BY <1>2, <1>4, <1>5, <2>1, <2>2, AdminsKept
<1> QED BY <1>3, <1>5, <1>6, <1>7, <1>8, <1>9, <1>10, <1>11, TablesStep

LEMMA CommitKeyStep ==
    ASSUME AccessInv, NEW r \in Requests, CommitKey(r)
    PROVE  AccessInv' /\ Kept
<1>. SUFFICES ASSUME NEW w, w = request[r].whom, NEW o, o = request[r].org,
                     NEW v, v = request[r].value
              PROVE  AccessInv' /\ Kept
  OBVIOUS
<1>1. AccessTypeOK /\ Intent(r, request[r])
  BY FactsOf
<1>2. kind[r] = "create_api_key" /\ request[r].phase = "written" /\ kind[r] \in AdminKind
  BY DEF CommitKey, Writing, AdminKind, SessionKind
<1>3. w \in Users /\ o \in Requests /\ v \in ExecutionMode \cup {None}
  BY <1>1, <1>2, IntentsOf DEF Intent
<1>4. /\ key' = [key EXCEPT ![r] = [org |-> o, created_by |-> w, mode_ceiling |-> v,
                                    revoked |-> FALSE]]
      /\ audit' = [audit EXCEPT ![r] = [action |-> "api_key.created", org |-> o,
                                        actor |-> w, subject |-> r]]
      /\ Ended(r, "done") /\ UNCHANGED <<kind, users, role, default_mode, session>>
  BY DEF CommitKey, Recorded
<1>5. /\ key' \in [Requests -> ApiKey]
      /\ key'[r].org = o /\ key'[r].created_by = w
      /\ \A k \in Requests \ {r} : key'[k] = key[k]
  <2>1. [org |-> o, created_by |-> w, mode_ceiling |-> v, revoked |-> FALSE] \in ApiKey
    BY <1>3 DEF ApiKey
  <2> QED BY <1>1, <1>4, <2>1 DEF AccessTypeOK, Tables
<1>6. /\ audit' \in [Requests -> AuditEvent]
      /\ audit'[r].actor = w /\ audit'[r].org = o
      /\ \A x \in Requests \ {r} : audit'[x] = audit[x]
  <2>1. [action |-> "api_key.created", org |-> o, actor |-> w, subject |-> r] \in AuditEvent
    BY <1>3 DEF AuditEvent, Action
  <2> QED BY <1>1, <1>4, <2>1 DEF AccessTypeOK, Tables
<1>7. Tables'
  BY <1>1, <1>4, <1>5, <1>6 DEF AccessTypeOK, Tables
<1> QED BY <1>2, <1>4, <1>5, <1>6, <1>7, AdminStep

LEMMA CommitRevokeStep ==
    ASSUME AccessInv, NEW r \in Requests, CommitRevoke(r)
    PROVE  AccessInv' /\ Kept
<1>. SUFFICES ASSUME NEW w, w = request[r].whom, NEW o, o = request[r].org,
                     NEW k, k = request[r].subject
              PROVE  AccessInv' /\ Kept
  OBVIOUS
<1>1. AccessTypeOK
  BY FactsOf
<1>2. kind[r] = "revoke_api_key" /\ request[r].phase = "written" /\ kind[r] \in AdminKind
  BY DEF CommitRevoke, Writing, AdminKind, SessionKind
<1>3. w \in Users /\ o \in Requests /\ k \in Requests /\ key[k].org = o
  BY <1>2, IntentsOf
<1>4. /\ key' = [key EXCEPT ![k] = [key[k] EXCEPT !.revoked = TRUE]]
      /\ audit' = [audit EXCEPT ![r] = [action |-> "api_key.revoked", org |-> o,
                                        actor |-> w, subject |-> k]]
      /\ Ended(r, "done") /\ UNCHANGED <<kind, users, role, default_mode, session>>
  BY DEF CommitRevoke, Recorded
<1>5. /\ key' \in [Requests -> ApiKey]
      /\ key'[k] = [key[k] EXCEPT !.revoked = TRUE]
      /\ \A j \in Requests \ {k} : key'[j] = key[j]
  <2>1. [key[k] EXCEPT !.revoked = TRUE] \in ApiKey
    <3>1. key[k] \in ApiKey
      BY <1>1, <1>3 DEF AccessTypeOK, Tables
    <3> QED BY <3>1 DEF ApiKey
  <2> QED BY <1>1, <1>3, <1>4, <2>1 DEF AccessTypeOK, Tables
<1>6. /\ audit' \in [Requests -> AuditEvent]
      /\ audit'[r].actor = w /\ audit'[r].org = o
      /\ \A x \in Requests \ {r} : audit'[x] = audit[x]
  <2>1. [action |-> "api_key.revoked", org |-> o, actor |-> w, subject |-> k] \in AuditEvent
    BY <1>3 DEF AuditEvent, Action
  <2> QED BY <1>1, <1>4, <2>1 DEF AccessTypeOK, Tables
<1>7. Tables'
  BY <1>1, <1>4, <1>5, <1>6 DEF AccessTypeOK, Tables
<1>8. \A x \in Requests \ {r} :
         kind[x] = "revoke_api_key" /\ request[x].phase = "written" => request[x].subject # k
  BY <1>2, FactsOf DEF Apart
<1>9. key[k].org # None
  BY <1>3, AccessAssumption
<1>10. \A j \in Requests :
          \/ key'[j] = key[j]
          \/ j = r /\ key'[r].org = request[r].org
                   /\ key'[r].created_by = request[r].whom
          \/ /\ key[j].org # None
             /\ key'[j] = [key[j] EXCEPT !.revoked = TRUE]
             /\ \A x \in Requests \ {r} :
                   kind[x] = "revoke_api_key" /\ request[x].phase = "written" =>
                      request[x].subject # j
  BY <1>5, <1>8, <1>9
<1>11. audit'[r].actor = request[r].whom /\ audit'[r].org = request[r].org
  BY <1>6
<1>12. UNCHANGED <<kind, users, role, session>> /\ Ended(r, "done")
  BY <1>4
<1>13. \A x \in Requests \ {r} : audit'[x] = audit[x]
  BY <1>6
<1> QED BY <1>2, <1>7, <1>10, <1>11, <1>12, <1>13, AdminStep

LEMMA CommitModeStep ==
    ASSUME AccessInv, NEW r \in Requests, CommitMode(r)
    PROVE  AccessInv' /\ Kept
<1>. SUFFICES ASSUME NEW w, w = request[r].whom, NEW o, o = request[r].org,
                     NEW v, v = request[r].value
              PROVE  AccessInv' /\ Kept
  OBVIOUS
<1>1. AccessTypeOK /\ Intent(r, request[r])
  BY FactsOf
<1>2. kind[r] = "update_organization" /\ request[r].phase = "written" /\ kind[r] \in AdminKind
  BY DEF CommitMode, Writing, AdminKind, SessionKind
<1>3. w \in Users /\ o \in Requests /\ v \in ExecutionMode \cup {None}
  BY <1>1, <1>2, IntentsOf DEF Intent
<1>4. /\ default_mode' = IF v = None THEN default_mode ELSE [default_mode EXCEPT ![o] = v]
      /\ audit' = [audit EXCEPT ![r] = [action |-> "organization.updated", org |-> o,
                                        actor |-> w, subject |-> o]]
      /\ Ended(r, "done") /\ UNCHANGED <<kind, users, role, session, key>>
  BY DEF CommitMode, Recorded
<1>5. default_mode' \in [Requests -> ExecutionMode]
  BY <1>1, <1>3, <1>4 DEF AccessTypeOK, Tables
<1>6. /\ audit' \in [Requests -> AuditEvent]
      /\ audit'[r].actor = w /\ audit'[r].org = o
      /\ \A x \in Requests \ {r} : audit'[x] = audit[x]
  <2>1. [action |-> "organization.updated", org |-> o, actor |-> w, subject |-> o]
           \in AuditEvent
    BY <1>3 DEF AuditEvent, Action
  <2> QED BY <1>1, <1>4, <2>1 DEF AccessTypeOK, Tables
<1>7. Tables'
  BY <1>1, <1>4, <1>5, <1>6 DEF AccessTypeOK, Tables
<1> QED BY <1>2, <1>4, <1>6, <1>7, AdminStep


-----------------------------------------------------------------------------
(***************************************************************************)
(* The invariant and what steps keep.                                      *)
(***************************************************************************)
LEMMA AccessInit == Init => AccessInv
<1> SUFFICES ASSUME Init PROVE AccessInv
  OBVIOUS
<1>1. /\ Blank \in RequestState /\ NoSession \in Session /\ NoKey \in ApiKey
      /\ \A r \in Requests : NoEvent(r) \in AuditEvent
      /\ NoSession.user = None /\ NoKey.org = None /\ Blank.phase = "new"
      /\ \A r \in Requests : NoEvent(r).action = None
  BY DEF Blank, RequestState, NoSession, Session, NoKey, ApiKey, NoEvent, AuditEvent
<1>2. "auto" \in ExecutionMode
  BY DEF ExecutionMode
<1>3. AccessTypeOK
  BY <1>1, <1>2, AccessAssumption DEF Init, AccessTypeOK, Tables
<1>4. ASSUME NEW r \in Requests PROVE Sound(r, request[r])
  BY <1>1 DEF Init, Sound, Reached, Principal, Intent, Unborn, Inside
<1>5. \A r, x \in Requests : r # x => Apart(r, request[r], x, request[x])
  BY <1>1 DEF Init, Apart
<1>6. Members /\ Authored
  BY <1>1 DEF Init, Members, Authored
<1>7. NobodyWithoutATenant
  BY <1>1 DEF Init, NobodyWithoutATenant
<1>8. OnlyAdminsAdminister
  BY <1>1, AccessAssumption DEF Init, OnlyAdminsAdminister, Action
<1> QED BY <1>3, <1>4, <1>5, <1>6, <1>7, <1>8 DEF AccessInv

LEMMA QuietHandle ==
    ASSUME AccessInv, NEW r \in Requests, UNCHANGED stored, Handle(r)
    PROVE  AccessInv' /\ Kept
<1>1. CASE RefuseRole(r)
  BY <1>1, FailedStep DEF RefuseRole
<1>2. CASE PoolTimeout(r)
  BY <1>2, FailedStep DEF PoolTimeout
<1>3. CASE InsertUser(r)
  BY <1>3, InsertUserStep
<1>4. CASE \E o \in Requests : StartSession(r, o)
  BY <1>4, StartSessionStep
<1>5. CASE RequireMembership(r)
  BY <1>5, RequireMembershipStep
<1>6. CASE \/ \E o \in Requests : ResolveAgain(r, o)
           \/ RequireNewMembership(r) \/ FlushSwitch(r)
  BY <1>6, ResolveAgainStep, RequireNewMembershipStep, FlushSwitchStep
<1>7. CASE CreateOrganization(r)
  BY <1>7, CreateOrganizationStep
<1>8. CASE \E u \in Users, given \in OfferedRoles : LookUpMember(r, u, given)
  BY <1>8, LookUpMemberStep
<1>9. CASE InsertMember(r)
  BY <1>9, InsertMemberStep
<1>10. CASE \E ceiling \in OfferedModes \cup {None} : CreateKey(r, ceiling)
  BY <1>10, CreateKeyStep
<1>11. CASE \E k \in Requests : RevokeKey(r, k)
  BY <1>11, RevokeKeyStep
<1>12. CASE \E m \in OfferedModes : SetMode(r, m)
  BY <1>12, SetModeStep
<1>13. CASE TouchKey(r)
  BY <1>13, ServedStep
<1> QED BY <1>1, <1>2, <1>3, <1>4, <1>5, <1>6, <1>7, <1>8, <1>9, <1>10, <1>11, <1>12, <1>13
        DEF Handle

LEMMA HandleWritesNothing ==
    ASSUME NEW r \in Requests, Handle(r) \/ LoseTransaction(r)
    PROVE  UNCHANGED stored
  BY DEF Handle, LoseTransaction, InsertUser, StartSession, RequireMembership, RefuseRole,
         ResolveAgain, RequireNewMembership, FlushSwitch, CreateOrganization, LookUpMember,
         InsertMember, CreateKey, RevokeKey,
         SetMode, TouchKey, PoolTimeout, stored

LEMMA CommitKeepsAccess ==
    ASSUME AccessInv, NEW r \in Requests, Commit(r)
    PROVE  AccessInv' /\ Kept
  BY CommitRegisterStep, CommitLoginStep, CommitSwitchStep, CommitOrganizationStep,
     CommitMemberStep, CommitKeyStep, CommitRevokeStep, CommitModeStep DEF Commit

LEMMA ArriveKeepsAccess ==
    ASSUME AccessInv, NEW r \in Requests, Arrive(r)
    PROVE  AccessInv' /\ Kept
<1>1. CASE \E s \in Requests : RevokeSession(r, s)
  BY <1>1, EndSessionStep DEF RevokeSession
<1>2. CASE \E k \in Requests, asked \in OfferedModes : CallGateway(r, k, asked)
  <2>1. UNCHANGED stored
    BY <1>2 DEF CallGateway, stored
  <2> QED BY <1>2, <2>1, ServedStep
<1>3. CASE \/ \E u \in Users : CheckEmail(r, u) \/ Authenticate(r, u)
           \/ \E s \in Requests : ResolveSession(r, s)
           \/ \E k \in Requests : ResolveKey(r, k)
  <2>1. UNCHANGED stored
    BY <1>3 DEF CheckEmail, Authenticate, ResolveSession, ResolveKey, stored
  <2> QED BY <1>3, <2>1, ArriveStep
<1> QED BY <1>1, <1>2, <1>3 DEF Arrive

LEMMA AccessStep == AccessInv /\ [Next]_accessVars => AccessInv' /\ Kept
<1> SUFFICES ASSUME AccessInv, [Next]_accessVars PROVE AccessInv' /\ Kept
  OBVIOUS
<1>1. ASSUME NEW r \in Requests, Arrive(r) PROVE AccessInv' /\ Kept
  BY <1>1, ArriveKeepsAccess
<1>2. ASSUME NEW r \in Requests, Handle(r) PROVE AccessInv' /\ Kept
  BY <1>2, HandleWritesNothing, QuietHandle
<1>3. ASSUME NEW r \in Requests, Commit(r) PROVE AccessInv' /\ Kept
  BY <1>3, CommitKeepsAccess
<1>4. ASSUME NEW r \in Requests, LoseTransaction(r) PROVE AccessInv' /\ Kept
  BY <1>4, HandleWritesNothing, FailedStep DEF LoseTransaction
<1>5. ASSUME NEW s \in Requests, Expire(s) PROVE AccessInv' /\ Kept
  BY <1>5, EndSessionStep DEF Expire, Valid
<1>6. CASE UNCHANGED accessVars
  <2>1. UNCHANGED stored /\ UNCHANGED request
    BY <1>6 DEF accessVars, stored
  <2>2. AccessInv'
    BY <2>1 DEF AccessInv, AccessTypeOK, Tables, Sound, Reached, Principal, Intent, Unborn,
                Apart, Members, Authored, NobodyWithoutATenant, OnlyAdminsAdminister, stored
  <2>3. Kept
    BY <2>1 DEF Kept, stored
  <2> QED BY <2>2, <2>3
<1> QED BY <1>1, <1>2, <1>3, <1>4, <1>5, <1>6 DEF Next

LEMMA AccessHolds == Spec => []AccessInv
  BY AccessInit, AccessStep, PTL DEF Spec

(***************************************************************************)
(* Types: no handler leaves a row or a principal in a state that the       *)
(* schema does not know.                                                   *)
(***************************************************************************)
THEOREM AccessTypeCorrect == Spec => []AccessTypeOK
<1>1. AccessInv => AccessTypeOK
  BY DEF AccessInv
<1> QED BY <1>1, AccessHolds, PTL

(***************************************************************************)
(* No user without a tenant, no organization without an owner, no session  *)
(* in an organization its user is not a member of.  (identity.py:7-10)     *)
(***************************************************************************)
THEOREM NobodyWithoutATenantHolds == Spec => []NobodyWithoutATenant
<1>1. AccessInv => NobodyWithoutATenant
  BY DEF AccessInv
<1> QED BY <1>1, AccessHolds, PTL

(***************************************************************************)
(* Only admins administer, although the role that is checked was read in   *)
(* another transaction.  (Principal.require_role)                          *)
(***************************************************************************)
THEOREM OnlyAdminsAdministerHolds == Spec => []OnlyAdminsAdminister
<1>1. AccessInv => OnlyAdminsAdminister
  BY DEF AccessInv
<1> QED BY <1>1, AccessHolds, PTL

(***************************************************************************)
(* What has ended stays ended: sessions, keys and audit events; a session  *)
(* that is revoked after a switch has read it, and before it is written,   *)
(* stays revoked.                                                          *)
(* (identity.py: revoke_session, switch_organization, revoke_api_key,      *)
(* record_audit)                                                           *)
(***************************************************************************)
THEOREM EndedForGoodHolds == Spec => EndedForGood
<1>1. Kept =>
        [/\ \A s \in Requests : session[s].user # None =>
               /\ session'[s].user = session[s].user
               /\ session[s].revoked => session'[s].revoked
               /\ session[s].expired => session'[s].expired
         /\ \A k \in Requests : key[k].org # None =>
               key'[k] \in {key[k], [key[k] EXCEPT !.revoked = TRUE]}
         /\ \A r \in Requests : audit[r].action # None => audit'[r] = audit[r]]_accessVars
  BY DEF Kept
<1> QED BY <1>1, AccessHolds, AccessStep, PTL DEF Spec, EndedForGood

-----------------------------------------------------------------------------
(***************************************************************************)
(* What the audit log tells, and what has happened: each of them has the   *)
(* other, and no two events tell of the same thing.                        *)
(***************************************************************************)
Tells(e, action, o, x) == e.action = action /\ e.org = o /\ e.subject = x

\* An organization with members was founded by one of them.
Founded ==
    \A o \in Requests, u \in Users : role[o][u] # None =>
        audit[o].action # None /\ role[o][audit[o].actor] # None

EventsAreTrue ==
    \A r \in Requests :
        /\ audit[r].action = "member.added" =>
              /\ audit[r].subject \in Users
              /\ role[audit[r].org][audit[r].subject] # None
              /\ audit[audit[r].org].actor # audit[r].subject
        /\ audit[r].action = "api_key.created" =>
              audit[r].subject = r /\ audit[r].org = key[r].org
        /\ audit[r].action = "api_key.revoked" =>
              /\ audit[r].subject \in Requests
              /\ key[audit[r].subject].org = audit[r].org
              /\ key[audit[r].subject].revoked

FactsAreTold ==
    /\ \A o \in Requests, u \in Users : role[o][u] # None /\ audit[o].actor # u =>
          \E r \in Requests : Tells(audit[r], "member.added", o, u)
    /\ \A k \in Requests : key[k].org # None =>
          /\ audit[k].action = "api_key.created"
          /\ key[k].revoked =>
                \E r \in Requests : Tells(audit[r], "api_key.revoked", key[k].org, k)

ToldOnce ==
    \A r, x \in Requests :
        /\ audit[r].action \in {"member.added", "api_key.revoked"}
        /\ Tells(audit[x], audit[r].action, audit[r].org, audit[r].subject)
        => r = x

Traced == Founded /\ EventsAreTrue /\ FactsAreTold /\ ToldOnce

\* A request may commit a membership, a key or a revocation that was not there,
\* with its event, or an event of another kind.
Commits(r) ==
    /\ \A x \in Requests \ {r} : audit'[x] = audit[x]
    /\ \A o \in Requests, u \in Users : role[o][u] = None =>
          \/ role'[o][u] = None
          \/ o = r /\ u = audit'[r].actor /\ audit'[r].action # None
          \/ Tells(audit'[r], "member.added", o, u)
    /\ \A k \in Requests :
          \/ key'[k] = key[k]
          \/ k = r /\ Tells(audit'[r], "api_key.created", key'[r].org, r) /\ ~key'[r].revoked
          \/ key[k].org # None /\ key'[k] = [key[k] EXCEPT !.revoked = TRUE]
             /\ Tells(audit'[r], "api_key.revoked", key[k].org, k)
    /\ audit'[r].action = "member.added" =>
          /\ audit'[r].subject \in Users
          /\ role[audit'[r].org][audit'[r].subject] = None
          /\ role'[audit'[r].org][audit'[r].subject] # None
          /\ \E u \in Users : role[audit'[r].org][u] # None
    /\ audit'[r].action = "api_key.created" =>
          audit'[r].subject = r /\ audit'[r].org = key'[r].org
    /\ audit'[r].action = "api_key.revoked" =>
          /\ audit'[r].subject \in Requests
          /\ key[audit'[r].subject].org = audit'[r].org
          /\ ~key[audit'[r].subject].revoked /\ key'[audit'[r].subject].revoked

\* The names a step adds are new: whatever the log tells is of others.
LEMMA CommitsAreNew ==
    ASSUME AccessInv, Kept, Traced, NEW r \in Requests, request[r].phase # "done",
           NEW x \in Requests, audit[x].action # None
    PROVE  /\ x # r /\ audit'[x] = audit[x]
           /\ audit[x].actor \in Users /\ audit[x].org \in Requests
           /\ audit[x].action \in {"member.added", "api_key.created", "api_key.revoked"} =>
                 audit[x].org # r
<1>1. Authored /\ AccessTypeOK
  BY DEF AccessInv
<1>2. audit[x].actor \in Users /\ audit[x].org \in Requests
  BY <1>1 DEF Authored
<1>3. x # r /\ audit'[x] = audit[x]
  BY OrganizationsAreMade DEF Kept
<1>4. ASSUME audit[x].action \in AdminAction PROVE audit[x].org # r
  <2>1. role_at_least(role[audit[x].org][audit[x].actor], "admin")
    BY <1>4 DEF AccessInv, OnlyAdminsAdminister, AdminAction
  <2>2. role[audit[x].org][audit[x].actor] # None
    BY <2>1 DEF role_at_least
  <2> QED BY <1>2, <2>2, OrganizationsAreMade
<1> QED BY <1>2, <1>3, <1>4 DEF AdminAction

LEMMA FoundedStep ==
    ASSUME AccessInv, AccessInv', Kept, Traced, NEW r \in Requests,
           request[r].phase # "done", Commits(r)
    PROVE  Founded'
<1> SUFFICES ASSUME NEW o \in Requests, NEW u \in Users, role'[o][u] # None
             PROVE  audit'[o].action # None /\ role'[o][audit'[o].actor] # None
  BY DEF Founded
<1>1. ASSUME NEW v \in Users, role[o][v] # None
      PROVE  audit'[o].action # None /\ role'[o][audit'[o].actor] # None
  <2>1. audit[o].action # None /\ role[o][audit[o].actor] # None
    BY <1>1 DEF Traced, Founded
  <2>2. audit'[o] = audit[o] /\ audit[o].actor \in Users
    BY <2>1, CommitsAreNew
  <2> QED BY <2>1, <2>2 DEF Kept
<1>2. CASE role[o][u] = None
  <2>1. CASE o = r /\ u = audit'[r].actor /\ audit'[r].action # None
    BY <2>1
  <2>2. CASE Tells(audit'[r], "member.added", o, u)
    <3>1. \E v \in Users : role[o][v] # None
      BY <2>2 DEF Tells, Commits
    <3> QED BY <3>1, <1>1
  <2> QED BY <1>2, <2>1, <2>2 DEF Commits
<1> QED BY <1>1, <1>2

LEMMA EventsStep ==
    ASSUME AccessInv, AccessInv', Kept, Traced, NEW r \in Requests,
           request[r].phase # "done", Commits(r)
    PROVE  EventsAreTrue'
<1> SUFFICES ASSUME NEW x \in Requests, NEW e, e = audit'[x]
             PROVE  /\ e.action = "member.added" =>
                          /\ e.subject \in Users
                          /\ role'[e.org][e.subject] # None
                          /\ audit'[e.org].actor # e.subject
                    /\ e.action = "api_key.created" =>
                          e.subject = x /\ e.org = key'[x].org
                    /\ e.action = "api_key.revoked" =>
                          /\ e.subject \in Requests
                          /\ key'[e.subject].org = e.org
                          /\ key'[e.subject].revoked
  BY DEF EventsAreTrue
<1>1. e.action # None => e.org \in Requests
  BY DEF AccessInv, Authored
<1>2. None # "member.added" /\ None # "api_key.created" /\ None # "api_key.revoked"
  BY AccessAssumption DEF Action
<1>3. None \notin Requests
  BY AccessAssumption
<1>4. \A k \in Requests : key[k].org # None =>
         key'[k].org = key[k].org /\ (key[k].revoked => key'[k].revoked)
  <2> SUFFICES ASSUME NEW k \in Requests, key[k].org # None
               PROVE  key'[k].org = key[k].org /\ (key[k].revoked => key'[k].revoked)
    OBVIOUS
  <2>1. key[k] \in ApiKey /\ key'[k] \in {key[k], [key[k] EXCEPT !.revoked = TRUE]}
    BY DEF Kept, AccessInv, AccessTypeOK, Tables
  <2> QED BY <2>1 DEF ApiKey
<1>5. CASE x = r
  <2>1. ASSUME e.action = "member.added"
        PROVE  /\ e.subject \in Users /\ role'[e.org][e.subject] # None
               /\ audit'[e.org].actor # e.subject
    <3>1. /\ e.subject \in Users /\ role'[e.org][e.subject] # None
          /\ role[e.org][e.subject] = None
          /\ \E v \in Users : role[e.org][v] # None
      BY <1>5, <2>1 DEF Commits
    <3>2. e.org \in Requests
      BY <1>1, <1>2, <2>1
    <3>3. audit[e.org].action # None /\ role[e.org][audit[e.org].actor] # None
      BY <3>1, <3>2 DEF Traced, Founded
    <3>4. audit'[e.org] = audit[e.org]
      BY <3>2, <3>3, CommitsAreNew
    <3> QED BY <3>1, <3>3, <3>4
  <2>2. e.action = "api_key.created" => e.subject = x /\ e.org = key'[x].org
    BY <1>5 DEF Commits
  <2>3. ASSUME e.action = "api_key.revoked"
        PROVE  /\ e.subject \in Requests /\ key'[e.subject].org = e.org
               /\ key'[e.subject].revoked
    <3>1. /\ e.subject \in Requests /\ key[e.subject].org = e.org
          /\ key'[e.subject].revoked
      BY <1>5, <2>3 DEF Commits
    <3> QED BY <1>1, <1>2, <1>3, <1>4, <2>3, <3>1
  <2> QED BY <2>1, <2>2, <2>3
<1>6. CASE x # r /\ e.action # None
  <2>1. e = audit[x]
    BY <1>6 DEF Commits
  <2>2. /\ e.org \in Requests
        /\ e.action \in {"member.added", "api_key.created", "api_key.revoked"} => e.org # r
    BY <1>6, <2>1, CommitsAreNew
  <2>3. ASSUME e.action = "member.added"
        PROVE  /\ e.subject \in Users /\ role'[e.org][e.subject] # None
               /\ audit'[e.org].actor # e.subject
    <3>1. /\ e.subject \in Users /\ role[e.org][e.subject] # None
          /\ audit[e.org].actor # e.subject
      BY <2>1, <2>3 DEF Traced, EventsAreTrue
    <3>2. audit'[e.org] = audit[e.org]
      BY <2>2, <2>3 DEF Commits
    <3> QED BY <2>2, <3>1, <3>2 DEF Kept
  <2>4. ASSUME e.action = "api_key.created" PROVE e.subject = x /\ e.org = key'[x].org
    <3>1. e.subject = x /\ e.org = key[x].org
      BY <2>1, <2>4 DEF Traced, EventsAreTrue
    <3> QED BY <1>3, <1>4, <2>2, <3>1
  <2>5. ASSUME e.action = "api_key.revoked"
        PROVE  /\ e.subject \in Requests /\ key'[e.subject].org = e.org
               /\ key'[e.subject].revoked
    <3>1. /\ e.subject \in Requests /\ key[e.subject].org = e.org
          /\ key[e.subject].revoked
      BY <2>1, <2>5 DEF Traced, EventsAreTrue
    <3> QED BY <1>3, <1>4, <2>2, <3>1
  <2> QED BY <2>3, <2>4, <2>5
<1>7. CASE e.action = None
  BY <1>2, <1>7
<1> QED BY <1>5, <1>6, <1>7

LEMMA FactsStep ==
    ASSUME AccessInv, AccessInv', Kept, Traced, NEW r \in Requests,
           request[r].phase # "done", Commits(r)
    PROVE  FactsAreTold'
<1>0. None # "member.added" /\ None # "api_key.created" /\ None # "api_key.revoked"
  BY AccessAssumption DEF Action
<1>1. ASSUME NEW o \in Requests, NEW u \in Users, role'[o][u] # None, audit'[o].actor # u
      PROVE  \E x \in Requests : Tells(audit'[x], "member.added", o, u)
  <2>1. CASE role[o][u] # None
    <3>1. audit[o].action # None
      BY <2>1 DEF Traced, Founded
    <3>2. audit'[o] = audit[o]
      BY <3>1, CommitsAreNew
    <3>3. PICK x \in Requests : Tells(audit[x], "member.added", o, u)
      BY <1>1, <2>1, <3>2 DEF Traced, FactsAreTold
    <3>4. audit'[x] = audit[x]
      BY <1>0, <3>3, CommitsAreNew DEF Tells
    <3> QED BY <3>3, <3>4 DEF Tells
  <2>2. CASE role[o][u] = None
    BY <1>1, <2>2 DEF Commits
  <2> QED BY <2>1, <2>2
<1>2. ASSUME NEW k \in Requests, key'[k].org # None
      PROVE  /\ audit'[k].action = "api_key.created"
             /\ key'[k].revoked =>
                   \E x \in Requests : Tells(audit'[x], "api_key.revoked", key'[k].org, k)
  <2>1. CASE key[k].org # None
    <3>1. audit[k].action = "api_key.created"
      BY <2>1 DEF Traced, FactsAreTold
    <3>2. audit'[k] = audit[k]
      BY <1>0, <3>1, CommitsAreNew
    <3>3. k # r
      BY <2>1, OrganizationsAreMade
    <3>4. key[k] \in ApiKey /\ key'[k] \in {key[k], [key[k] EXCEPT !.revoked = TRUE]}
      BY <2>1 DEF Kept, AccessInv, AccessTypeOK, Tables
    <3>5. key'[k].org = key[k].org
      BY <3>4 DEF ApiKey
    <3>6. ASSUME key'[k].revoked
          PROVE  \E x \in Requests : Tells(audit'[x], "api_key.revoked", key'[k].org, k)
      <4>1. CASE key[k].revoked
        <5>1. PICK x \in Requests : Tells(audit[x], "api_key.revoked", key[k].org, k)
          BY <2>1, <4>1 DEF Traced, FactsAreTold
        <5>2. audit'[x] = audit[x]
          BY <1>0, <5>1, CommitsAreNew DEF Tells
        <5> QED BY <3>5, <5>1, <5>2 DEF Tells
      <4>2. CASE ~key[k].revoked
        <5>1. key'[k] # key[k]
          BY <3>6, <4>2
        <5>2. Tells(audit'[r], "api_key.revoked", key[k].org, k)
          BY <3>3, <5>1 DEF Commits
        <5> QED BY <3>5, <5>2 DEF Tells
      <4> QED BY <4>1, <4>2
    <3> QED BY <3>1, <3>2, <3>6
  <2>2. CASE key[k].org = None
    <3>1. key'[k] # key[k]
      BY <1>2, <2>2
    <3>2. k = r /\ Tells(audit'[r], "api_key.created", key'[r].org, r) /\ ~key'[r].revoked
      BY <2>2, <3>1 DEF Commits
    <3> QED BY <3>2 DEF Tells
  <2> QED BY <2>1, <2>2
<1> QED BY <1>1, <1>2 DEF FactsAreTold

LEMMA OnceStep ==
    ASSUME AccessInv, AccessInv', Kept, Traced, NEW r \in Requests,
           request[r].phase # "done", Commits(r)
    PROVE  ToldOnce'
<1>1. ASSUME NEW x \in Requests, x # r,
             audit'[r].action \in {"member.added", "api_key.revoked"},
             audit'[x].action = audit'[r].action, audit'[x].org = audit'[r].org,
             audit'[x].subject = audit'[r].subject
      PROVE  FALSE
  <2>1. audit'[x] = audit[x]
    BY <1>1 DEF Commits
  <2>2. CASE audit'[r].action = "member.added"
    <3>1. role[audit[x].org][audit[x].subject] # None
      BY <1>1, <2>1, <2>2 DEF Traced, EventsAreTrue
    <3>2. role[audit'[r].org][audit'[r].subject] = None
      BY <2>2 DEF Commits
    <3> QED BY <1>1, <2>1, <3>1, <3>2
  <2>3. CASE audit'[r].action = "api_key.revoked"
    <3>1. key[audit[x].subject].revoked
      BY <1>1, <2>1, <2>3 DEF Traced, EventsAreTrue
    <3>2. ~key[audit'[r].subject].revoked
      BY <2>3 DEF Commits
    <3> QED BY <1>1, <2>1, <3>1, <3>2
  <2> QED BY <1>1, <2>2, <2>3
<1> SUFFICES ASSUME NEW y \in Requests, NEW x \in Requests,
                    audit'[y].action \in {"member.added", "api_key.revoked"},
                    audit'[x].action = audit'[y].action, audit'[x].org = audit'[y].org,
                    audit'[x].subject = audit'[y].subject
             PROVE  y = x
  BY DEF ToldOnce, Tells
<1>2. CASE y # r /\ x # r
  <2>1. audit'[y] = audit[y] /\ audit'[x] = audit[x]
    BY <1>2 DEF Commits
  <2> QED BY <2>1 DEF Traced, ToldOnce, Tells
<1>3. CASE y = r \/ x = r
  BY <1>1, <1>3
<1> QED BY <1>2, <1>3

LEMMA TracedStep ==
    ASSUME AccessInv, AccessInv', Kept, Traced, NEW r \in Requests,
           request[r].phase # "done", Commits(r)
    PROVE  Traced'
  BY FoundedStep, EventsStep, FactsStep, OnceStep DEF Traced

-----------------------------------------------------------------------------
(***************************************************************************)
(* What each commit adds to the log, and what else it adds.                *)
(***************************************************************************)
\* A commit of neither a membership of an existing organization nor a key.
LEMMA FoundingCommits ==
    ASSUME AccessInv, NEW r \in Requests, key' = key,
           \A x \in Requests \ {r} : audit'[x] = audit[x],
           audit'[r].action \notin {"member.added", "api_key.created", "api_key.revoked"},
           \/ role' = role
           \/ /\ role' = [role EXCEPT ![r][audit'[r].actor] = "owner"]
              /\ audit'[r].action # None
    PROVE  Commits(r)
<1>1. role \in [Requests -> [Users -> Role \cup {None}]]
  BY DEF AccessInv, AccessTypeOK, Tables
<1>2. \A o \in Requests, u \in Users : role[o][u] = None =>
         role'[o][u] = None \/ (o = r /\ u = audit'[r].actor /\ audit'[r].action # None)
  <2>1. CASE role' = role
    BY <2>1
  <2>2. ASSUME NEW w, w = audit'[r].actor, role' = [role EXCEPT ![r][w] = "owner"]
        PROVE  \A o \in Requests, u \in Users : o # r \/ u # w => role'[o][u] = role[o][u]
    BY <1>1, <2>2
  <2> QED BY <2>1, <2>2
<1> QED BY <1>2 DEF Commits

LEMMA RegisterCommits ==
    ASSUME AccessInv, NEW r \in Requests,
           CommitRegister(r) \/ CommitOrganization(r) \/ CommitLogin(r) \/ CommitMode(r)
    PROVE  Commits(r)
<1>1. audit \in [Requests -> AuditEvent] /\ None \notin Action
  BY AccessAssumption DEF AccessInv, AccessTypeOK, Tables
<1>2. ASSUME NEW e, audit' = [audit EXCEPT ![r] = e]
      PROVE  audit'[r] = e /\ \A x \in Requests \ {r} : audit'[x] = audit[x]
  BY <1>1, <1>2
<1>3. CASE CommitRegister(r) \/ CommitOrganization(r)
  <2>1. PICK action \in {"user.registered", "organization.created"},
             subject \in Users \cup Requests \cup {request[r].whom} :
           /\ role' = [role EXCEPT ![r][request[r].whom] = "owner"] /\ key' = key
           /\ audit' = [audit EXCEPT ![r] =
                 [action |-> action, org |-> r, actor |-> request[r].whom,
                  subject |-> subject]]
    BY <1>3 DEF CommitRegister, CommitOrganization, Recorded
  <2>2. audit'[r] = [action |-> action, org |-> r, actor |-> request[r].whom,
                     subject |-> subject]
        /\ \A x \in Requests \ {r} : audit'[x] = audit[x]
    BY <1>2, <2>1
  <2>3. audit'[r].action = action /\ audit'[r].actor = request[r].whom
    BY <2>2
  <2> QED BY <1>1, <2>1, <2>2, <2>3, FoundingCommits DEF Action
<1>4. CASE CommitLogin(r) \/ CommitMode(r)
  <2>1. PICK action \in {"user.signed_in", "organization.updated"},
             subject \in {r, request[r].org} :
           /\ role' = role /\ key' = key
           /\ audit' = [audit EXCEPT ![r] =
                 [action |-> action, org |-> request[r].org, actor |-> request[r].whom,
                  subject |-> subject]]
    BY <1>4 DEF CommitLogin, CommitMode, Recorded
  <2>2. audit'[r] = [action |-> action, org |-> request[r].org,
                     actor |-> request[r].whom, subject |-> subject]
        /\ \A x \in Requests \ {r} : audit'[x] = audit[x]
    BY <1>2, <2>1
  <2>3. audit'[r].action = action
    BY <2>2
  <2> QED BY <2>1, <2>2, <2>3, FoundingCommits
<1> QED BY <1>3, <1>4

LEMMA SwitchCommits ==
    ASSUME AccessInv, NEW r \in Requests, CommitSwitch(r)
    PROVE  Commits(r)
<1>1. request[r].phase = "written" /\ UNCHANGED <<role, key, audit>>
  BY DEF CommitSwitch, Writing
<1>2. audit[r].action = None
  BY <1>1, OrganizationsAreMade
<1>3. None \notin {"member.added", "api_key.created", "api_key.revoked"}
  BY AccessAssumption DEF Action
<1> QED BY <1>1, <1>2, <1>3, FoundingCommits

LEMMA MemberCommits ==
    ASSUME AccessInv, NEW r \in Requests, CommitMember(r)
    PROVE  Commits(r)
<1>. SUFFICES ASSUME NEW o, o = request[r].org, NEW u, u = request[r].subject,
                     NEW v, v = request[r].value, NEW w, w = request[r].whom
              PROVE  Commits(r)
  OBVIOUS
<1>1. /\ kind[r] = "add_member" /\ request[r].phase = "written" /\ kind[r] \in SessionKind
  BY DEF CommitMember, Writing, SessionKind
<1>2. /\ o \in Requests /\ u \in Users /\ v \in Role /\ w \in Users
      /\ role[o][u] = None /\ role[o][w] # None
  BY <1>1, IntentsOf
<1>3. /\ role \in [Requests -> [Users -> Role \cup {None}]]
      /\ audit \in [Requests -> AuditEvent] /\ None \notin Role
  BY AccessAssumption DEF AccessInv, AccessTypeOK, Tables
<1>4. /\ role' = [role EXCEPT ![o][u] = v] /\ key' = key
      /\ audit' = [audit EXCEPT ![r] = [action |-> "member.added", org |-> o,
                                        actor |-> w, subject |-> u]]
  BY DEF CommitMember, Recorded
<1>5. /\ role'[o][u] = v
      /\ \A p \in Requests, x \in Users : p # o \/ x # u => role'[p][x] = role[p][x]
  BY <1>2, <1>3, <1>4
<1>6. /\ audit'[r].action = "member.added" /\ audit'[r].org = o /\ audit'[r].subject = u
      /\ \A x \in Requests \ {r} : audit'[x] = audit[x]
  BY <1>3, <1>4
<1> QED BY <1>2, <1>3, <1>4, <1>5, <1>6 DEF Commits, Tells

LEMMA KeyCommits ==
    ASSUME AccessInv, NEW r \in Requests, CommitKey(r)
    PROVE  Commits(r)
<1>. SUFFICES ASSUME NEW o, o = request[r].org, NEW v, v = request[r].value,
                     NEW w, w = request[r].whom
              PROVE  Commits(r)
  OBVIOUS
<1>1. key \in [Requests -> ApiKey] /\ audit \in [Requests -> AuditEvent]
  BY DEF AccessInv, AccessTypeOK, Tables
<1>2. /\ key' = [key EXCEPT ![r] = [org |-> o, created_by |-> w, mode_ceiling |-> v,
                                    revoked |-> FALSE]]
      /\ audit' = [audit EXCEPT ![r] = [action |-> "api_key.created", org |-> o,
                                        actor |-> w, subject |-> r]]
      /\ role' = role
  BY DEF CommitKey, Recorded
<1>3. /\ key'[r].org = o /\ ~key'[r].revoked
      /\ \A k \in Requests \ {r} : key'[k] = key[k]
  BY <1>1, <1>2
<1>4. /\ audit'[r].action = "api_key.created" /\ audit'[r].org = o /\ audit'[r].subject = r
      /\ \A x \in Requests \ {r} : audit'[x] = audit[x]
  BY <1>1, <1>2
<1> QED BY <1>2, <1>3, <1>4 DEF Commits, Tells

LEMMA RevokeCommits ==
    ASSUME AccessInv, NEW r \in Requests, CommitRevoke(r)
    PROVE  Commits(r)
<1>. SUFFICES ASSUME NEW o, o = request[r].org, NEW k, k = request[r].subject,
                     NEW w, w = request[r].whom
              PROVE  Commits(r)
  OBVIOUS
<1>1. kind[r] = "revoke_api_key" /\ request[r].phase = "written" /\ kind[r] \in SessionKind
  BY DEF CommitRevoke, Writing, SessionKind
<1>2. o \in Requests /\ k \in Requests /\ key[k].org = o /\ ~key[k].revoked
  BY <1>1, IntentsOf
<1>3. key \in [Requests -> ApiKey] /\ audit \in [Requests -> AuditEvent] /\ None # o
  BY <1>2, AccessAssumption DEF AccessInv, AccessTypeOK, Tables
<1>4. /\ key' = [key EXCEPT ![k] = [key[k] EXCEPT !.revoked = TRUE]]
      /\ audit' = [audit EXCEPT ![r] = [action |-> "api_key.revoked", org |-> o,
                                        actor |-> w, subject |-> k]]
      /\ role' = role
  BY DEF CommitRevoke, Recorded
<1>5. key[k] \in ApiKey
  BY <1>2, <1>3
<1>6. /\ key'[k] = [key[k] EXCEPT !.revoked = TRUE]
      /\ key'[k].revoked = TRUE
      /\ \A j \in Requests \ {k} : key'[j] = key[j]
  BY <1>2, <1>3, <1>4, <1>5 DEF ApiKey
<1>7. /\ audit'[r].action = "api_key.revoked" /\ audit'[r].org = o /\ audit'[r].subject = k
      /\ \A x \in Requests \ {r} : audit'[x] = audit[x]
  BY <1>3, <1>4
<1> QED BY <1>2, <1>3, <1>4, <1>6, <1>7 DEF Commits, Tells

LEMMA TracedInit == Init => Traced
<1> SUFFICES ASSUME Init PROVE Traced
  OBVIOUS
<1>1. /\ \A r \in Requests : NoEvent(r).action = None
      /\ NoKey.org = None
  BY DEF NoEvent, NoKey
<1>2. None \notin {"member.added", "api_key.created", "api_key.revoked"}
  BY AccessAssumption DEF Action
<1> QED BY <1>1, <1>2
        DEF Init, Traced, Founded, EventsAreTrue, FactsAreTold, ToldOnce, Tells

LEMMA TracedNext ==
    AccessInv /\ Traced /\ [Next]_accessVars => Traced'
<1> SUFFICES ASSUME AccessInv, Traced, [Next]_accessVars PROVE Traced'
  OBVIOUS
<1>1. AccessInv' /\ Kept
  BY AccessStep
<1>2. CASE UNCHANGED <<role, key, audit>>
  BY <1>2 DEF Traced, Founded, EventsAreTrue, FactsAreTold, ToldOnce, Tells
<1>3. ASSUME NEW r \in Requests, Arrive(r) \/ Handle(r) \/ LoseTransaction(r)
      PROVE  UNCHANGED <<role, key, audit>>
  BY <1>3, HandleWritesNothing
     DEF stored, Arrive, CheckEmail, Authenticate, RevokeSession, ResolveSession,
         ResolveKey, CallGateway
<1>4. ASSUME NEW r \in Requests, Commit(r) PROVE Traced'
  <2>1. request[r].phase = "written"
    BY <1>4 DEF Commit, CommitRegister, CommitLogin, CommitSwitch, CommitOrganization,
                CommitMember, CommitKey, CommitRevoke, CommitMode, Writing
  <2>2. Commits(r)
    BY <1>4, RegisterCommits, SwitchCommits, MemberCommits, KeyCommits, RevokeCommits
       DEF Commit
  <2> QED BY <1>1, <2>1, <2>2, TracedStep
<1>5. ASSUME NEW s \in Requests, Expire(s) PROVE UNCHANGED <<role, key, audit>>
  BY <1>5 DEF Expire
<1> QED BY <1>2, <1>3, <1>4, <1>5 DEF Next, accessVars

\* One event, or none, is counted as one, or none.
LEMMA Counted ==
    ASSUME Traced, NEW action \in {"member.added", "api_key.created", "api_key.revoked"},
           NEW o, NEW x, NEW told \in BOOLEAN,
           told <=> \E r \in Requests : Tells(audit[r], action, o, x)
    PROVE  Accounted({action}, o, x) = IF told THEN 1 ELSE 0
<1>. DEFINE S == {r \in Requests : Tells(audit[r], action, o, x)}
<1>1. Accounted({action}, o, x) = Cardinality(S)
  BY DEF Accounted, Tells
<1>2. \A r, y \in S : r = y
  BY DEF Traced, ToldOnce, EventsAreTrue, Tells
<1>3. CASE told
  <2>1. PICK r \in Requests : r \in S
    BY <1>3
  <2>2. S = {r}
    BY <1>2, <2>1
  <2>3. Cardinality(S) = 1
    BY <2>2, FS_Singleton
  <2> QED BY <1>1, <1>3, <2>3
<1>4. CASE ~told
  <2>1. S = {}
    BY <1>4
  <2>2. Cardinality(S) = 0
    BY <2>1, FS_EmptySet
  <2> QED BY <1>1, <1>4, <2>2
<1> QED BY <1>3, <1>4

LEMMA TracedIsAccounted == AccessInv /\ Traced => AccountedForOnce
<1> SUFFICES ASSUME AccessInv, Traced PROVE AccountedForOnce
  OBVIOUS
<1>0. None \notin Requests /\ None \notin Action
  BY AccessAssumption
<1>1. ASSUME NEW o \in Requests, NEW u \in Users
      PROVE  Accounted({"member.added"}, o, u)
                = IF role[o][u] # None /\ audit[o].actor # u THEN 1 ELSE 0
  <2>1. (role[o][u] # None /\ audit[o].actor # u)
           <=> \E r \in Requests : Tells(audit[r], "member.added", o, u)
    BY DEF Traced, FactsAreTold, EventsAreTrue, Tells
  <2> QED BY <2>1, Counted
<1>2. ASSUME NEW k \in Requests, NEW o \in Requests
      PROVE  Accounted({"api_key.created"}, o, k) = IF key[k].org = o THEN 1 ELSE 0
  <2>1. (key[k].org = o)
           <=> \E r \in Requests : Tells(audit[r], "api_key.created", o, k)
    <3>1. ASSUME key[k].org = o PROVE Tells(audit[k], "api_key.created", o, k)
      <4>1. audit[k].action = "api_key.created"
        BY <1>0, <3>1 DEF Traced, FactsAreTold
      <4> QED BY <3>1, <4>1 DEF Traced, EventsAreTrue, Tells
    <3> QED BY <3>1 DEF Traced, EventsAreTrue, Tells
  <2> QED BY <2>1, Counted
<1>3. ASSUME NEW k \in Requests, NEW o \in Requests
      PROVE  Accounted({"api_key.revoked"}, o, k)
                = IF key[k].org = o /\ key[k].revoked THEN 1 ELSE 0
  <2>1. (key[k].org = o /\ key[k].revoked)
           <=> \E r \in Requests : Tells(audit[r], "api_key.revoked", o, k)
    BY <1>0 DEF Traced, FactsAreTold, EventsAreTrue, Tells
  <2>2. key[k] \in ApiKey
    BY DEF AccessInv, AccessTypeOK, Tables
  <2>3. key[k].revoked \in BOOLEAN
    BY <2>2 DEF ApiKey
  <2> QED BY <2>1, <2>3, Counted
<1> QED BY <1>1, <1>2, <1>3 DEF AccountedForOnce

(***************************************************************************)
(* Memberships, keys and revocations have one audit event each, and no     *)
(* event tells of what did not happen.  (identity.py: record_audit)        *)
(***************************************************************************)
THEOREM AccountedForOnceHolds == Spec => []AccountedForOnce
<1>1. Init => AccessInv /\ Traced
  BY AccessInit, TracedInit
<1>2. AccessInv /\ Traced /\ [Next]_accessVars => (AccessInv /\ Traced)'
  BY AccessStep, TracedNext
<1> QED BY <1>1, <1>2, TracedIsAccounted, PTL DEF Spec

-----------------------------------------------------------------------------
(***************************************************************************)
(* Registrations: of those that have written and not committed no two are  *)
(* of one address, and none is of an address that is taken.                *)
(***************************************************************************)
Registers(r, u) == audit[r].action = "user.registered" /\ audit[r].actor = u

Registered ==
    /\ \A r \in Requests : audit[r].action = "user.registered" => audit[r].actor \in users
    /\ \A u \in users : \E r \in Requests : Registers(r, u)
    /\ \A u \in users, r, x \in Requests : Registers(r, u) /\ Registers(x, u) => r = x

RegistrationInv ==
    /\ Registered
    /\ \A r \in Requests : Writing("register", r) => request[r].whom \notin users
    /\ \A r, x \in Requests :
          Writing("register", r) /\ Writing("register", x) /\ request[r].whom = request[x].whom
             => r = x

\* A step that neither writes nor commits a registration.
LEMMA OtherRegistrations ==
    ASSUME RegistrationInv, Kept, NEW r \in Requests,
           \A x \in Requests \ {r} : request'[x] = request[x],
           kind[r] # "register" \/ request'[r].phase # "written",
           kind' = kind, users' = users,
           \A x \in Requests : audit'[x] = audit[x] \/ audit'[x].action # "user.registered"
    PROVE  RegistrationInv'
<1>1. "user.registered" # None
  BY AccessAssumption DEF Action
<1>2. \A x \in Requests, u \in users : Registers(x, u)' <=> Registers(x, u)
  BY <1>1 DEF Registers, Kept
<1>3. Registered'
  <2>1. \A x \in Requests : audit'[x].action = "user.registered" => audit'[x].actor \in users
    BY DEF RegistrationInv, Registered
  <2> QED BY <1>2, <2>1 DEF RegistrationInv, Registered
<1>4. \A x \in Requests : Writing("register", x)' =>
         Writing("register", x) /\ request'[x] = request[x]
  BY DEF Writing
<1> QED BY <1>3, <1>4 DEF RegistrationInv

LEMMA InsertRegistration ==
    ASSUME AccessInv, RegistrationInv, NEW r \in Requests, InsertUser(r)
    PROVE  RegistrationInv'
<1>1. /\ request \in [Requests -> RequestState]
      /\ kind[r] = "register" /\ request[r].phase = "checked"
      /\ \A x \in Requests : Writing("register", x) => request[x].whom # request[r].whom
      /\ UNCHANGED <<kind, users, audit>>
  BY DEF InsertUser, AccessInv, AccessTypeOK
<1>2. Registered'
  BY <1>1 DEF RegistrationInv, Registered, Registers
<1>3. CASE Ended(r, "failed")
  <2>1. /\ request'[r].phase # "written"
        /\ \A x \in Requests \ {r} : request'[x] = request[x]
    BY <1>1, <1>3 DEF Ended, Blank
  <2>2. \A x \in Requests : Writing("register", x)' =>
           Writing("register", x) /\ request'[x] = request[x]
    BY <1>1, <2>1 DEF Writing
  <2> QED BY <1>1, <1>2, <2>2 DEF RegistrationInv
<1>4. CASE /\ request[r].whom \notin users
           /\ request' = [request EXCEPT ![r] = [request[r] EXCEPT !.phase = "written"]]
  <2>1. /\ request'[r].whom = request[r].whom
        /\ \A x \in Requests \ {r} : request'[x] = request[x]
    BY <1>1, <1>4 DEF RequestState
  <2>2. \A x \in Requests \ {r} : Writing("register", x)' => Writing("register", x)
    BY <1>1, <2>1 DEF Writing
  <2>3. \A x \in Requests \ {r} : Writing("register", x)' => request'[x].whom # request'[r].whom
    BY <1>1, <2>1, <2>2
  <2>4. \A x \in Requests : Writing("register", x)' => request'[x].whom \notin users'
    BY <1>1, <1>4, <2>1, <2>2 DEF RegistrationInv
  <2>5. \A y, x \in Requests \ {r} :
           Writing("register", y)' /\ Writing("register", x)' /\ request'[y].whom = request'[x].whom
              => y = x
    BY <2>1, <2>2 DEF RegistrationInv
  <2> QED BY <1>2, <2>3, <2>4, <2>5 DEF RegistrationInv
<1> QED BY <1>3, <1>4 DEF InsertUser

LEMMA CommitRegistration ==
    ASSUME AccessInv, RegistrationInv, Kept, NEW r \in Requests, CommitRegister(r)
    PROVE  RegistrationInv'
<1>. SUFFICES ASSUME NEW w, w = request[r].whom PROVE RegistrationInv'
  OBVIOUS
<1>1. /\ AccessTypeOK /\ Writing("register", r) /\ w \notin users
      /\ kind' = kind /\ users' = users \cup {w}
      /\ audit' = [audit EXCEPT ![r] = [action |-> "user.registered", org |-> r,
                                        actor |-> w, subject |-> w]]
      /\ Ended(r, "done")
  BY DEF CommitRegister, Recorded, RegistrationInv, AccessInv
<1>2. /\ audit'[r].action = "user.registered" /\ audit'[r].actor = w
      /\ \A x \in Requests \ {r} : audit'[x] = audit[x]
  BY <1>1 DEF AccessTypeOK, Tables
<1>3. audit[r].action # "user.registered"
  <2>1. audit[r].action = None
    BY <1>1, OrganizationsAreMade DEF Writing
  <2> QED BY <2>1, AccessAssumption DEF Action
<1>4. Registers(r, w)'
  BY <1>2 DEF Registers
<1>5. /\ \A u \in users, x \in Requests : Registers(x, u)' <=> Registers(x, u)
      /\ \A x \in Requests \ {r} : ~Registers(x, w)'
  BY <1>1, <1>2, <1>3 DEF RegistrationInv, Registered, Registers
<1>6. Registered'
  <2>1. \A x \in Requests : audit'[x].action = "user.registered" => audit'[x].actor \in users'
    BY <1>1, <1>2 DEF RegistrationInv, Registered
  <2>2. \A u \in users' : \E x \in Requests : Registers(x, u)'
    BY <1>1, <1>4, <1>5 DEF RegistrationInv, Registered
  <2>3. \A u \in users', y, x \in Requests : Registers(y, u)' /\ Registers(x, u)' => y = x
    BY <1>1, <1>5 DEF RegistrationInv, Registered
  <2> QED BY <2>1, <2>2, <2>3 DEF Registered
<1>7. \A x \in Requests : Writing("register", x)' =>
         x # r /\ Writing("register", x) /\ request'[x] = request[x]
  <2>1. request'[r].phase = "done" /\ \A x \in Requests \ {r} : request'[x] = request[x]
    BY <1>1, DoneRequest
  <2> QED BY <1>1, <2>1 DEF Writing
<1>8. \A x \in Requests : Writing("register", x)' => request'[x].whom \notin users'
  BY <1>1, <1>7 DEF RegistrationInv
<1> QED BY <1>6, <1>7, <1>8 DEF RegistrationInv

\* The other steps of a handler are not those of a registration.
LEMMA OtherHandlers ==
    ASSUME AccessInv, NEW r \in Requests, Handle(r), ~InsertUser(r)
    PROVE  kind[r] # "register" /\ \A x \in Requests \ {r} : request'[x] = request[x]
<1>1. request \in [Requests -> RequestState] /\ Reached(r, request[r])
  BY FactsOf DEF AccessTypeOK
<1>2. CASE RefuseRole(r) \/ PoolTimeout(r)
  BY <1>1, <1>2 DEF RefuseRole, PoolTimeout, Ended, Reached, SessionKind
<1>3. CASE \/ \E o \in Requests : StartSession(r, o)
           \/ RequireMembership(r)
           \/ CreateOrganization(r) \/ InsertMember(r) \/ TouchKey(r)
  BY <1>1, <1>3 DEF StartSession, RequireMembership, CreateOrganization, Admitted,
                    InsertMember, TouchKey, Served, Ended, Reached, SessionKind
<1>4. CASE \/ \E o \in Requests : ResolveAgain(r, o)
           \/ RequireNewMembership(r) \/ FlushSwitch(r)
  BY <1>1, <1>4 DEF ResolveAgain, RequireNewMembership, FlushSwitch, Ended
<1>5. CASE \/ \E u \in Users, given \in OfferedRoles : LookUpMember(r, u, given)
           \/ \E ceiling \in OfferedModes \cup {None} : CreateKey(r, ceiling)
           \/ \E k \in Requests : RevokeKey(r, k)
           \/ \E m \in OfferedModes : SetMode(r, m)
  BY <1>1, <1>5 DEF LookUpMember, CreateKey, RevokeKey, SetMode, Admitted, Ended
<1> QED BY <1>2, <1>3, <1>4, <1>5 DEF Handle

\* Whoever arrives, or is lost, has not written.
LEMMA OtherArrivals ==
    ASSUME AccessInv, NEW r \in Requests, Arrive(r) \/ LoseTransaction(r)
    PROVE  /\ UNCHANGED <<kind, users, audit>> /\ request'[r].phase # "written"
           /\ \A x \in Requests \ {r} : request'[x] = request[x]
<1>1. request \in [Requests -> RequestState]
  BY FactsOf DEF AccessTypeOK
<1>2. CASE LoseTransaction(r) \/ \E s \in Requests : RevokeSession(r, s)
  BY <1>1, <1>2 DEF LoseTransaction, RevokeSession, Ended, Blank
<1>3. CASE \E k \in Requests, asked \in OfferedModes : CallGateway(r, k, asked)
  BY <1>1, <1>3 DEF CallGateway, Served, Blank
<1>4. CASE \/ \E u \in Users : CheckEmail(r, u) \/ Authenticate(r, u)
           \/ \E s \in Requests : ResolveSession(r, s)
           \/ \E k \in Requests : ResolveKey(r, k)
  BY <1>1, <1>4 DEF CheckEmail, Authenticate, ResolveSession, ResolveKey, Blank
<1> QED BY <1>2, <1>3, <1>4 DEF Arrive

\* The other commits record something else.
LEMMA OtherCommits ==
    ASSUME AccessInv, NEW r \in Requests, Commit(r), ~CommitRegister(r)
    PROVE  /\ UNCHANGED <<kind, users>> /\ Ended(r, "done")
           /\ \A x \in Requests :
                 audit'[x] = audit[x] \/ audit'[x].action # "user.registered"
<1>1. audit \in [Requests -> AuditEvent]
  BY DEF AccessInv, AccessTypeOK, Tables
<1>2. CASE CommitLogin(r) \/ CommitOrganization(r) \/ CommitMember(r)
  BY <1>1, <1>2 DEF CommitLogin, CommitOrganization, CommitMember, Recorded
<1>3. CASE CommitKey(r) \/ CommitRevoke(r) \/ CommitMode(r)
  BY <1>1, <1>3 DEF CommitKey, CommitRevoke, CommitMode, Recorded
<1>4. CASE CommitSwitch(r)
  BY <1>4 DEF CommitSwitch
<1> QED BY <1>2, <1>3, <1>4 DEF Commit

LEMMA RegistrationInit == Init => RegistrationInv
<1> SUFFICES ASSUME Init PROVE RegistrationInv
  OBVIOUS
<1>1. \A r \in Requests : audit[r].action # "user.registered"
  <2>1. \A r \in Requests : NoEvent(r).action = None
    BY DEF NoEvent
  <2> QED BY <2>1, AccessAssumption DEF Init, Action
<1>2. users = {} /\ \A r \in Requests : ~Writing("register", r)
  BY DEF Init, Writing, Blank
<1> QED BY <1>1, <1>2 DEF RegistrationInv, Registered, Registers

LEMMA RegistrationNext ==
    AccessInv /\ RegistrationInv /\ [Next]_accessVars => RegistrationInv'
<1> SUFFICES ASSUME AccessInv, RegistrationInv, [Next]_accessVars PROVE RegistrationInv'
  OBVIOUS
<1>1. AccessTypeOK /\ Kept
  BY AccessStep DEF AccessInv
<1>2. ASSUME NEW r \in Requests, Arrive(r) \/ LoseTransaction(r) PROVE RegistrationInv'
  BY <1>1, <1>2, OtherArrivals, OtherRegistrations
<1>3. ASSUME NEW r \in Requests, Handle(r) PROVE RegistrationInv'
  <2>1. CASE ~InsertUser(r)
    <3>1. UNCHANGED <<kind, users, audit>>
      BY <1>3, HandleWritesNothing DEF stored
    <3> QED BY <1>1, <1>3, <2>1, <3>1, OtherHandlers, OtherRegistrations
  <2> QED BY <2>1, InsertRegistration
<1>4. ASSUME NEW r \in Requests, Commit(r) PROVE RegistrationInv'
  <2>1. CASE ~CommitRegister(r)
    <3>1. request'[r].phase = "done" /\ \A x \in Requests \ {r} : request'[x] = request[x]
      BY <1>1, <1>4, <2>1, OtherCommits, DoneRequest
    <3> QED BY <1>1, <1>4, <2>1, <3>1, OtherCommits, OtherRegistrations
  <2> QED BY <1>1, <2>1, CommitRegistration
<1>5. CASE UNCHANGED <<kind, users, audit, request>>
  BY <1>5 DEF RegistrationInv, Registered, Registers, Writing
<1> QED BY <1>2, <1>3, <1>4, <1>5 DEF Next, Expire, accessVars

LEMMA RegistrationsCounted == RegistrationInv => RegisteredOnce
<1> SUFFICES ASSUME RegistrationInv, NEW u \in Users
             PROVE  Cardinality({r \in Requests : Registers(r, u)})
                       = IF u \in users THEN 1 ELSE 0
  BY DEF RegisteredOnce, Registers
<1>1. CASE u \in users
  <2>1. PICK r \in Requests : Registers(r, u)
    BY <1>1 DEF RegistrationInv, Registered
  <2>2. {x \in Requests : Registers(x, u)} = {r}
    BY <1>1, <2>1 DEF RegistrationInv, Registered
  <2>3. Cardinality({r}) = 1
    BY FS_Singleton
  <2> QED BY <1>1, <2>2, <2>3
<1>2. CASE u \notin users
  <2>1. {x \in Requests : Registers(x, u)} = {}
    BY <1>2 DEF RegistrationInv, Registered, Registers
  <2>2. Cardinality({}) = 0
    BY FS_EmptySet
  <2> QED BY <1>2, <2>1, <2>2
<1> QED BY <1>1, <1>2

(***************************************************************************)
(* An address is registered once, however many registrations find it free  *)
(* or are lost: a user has one event, and whoever has one is a user.       *)
(* (identity.py: register)                                                 *)
(***************************************************************************)
THEOREM RegisteredOnceHolds == Spec => []RegisteredOnce
<1>1. Init => AccessInv /\ RegistrationInv
  BY AccessInit, RegistrationInit
<1>2. AccessInv /\ RegistrationInv /\ [Next]_accessVars => (AccessInv /\ RegistrationInv)'
  BY AccessStep, RegistrationNext
<1> QED BY <1>1, <1>2, RegistrationsCounted, PTL DEF Spec

=============================================================================
