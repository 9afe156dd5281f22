------------------------------- MODULE Accounts -------------------------------
(***************************************************************************)
(* Signup, login, logout and the check of every request against            *)
(* platform.users, platform.sessions and the rows a signup makes beside    *)
(* them (auth-service.ts, session.ts, auth-middleware.ts); and the other   *)
(* maker of such rows, POST /api/tenants, for a user who is there          *)
(* (server.ts).  Each statement is a step of its own, none is in a         *)
(* transaction, and any of them may fail; a request may die between two.   *)
(***************************************************************************)
EXTENDS Integers, FiniteSets

CONSTANTS
  Signups,    \* signups; a signup that makes a user makes the one of its name
  Creations,  \* POST /api/tenants
  Logins,     \* logins
  Requests,   \* authenticated requests
  Emails,     \* normalized addresses
  Nobody,     \* no user
  Overlap,    \* the bound on how many of them are at work at the same time
  Mishaps     \* the bound on how many of them fail or die

ASSUME AccountsAssumption ==
  /\ IsFiniteSet(Signups) /\ IsFiniteSet(Creations)
  /\ Signups \intersect Creations = {}
  /\ (Signups \union Creations) \intersect Logins = {}
  /\ Nobody \notin Signups \union Creations \union Logins
  /\ {Overlap, Mishaps} \subseteq Nat

VARIABLES
  users,      \* platform.users: the signups whose user is there
  tenant,     \* the tenant of a maker: its status, and which slug of its name it has
  workspace,  \* the slug of a maker's workspace, 0 without one
  members,    \* platform.workspace_members: the makers whose user owns the workspace
  sessions,   \* platform.sessions: the signups and logins whose session is there
  expired,    \* those of them whose expires_at has passed
  maker,      \* where a signup or a creation is, its address or user, and the slug it tries
  login,      \* where a login is and the user it has read
  request,    \* where a request is, its token, and whether it came too late
  together,   \* history: the makers and logins that were at work at the same time
  slugTaken,  \* history: the makers that failed on a slug
  ended       \* history: the sessions that were logged out, or that a login came after

rows == <<users, tenant, workspace, members>>
tokens == <<sessions, expired>>
history == <<together, slugTaken, ended>>
vars == <<rows, tokens, maker, login, request, history>>

Makers == Signups \union Creations
Sources == Signups \union Logins
Slugs == 1..Cardinality(Makers)

\* "failed": the cleanup removed what there was, or there was nothing; "left": it failed.
MakerPlaces == {"none", "slug", "user", "tenant", "schema", "workspaceSlug", "workspace",
                "member", "session", "stamp", "done", "undo", "failed", "left", "refused", "dead"}
MakerRecords == [at : MakerPlaces, who : Emails \union Signups \union {Nobody}, slug : Slugs]
LoginPlaces == {"none", "clear", "session", "stamp", "done", "refused"}
\* A request that is refused is over; the next may come.
RequestPlaces == {"none", "again", "user", "admitted"}
Finished == {"none", "done", "failed", "left", "refused", "dead", "admitted"}

MakersAtWork == {m \in Makers : maker[m].at \notin Finished}
LoginsAtWork == {l \in Logins : login[l].at \notin Finished}
RequestsAtWork == {r \in Requests : request[r].at \notin Finished}
RoomForMore ==
  Cardinality(MakersAtWork) + Cardinality(LoginsAtWork) + Cardinality(RequestsAtWork) < Overlap

\* How many failed or died.
Mishap(m) == maker[m].at \in {"undo", "failed", "left", "refused", "dead"}
RoomForMishap ==
  Cardinality({m \in Makers : Mishap(m)}) + Cardinality({l \in Logins : login[l].at = "refused"}) < Mishaps

TypeOK ==
  /\ users \subseteq Signups
  /\ tenant \in [Makers -> [status : {"none", "provisioning", "active", "failed"},
                            slug : Slugs \union {0}]]
  /\ workspace \in [Makers -> Slugs \union {0}]
  /\ members \subseteq Makers
  /\ sessions \subseteq Sources
  /\ expired \subseteq sessions
  /\ maker \in [Makers -> MakerRecords]
  /\ login \in [Logins -> [at : LoginPlaces, user : Signups \union {Nobody}]]
  /\ request \in [Requests -> [at : RequestPlaces, token : Sources \union {Nobody}, late : BOOLEAN]]
  /\ together \subseteq SUBSET (Makers \union Logins)
  /\ slugTaken \subseteq Makers
  /\ ended \subseteq Sources

Init ==
  /\ users = {}
  /\ tenant = [m \in Makers |-> [status |-> "none", slug |-> 0]]
  /\ workspace = [m \in Makers |-> 0]
  /\ members = {}
  /\ sessions = {}
  /\ expired = {}
  /\ \E email \in [Signups -> Emails] :
       maker = [m \in Makers |-> [at |-> "none", slug |-> 1,
                                  who |-> IF m \in Signups THEN email[m] ELSE Nobody]]
  /\ login = [l \in Logins |-> [at |-> "none", user |-> Nobody]]
  /\ request = [r \in Requests |-> [at |-> "none", token |-> Nobody, late |-> FALSE]]
  /\ together = {}
  /\ slugTaken = {}
  /\ ended = {}

Owner(p) == IF p \in Signups THEN p ELSE login[p].user
UserOf(m) == IF m \in Signups THEN m ELSE maker[m].who
EmailTaken(e) == \E u \in users : maker[u].who = e

\* A maker begins while others are at work, a login while logins to the same user
\* are, or the signup that made the user.
MakerBegins(m) ==
  /\ RoomForMore
  /\ together' = together \union {{m, q} : q \in MakersAtWork}
  /\ UNCHANGED <<slugTaken, ended>>

LoginBegins(l, u) ==
  /\ RoomForMore
  /\ together' = together \union
       {{l, q} : q \in {q \in LoginsAtWork : login[q].user = u} \union (MakersAtWork \intersect {u})}
  /\ UNCHANGED <<slugTaken, ended>>

-----------------------------------------------------------------------------
(* Sessions.                                                               *)

\* Tokens of which somebody was told.
TokenIsKnown(p) ==
  IF p \in Signups THEN maker[p].at = "done" ELSE login[p].at = "done"

\* The INSERT of a session, which needs its user.
CreateSession(p) ==
  /\ Owner(p) \in users
  /\ sessions' = sessions \union {p}
  /\ UNCHANGED expired

DeleteSessions(gone) ==
  /\ sessions' = sessions \ gone
  /\ expired' = expired \ gone

SessionsOf(u) == {p \in sessions : Owner(p) = u}

\* Wrong on purpose: only the sessions that have expired.
DeleteExpiredUserSessions(u) == DeleteSessions(SessionsOf(u) \intersect expired)

DeleteAllUserSessions(u) == DeleteSessions(SessionsOf(u))

\* getSession finds the session and returns it ...
Valid(p) == p \in sessions \ expired

\* ... or deletes it because it has expired.
Prune(p) == DeleteSessions({p} \intersect expired)

Expire(p) ==
  /\ p \in sessions \ expired
  /\ expired' = expired \union {p}
  /\ UNCHANGED <<rows, sessions, maker, login, request, history>>

-----------------------------------------------------------------------------
(* Signup and the creation of a tenant.                                    *)

MoveMaker(m, place) == maker' = [maker EXCEPT ![m].at = place]
EndMaker(m, place) == maker' = [maker EXCEPT ![m].at = place, ![m].slug = 1]

\* The SELECT of the address; a malformed request is refused before it, and one with
\* an address that is taken after it, and nothing changes.
LookForUser(s) ==
  /\ maker[s].at = "none"
  /\ ~EmailTaken(maker[s].who)
  /\ MakerBegins(s)
  /\ MoveMaker(s, "slug")
  /\ UNCHANGED <<rows, tokens, login, request>>

\* POST /api/tenants of a user who was let through; WebsiteLimit has its check of the plan.
AskForTenant(c, u) ==
  /\ maker[c].at = "none"
  /\ u \in users /\ \E p \in Sources : TokenIsKnown(p) /\ Owner(p) = u
  /\ MakerBegins(c)
  /\ maker' = [maker EXCEPT ![c].at = "slug", ![c].who = u]
  /\ UNCHANGED <<rows, tokens, login, request>>

\* A SELECT of the loop that looks for a slug: it is taken, and the next is tried,
\* or it is free.
TrySlug(m, taken, place) ==
  maker' = IF maker[m].slug \in taken THEN [maker EXCEPT ![m].slug = @ + 1]
                                       ELSE [maker EXCEPT ![m].at = place]

TenantSlugs == {tenant[q].slug : q \in Makers}
WorkspaceSlugs == {workspace[q] : q \in Makers}

CreateUniqueTenantSlug(m) ==
  /\ maker[m].at = "slug"
  /\ TrySlug(m, TenantSlugs, IF m \in Signups THEN "user" ELSE "tenant")
  /\ UNCHANGED <<rows, tokens, login, request, history>>

\* The INSERT of the user, unless another signup has taken the address.
InsertUser(s) ==
  /\ maker[s].at = "user"
  /\ ~EmailTaken(maker[s].who)
  /\ users' = users \union {s}
  /\ MoveMaker(s, "tenant")
  /\ UNCHANGED <<tenant, workspace, members, tokens, login, request, history>>

\* The INSERT of the tenant.
InsertTenant(m) ==
  /\ maker[m].at = "tenant"
  /\ maker[m].slug \notin TenantSlugs
  /\ tenant' = [tenant EXCEPT ![m] = [status |-> "provisioning", slug |-> maker[m].slug]]
  /\ MoveMaker(m, "schema")
  /\ UNCHANGED <<users, workspace, members, tokens, login, request, history>>

\* The rest of provisionTenant, which TenantLifecycle has in detail.
Provisioned(m) ==
  /\ maker[m].at = "schema"
  /\ tenant' = [tenant EXCEPT ![m].status = "active"]
  /\ EndMaker(m, "workspaceSlug")
  /\ UNCHANGED <<users, workspace, members, tokens, login, request, history>>

\* What fails within a signup's try block is undone; what fails before it, or in a creation,
\* is answered.
FailsTo(m) ==
  IF m \in Creations THEN "refused" ELSE IF maker[m].at = "slug" THEN "failed" ELSE "undo"

ProvisionFails(m) ==
  /\ RoomForMishap
  /\ maker[m].at = "schema"
  /\ tenant' = [tenant EXCEPT ![m].status = "failed"]
  /\ EndMaker(m, FailsTo(m))
  /\ UNCHANGED <<users, workspace, members, tokens, login, request, history>>

CreateUniqueWorkspaceSlug(m) ==
  /\ maker[m].at = "workspaceSlug"
  /\ TrySlug(m, WorkspaceSlugs, "workspace")
  /\ UNCHANGED <<rows, tokens, login, request, history>>

InsertWorkspace(m) ==
  /\ maker[m].at = "workspace"
  /\ maker[m].slug \notin WorkspaceSlugs
  /\ workspace' = [workspace EXCEPT ![m] = maker[m].slug]
  /\ MoveMaker(m, "member")
  /\ UNCHANGED <<users, tenant, members, tokens, login, request, history>>

\* The INSERT of the member, which needs its user; a creation is answered with it.
InsertMember(m) ==
  /\ maker[m].at = "member"
  /\ UserOf(m) \in users
  /\ members' = members \union {m}
  /\ EndMaker(m, IF m \in Signups THEN "session" ELSE "done")
  /\ UNCHANGED <<users, tenant, workspace, tokens, login, request, history>>

SignupSession(s) ==
  /\ maker[s].at = "session"
  /\ CreateSession(s)
  /\ MoveMaker(s, "stamp")
  /\ UNCHANGED <<rows, login, request, history>>

\* last_login_at, and the answer.
SignupAnswers(s) ==
  /\ maker[s].at = "stamp"
  /\ EndMaker(s, "done")
  /\ UNCHANGED <<rows, tokens, login, request, history>>

\* Is the statement bound to fail, because another maker was faster?
TenantSlugLost(m) == maker[m].at = "tenant" /\ maker[m].slug \in TenantSlugs
WorkspaceSlugLost(m) == maker[m].at = "workspace" /\ maker[m].slug \in WorkspaceSlugs

\* A statement fails, for a reason of its own or the database's.
StatementFails(m) ==
  /\ RoomForMishap
  /\ maker[m].at \in {"slug", "user", "tenant", "workspaceSlug", "workspace", "member",
                      "session", "stamp"}
  /\ EndMaker(m, FailsTo(m))
  /\ slugTaken' = IF TenantSlugLost(m) \/ WorkspaceSlugLost(m) THEN slugTaken \union {m} ELSE slugTaken
  /\ UNCHANGED <<rows, tokens, login, request, together, ended>>

\* The DELETE of users, whose references go with them.
RemoveUsers(gone) ==
  /\ users' = users \ gone
  /\ members' = {m \in members : UserOf(m) \notin gone}
  /\ DeleteSessions({p \in sessions : Owner(p) \in gone})
  /\ UNCHANGED <<tenant, workspace>>

\* Wrong on purpose: the user is deleted by the address.
RemoveByEmail(s) ==
  /\ maker[s].at = "undo"
  /\ RemoveUsers({u \in users : maker[u].who = maker[s].who})
  /\ EndMaker(s, "failed")
  /\ UNCHANGED <<login, request, history>>

\* The catch block.
RemoveFailedUser(s) ==
  /\ maker[s].at = "undo"
  /\ RemoveUsers({s})
  /\ EndMaker(s, "failed")
  /\ UNCHANGED <<login, request, history>>

\* Its DELETE fails as well: the signup is answered with that, and the user stays.
CleanupFails(s) ==
  /\ maker[s].at = "undo"
  /\ EndMaker(s, "left")
  /\ UNCHANGED <<rows, tokens, login, request, history>>

\* The process dies, and nobody is answered.
MakerDies(m) ==
  /\ maker[m].at \notin Finished
  /\ RoomForMishap \/ Mishap(m)
  /\ EndMaker(m, "dead")
  /\ UNCHANGED <<rows, tokens, login, request, history>>

-----------------------------------------------------------------------------
(* Login.                                                                  *)

MoveLogin(l, place) == login' = [login EXCEPT ![l].at = place]

\* The user of the address, who gives the right password (no code makes a user's
\* status other than active); then a workspace to show.
FindUser(l, u) ==
  /\ login[l].at = "none"
  /\ u \in users
  /\ LoginBegins(l, u)
  /\ login' = [login EXCEPT ![l] = [at |-> "clear", user |-> u]]
  /\ UNCHANGED <<rows, tokens, maker, request>>

ClearSessions(l) ==
  /\ login[l].at = "clear"
  /\ DeleteAllUserSessions(login[l].user)
  /\ MoveLogin(l, "session")
  /\ UNCHANGED <<rows, maker, request, history>>

LoginSession(l) ==
  /\ login[l].at = "session"
  /\ CreateSession(l)
  /\ MoveLogin(l, "stamp")
  /\ UNCHANGED <<rows, maker, request, history>>

LoginAnswers(l) ==
  /\ login[l].at = "stamp"
  /\ MoveLogin(l, "done")
  /\ ended' = ended \union
       {p \in Sources : TokenIsKnown(p) /\ Owner(p) = login[l].user /\ {p, l} \notin together}
  /\ UNCHANGED <<rows, tokens, maker, request, together, slugTaken>>

\* A statement fails: nothing that was done is undone.
LoginFails(l) ==
  /\ RoomForMishap
  /\ login[l].at \in {"clear", "session", "stamp"}
  /\ MoveLogin(l, "refused")
  /\ UNCHANGED <<rows, tokens, maker, request, history>>

-----------------------------------------------------------------------------
(* Requests, and what else happens to accounts.                            *)

NoRequest == [at |-> "none", token |-> Nobody, late |-> FALSE]

\* The first getSession, of requireAuth.
CheckSession(r, p) ==
  /\ request[r].at = "none"
  /\ RoomForMore
  /\ TokenIsKnown(p)
  /\ request' = [request EXCEPT ![r] =
       IF Valid(p) THEN [at |-> "again", token |-> p, late |-> p \in ended \union expired]
                   ELSE NoRequest]
  /\ Prune(p)
  /\ UNCHANGED <<rows, maker, login, history>>

\* The second, of getAuthenticatedUser ...
CheckSessionAgain(r) ==
  /\ request[r].at = "again"
  /\ request' = [request EXCEPT ![r] =
       IF Valid(@.token) THEN [@ EXCEPT !.at = "user"]
                         ELSE NoRequest]
  /\ Prune(request[r].token)
  /\ UNCHANGED <<rows, maker, login, history>>

\* ... which then reads the user.
CheckUser(r) ==
  /\ request[r].at = "user"
  /\ request' = [request EXCEPT ![r] =
       IF Owner(@.token) \in users THEN [@ EXCEPT !.at = "admitted", !.token = Nobody]
                                   ELSE NoRequest]
  /\ UNCHANGED <<rows, tokens, maker, login, history>>

\* POST logout asks for a token and for nothing else.
Logout(p) ==
  /\ TokenIsKnown(p)
  /\ p \in sessions
  /\ DeleteSessions({p})
  /\ ended' = ended \union {p}
  /\ UNCHANGED <<rows, maker, login, request, together, slugTaken>>

-----------------------------------------------------------------------------
MakerStep(m) ==
  \/ CreateUniqueTenantSlug(m)
  \/ InsertTenant(m)
  \/ Provisioned(m)
  \/ ProvisionFails(m)
  \/ CreateUniqueWorkspaceSlug(m)
  \/ InsertWorkspace(m)
  \/ InsertMember(m)
  \/ StatementFails(m)
  \/ MakerDies(m)

SignupStep(s) ==
  \/ LookForUser(s)
  \/ InsertUser(s)
  \/ SignupSession(s)
  \/ SignupAnswers(s)
  \/ RemoveFailedUser(s)
  \/ CleanupFails(s)

LoginStep(l) ==
  \/ \E u \in Signups : FindUser(l, u)
  \/ ClearSessions(l)
  \/ LoginSession(l)
  \/ LoginAnswers(l)
  \/ LoginFails(l)

RequestStep(r) ==
  \/ \E p \in Sources : CheckSession(r, p)
  \/ CheckSessionAgain(r)
  \/ CheckUser(r)

Next ==
  \/ \E m \in Makers : MakerStep(m)
  \/ \E s \in Signups : SignupStep(s)
  \/ \E c \in Creations, u \in Signups : AskForTenant(c, u)
  \/ \E l \in Logins : LoginStep(l)
  \/ \E r \in Requests : RequestStep(r)
  \/ \E p \in Sources : Logout(p) \/ Expire(p)

Spec == Init /\ [][Next]_vars

-----------------------------------------------------------------------------
(* What must hold.                                                         *)

\* "Remove the user so a failed signup does not leave an orphaned platform user":
\* after a signup that was answered with a failure nobody is logged in as its user,
\* owns a workspace as it, or is in the way of another signup with its address, even
\* if somebody logged in to it in the meantime; only one whose cleanup failed as well, or
\* that died, may leave its user.  A signup that was answered with an account keeps it:
\* its user, its membership, a workspace, an active tenant; no other signup's cleanup takes
\* any of it.  So does a user whose POST /api/tenants was answered.  And a signup or a
\* creation fails on a slug only if another was at work at the same time: the loops find a
\* free one whatever was made before.  (The types come with it.)
SignupIsAllOrNothing ==
  /\ TypeOK
  /\ \A s \in Signups : maker[s].at = "failed" =>
       /\ s \notin users /\ \A p \in sessions : Owner(p) # s
       /\ \A m \in members : UserOf(m) # s
  /\ \A m \in Makers : maker[m].at = "done" =>
       /\ workspace[m] # 0 /\ tenant[m].status = "active"
       /\ (m \in Signups \/ UserOf(m) \in users) => (UserOf(m) \in users /\ m \in members)
  /\ \A m \in slugTaken : \E q \in Makers \ {m} : {m, q} \in together

\* "Remove previous sessions before creating a fresh login session": a user has
\* two sessions only if the requests that made them overlapped.
SessionsOfOneUserOverlapped ==
  \A p, q \in sessions : p # q /\ Owner(p) = Owner(q) => {p, q} \in together

\* A request that begins after its session was logged out, or after a login of the
\* same user that did not overlap with the one that made the session, or once
\* it has expired, is never let through.
NoAdmissionTooLate == \A r \in Requests : request[r].at = "admitted" => ~request[r].late
=============================================================================
