-------------------------- MODULE WebClientProofs --------------------------
(***************************************************************************)
(* The accounts and the browser that is signed in to one.                  *)
(*                                                                         *)
(* What signup, POST /api/tenants, login and the check of requests         *)
(* promise, for any number of them at work at the same time: a signup that *)
(* fails leaves nobody unless its cleanup fails too, and one that is       *)
(* answered is whole, two sessions of one user come from requests that     *)
(* overlapped, and a request that comes too late is not let through.  And  *)
(* what a page shows in the browser, for any number of workspaces, jobs,   *)
(* scans, loads side by side and choices in other tabs: it is of one       *)
(* workspace, the shell's, of one run, and of the completed one, with the  *)
(* exceptions that overtaken answers and failed refreshes make.            *)
(***************************************************************************)
EXTENDS Accounts, WebClient, FiniteSetTheorems, SequenceTheorems, WellFoundedInduction, TLAPS

-----------------------------------------------------------------------------
BeforeUser == {"none", "slug", "user"}
BeforeTenant == {"none", "slug", "user", "tenant"}
BeforeWorkspace == BeforeTenant \union {"schema", "workspaceSlug", "workspace"}
WithMember == {"session", "stamp", "done"}
WithWorkspace == WithMember \union {"member"}
WithTenant == WithWorkspace \union {"workspaceSlug", "workspace"}
WithUser == WithTenant \union {"tenant", "schema"}
WithSession == {"stamp", "done", "undo", "left", "dead"}

\* Which rows a signup or a creation has made, by where it is.
RowsByPlace ==
  \A m \in Makers :
    /\ m \in users => maker[m].at \notin BeforeUser \union {"failed"}
    /\ m \in Signups /\ maker[m].at \in WithUser => m \in users
    /\ maker[m].at \in BeforeTenant => tenant[m].slug = 0
    /\ maker[m].at \in WithTenant => tenant[m].status = "active"
    /\ maker[m].at \in BeforeWorkspace => workspace[m] = 0
    /\ maker[m].at \in WithWorkspace => workspace[m] # 0
    /\ maker[m].at \in WithMember /\ UserOf(m) \in users => m \in members
    /\ m \in sessions => maker[m].at \in WithSession

\* A creation is of a user that was there, and so of a signup past its user.
CreationsByPlace ==
  \A c \in Creations : maker[c].at # "none" => /\ maker[c].who \in Signups
                                               /\ maker[maker[c].who].at \notin BeforeUser

\* Whose session a login makes, and when.
LoginsByPlace ==
  \A l \in Logins :
    /\ l \in sessions => login[l].at \in {"stamp", "done", "refused"}
    /\ login[l].at # "none" => /\ login[l].user \in Signups
                               /\ maker[login[l].user].at \notin BeforeUser

\* A session and a membership are of a user.
RowsAreOwned ==
  /\ \A p \in sessions : Owner(p) \in users
  /\ \A m \in members : UserOf(m) \in users

\* A maker in a loop for a slug has found all before it taken; where it has found one
\* free, only makers that overlap can have taken it.
SlugsTried ==
  \A m \in Makers :
    /\ maker[m].at = "none" => maker[m].slug = 1
    /\ maker[m].at = "slug" => 1..maker[m].slug - 1 \subseteq TenantSlugs
    /\ maker[m].at = "workspaceSlug" => 1..maker[m].slug - 1 \subseteq WorkspaceSlugs

SlugsFree ==
  \A m, q \in Makers :
    /\ maker[m].at \in {"user", "tenant"} /\ tenant[q].slug = maker[m].slug => {m, q} \in together
    /\ maker[m].at = "workspace" /\ workspace[q] = maker[m].slug => {m, q} \in together

SlugsLost == \A m \in slugTaken : \E q \in Makers \ {m} : {m, q} \in together

\* What is at work at the same time is recorded: makers; logins to one user; a login and
\* the signup that made its user, even when the login is over and the signup is not.
AtWorkTogether ==
  /\ \A m, q \in MakersAtWork : m # q => {m, q} \in together
  /\ \A l, k \in LoginsAtWork : l # k /\ login[l].user = login[k].user => {l, k} \in together
  /\ \A l \in Logins : login[l].at # "none" /\ login[l].user \in MakersAtWork =>
       {l, login[l].user} \in together

\* After a login has cleared the user's sessions, those there are overlapped it.
ClearedSessions ==
  \A l \in Logins, p \in sessions :
    login[l].at \in {"session", "stamp"} /\ p # l /\ Owner(p) = login[l].user => {p, l} \in together

\* A session that was ended is gone for good.
EndedIsGone == \A p \in ended : TokenIsKnown(p) /\ p \notin sessions

NoneLate == \A r \in Requests : ~request[r].late

\* Together they are inductive.
IInv ==
  /\ TypeOK
  /\ RowsByPlace
  /\ CreationsByPlace
  /\ LoginsByPlace
  /\ RowsAreOwned
  /\ SlugsTried
  /\ SlugsFree
  /\ SlugsLost
  /\ AtWorkTogether
  /\ ClearedSessions
  /\ SessionsOfOneUserOverlapped
  /\ EndedIsGone
  /\ NoneLate

-----------------------------------------------------------------------------
\* A place in a loop for a slug is within the slugs: the others, fewer than all makers,
\* cannot have taken more.
LEMMA SlugsSuffice ==
  ASSUME NEW taken \in [Makers -> Slugs \union {0}], NEW m \in Makers, taken[m] = 0,
         NEW k \in Slugs, 1..k \subseteq {taken[q] : q \in Makers}
  PROVE  k + 1 \in Slugs
<1> DEFINE others == Makers \ {m}
           used == {taken[q] : q \in others}
           f == [q \in others |-> taken[q]]
<1>1. /\ IsFiniteSet(Makers) /\ Cardinality(Makers) \in Nat
      /\ IsFiniteSet(others) /\ Cardinality(others) = Cardinality(Makers) - 1
      /\ Cardinality(others) \in Nat
  <2>1. IsFiniteSet(Makers)
    BY AccountsAssumption, FS_Union DEF Makers
  <2> QED
    BY <2>1, FS_CardinalityType, FS_RemoveElement
<1>2. IsFiniteSet(used) /\ Cardinality(used) <= Cardinality(others)
  <2>1. f \in Surjection(others, used)
    BY DEF Surjection
  <2> HIDE DEF f, used, others
  <2> QED
    BY <1>1, <2>1, FS_Surjection
<1>3. k \in Nat /\ 1 <= k
  BY <1>1 DEF Slugs
<1>4. 1..k \in SUBSET used
  <2>1. ASSUME NEW i \in 1..k
        PROVE  i \in used
    <3>1. PICK q \in Makers : taken[q] = i
      OBVIOUS
    <3>2. q # m
      BY <1>3, <3>1
    <3> QED
      BY <3>1, <3>2
  <2> QED
    BY <2>1
<1>5. Cardinality(1..k) = k
  BY <1>3, FS_Interval
<1>6. k <= Cardinality(used) /\ Cardinality(used) \in Nat
  <2> DEFINE firsts == 1..k
  <2>1. firsts \in SUBSET used /\ Cardinality(firsts) = k /\ IsFiniteSet(used)
    BY <1>2, <1>4, <1>5
  <2> HIDE DEF used, firsts
  <2>2. Cardinality(firsts) <= Cardinality(used)
    BY <2>1, FS_Subset
  <2>3. Cardinality(used) \in Nat
    BY <2>1, FS_CardinalityType
  <2> QED
    BY <2>1, <2>2, <2>3
<1> QED
  BY <1>1, <1>2, <1>3, <1>6 DEF Slugs

\* No creation has a user or a session of its own.
LEMMA CreationsAreApart ==
  ASSUME TypeOK, NEW c \in Creations
  PROVE  c \notin Signups /\ c \notin users /\ c \notin sessions
BY AccountsAssumption DEF TypeOK, Sources, Makers

\* The first slug is one of them.
LEMMA FirstSlug ==
  ASSUME NEW m \in Makers
  PROVE  1 \in Slugs /\ 0 \notin Slugs /\ Slugs \subseteq Nat
<1>1. Cardinality(Makers) \in Nat /\ Cardinality(Makers) # 0
  <2>1. IsFiniteSet(Makers)
    BY AccountsAssumption, FS_Union DEF Makers
  <2> QED
    BY <2>1, FS_CardinalityType, FS_EmptySet
<1> QED
  BY <1>1 DEF Slugs

\* Where a maker's step leaves it.
LEMMA MoveFacts ==
  ASSUME TypeOK, NEW m \in Makers, NEW place \in MakerPlaces,
         MoveMaker(m, place) \/ EndMaker(m, place)
  PROVE  /\ maker' \in [Makers -> MakerRecords]
         /\ \A q \in Makers \ {m} : maker'[q] = maker[q]
         /\ maker'[m].at = place /\ maker'[m].who = maker[m].who
         /\ MoveMaker(m, place) => maker'[m].slug = maker[m].slug
<1>1. maker[m] \in MakerRecords
  BY DEF TypeOK
<1>2. 1 \in Slugs
  BY FirstSlug
<1>3. CASE MoveMaker(m, place)
  BY <1>1, <1>3 DEF TypeOK, MoveMaker, MakerRecords
<1>4. CASE EndMaker(m, place)
  <2>1. /\ maker' \in [Makers -> MakerRecords]
        /\ \A q \in Makers \ {m} : maker'[q] = maker[q]
        /\ maker'[m].at = place /\ maker'[m].who = maker[m].who
    BY <1>1, <1>2, <1>4 DEF TypeOK, EndMaker, MakerRecords
  <2>2. MoveMaker(m, place) => maker'[m].slug = maker[m].slug
    BY <1>1 DEF TypeOK, MoveMaker, MakerRecords
  <2> QED
    BY <2>1, <2>2
<1> QED
  BY <1>3, <1>4

-----------------------------------------------------------------------------
(* A step of a maker at work.                                              *)

\* Its place, and what it leaves to others: no session is new, no login moves.
MakerGoesOn(m, place) ==
  /\ m \in Makers /\ place \in MakerPlaces \ {"none"}
  /\ maker[m].at \notin Finished
  /\ maker[m].at \notin BeforeUser => place \notin BeforeUser
  /\ maker'[m].at = place /\ maker'[m].who = maker[m].who
  /\ \A q \in Makers \ {m} : maker'[q] = maker[q]
  /\ UNCHANGED <<login, request, together, ended>>

\* What such a step cannot disturb.
OfOthers ==
  /\ CreationsByPlace
  /\ LoginsByPlace
  /\ AtWorkTogether
  /\ ClearedSessions
  /\ SessionsOfOneUserOverlapped
  /\ EndedIsGone
  /\ NoneLate

LEMMA OthersAreKept ==
  ASSUME IInv, NEW m, NEW place, MakerGoesOn(m, place), sessions' \subseteq sessions
  PROVE  OfOthers'
<1> USE DEF IInv, MakerGoesOn
<1>1. LoginsByPlace' /\ CreationsByPlace'
  <2>1. \A q \in Makers : /\ maker[q].at \notin BeforeUser => maker'[q].at \notin BeforeUser
                          /\ maker'[q].who = maker[q].who
                          /\ maker'[q].at # "none" => maker[q].at # "none"
    BY DEF Finished
  <2> QED
    BY <2>1 DEF LoginsByPlace, CreationsByPlace, Makers
<1>2. MakersAtWork' \subseteq MakersAtWork /\ LoginsAtWork' = LoginsAtWork
  BY DEF MakersAtWork, LoginsAtWork
<1>3. AtWorkTogether'
  BY <1>2 DEF AtWorkTogether
<1>4. \A p : Owner(p)' = Owner(p)
  BY DEF Owner
<1>5. ClearedSessions'
  BY <1>4 DEF ClearedSessions
<1>6. SessionsOfOneUserOverlapped'
  BY <1>4 DEF SessionsOfOneUserOverlapped
<1>7. EndedIsGone'
  <2>1. ASSUME NEW p \in ended, TokenIsKnown(p)
        PROVE  TokenIsKnown(p)'
    <3>1. p \in Signups => p # m
      BY <2>1 DEF TokenIsKnown, Finished
    <3> QED
      BY <2>1, <3>1 DEF TokenIsKnown, Makers
  <2> QED
    BY <2>1 DEF EndedIsGone
<1>8. NoneLate'
  BY DEF NoneLate
<1> QED
  BY <1>1, <1>3, <1>5, <1>6, <1>7, <1>8 DEF OfOthers

\* A step that makes no tenant and no workspace keeps the slugs as they were found.
LEMMA SlugsAreKept ==
  ASSUME IInv, NEW m, NEW place, MakerGoesOn(m, place),
         \A q \in Makers : tenant'[q].slug = tenant[q].slug /\ workspace'[q] = workspace[q],
         \/ place \notin {"slug", "user", "tenant", "workspaceSlug", "workspace"}
         \/ maker[m].at = "user" /\ place = "tenant" /\ maker'[m].slug = maker[m].slug
  PROVE  SlugsTried' /\ SlugsFree'
<1> USE DEF IInv, MakerGoesOn
<1>1. TenantSlugs' = TenantSlugs /\ WorkspaceSlugs' = WorkspaceSlugs
  BY DEF TenantSlugs, WorkspaceSlugs
<1>2. SlugsTried'
  BY <1>1 DEF SlugsTried
<1>3. ASSUME NEW r \in Makers, NEW q \in Makers
      PROVE  /\ maker'[r].at \in {"user", "tenant"} /\ tenant'[q].slug = maker'[r].slug
                  => {r, q} \in together
             /\ maker'[r].at = "workspace" /\ workspace'[q] = maker'[r].slug
                  => {r, q} \in together
  <2>1. CASE r = m
    BY <2>1 DEF SlugsFree
  <2>2. CASE r # m
    BY <2>2 DEF SlugsFree
  <2> QED
    BY <2>1, <2>2
<1>4. SlugsFree'
  BY <1>3 DEF SlugsFree
<1> QED
  BY <1>2, <1>4

\* A step that takes no user away, and adds no session and no member.
LEMMA OwnersAreKept ==
  ASSUME IInv, NEW m, NEW place, MakerGoesOn(m, place),
         users \subseteq users', sessions' \subseteq sessions, members' \subseteq members
  PROVE  RowsAreOwned'
<1>1. \A p : Owner(p)' = Owner(p)
  BY DEF Owner, MakerGoesOn
<1>2. \A q \in Makers : UserOf(q)' = UserOf(q)
  BY DEF UserOf, MakerGoesOn
<1>3. members \subseteq Makers
  BY DEF IInv, TypeOK
<1> QED
  BY <1>1, <1>2, <1>3 DEF IInv, RowsAreOwned

\* What is left of the invariant, for such a step.
OfItsOwn == TypeOK /\ RowsByPlace /\ RowsAreOwned /\ SlugsTried /\ SlugsFree /\ SlugsLost

LEMMA StepIsKept == OfItsOwn /\ OfOthers => IInv
  BY DEF OfItsOwn, OfOthers, IInv

\* The tables of an account, after a step that leaves those of the others.
LEMMA RowsAreKept ==
  ASSUME IInv, NEW m, NEW place, MakerGoesOn(m, place),
         \A q \in Makers \ {m} :
           /\ (q \in users') = (q \in users)
           /\ tenant'[q] = tenant[q] /\ workspace'[q] = workspace[q]
           /\ q \in sessions' => q \in sessions,
         \/ users' = users /\ members \subseteq members'
         \/ \A q \in Makers \ {m} : maker[q].at \in WithMember /\ UserOf(q) \in users' => q \in members',
         /\ m \in users' => place \notin BeforeUser \union {"failed"}
         /\ m \in Signups /\ place \in WithUser => m \in users'
         /\ place \in BeforeTenant => tenant'[m].slug = 0
         /\ place \in WithTenant => tenant'[m].status = "active"
         /\ place \in BeforeWorkspace => workspace'[m] = 0
         /\ place \in WithWorkspace => workspace'[m] # 0
         /\ place \in WithMember /\ UserOf(m) \in users' => m \in members'
         /\ m \in sessions' => place \in WithSession
  PROVE  RowsByPlace'
<1>1. ASSUME NEW q \in Makers
      PROVE  UserOf(q)' = UserOf(q)
  BY <1>1 DEF UserOf, MakerGoesOn
<1> SUFFICES ASSUME NEW q \in Makers
             PROVE  /\ q \in users' => maker'[q].at \notin BeforeUser \union {"failed"}
                    /\ q \in Signups /\ maker'[q].at \in WithUser => q \in users'
                    /\ maker'[q].at \in BeforeTenant => tenant'[q].slug = 0
                    /\ maker'[q].at \in WithTenant => tenant'[q].status = "active"
                    /\ maker'[q].at \in BeforeWorkspace => workspace'[q] = 0
                    /\ maker'[q].at \in WithWorkspace => workspace'[q] # 0
                    /\ maker'[q].at \in WithMember /\ UserOf(q) \in users' => q \in members'
                    /\ q \in sessions' => maker'[q].at \in WithSession
  BY <1>1 DEF RowsByPlace
<1>2. CASE q # m
  <2>1. maker'[q] = maker[q]
    BY <1>2 DEF MakerGoesOn
  <2>2. maker[q].at \in WithMember /\ UserOf(q) \in users' => q \in members'
    BY <1>2 DEF IInv, RowsByPlace
  <2> QED
    BY <1>2, <2>1, <2>2 DEF IInv, RowsByPlace
<1>3. CASE q = m
  BY <1>3 DEF MakerGoesOn
<1> QED
  BY <1>2, <1>3

\* A step that only ends what is at work, answered or not.
LEMMA MakerEndsKeeps ==
  ASSUME IInv, NEW m \in Makers,
         \/ m \in Signups /\ (SignupAnswers(m) \/ CleanupFails(m))
         \/ MakerDies(m) \/ StatementFails(m)
  PROVE  IInv'
<1> USE DEF IInv
<1>1. /\ UNCHANGED <<users, tenant, workspace, members, sessions, expired, login, request>>
      /\ UNCHANGED <<together, ended>>
  BY DEF SignupAnswers, CleanupFails, MakerDies, StatementFails, rows, tokens, history
<1>2. PICK place \in {"done", "dead", "undo", "left", "failed", "refused"} :
        /\ EndMaker(m, place)
        /\ maker[m].at \notin Finished
        /\ place = "done" => maker[m].at = "stamp"
        /\ place = "undo" => maker[m].at \in {"user", "tenant"} \union WithTenant
        /\ place = "left" => maker[m].at = "undo"
        /\ place = "failed" => maker[m].at = "slug"
        /\ place = "refused" => m \in Creations
  <2>1. CASE m \in Signups /\ SignupAnswers(m)
    BY <2>1 DEF SignupAnswers, Finished
  <2>2. CASE m \in Signups /\ CleanupFails(m)
    BY <2>2 DEF CleanupFails, Finished
  <2>3. CASE MakerDies(m)
    BY <2>3 DEF MakerDies
  <2>4. CASE StatementFails(m)
    BY <2>4 DEF StatementFails, FailsTo, Finished, WithTenant, WithWorkspace, WithMember
  <2> QED
    BY <2>1, <2>2, <2>3, <2>4
<1>3. /\ maker' \in [Makers -> MakerRecords]
      /\ \A q \in Makers \ {m} : maker'[q] = maker[q]
      /\ maker'[m].at = place /\ maker'[m].who = maker[m].who
  BY <1>2, MoveFacts DEF MakerPlaces
<1>4. MakerGoesOn(m, place)
  BY <1>1, <1>2, <1>3 DEF MakerGoesOn, MakerPlaces, BeforeUser
<1>5. TypeOK'
  <2>1. slugTaken' \subseteq Makers
    BY DEF SignupAnswers, CleanupFails, MakerDies, StatementFails, history, TypeOK
  <2> QED
    BY <1>1, <1>3, <2>1 DEF TypeOK
<1>6. RowsByPlace'
  <2>1. /\ m \in users => place \notin BeforeUser \union {"failed"}
        /\ m \in sessions => place \in WithSession
    <3>1. m \in users => maker[m].at # "slug"
      BY DEF RowsByPlace, BeforeUser
    <3>2. m \in sessions => maker[m].at # "slug"
      BY DEF RowsByPlace, WithSession
    <3>3. place = "refused" => m \notin sessions
      BY <1>2, CreationsAreApart
    <3> QED
      BY <1>2, <3>1, <3>2, <3>3 DEF BeforeUser, WithSession
  <2>2. place \in WithUser \union BeforeWorkspace => place = "done" /\ maker[m].at \in WithMember
    BY <1>2 DEF WithUser, WithTenant, WithWorkspace, WithMember, BeforeWorkspace, BeforeTenant
  <2>3. place = "done" =>
          /\ m \in Signups => m \in users
          /\ tenant[m].status = "active" /\ workspace[m] # 0
          /\ UserOf(m) \in users => m \in members
    BY <1>2 DEF RowsByPlace, WithUser, WithTenant, WithWorkspace, WithMember
  <2> QED
    BY <1>1, <1>4, <2>1, <2>2, <2>3, RowsAreKept DEF BeforeTenant, BeforeWorkspace, WithUser,
       WithTenant, WithWorkspace, WithMember
<1>7. RowsAreOwned'
  BY <1>1, <1>4, OwnersAreKept
<1>8. SlugsTried' /\ SlugsFree'
  BY <1>1, <1>2, <1>4, SlugsAreKept
<1>9. SlugsLost'
  <2>1. ASSUME TenantSlugLost(m) \/ WorkspaceSlugLost(m)
        PROVE  \E q \in Makers \ {m} : {m, q} \in together
    <3>1. maker[m].slug \in Slugs /\ 0 \notin Slugs
      BY FirstSlug DEF TypeOK, MakerRecords
    <3>2. CASE TenantSlugLost(m)
      <4>1. maker[m].at = "tenant" /\ tenant[m].slug = 0
        BY <3>2 DEF TenantSlugLost, RowsByPlace, BeforeTenant
      <4>2. PICK q \in Makers : tenant[q].slug = maker[m].slug
        BY <3>2 DEF TenantSlugLost, TenantSlugs
      <4>3. q # m
        BY <3>1, <4>1, <4>2
      <4> QED
        BY <4>1, <4>2, <4>3 DEF SlugsFree
    <3>3. CASE WorkspaceSlugLost(m)
      <4>1. maker[m].at = "workspace" /\ workspace[m] = 0
        BY <3>3 DEF WorkspaceSlugLost, RowsByPlace, BeforeWorkspace
      <4>2. PICK q \in Makers : workspace[q] = maker[m].slug
        BY <3>3 DEF WorkspaceSlugLost, WorkspaceSlugs
      <4>3. q # m
        BY <3>1, <4>1, <4>2
      <4> QED
        BY <4>1, <4>2, <4>3 DEF SlugsFree
    <3> QED
      BY <2>1, <3>2, <3>3
  <2>2. slugTaken' = slugTaken \/ (slugTaken' = slugTaken \union {m} /\ (TenantSlugLost(m) \/ WorkspaceSlugLost(m)))
    BY DEF SignupAnswers, CleanupFails, MakerDies, StatementFails, history
  <2> QED
    BY <1>1, <2>1, <2>2 DEF SlugsLost
<1>10. OfOthers'
  BY <1>1, <1>4, OthersAreKept
<1> QED
  BY <1>5, <1>6, <1>7, <1>8, <1>9, <1>10, StepIsKept DEF OfItsOwn, OfOthers

\* The user is made: nobody had it.
LEMMA InsertUserKeeps ==
  ASSUME IInv, NEW s \in Signups, InsertUser(s)
  PROVE  IInv'
<1> USE DEF IInv
<1>1. /\ UNCHANGED <<tenant, workspace, members, sessions, expired, login, request>>
      /\ UNCHANGED <<together, slugTaken, ended>>
      /\ users' = users \union {s} /\ maker[s].at = "user" /\ MoveMaker(s, "tenant")
  BY DEF InsertUser, tokens, history
<1>2. /\ maker' \in [Makers -> MakerRecords] /\ s \in Makers
      /\ \A q \in Makers \ {s} : maker'[q] = maker[q]
      /\ maker'[s].at = "tenant" /\ maker'[s].slug = maker[s].slug
      /\ maker'[s].who = maker[s].who
  BY <1>1, MoveFacts DEF MakerPlaces, Makers
<1>3. MakerGoesOn(s, "tenant")
  BY <1>1, <1>2 DEF MakerGoesOn, MakerPlaces, BeforeUser, Finished
<1>4. TypeOK'
  BY <1>1, <1>2 DEF TypeOK
<1>5. tenant[s].slug = 0 /\ workspace[s] = 0 /\ s \notin sessions
  BY <1>1, <1>2 DEF RowsByPlace, BeforeTenant, BeforeWorkspace, WithSession
<1>6. RowsByPlace'
  <2>1. ASSUME NEW q \in Makers \ {s}, maker[q].at \in WithMember, UserOf(q) \in users'
        PROVE  q \in members'
    <3>1. UserOf(q) # s
      BY <1>1, <2>1 DEF UserOf, CreationsByPlace, Makers, BeforeUser, WithMember
    <3> QED
      BY <1>1, <2>1, <3>1 DEF RowsByPlace
  <2> QED
    BY <1>1, <1>3, <1>5, <2>1, RowsAreKept DEF BeforeUser, WithTenant, WithWorkspace, WithMember
<1>7. RowsAreOwned'
  BY <1>1, <1>3, OwnersAreKept
<1>8. SlugsTried' /\ SlugsFree'
  BY <1>1, <1>2, <1>3, SlugsAreKept
<1>9. SlugsLost' /\ OfOthers'
  BY <1>1, <1>3, OthersAreKept DEF SlugsLost
<1> QED
  BY <1>4, <1>6, <1>7, <1>8, <1>9, StepIsKept DEF OfItsOwn, OfOthers

\* A SELECT of a loop for a slug: the next is tried, or it is free, as nobody has it.
LEMMA TrySlugKeeps ==
  ASSUME IInv, NEW m \in Makers, CreateUniqueTenantSlug(m) \/ CreateUniqueWorkspaceSlug(m)
  PROVE  IInv'
<1> USE DEF IInv
<1>1. /\ UNCHANGED <<users, tenant, workspace, members, sessions, expired, login, request>>
      /\ UNCHANGED <<together, slugTaken, ended>>
  BY DEF CreateUniqueTenantSlug, CreateUniqueWorkspaceSlug, rows, tokens, history
<1>2. PICK taken, at, next :
        /\ maker[m].at = at /\ TrySlug(m, taken, next)
        /\ \/ at = "slug" /\ next = "user" /\ taken = TenantSlugs
           \/ at = "slug" /\ next = "tenant" /\ taken = TenantSlugs /\ m \in Creations
           \/ at = "workspaceSlug" /\ next = "workspace" /\ taken = WorkspaceSlugs
  BY AccountsAssumption DEF CreateUniqueTenantSlug, CreateUniqueWorkspaceSlug, Makers
<1>3. maker[m] \in MakerRecords /\ Slugs \subseteq Nat
      /\ 0 \notin Slugs /\ maker[m].slug \in Slugs
  BY FirstSlug DEF TypeOK, MakerRecords
<1> DEFINE who == maker[m].who
<1>4. at = "slug" => 1..maker[m].slug - 1 \subseteq TenantSlugs
  BY <1>2 DEF SlugsTried
<1>5. at = "workspaceSlug" => 1..maker[m].slug - 1 \subseteq WorkspaceSlugs
  BY <1>2 DEF SlugsTried
<1>6. CASE maker[m].slug \in taken
  <2> DEFINE k == maker[m].slug
  <2>1. 1..k \subseteq taken
    <3>1. k \in Nat
      BY <1>3
    <3>2. 1..k - 1 \subseteq taken
      BY <1>2, <1>4, <1>5
    <3> QED
      BY <1>6, <3>1, <3>2
  <2>2. k + 1 \in Slugs
    <3>1. k \in Slugs
      BY <1>3
    <3>2. CASE at = "slug"
      <4> DEFINE slugs == [q \in Makers |-> tenant[q].slug]
      <4>1. slugs \in [Makers -> Slugs \union {0}]
        BY DEF TypeOK
      <4>2. slugs[m] = 0
        BY <1>2, <3>2 DEF RowsByPlace, BeforeTenant
      <4>3. 1..k \subseteq {slugs[q] : q \in Makers}
        BY <1>2, <2>1, <3>2 DEF TenantSlugs
      <4> HIDE DEF slugs, k
      <4> QED
        BY <3>1, <4>1, <4>2, <4>3, SlugsSuffice
    <3>3. CASE at = "workspaceSlug"
      <4>1. workspace \in [Makers -> Slugs \union {0}]
        BY DEF TypeOK
      <4>2. workspace[m] = 0
        BY <1>2, <3>3 DEF RowsByPlace, BeforeWorkspace
      <4>3. 1..k \subseteq {workspace[q] : q \in Makers}
        BY <1>2, <2>1, <3>3 DEF WorkspaceSlugs
      <4> HIDE DEF k
      <4> QED
        BY <3>1, <4>1, <4>2, <4>3, SlugsSuffice
    <3> QED
      BY <1>2, <3>2, <3>3
  <2>3. maker' = [maker EXCEPT ![m].slug = maker[m].slug + 1]
    BY <1>2, <1>6 DEF TrySlug
  <2>4. /\ maker' \in [Makers -> MakerRecords]
        /\ \A q \in Makers \ {m} : maker'[q] = maker[q]
        /\ maker'[m].at = at /\ maker'[m].slug = k + 1 /\ maker'[m].who = who
    BY <1>2, <1>3, <2>2, <2>3 DEF TypeOK, MakerRecords
  <2>5. MakerGoesOn(m, at)
    BY <1>1, <1>2, <2>4 DEF MakerGoesOn, MakerPlaces, BeforeUser, Finished
  <2>6. TypeOK'
    BY <1>1, <2>4 DEF TypeOK
  <2>7. RowsByPlace' /\ RowsAreOwned'
    <3>1. \A q \in Makers : maker'[q].at = maker[q].at /\ UserOf(q)' = UserOf(q)
      BY <1>2, <2>4 DEF UserOf
    <3>2. RowsByPlace'
      BY <1>1, <3>1 DEF RowsByPlace
    <3> QED
      BY <1>1, <2>5, <3>2, OwnersAreKept
  <2>8. TenantSlugs' = TenantSlugs /\ WorkspaceSlugs' = WorkspaceSlugs
    BY <1>1 DEF TenantSlugs, WorkspaceSlugs
  <2>9. SlugsTried'
    <3>1. maker'[m].slug - 1 = k
      <4>1. k \in Nat
        BY <1>3
      <4>2. maker'[m].slug = k + 1
        BY <2>4
      <4> HIDE DEF k
      <4> QED
        BY <4>1, <4>2
    <3>2. /\ maker'[m].at # "none"
          /\ maker'[m].at = "slug" => 1..maker'[m].slug - 1 \subseteq TenantSlugs
          /\ maker'[m].at = "workspaceSlug" => 1..maker'[m].slug - 1 \subseteq WorkspaceSlugs
      BY <1>2, <2>1, <2>4, <3>1
    <3> QED
      BY <2>4, <2>8, <3>2 DEF SlugsTried
  <2>10. SlugsFree'
    <3>1. maker'[m].at \notin {"user", "tenant", "workspace"}
      BY <1>2, <2>4
    <3> QED
      BY <1>1, <2>4, <3>1 DEF SlugsFree
  <2>11. SlugsLost' /\ OfOthers'
    BY <1>1, <2>5, OthersAreKept DEF SlugsLost
  <2> QED
    BY <2>6, <2>7, <2>9, <2>10, <2>11, StepIsKept DEF OfItsOwn, OfOthers
<1>7. CASE maker[m].slug \notin taken
  <2>1. maker' = [maker EXCEPT ![m].at = next]
    BY <1>2, <1>7 DEF TrySlug
  <2>2. /\ maker' \in [Makers -> MakerRecords]
        /\ \A q \in Makers \ {m} : maker'[q] = maker[q]
        /\ maker'[m].at = next /\ maker'[m].slug = maker[m].slug /\ maker'[m].who = who
    BY <1>2, <1>3, <2>1 DEF TypeOK, MakerPlaces, MakerRecords
  <2>3. MakerGoesOn(m, next)
    BY <1>1, <1>2, <2>2 DEF MakerGoesOn, MakerPlaces, BeforeUser, Finished
  <2>4. TypeOK'
    BY <1>1, <2>2 DEF TypeOK
  <2>5. RowsByPlace'
    <3>1. /\ at = "slug" => m \notin users /\ tenant[m].slug = 0 /\ workspace[m] = 0
          /\ at = "workspaceSlug" => /\ m \in Signups => m \in users
                                     /\ tenant[m].status = "active" /\ workspace[m] = 0
          /\ m \in Creations => m \notin Signups
          /\ m \notin sessions
      BY <1>2, CreationsAreApart DEF WithSession, RowsByPlace, BeforeUser, BeforeTenant, BeforeWorkspace, WithUser, WithTenant,
         WithWorkspace, WithMember
    <3> QED
      BY <1>1, <1>2, <2>3, <3>1, RowsAreKept DEF BeforeUser, BeforeTenant, BeforeWorkspace,
         WithUser, WithTenant, WithWorkspace, WithMember
  <2>6. RowsAreOwned'
    BY <1>1, <2>3, OwnersAreKept
  <2>7. TenantSlugs' = TenantSlugs /\ WorkspaceSlugs' = WorkspaceSlugs
    BY <1>1 DEF TenantSlugs, WorkspaceSlugs
  <2>8. SlugsTried'
    <3>1. maker'[m].at \notin {"none", "slug", "workspaceSlug"}
      BY <1>2, <2>2
    <3> QED
      BY <2>2, <2>7, <3>1 DEF SlugsTried
  <2>9. SlugsFree'
    <3>1. /\ at = "slug" => \A q \in Makers : tenant[q].slug # maker[m].slug
          /\ at = "workspaceSlug" => \A q \in Makers : workspace[q] # maker[m].slug
      BY <1>2, <1>7 DEF TenantSlugs, WorkspaceSlugs
    <3>2. \A q \in Makers :
            /\ maker'[m].at \in {"user", "tenant"} => tenant[q].slug # maker'[m].slug
            /\ maker'[m].at = "workspace" => workspace[q] # maker'[m].slug
      BY <1>2, <2>2, <3>1
    <3> QED
      BY <1>1, <2>2, <3>2 DEF SlugsFree
  <2>10. SlugsLost' /\ OfOthers'
    BY <1>1, <2>3, OthersAreKept DEF SlugsLost
  <2> QED
    BY <2>4, <2>5, <2>6, <2>8, <2>9, <2>10, StepIsKept DEF OfItsOwn, OfOthers
<1> QED
  BY <1>6, <1>7

\* A signup or a creation begins: what is at work is at work together with it, and it has made nothing.
LEMMA MakerBeginsKeeps ==
  ASSUME IInv, NEW m \in Makers,
         \/ m \in Signups /\ LookForUser(m)
         \/ m \in Creations /\ \E u \in Signups : AskForTenant(m, u)
  PROVE  IInv'
<1> USE DEF IInv
<1>1. /\ UNCHANGED <<users, tenant, workspace, members, sessions, expired, login, request>>
      /\ UNCHANGED <<slugTaken, ended>>
      /\ maker[m].at = "none"
      /\ together' = together \union {{m, q} : q \in MakersAtWork}
  BY DEF LookForUser, AskForTenant, MakerBegins, rows, tokens
<1>2. PICK who :
        /\ maker' = [maker EXCEPT ![m].at = "slug", ![m].who = who]
        /\ m \in Signups => who = maker[m].who
        /\ m \in Creations => who \in users
        /\ who \in Emails \union Signups \union {Nobody}
  <2>1. CASE m \in Signups /\ LookForUser(m)
    <3>1. maker[m] \in MakerRecords /\ m \notin Creations
      BY <2>1, AccountsAssumption DEF TypeOK
    <3>2. maker' = [maker EXCEPT ![m].at = "slug", ![m].who = maker[m].who]
      BY <2>1, <3>1 DEF LookForUser, MoveMaker, TypeOK, MakerRecords
    <3> QED
      BY <3>1, <3>2 DEF MakerRecords
  <2>2. CASE m \in Creations /\ \E u \in Signups : AskForTenant(m, u)
    BY <2>2, AccountsAssumption DEF AskForTenant
  <2> QED
    BY <2>1, <2>2
<1>3. /\ maker' \in [Makers -> MakerRecords]
      /\ \A q \in Makers \ {m} : maker'[q] = maker[q]
      /\ maker'[m].at = "slug" /\ maker'[m].slug = maker[m].slug /\ maker'[m].who = who
  <2>1. maker[m] \in MakerRecords
    BY DEF TypeOK
  <2> QED
    BY <1>2, <2>1 DEF TypeOK, MakerPlaces, MakerRecords
<1>4. TypeOK'
  <2>1. together' \subseteq SUBSET (Makers \union Logins)
    BY <1>1 DEF TypeOK, MakersAtWork
  <2> QED
    BY <1>1, <1>3, <2>1 DEF TypeOK
<1>5. ASSUME NEW q \in Makers
      PROVE  \/ maker'[q] = maker[q]
             \/ q = m /\ maker[m].at = "none" /\ maker'[m].at = "slug"
  BY <1>1, <1>3
<1>6. RowsByPlace'
  <2>1. /\ m \notin users /\ m \notin sessions /\ tenant[m].slug = 0 /\ workspace[m] = 0
    BY <1>1 DEF RowsByPlace, BeforeUser, BeforeTenant, BeforeWorkspace, WithSession
  <2>2. ASSUME NEW q \in Makers, q # m
        PROVE  UserOf(q)' = UserOf(q) /\ maker'[q] = maker[q]
    BY <1>3, <2>2 DEF UserOf
  <2> SUFFICES ASSUME NEW q \in Makers
               PROVE  /\ q \in users => maker'[q].at \notin BeforeUser \union {"failed"}
                      /\ q \in Signups /\ maker'[q].at \in WithUser => q \in users
                      /\ maker'[q].at \in BeforeTenant => tenant[q].slug = 0
                      /\ maker'[q].at \in WithTenant => tenant[q].status = "active"
                      /\ maker'[q].at \in BeforeWorkspace => workspace[q] = 0
                      /\ maker'[q].at \in WithWorkspace => workspace[q] # 0
                      /\ maker'[q].at \in WithMember /\ UserOf(q)' \in users => q \in members
                      /\ q \in sessions => maker'[q].at \in WithSession
    BY <1>1 DEF RowsByPlace
  <2>3. CASE q # m
    BY <2>2, <2>3 DEF RowsByPlace
  <2>4. CASE q = m
    BY <1>3, <2>1, <2>4 DEF WithUser, WithTenant, WithWorkspace, WithMember
  <2> QED
    BY <2>3, <2>4
<1>7. LoginsByPlace' /\ CreationsByPlace'
  <2>1. \A q \in Makers : maker[q].at \notin BeforeUser => maker'[q] = maker[q]
    BY <1>5 DEF BeforeUser
  <2>2. LoginsByPlace'
    BY <1>1, <2>1 DEF LoginsByPlace, Makers
  <2>3. ASSUME NEW c \in Creations, maker'[c].at # "none"
        PROVE  maker'[c].who \in Signups /\ maker'[maker'[c].who].at \notin BeforeUser
    <3>1. CASE c = m
      <4>1. maker'[c].who \in users /\ maker'[c].who \in Signups
        BY <1>2, <1>3, <3>1 DEF TypeOK
      <4> QED
        BY <2>1, <4>1 DEF RowsByPlace, Makers
    <3>2. CASE c # m
      <4>1. maker'[c] = maker[c]
        BY <1>3, <3>2 DEF Makers
      <4> QED
        BY <2>1, <2>3, <4>1 DEF CreationsByPlace, Makers
    <3> QED
      BY <3>1, <3>2
  <2> QED
    BY <2>2, <2>3 DEF CreationsByPlace
<1>8. RowsAreOwned'
  <2>1. \A p : Owner(p)' = Owner(p)
    BY <1>1 DEF Owner
  <2>2. \A q \in members : q \in Makers
    BY DEF TypeOK
  <2>3. ASSUME NEW q \in members
        PROVE  UserOf(q)' \in users
    <3>1. CASE q = m
      <4>1. m \in Signups => UserOf(m)' = UserOf(m)
        BY DEF UserOf
      <4>2. m \in Creations => UserOf(m)' \in users
        BY <1>2, <1>3, CreationsAreApart DEF UserOf
      <4> QED
        BY <2>2, <3>1, <4>1, <4>2 DEF RowsAreOwned, Makers
    <3>2. CASE q # m
      BY <1>3, <2>2, <3>2 DEF UserOf, RowsAreOwned
    <3> QED
      BY <3>1, <3>2
  <2> QED
    BY <1>1, <2>1, <2>3 DEF RowsAreOwned
<1>9. TenantSlugs' = TenantSlugs /\ WorkspaceSlugs' = WorkspaceSlugs
  BY <1>1 DEF TenantSlugs, WorkspaceSlugs
<1>10. SlugsTried'
  <2>1. maker'[m].slug = 1 /\ maker'[m].at # "none" /\ maker'[m].at # "workspaceSlug"
    BY <1>1, <1>3 DEF SlugsTried
  <2>2. 1..maker'[m].slug - 1 = {}
    BY <2>1
  <2> QED
    BY <1>3, <1>9, <2>1, <2>2 DEF SlugsTried
<1>11. SlugsFree'
  <2>1. maker'[m].at \notin {"user", "tenant", "workspace"}
    BY <1>3
  <2> QED
    BY <1>1, <1>3, <2>1 DEF SlugsFree
<1>12. SlugsLost'
  BY <1>1 DEF SlugsLost
<1>13. AtWorkTogether'
  <2>1. /\ MakersAtWork' \subseteq MakersAtWork \union {m} /\ LoginsAtWork' = LoginsAtWork
        /\ m \notin MakersAtWork
    BY <1>1, <1>3 DEF MakersAtWork, LoginsAtWork, Finished
  <2>2. ASSUME NEW p \in MakersAtWork', NEW q \in MakersAtWork', p # q
        PROVE  {p, q} \in together'
    <3>1. CASE p = m
      BY <1>1, <2>1, <2>2, <3>1
    <3>2. CASE q = m
      <4>1. {q, p} \in together' /\ {q, p} = {p, q}
        BY <1>1, <2>1, <2>2, <3>2
      <4> QED
        BY <4>1
    <3>3. CASE p # m /\ q # m
      BY <1>1, <2>1, <2>2, <3>3 DEF AtWorkTogether
    <3> QED
      BY <3>1, <3>2, <3>3
  <2>3. \A l, k \in LoginsAtWork' : l # k /\ login'[l].user = login'[k].user => {l, k} \in together'
    BY <1>1, <2>1 DEF AtWorkTogether
  <2>4. ASSUME NEW l \in Logins, login'[l].at # "none", login'[l].user \in MakersAtWork'
        PROVE  {l, login'[l].user} \in together'
    <3>1. login'[l].user # m
      BY <1>1, <2>4 DEF LoginsByPlace, BeforeUser
    <3> QED
      BY <1>1, <2>1, <2>4, <3>1 DEF AtWorkTogether
  <2> QED
    BY <2>2, <2>3, <2>4 DEF AtWorkTogether
<1>14. ClearedSessions' /\ SessionsOfOneUserOverlapped'
  <2>1. \A p : Owner(p)' = Owner(p)
    BY <1>1 DEF Owner
  <2> QED
    BY <1>1, <2>1 DEF ClearedSessions, SessionsOfOneUserOverlapped
<1>15. EndedIsGone' /\ NoneLate'
  <2>1. \A p : TokenIsKnown(p) => TokenIsKnown(p)'
    BY <1>1, <1>5 DEF TokenIsKnown, Makers
  <2> QED
    BY <1>1, <2>1 DEF EndedIsGone, NoneLate
<1> QED
  BY <1>4, <1>6, <1>7, <1>8, <1>10, <1>11, <1>12, <1>13, <1>14, <1>15

\* The tenant is made: its slug is its own, and those who have found it free overlap.
LEMMA InsertTenantKeeps ==
  ASSUME IInv, NEW m \in Makers, InsertTenant(m)
  PROVE  IInv'
<1> USE DEF IInv
<1>1. /\ UNCHANGED <<users, workspace, members, sessions, expired, login, request>>
      /\ UNCHANGED <<together, slugTaken, ended>>
      /\ maker[m].at = "tenant" /\ MoveMaker(m, "schema")
      /\ tenant' = [tenant EXCEPT ![m] = [status |-> "provisioning", slug |-> maker[m].slug]]
  BY DEF InsertTenant, tokens, history
<1>2. /\ maker' \in [Makers -> MakerRecords]
      /\ \A q \in Makers \ {m} : maker'[q] = maker[q]
      /\ maker'[m].at = "schema" /\ maker[m].slug \in Slugs /\ maker'[m].who = maker[m].who
  BY <1>1, MoveFacts DEF MakerPlaces, TypeOK, MakerRecords
<1>3. /\ \A q \in Makers \ {m} : tenant'[q] = tenant[q]
      /\ tenant'[m].slug = maker[m].slug /\ tenant'[m].status = "provisioning"
      /\ tenant' \in [Makers -> [status : {"none", "provisioning", "active", "failed"},
                                  slug : Slugs \union {0}]]
  BY <1>1, <1>2 DEF TypeOK
<1>4. MakerGoesOn(m, "schema")
  BY <1>1, <1>2 DEF MakerGoesOn, MakerPlaces, BeforeUser, Finished
<1>5. TypeOK'
  BY <1>1, <1>2, <1>3 DEF TypeOK
<1>6. RowsByPlace'
  <2>1. (m \in Signups => m \in users) /\ workspace[m] = 0 /\ m \notin sessions
    BY <1>1 DEF WithSession, RowsByPlace, BeforeWorkspace, BeforeTenant, WithUser
  <2> QED
    BY <1>1, <1>3, <1>4, <2>1, RowsAreKept DEF BeforeUser, BeforeTenant, WithTenant, WithWorkspace,
       WithMember
<1>7. RowsAreOwned'
  BY <1>1, <1>4, OwnersAreKept
<1>8. SlugsTried'
  <2>1. WorkspaceSlugs' = WorkspaceSlugs
    BY <1>1 DEF WorkspaceSlugs
  <2>2. TenantSlugs \ {0} \subseteq TenantSlugs'
    <3>1. tenant[m].slug = 0
      BY <1>1 DEF RowsByPlace, BeforeTenant
    <3> QED
      BY <1>3, <3>1 DEF TenantSlugs
  <2>3. \A i : 0 \notin 1..i
    OBVIOUS
  <2> QED
    BY <1>2, <2>1, <2>2, <2>3 DEF SlugsTried
<1>9. SlugsFree'
  <2>1. ASSUME NEW r \in Makers, NEW q \in Makers, maker'[r].at \in {"user", "tenant"},
               tenant'[q].slug = maker'[r].slug
        PROVE  {r, q} \in together
    <3>1. r # m /\ maker'[r] = maker[r]
      BY <1>2, <2>1
    <3>2. CASE q = m
      <4>1. r \in MakersAtWork /\ m \in MakersAtWork
        BY <1>1, <2>1, <3>1 DEF MakersAtWork, Finished
      <4> QED
        BY <3>1, <3>2, <4>1 DEF AtWorkTogether
    <3>3. CASE q # m
      BY <1>3, <2>1, <3>1, <3>3 DEF SlugsFree
    <3> QED
      BY <3>2, <3>3
  <2>2. ASSUME NEW r \in Makers, NEW q \in Makers, maker'[r].at = "workspace",
               workspace'[q] = maker'[r].slug
        PROVE  {r, q} \in together
    BY <1>1, <1>2, <2>2 DEF SlugsFree
  <2> QED
    BY <1>1, <2>1, <2>2 DEF SlugsFree
<1>10. SlugsLost' /\ OfOthers'
  BY <1>1, <1>4, OthersAreKept DEF SlugsLost
<1> QED
  BY <1>5, <1>6, <1>7, <1>8, <1>9, <1>10, StepIsKept DEF OfItsOwn, OfOthers

\* The provisioning ends, and the loop for the workspace's slug begins with the first.
LEMMA ProvisioningKeeps ==
  ASSUME IInv, NEW m \in Makers, Provisioned(m) \/ ProvisionFails(m)
  PROVE  IInv'
<1> USE DEF IInv
<1>1. /\ UNCHANGED <<users, workspace, members, sessions, expired, login, request>>
      /\ UNCHANGED <<together, slugTaken, ended>>
      /\ maker[m].at = "schema"
  BY DEF Provisioned, ProvisionFails, tokens, history
<1>2. PICK place \in {"workspaceSlug", "undo", "refused"}, status \in {"active", "failed"} :
        /\ tenant' = [tenant EXCEPT ![m].status = status]
        /\ place = "workspaceSlug" => status = "active"
        /\ place = "refused" => m \in Creations
        /\ EndMaker(m, place)
  BY <1>1 DEF Provisioned, ProvisionFails, FailsTo
<1>3. /\ maker' \in [Makers -> MakerRecords]
      /\ \A q \in Makers \ {m} : maker'[q] = maker[q]
      /\ maker'[m].at = place /\ maker'[m].who = maker[m].who
  BY <1>2, MoveFacts DEF MakerPlaces
<1>4. /\ \A q \in Makers : tenant'[q].slug = tenant[q].slug
      /\ \A q \in Makers \ {m} : tenant'[q] = tenant[q]
      /\ tenant'[m].status = status
      /\ tenant' \in [Makers -> [status : {"none", "provisioning", "active", "failed"},
                                  slug : Slugs \union {0}]]
  BY <1>2 DEF TypeOK
<1>5. MakerGoesOn(m, place)
  BY <1>1, <1>2, <1>3 DEF MakerGoesOn, MakerPlaces, BeforeUser, Finished
<1>6. TypeOK'
  BY <1>1, <1>3, <1>4 DEF TypeOK
<1>7. RowsByPlace'
  <2>1. /\ m \in Signups => m \in users
        /\ m \in Creations => m \notin Signups /\ m \notin users
        /\ workspace[m] = 0 /\ m \notin sessions
    BY <1>1, CreationsAreApart DEF WithSession, RowsByPlace, BeforeWorkspace, BeforeTenant, WithUser
  <2> QED
    BY <1>1, <1>2, <1>4, <1>5, <2>1, RowsAreKept DEF BeforeUser, BeforeTenant, BeforeWorkspace,
       WithUser, WithTenant, WithWorkspace, WithMember
<1>8. RowsAreOwned'
  BY <1>1, <1>5, OwnersAreKept
<1>9. TenantSlugs' = TenantSlugs /\ WorkspaceSlugs' = WorkspaceSlugs
  BY <1>1, <1>4 DEF TenantSlugs, WorkspaceSlugs
<1>10. SlugsTried'
  <2>1. maker'[m].at \notin {"none", "slug"}
    BY <1>2, <1>3
  <2>2. maker'[m].at = "workspaceSlug" => 1..maker'[m].slug - 1 \subseteq WorkspaceSlugs
    <3>1. maker'[m].slug = 1
      BY <1>2 DEF EndMaker, TypeOK, MakerRecords
    <3>2. 1..maker'[m].slug - 1 = {}
      BY <3>1
    <3> QED
      BY <3>2
  <2> QED
    BY <1>3, <1>9, <2>1, <2>2 DEF SlugsTried
<1>11. SlugsFree'
  <2>1. maker'[m].at \notin {"user", "tenant", "workspace"}
    BY <1>2, <1>3
  <2> QED
    BY <1>1, <1>3, <1>4, <2>1 DEF SlugsFree
<1>12. SlugsLost' /\ OfOthers'
  BY <1>1, <1>5, OthersAreKept DEF SlugsLost
<1> QED
  BY <1>6, <1>7, <1>8, <1>10, <1>11, <1>12, StepIsKept DEF OfItsOwn, OfOthers

\* The workspace is made: its slug is its own, and those who have found it free overlap.
LEMMA InsertWorkspaceKeeps ==
  ASSUME IInv, NEW m \in Makers, InsertWorkspace(m)
  PROVE  IInv'
<1> USE DEF IInv
<1>1. /\ UNCHANGED <<users, tenant, members, sessions, expired, login, request>>
      /\ UNCHANGED <<together, slugTaken, ended>>
      /\ maker[m].at = "workspace" /\ MoveMaker(m, "member")
      /\ workspace' = [workspace EXCEPT ![m] = maker[m].slug]
  BY DEF InsertWorkspace, tokens, history
<1>2. /\ maker' \in [Makers -> MakerRecords]
      /\ \A q \in Makers \ {m} : maker'[q] = maker[q]
      /\ maker'[m].at = "member" /\ maker[m].slug \in Slugs /\ 0 \notin Slugs
      /\ maker'[m].who = maker[m].who
  BY <1>1, MoveFacts, FirstSlug DEF MakerPlaces, TypeOK, MakerRecords
<1>3. /\ \A q \in Makers \ {m} : workspace'[q] = workspace[q]
      /\ workspace'[m] = maker[m].slug
      /\ workspace' \in [Makers -> Slugs \union {0}]
  BY <1>1, <1>2 DEF TypeOK
<1>4. MakerGoesOn(m, "member")
  BY <1>1, <1>2 DEF MakerGoesOn, MakerPlaces, BeforeUser, Finished
<1>5. TypeOK'
  BY <1>1, <1>2, <1>3 DEF TypeOK
<1>6. RowsByPlace'
  <2>1. (m \in Signups => m \in users) /\ tenant[m].status = "active" /\ m \notin sessions
    BY <1>1 DEF WithSession, RowsByPlace, WithUser, WithTenant
  <2>2. workspace'[m] # 0
    BY <1>2, <1>3
  <2> QED
    BY <1>1, <1>3, <1>4, <2>1, <2>2, RowsAreKept DEF BeforeUser, BeforeTenant, BeforeWorkspace,
       WithUser, WithTenant, WithWorkspace, WithMember
<1>7. RowsAreOwned'
  BY <1>1, <1>4, OwnersAreKept
<1>8. SlugsTried'
  <2>1. TenantSlugs' = TenantSlugs
    BY <1>1 DEF TenantSlugs
  <2>2. WorkspaceSlugs \ {0} \subseteq WorkspaceSlugs'
    <3>1. workspace[m] = 0
      BY <1>1 DEF RowsByPlace, BeforeWorkspace
    <3> QED
      BY <1>3, <3>1 DEF WorkspaceSlugs
  <2>3. \A i : 0 \notin 1..i
    OBVIOUS
  <2> QED
    BY <1>2, <2>1, <2>2, <2>3 DEF SlugsTried
<1>9. SlugsFree'
  <2>1. ASSUME NEW r \in Makers, NEW q \in Makers, maker'[r].at = "workspace",
               workspace'[q] = maker'[r].slug
        PROVE  {r, q} \in together
    <3>1. r # m /\ maker'[r] = maker[r]
      BY <1>2, <2>1
    <3>2. CASE q = m
      <4>1. r \in MakersAtWork /\ m \in MakersAtWork
        BY <1>1, <2>1, <3>1 DEF MakersAtWork, Finished
      <4> QED
        BY <3>1, <3>2, <4>1 DEF AtWorkTogether
    <3>3. CASE q # m
      BY <1>3, <2>1, <3>1, <3>3 DEF SlugsFree
    <3> QED
      BY <3>2, <3>3
  <2>2. ASSUME NEW r \in Makers, NEW q \in Makers, maker'[r].at \in {"user", "tenant"},
               tenant'[q].slug = maker'[r].slug
        PROVE  {r, q} \in together
    BY <1>1, <1>2, <2>2 DEF SlugsFree
  <2> QED
    BY <1>1, <2>1, <2>2 DEF SlugsFree
<1>10. SlugsLost' /\ OfOthers'
  BY <1>1, <1>4, OthersAreKept DEF SlugsLost
<1> QED
  BY <1>5, <1>6, <1>7, <1>8, <1>9, <1>10, StepIsKept DEF OfItsOwn, OfOthers

\* The member is made.
LEMMA InsertMemberKeeps ==
  ASSUME IInv, NEW m \in Makers, InsertMember(m)
  PROVE  IInv'
<1> USE DEF IInv
<1>1. /\ UNCHANGED <<users, tenant, workspace, sessions, expired, login, request>>
      /\ UNCHANGED <<together, slugTaken, ended>>
      /\ maker[m].at = "member" /\ UserOf(m) \in users
      /\ members' = members \union {m}
  BY DEF InsertMember, tokens, history
<1>2. PICK place \in {"session", "done"} : EndMaker(m, place)
  BY DEF InsertMember
<1>3. /\ maker' \in [Makers -> MakerRecords]
      /\ \A q \in Makers \ {m} : maker'[q] = maker[q]
      /\ maker'[m].at = place /\ maker'[m].who = maker[m].who
  BY <1>2, MoveFacts DEF MakerPlaces
<1>4. MakerGoesOn(m, place)
  BY <1>1, <1>2, <1>3 DEF MakerGoesOn, MakerPlaces, BeforeUser, Finished
<1>5. /\ m \in Signups => m \in users
      /\ tenant[m].status = "active" /\ workspace[m] # 0 /\ m \notin sessions
  BY <1>1 DEF RowsByPlace, WithUser, WithTenant, WithWorkspace, WithSession
<1>6. TypeOK'
  BY <1>1, <1>3 DEF TypeOK
<1>7. RowsByPlace'
  BY <1>1, <1>2, <1>4, <1>5, RowsAreKept DEF BeforeUser, BeforeTenant, BeforeWorkspace, WithUser,
     WithTenant, WithWorkspace, WithMember
<1>8. RowsAreOwned'
  <2>1. \A p : Owner(p)' = Owner(p)
    BY <1>1 DEF Owner
  <2>2. \A q \in Makers : UserOf(q)' = UserOf(q)
    BY <1>3 DEF UserOf
  <2>3. members \subseteq Makers
    BY DEF TypeOK
  <2> QED
    BY <1>1, <2>1, <2>2, <2>3 DEF RowsAreOwned
<1>9. SlugsTried' /\ SlugsFree'
  BY <1>1, <1>2, <1>4, SlugsAreKept
<1>10. SlugsLost' /\ OfOthers'
  BY <1>1, <1>4, OthersAreKept DEF SlugsLost
<1> QED
  BY <1>6, <1>7, <1>8, <1>9, <1>10, StepIsKept DEF OfItsOwn, OfOthers

\* The signup's own session: whoever logged in to its user meanwhile overlapped it.
LEMMA SignupSessionKeeps ==
  ASSUME IInv, NEW s \in Signups, SignupSession(s)
  PROVE  IInv'
<1> USE DEF IInv
<1>1. /\ UNCHANGED <<users, tenant, workspace, members, expired, login, request>>
      /\ UNCHANGED <<together, slugTaken, ended>>
      /\ maker[s].at = "session" /\ MoveMaker(s, "stamp")
      /\ sessions' = sessions \union {s}
  BY DEF SignupSession, CreateSession, rows, history
<1>2. /\ maker' \in [Makers -> MakerRecords] /\ s \in Makers
      /\ \A q \in Makers \ {s} : maker'[q] = maker[q]
      /\ maker'[s].at = "stamp" /\ maker'[s].who = maker[s].who
  BY <1>1, MoveFacts DEF MakerPlaces, Makers
<1>3. MakerGoesOn(s, "stamp")
  BY <1>1, <1>2 DEF MakerGoesOn, MakerPlaces, BeforeUser, Finished
<1>4. /\ s \in users /\ tenant[s].status = "active" /\ workspace[s] # 0 /\ s \in members
      /\ s \in MakersAtWork /\ s \notin Logins /\ Owner(s) = s
  BY <1>1, <1>2, AccountsAssumption DEF RowsByPlace, UserOf, WithUser, WithTenant, WithWorkspace, WithMember,
     MakersAtWork, Finished, Owner
<1>5. \A p : Owner(p)' = Owner(p)
  BY <1>1 DEF Owner
<1>6. TypeOK'
  BY <1>1, <1>2 DEF TypeOK, Sources
<1>7. RowsByPlace'
  BY <1>1, <1>3, <1>4, RowsAreKept DEF BeforeUser, BeforeTenant, BeforeWorkspace, WithSession
<1>8. RowsAreOwned'
  <2>1. \A q \in Makers : UserOf(q)' = UserOf(q)
    BY <1>2 DEF UserOf
  <2>2. members \subseteq Makers
    BY DEF TypeOK
  <2> QED
    BY <1>1, <1>4, <1>5, <2>1, <2>2 DEF RowsAreOwned
<1>9. SlugsTried' /\ SlugsFree' /\ SlugsLost'
  BY <1>1, <1>3, SlugsAreKept DEF SlugsLost
<1>10. LoginsByPlace' /\ CreationsByPlace'
  <2>1. \A q \in Makers : /\ maker[q].at \notin BeforeUser => maker'[q].at \notin BeforeUser
                          /\ maker'[q].at # "none" => maker[q].at # "none"
                          /\ maker'[q].who = maker[q].who
    BY <1>1, <1>2, <1>3 DEF MakerGoesOn
  <2>2. \A l \in Logins : l \in sessions' => l \in sessions
    BY <1>1, <1>4
  <2> QED
    BY <1>1, <2>1, <2>2 DEF LoginsByPlace, CreationsByPlace, Makers
<1>11. AtWorkTogether'
  <2>1. MakersAtWork' \subseteq MakersAtWork /\ LoginsAtWork' = LoginsAtWork
    BY <1>1, <1>2, <1>4 DEF MakersAtWork, LoginsAtWork
  <2> QED
    BY <1>1, <2>1 DEF AtWorkTogether
<1>12. ASSUME NEW l \in Logins, login[l].user = s, login[l].at # "none"
       PROVE  {s, l} \in together /\ {l, s} \in together
  <2>1. {l, s} \in together
    BY <1>4, <1>12 DEF AtWorkTogether
  <2>2. {s, l} = {l, s}
    OBVIOUS
  <2> QED
    BY <2>1, <2>2
<1>13. ClearedSessions'
  <2>1. ASSUME NEW l \in Logins, NEW p \in sessions', login[l].at \in {"session", "stamp"},
               p # l, Owner(p) = login[l].user
        PROVE  {p, l} \in together
    <3>1. CASE p \in sessions
      BY <2>1, <3>1 DEF ClearedSessions
    <3>2. CASE p = s
      BY <1>4, <1>12, <2>1, <3>2
    <3> QED
      BY <1>1, <3>1, <3>2
  <2> QED
    BY <1>1, <1>5, <2>1 DEF ClearedSessions
<1>14. SessionsOfOneUserOverlapped'
  <2>1. ASSUME NEW p \in sessions, p # s, Owner(p) = s
        PROVE  {p, s} \in together /\ {s, p} \in together
    <3>1. p \in Logins /\ login[p].user = s
      BY <2>1 DEF TypeOK, Sources, Owner
    <3>2. login[p].at # "none"
      BY <2>1, <3>1 DEF LoginsByPlace
    <3> QED
      BY <1>12, <3>1, <3>2
  <2>2. ASSUME NEW p \in sessions', NEW q \in sessions', p # q, Owner(p) = Owner(q)
        PROVE  {p, q} \in together
    <3>1. CASE p \in sessions /\ q \in sessions
      BY <2>2, <3>1 DEF SessionsOfOneUserOverlapped
    <3>2. CASE p = s /\ q \in sessions
      BY <1>4, <2>1, <2>2, <3>2
    <3>3. CASE q = s /\ p \in sessions
      BY <1>4, <2>1, <2>2, <3>3
    <3> QED
      BY <1>1, <2>2, <3>1, <3>2, <3>3
  <2> QED
    BY <1>1, <1>5, <2>2 DEF SessionsOfOneUserOverlapped
<1>15. EndedIsGone'
  <2>1. ASSUME NEW p \in ended
        PROVE  TokenIsKnown(p)' /\ p # s /\ p \notin sessions
    <3>1. TokenIsKnown(p) /\ p \notin sessions /\ Signups \subseteq Makers
      BY DEF EndedIsGone, Makers
    <3>2. p # s
      BY <1>1, <3>1 DEF TokenIsKnown
    <3> QED
      BY <1>1, <1>2, <3>1, <3>2 DEF TokenIsKnown
  <2> QED
    BY <1>1, <2>1 DEF EndedIsGone
<1>16. NoneLate'
  BY <1>1 DEF NoneLate
<1> QED
  BY <1>6, <1>7, <1>8, <1>9, <1>10, <1>11, <1>13, <1>14, <1>15, <1>16

\* The user of a signup that failed goes, with everybody's sessions as it.
LEMMA RemoveFailedUserKeeps ==
  ASSUME IInv, NEW s \in Signups, RemoveFailedUser(s)
  PROVE  IInv'
<1> USE DEF IInv
<1>1. /\ UNCHANGED <<tenant, workspace, login, request, together, slugTaken, ended>>
      /\ maker[s].at = "undo" /\ EndMaker(s, "failed")
      /\ users' = users \ {s} /\ members' = {m \in members : UserOf(m) \notin {s}}
      /\ sessions' = sessions \ {p \in sessions : Owner(p) \in {s}}
      /\ expired' = expired \ {p \in sessions : Owner(p) \in {s}}
  BY DEF RemoveFailedUser, RemoveUsers, DeleteSessions, history
<1>2. /\ maker' \in [Makers -> MakerRecords] /\ s \in Makers
      /\ \A q \in Makers \ {s} : maker'[q] = maker[q]
      /\ maker'[s].at = "failed" /\ maker'[s].who = maker[s].who
  BY <1>1, MoveFacts DEF MakerPlaces, Makers
<1>3. MakerGoesOn(s, "failed")
  BY <1>1, <1>2 DEF MakerGoesOn, MakerPlaces, BeforeUser, Finished
<1>4. TypeOK'
  BY <1>1, <1>2 DEF TypeOK
<1>5. RowsByPlace'
  <2>1. s \notin users' /\ s \notin sessions'
    BY <1>1 DEF Owner
  <2>2. ASSUME NEW q \in Makers \ {s}, maker[q].at \in WithMember, UserOf(q) \in users'
        PROVE  q \in members'
    BY <1>1, <2>2 DEF RowsByPlace
  <2> QED
    BY <1>1, <1>3, <2>1, <2>2, RowsAreKept DEF BeforeTenant, BeforeWorkspace, WithUser, WithTenant,
       WithWorkspace, WithMember
<1>6. RowsAreOwned'
  <2>1. \A p : Owner(p)' = Owner(p)
    BY <1>1 DEF Owner
  <2>2. \A q \in Makers : UserOf(q)' = UserOf(q)
    BY <1>2 DEF UserOf
  <2>3. members \subseteq Makers
    BY DEF TypeOK
  <2> QED
    BY <1>1, <2>1, <2>2, <2>3 DEF RowsAreOwned
<1>7. SlugsTried' /\ SlugsFree'
  BY <1>1, <1>3, SlugsAreKept
<1>8. SlugsLost' /\ OfOthers'
  BY <1>1, <1>3, OthersAreKept DEF SlugsLost
<1> QED
  BY <1>4, <1>5, <1>6, <1>7, <1>8, StepIsKept DEF OfItsOwn, OfOthers

-----------------------------------------------------------------------------
(* Logins.                                                                 *)

\* Whoever is no maker leaves what makers have made and found.
LEMMA MakersAreLeft ==
  ASSUME IInv, UNCHANGED <<users, tenant, workspace, members, maker, slugTaken>>,
         \A m \in Makers : m \in sessions' => m \in sessions,
         together \subseteq together'
  PROVE  RowsByPlace' /\ CreationsByPlace' /\ SlugsTried' /\ SlugsFree' /\ SlugsLost'
<1> USE DEF IInv
<1>1. TenantSlugs' = TenantSlugs /\ WorkspaceSlugs' = WorkspaceSlugs
  BY DEF TenantSlugs, WorkspaceSlugs
<1>2. RowsByPlace' /\ CreationsByPlace'
  <2>1. \A m \in Makers : UserOf(m)' = UserOf(m)
    BY DEF UserOf
  <2> QED
    BY <2>1 DEF RowsByPlace, CreationsByPlace
<1>3. SlugsTried'
  BY <1>1 DEF SlugsTried
<1>4. SlugsFree'
  BY DEF SlugsFree
<1>5. SlugsLost'
  BY DEF SlugsLost
<1> QED
  BY <1>2, <1>3, <1>4, <1>5

\* Where a login's step leaves it.
LEMMA LoginMoves ==
  ASSUME TypeOK, NEW l \in Logins, NEW place \in LoginPlaces, MoveLogin(l, place)
  PROVE  /\ login' \in [Logins -> [at : LoginPlaces, user : Signups \union {Nobody}]]
         /\ \A k \in Logins \ {l} : login'[k] = login[k]
         /\ login'[l].at = place /\ login'[l].user = login[l].user
         /\ \A p : Owner(p)' = Owner(p)
<1>1. login[l] \in [at : LoginPlaces, user : Signups \union {Nobody}]
  BY DEF TypeOK
<1>2. /\ login' \in [Logins -> [at : LoginPlaces, user : Signups \union {Nobody}]]
      /\ \A k \in Logins \ {l} : login'[k] = login[k]
      /\ login'[l].at = place /\ login'[l].user = login[l].user
  BY <1>1 DEF TypeOK, MoveLogin
<1>3. ASSUME NEW p
      PROVE  Owner(p)' = Owner(p)
  <2>1. login'[p].user = login[p].user
    BY <1>1 DEF MoveLogin, TypeOK
  <2> QED
    BY <2>1 DEF Owner
<1> QED
  BY <1>2, <1>3

\* A login begins: what is at work for its user is at work together with it.
LEMMA FindUserKeeps ==
  ASSUME IInv, NEW l \in Logins, NEW u \in Signups, FindUser(l, u)
  PROVE  IInv'
<1> USE DEF IInv
<1>1. /\ UNCHANGED <<users, tenant, workspace, members, sessions, expired, maker, request>>
      /\ UNCHANGED <<slugTaken, ended>>
      /\ login[l].at = "none" /\ u \in users
      /\ login' = [login EXCEPT ![l] = [at |-> "clear", user |-> u]]
      /\ together' = together \union
           {{l, q} : q \in {q \in LoginsAtWork : login[q].user = u} \union (MakersAtWork \intersect {u})}
  BY DEF FindUser, LoginBegins, rows, tokens
<1>2. /\ login' \in [Logins -> [at : LoginPlaces, user : Signups \union {Nobody}]]
      /\ \A k \in Logins \ {l} : login'[k] = login[k]
      /\ login'[l] = [at |-> "clear", user |-> u]
  BY <1>1 DEF TypeOK, LoginPlaces
<1>3. l \notin sessions /\ l \notin Signups /\ l \notin LoginsAtWork
  BY <1>1, AccountsAssumption DEF LoginsByPlace, LoginsAtWork, Finished
<1>4. \A p \in sessions : Owner(p)' = Owner(p)
  <2>1. \A p \in sessions : p \in Signups \/ p \in Logins \ {l}
    BY <1>3 DEF TypeOK, Sources
  <2> QED
    BY <1>2, <2>1 DEF Owner
<1>5. TypeOK'
  <2>1. together' \subseteq SUBSET (Makers \union Logins)
    BY <1>1 DEF TypeOK, LoginsAtWork, MakersAtWork
  <2> QED
    BY <1>1, <1>2, <2>1 DEF TypeOK
<1>6. RowsByPlace' /\ CreationsByPlace' /\ SlugsTried' /\ SlugsFree' /\ SlugsLost'
  BY <1>1, MakersAreLeft
<1>7. LoginsByPlace'
  <2>1. maker[u].at \notin BeforeUser
    BY <1>1 DEF RowsByPlace, Makers
  <2> QED
    BY <1>1, <1>2, <1>3, <2>1 DEF LoginsByPlace
<1>8. RowsAreOwned'
  <2>1. \A m \in members : UserOf(m)' = UserOf(m)
    BY <1>1 DEF UserOf
  <2> QED
    BY <1>1, <1>4, <2>1 DEF RowsAreOwned
<1>9. AtWorkTogether'
  <2>1. /\ LoginsAtWork' = LoginsAtWork \union {l} /\ MakersAtWork' = MakersAtWork
        /\ LoginsAtWork \subseteq Logins
    BY <1>1, <1>2 DEF LoginsAtWork, MakersAtWork, Finished
  <2>2. ASSUME NEW k \in LoginsAtWork, login[k].user = u
        PROVE  {l, k} \in together' /\ {k, l} \in together'
    <3>1. {l, k} \in together'
      BY <1>1, <2>2
    <3>2. {k, l} = {l, k}
      OBVIOUS
    <3> QED
      BY <3>1, <3>2
  <2>3. ASSUME NEW j \in LoginsAtWork', NEW k \in LoginsAtWork', j # k, login'[j].user = login'[k].user
        PROVE  {j, k} \in together'
    <3>1. CASE j = l
      BY <1>2, <1>3, <2>1, <2>2, <2>3, <3>1
    <3>2. CASE k = l
      BY <1>2, <1>3, <2>1, <2>2, <2>3, <3>2
    <3>3. CASE j # l /\ k # l
      BY <1>1, <1>2, <2>1, <2>3, <3>3 DEF AtWorkTogether
    <3> QED
      BY <3>1, <3>2, <3>3
  <2>4. ASSUME NEW k \in Logins, login'[k].at # "none", login'[k].user \in MakersAtWork
        PROVE  {k, login'[k].user} \in together'
    <3>1. CASE k = l
      BY <1>1, <1>2, <2>4, <3>1
    <3>2. CASE k # l
      BY <1>1, <1>2, <2>4, <3>2 DEF AtWorkTogether
    <3> QED
      BY <3>1, <3>2
  <2>5. \A m, q \in MakersAtWork : m # q => {m, q} \in together'
    BY <1>1 DEF AtWorkTogether
  <2> QED
    BY <2>1, <2>3, <2>4, <2>5 DEF AtWorkTogether
<1>10. ClearedSessions'
  <2>1. ASSUME NEW k \in Logins, NEW p \in sessions, login'[k].at \in {"session", "stamp"},
               p # k, Owner(p) = login'[k].user
        PROVE  {p, k} \in together
    <3>1. k # l /\ login'[k] = login[k]
      BY <1>2, <2>1
    <3> QED
      BY <2>1, <3>1 DEF ClearedSessions
  <2> QED
    BY <1>1, <1>4, <2>1 DEF ClearedSessions
<1>11. SessionsOfOneUserOverlapped'
  BY <1>1, <1>4 DEF SessionsOfOneUserOverlapped
<1>12. EndedIsGone'
  <2>1. ASSUME NEW p \in ended
        PROVE  TokenIsKnown(p)'
    <3>1. TokenIsKnown(p) /\ p \in Sources
      BY DEF EndedIsGone, TypeOK
    <3>2. p # l
      BY <1>1, <1>3, <3>1 DEF TokenIsKnown
    <3> QED
      BY <1>1, <1>2, <3>1, <3>2 DEF TokenIsKnown, Sources
  <2> QED
    BY <1>1, <2>1 DEF EndedIsGone
<1>13. NoneLate'
  BY <1>1 DEF NoneLate
<1> QED
  BY <1>5, <1>6, <1>7, <1>8, <1>9, <1>10, <1>11, <1>12, <1>13

\* The other steps of a login: it clears, makes and answers with a session, or fails.
LEMMA LoginGoesOnKeeps ==
  ASSUME IInv, NEW l \in Logins,
         ClearSessions(l) \/ LoginSession(l) \/ LoginAnswers(l) \/ LoginFails(l)
  PROVE  IInv'
<1> USE DEF IInv
<1> DEFINE u == login[l].user
<1>1. UNCHANGED <<users, tenant, workspace, members, maker, request, together, slugTaken>>
  BY DEF ClearSessions, LoginSession, LoginAnswers, LoginFails, rows, history
<1>2. PICK place \in {"session", "stamp", "done", "refused"} :
        /\ MoveLogin(l, place)
        /\ place = "session" => login[l].at = "clear" /\ ClearSessions(l)
        /\ place = "stamp" => login[l].at = "session" /\ LoginSession(l)
        /\ place = "done" => login[l].at = "stamp" /\ LoginAnswers(l)
        /\ place = "refused" => login[l].at \in {"clear", "session", "stamp"} /\ LoginFails(l)
  BY DEF ClearSessions, LoginSession, LoginAnswers, LoginFails
<1>3. /\ login' \in [Logins -> [at : LoginPlaces, user : Signups \union {Nobody}]]
      /\ \A k \in Logins \ {l} : login'[k] = login[k]
      /\ login'[l].at = place /\ login'[l].user = u
      /\ \A p : Owner(p)' = Owner(p)
  BY <1>2, LoginMoves DEF LoginPlaces
<1>4. /\ l \notin Signups /\ u \in Signups /\ l \in LoginsAtWork /\ Owner(l) = u
      /\ l \in Sources
  BY <1>2, AccountsAssumption DEF LoginsByPlace, LoginsAtWork, Finished, Owner, Sources
<1>5. /\ place # "stamp" => sessions' \subseteq sessions
      /\ place = "stamp" => sessions' = sessions \union {l} /\ u \in users
      /\ place = "session" => \A p \in sessions' : Owner(p) # u
      /\ expired' \subseteq sessions'
  <2>1. CASE place = "session"
    BY <1>2, <2>1 DEF ClearSessions, DeleteAllUserSessions, DeleteSessions, SessionsOf, TypeOK
  <2>2. CASE place = "stamp"
    BY <1>2, <1>4, <2>2 DEF LoginSession, CreateSession, TypeOK
  <2>3. CASE place \in {"done", "refused"}
    BY <1>2, <2>3 DEF LoginAnswers, LoginFails, tokens, TypeOK
  <2> QED
    BY <2>1, <2>2, <2>3
<1>6. TypeOK'
  <2>1. ended' \subseteq Sources
    BY DEF ClearSessions, LoginSession, LoginAnswers, LoginFails, history, TypeOK
  <2>2. sessions' \subseteq Sources
    BY <1>4, <1>5 DEF TypeOK
  <2> QED
    BY <1>1, <1>3, <1>5, <2>1, <2>2 DEF TypeOK
<1>7. RowsByPlace' /\ CreationsByPlace' /\ SlugsTried' /\ SlugsFree' /\ SlugsLost'
  <2>1. \A m \in Makers : m \in sessions' => m \in sessions
    BY <1>4, <1>5, AccountsAssumption DEF Makers
  <2> QED
    BY <1>1, <2>1, MakersAreLeft
<1>8. LoginsByPlace'
  <2>1. l \in sessions' => place \in {"stamp", "done", "refused"}
    BY <1>2, <1>5 DEF LoginsByPlace
  <2>2. maker[u].at \notin BeforeUser
    BY <1>2 DEF LoginsByPlace
  <2> QED
    BY <1>1, <1>3, <1>4, <1>5, <2>1, <2>2 DEF LoginsByPlace
<1>9. RowsAreOwned'
  <2>1. \A m \in members : UserOf(m)' = UserOf(m)
    BY <1>1 DEF UserOf
  <2> QED
    BY <1>1, <1>3, <1>4, <1>5, <2>1 DEF RowsAreOwned
<1>10. AtWorkTogether'
  <2>1. /\ MakersAtWork' = MakersAtWork
        /\ \A k \in LoginsAtWork' : k \in LoginsAtWork /\ login'[k].user = login[k].user
    BY <1>1, <1>3, <1>4 DEF MakersAtWork, LoginsAtWork
  <2>2. \A k \in Logins : login'[k].at # "none" => /\ login[k].at # "none"
                                                   /\ login'[k].user = login[k].user
    BY <1>2, <1>3
  <2> QED
    BY <1>1, <2>1, <2>2 DEF AtWorkTogether
<1>11. ClearedSessions'
  <2>1. ASSUME NEW k \in Logins, NEW p \in sessions', login'[k].at \in {"session", "stamp"},
               p # k, Owner(p) = login'[k].user
        PROVE  {p, k} \in together
    <3>1. CASE k = l /\ place = "session"
      BY <1>3, <1>5, <2>1, <3>1
    <3>2. CASE k = l /\ place = "stamp"
      <4>1. p \in sessions /\ login[l].at = "session"
        BY <1>2, <1>5, <2>1, <3>2
      <4> QED
        BY <1>3, <2>1, <3>2, <4>1 DEF ClearedSessions
    <3>3. CASE k # l /\ p \in sessions
      BY <1>3, <2>1, <3>3 DEF ClearedSessions
    <3>4. CASE k # l /\ p \notin sessions
      <4>1. p = l /\ k \in LoginsAtWork /\ login[k].user = u
        BY <1>3, <1>4, <1>5, <2>1, <3>4 DEF LoginsAtWork, Finished
      <4> QED
        BY <1>4, <3>4, <4>1 DEF AtWorkTogether
    <3> QED
      BY <1>3, <2>1, <3>1, <3>2, <3>3, <3>4
  <2> QED
    BY <1>1, <1>3, <2>1 DEF ClearedSessions
<1>12. SessionsOfOneUserOverlapped'
  <2>1. ASSUME NEW p \in sessions, p # l, Owner(p) = u, login[l].at = "session"
        PROVE  {p, l} \in together /\ {l, p} \in together
    <3>1. {p, l} \in together
      BY <2>1 DEF ClearedSessions
    <3>2. {l, p} = {p, l}
      OBVIOUS
    <3> QED
      BY <3>1, <3>2
  <2>2. ASSUME NEW p \in sessions', NEW q \in sessions', p # q, Owner(p) = Owner(q)
        PROVE  {p, q} \in together
    <3>1. CASE p \in sessions /\ q \in sessions
      BY <2>2, <3>1 DEF SessionsOfOneUserOverlapped
    <3>2. CASE p \notin sessions
      BY <1>2, <1>4, <1>5, <2>1, <2>2, <3>2
    <3>3. CASE q \notin sessions
      BY <1>2, <1>4, <1>5, <2>1, <2>2, <3>3
    <3> QED
      BY <3>1, <3>2, <3>3
  <2> QED
    BY <1>1, <1>3, <2>2 DEF SessionsOfOneUserOverlapped
<1>13. EndedIsGone'
  <2>1. \A p \in Sources : TokenIsKnown(p) => TokenIsKnown(p)' /\ p # l
    BY <1>1, <1>2, <1>3, <1>4 DEF TokenIsKnown, Sources
  <2>2. ASSUME NEW p \in ended
        PROVE  TokenIsKnown(p)' /\ p \notin sessions'
    <3>1. TokenIsKnown(p) /\ p \notin sessions /\ p \in Sources
      BY DEF EndedIsGone, TypeOK
    <3> QED
      BY <1>5, <2>1, <3>1
  <2>3. CASE ended' = ended
    BY <2>2, <2>3 DEF EndedIsGone
  <2>4. CASE LoginAnswers(l)
    <3>1. /\ login[l].at = "stamp" /\ sessions' = sessions
          /\ ended' = ended \union
               {p \in Sources : TokenIsKnown(p) /\ Owner(p) = u /\ {p, l} \notin together}
      BY <2>4 DEF LoginAnswers, tokens
    <3>2. ASSUME NEW p \in Sources, TokenIsKnown(p), Owner(p) = u, {p, l} \notin together
          PROVE  TokenIsKnown(p)' /\ p \notin sessions
      BY <2>1, <3>1, <3>2 DEF ClearedSessions
    <3> QED
      BY <2>2, <3>1, <3>2 DEF EndedIsGone
  <2> QED
    BY <2>3, <2>4 DEF ClearSessions, LoginSession, LoginFails, history
<1>14. NoneLate'
  BY <1>1 DEF NoneLate
<1> QED
  BY <1>6, <1>7, <1>8, <1>9, <1>10, <1>11, <1>12, <1>13, <1>14

-----------------------------------------------------------------------------
(* Requests, and the theorems.                                             *)

\* Whoever only takes sessions away leaves all that is said of the rest.
LEMMA SessionsGoKeeps ==
  ASSUME IInv, UNCHANGED <<users, tenant, workspace, members, maker, login, together, slugTaken>>,
         sessions' \subseteq sessions
  PROVE  /\ RowsByPlace' /\ CreationsByPlace' /\ LoginsByPlace' /\ RowsAreOwned'
         /\ SlugsTried' /\ SlugsFree' /\ SlugsLost'
         /\ AtWorkTogether' /\ ClearedSessions' /\ SessionsOfOneUserOverlapped'
         /\ \A p \in ended : TokenIsKnown(p)' /\ p \notin sessions'
<1> USE DEF IInv
<1>1. RowsByPlace' /\ CreationsByPlace' /\ SlugsTried' /\ SlugsFree' /\ SlugsLost'
  BY MakersAreLeft
<1>2. \A p : Owner(p)' = Owner(p) /\ (TokenIsKnown(p)' <=> TokenIsKnown(p))
  BY DEF Owner, TokenIsKnown
<1>3. LoginsByPlace'
  BY DEF LoginsByPlace
<1>4. RowsAreOwned'
  <2>1. \A m \in members : UserOf(m)' = UserOf(m)
    BY DEF UserOf
  <2> QED
    BY <1>2, <2>1 DEF RowsAreOwned
<1>5. AtWorkTogether'
  BY DEF AtWorkTogether, MakersAtWork, LoginsAtWork
<1>6. ClearedSessions'
  BY <1>2 DEF ClearedSessions
<1>7. SessionsOfOneUserOverlapped'
  BY <1>2 DEF SessionsOfOneUserOverlapped
<1>8. \A p \in ended : TokenIsKnown(p)' /\ p \notin sessions'
  BY <1>2 DEF EndedIsGone
<1> QED
  BY <1>1, <1>3, <1>4, <1>5, <1>6, <1>7, <1>8

\* A request is let through on a session that is there and has not expired, and so
\* was not ended before it began.
LEMMA RequestKeeps ==
  ASSUME IInv, NEW r \in Requests, RequestStep(r)
  PROVE  IInv'
<1> USE DEF IInv
<1>1. /\ UNCHANGED <<users, tenant, workspace, members, maker, login, together, slugTaken, ended>>
      /\ sessions' \subseteq sessions /\ expired' \subseteq sessions'
  BY DEF RequestStep, CheckSession, CheckSessionAgain, CheckUser, Prune, DeleteSessions,
         rows, tokens, history, TypeOK
<1>2. request[r] \in [at : RequestPlaces, token : Sources \union {Nobody}, late : BOOLEAN]
  BY DEF TypeOK
<1>3. PICK q \in [at : RequestPlaces, token : Sources \union {Nobody}, late : BOOLEAN] :
        request' = [request EXCEPT ![r] = q] /\ ~q.late
  <2>1. ASSUME NEW p \in Sources, CheckSession(r, p)
        PROVE  \E q \in [at : RequestPlaces, token : Sources \union {Nobody}, late : BOOLEAN] :
                 request' = [request EXCEPT ![r] = q] /\ ~q.late
    <3>0. NoRequest \in [at : RequestPlaces, token : Sources \union {Nobody}, late : BOOLEAN] /\ ~NoRequest.late
      BY DEF RequestPlaces, NoRequest
    <3>1. Valid(p) => p \notin ended \union expired
      BY DEF Valid, EndedIsGone
    <3>2. CASE Valid(p)
      <4> DEFINE q == [at |-> "again", token |-> p, late |-> p \in ended \union expired]
      <4>1. request' = [request EXCEPT ![r] = q]
        BY <2>1, <3>2 DEF CheckSession
      <4>2. q \in [at : RequestPlaces, token : Sources \union {Nobody}, late : BOOLEAN] /\ ~q.late
        <5>1. (p \in ended \union expired) = FALSE
          BY <3>1, <3>2
        <5>2. q = [at |-> "again", token |-> p, late |-> FALSE]
          BY <5>1
        <5> QED
          BY <5>2 DEF RequestPlaces
      <4> QED
        BY <4>1, <4>2
    <3>3. CASE ~Valid(p)
      <4>1. request' = [request EXCEPT ![r] = NoRequest]
        BY <2>1, <3>3 DEF CheckSession
      <4> QED
        BY <3>0, <4>1
    <3> QED
      BY <3>2, <3>3
  <2>2. CASE CheckSessionAgain(r)
    <3> DEFINE q == IF Valid(request[r].token) THEN [request[r] EXCEPT !.at = "user"]
                    ELSE NoRequest
    <3>1. request' = [request EXCEPT ![r] = q]
      BY <1>2, <2>2 DEF CheckSessionAgain, TypeOK
    <3>2. q \in [at : RequestPlaces, token : Sources \union {Nobody}, late : BOOLEAN] /\ ~q.late
      BY <1>2 DEF RequestPlaces, NoneLate, NoRequest
    <3> QED
      BY <3>1, <3>2
  <2>3. CASE CheckUser(r)
    <3> DEFINE q == IF Owner(request[r].token) \in users
                      THEN [request[r] EXCEPT !.at = "admitted", !.token = Nobody]
                      ELSE NoRequest
    <3>1. request' = [request EXCEPT ![r] = q]
      BY <1>2, <2>3 DEF CheckUser, TypeOK
    <3>2. q \in [at : RequestPlaces, token : Sources \union {Nobody}, late : BOOLEAN] /\ ~q.late
      BY <1>2 DEF RequestPlaces, NoneLate, NoRequest
    <3> QED
      BY <3>1, <3>2
  <2> QED
    BY <2>1, <2>2, <2>3 DEF RequestStep
<1>4. TypeOK'
  BY <1>1, <1>3 DEF TypeOK
<1>5. NoneLate'
  BY <1>3 DEF NoneLate, TypeOK
<1>6. EndedIsGone'
  BY <1>1, SessionsGoKeeps DEF EndedIsGone
<1> QED
  BY <1>1, <1>4, <1>5, <1>6, SessionsGoKeeps

\* A session is logged out, or expires.
LEMMA LogoutOrExpiryKeeps ==
  ASSUME IInv, NEW p \in Sources, Logout(p) \/ Expire(p)
  PROVE  IInv'
<1> USE DEF IInv
<1>1. /\ UNCHANGED <<users, tenant, workspace, members, maker, login, request, together, slugTaken>>
      /\ sessions' \subseteq sessions /\ expired' \subseteq sessions'
  BY DEF Logout, Expire, DeleteSessions, rows, history, TypeOK
<1>2. ended' \subseteq Sources
  BY DEF Logout, Expire, history, TypeOK
<1>3. TypeOK'
  BY <1>1, <1>2 DEF TypeOK
<1>4. EndedIsGone'
  <2>1. CASE Logout(p)
    <3>1. TokenIsKnown(p)' /\ p \notin sessions' /\ ended' = ended \union {p}
      BY <1>1, <2>1 DEF Logout, DeleteSessions, TokenIsKnown
    <3> QED
      BY <1>1, <3>1, SessionsGoKeeps DEF EndedIsGone
  <2>2. CASE Expire(p)
    <3>1. ended' = ended
      BY <2>2 DEF Expire, history
    <3> QED
      BY <1>1, <3>1, SessionsGoKeeps DEF EndedIsGone
  <2> QED
    BY <2>1, <2>2
<1>5. NoneLate'
  BY <1>1 DEF NoneLate
<1> QED
  BY <1>1, <1>3, <1>4, <1>5, SessionsGoKeeps

LEMMA InitIInv == Init => IInv
<1> SUFFICES ASSUME Init
             PROVE  IInv
  OBVIOUS
<1>1. PICK email \in [Signups -> Emails] :
        maker = [m \in Makers |-> [at |-> "none", slug |-> 1,
                                   who |-> IF m \in Signups THEN email[m] ELSE Nobody]]
  BY DEF Init
<1>2. \A m \in Makers : /\ maker[m].at = "none" /\ maker[m].slug = 1 /\ 1 \in Slugs
                        /\ maker[m] \in MakerRecords
  BY <1>1, FirstSlug DEF MakerRecords, MakerPlaces
<1>3. TypeOK
  <2>1. maker \in [Makers -> MakerRecords]
    BY <1>1, <1>2
  <2>2. tenant \in [Makers -> [status : {"none", "provisioning", "active", "failed"},
                                slug : Slugs \union {0}]]
    BY DEF Init
  <2>3. login \in [Logins -> [at : LoginPlaces, user : Signups \union {Nobody}]]
    BY DEF Init, LoginPlaces
  <2>4. request \in [Requests -> [at : RequestPlaces, token : Sources \union {Nobody},
                                  late : BOOLEAN]]
    BY DEF Init, RequestPlaces
  <2> QED
    BY <2>1, <2>2, <2>3, <2>4 DEF Init, TypeOK
<1>4. RowsByPlace
  BY <1>2 DEF Init, RowsByPlace, WithUser, WithTenant, WithWorkspace, WithMember
<1>5. LoginsByPlace /\ CreationsByPlace /\ RowsAreOwned /\ ClearedSessions
  BY <1>2 DEF Makers, Init, CreationsByPlace, LoginsByPlace, RowsAreOwned, ClearedSessions
<1>6. SlugsTried /\ SlugsFree /\ SlugsLost
  BY <1>2 DEF Init, SlugsTried, SlugsFree, SlugsLost
<1>7. AtWorkTogether
  BY <1>2 DEF Init, AtWorkTogether, MakersAtWork, LoginsAtWork, Finished
<1>8. SessionsOfOneUserOverlapped /\ EndedIsGone /\ NoneLate
  BY DEF Init, SessionsOfOneUserOverlapped, EndedIsGone, NoneLate
<1> QED
  BY <1>3, <1>4, <1>5, <1>6, <1>7, <1>8 DEF IInv

\* One step per action of a signup or a creation.
LEMMA MakerStepKeeps ==
  ASSUME IInv, NEW m \in Makers, MakerStep(m)
  PROVE  IInv'
  BY MakerEndsKeeps, TrySlugKeeps, InsertTenantKeeps, ProvisioningKeeps, InsertWorkspaceKeeps,
     InsertMemberKeeps DEF MakerStep

LEMMA SignupStepKeeps ==
  ASSUME IInv, NEW s \in Signups, SignupStep(s)
  PROVE  IInv'
<1>1. s \in Makers
  BY DEF Makers
<1> QED
  BY <1>1, MakerBeginsKeeps, InsertUserKeeps, SignupSessionKeeps, MakerEndsKeeps,
     RemoveFailedUserKeeps DEF SignupStep

\* The invariant the three theorems below rest on: which rows and sessions there are by
\* where every signup, creation and login is, what a loop for a slug has found, and who overlapped.
THEOREM Inductive == Spec => []IInv
<1>1. IInv /\ [Next]_vars => IInv'
  <2> SUFFICES ASSUME IInv, [Next]_vars
               PROVE  IInv'
    OBVIOUS
  <2>0. ASSUME NEW m \in Makers, MakerStep(m)
        PROVE  IInv'
    BY <2>0, MakerStepKeeps
  <2>1. ASSUME NEW s \in Signups, SignupStep(s)
        PROVE  IInv'
    BY <2>1, SignupStepKeeps
  <2>6. ASSUME NEW c \in Creations, NEW u \in Signups, AskForTenant(c, u)
        PROVE  IInv'
    BY <2>6, MakerBeginsKeeps DEF Makers
  <2>2. ASSUME NEW l \in Logins, LoginStep(l)
        PROVE  IInv'
    BY <2>2, FindUserKeeps, LoginGoesOnKeeps DEF LoginStep
  <2>3. ASSUME NEW r \in Requests, RequestStep(r)
        PROVE  IInv'
    BY <2>3, RequestKeeps
  <2>4. ASSUME NEW p \in Sources, Logout(p) \/ Expire(p)
        PROVE  IInv'
    BY <2>4, LogoutOrExpiryKeeps
  <2>5. CASE UNCHANGED vars
    <3>1. /\ UNCHANGED <<users, tenant, workspace, members, maker, login, together, slugTaken>>
          /\ UNCHANGED <<sessions, expired, request, ended>>
      BY <2>5 DEF vars, rows, tokens, history
    <3>2. TypeOK' /\ NoneLate'
      BY <3>1 DEF IInv, TypeOK, NoneLate
    <3> QED
      BY <3>1, <3>2, SessionsGoKeeps DEF IInv, EndedIsGone
  <2> QED
    BY <2>0, <2>1, <2>2, <2>3, <2>4, <2>5, <2>6 DEF Next
<1> QED
  BY <1>1, InitIInv, PTL DEF Spec

\* A signup that was answered with a failure leaves no user, member or session, unless the
\* cleanup of it failed too; one that was answered with an account has all of its rows, and
\* so has a POST /api/tenants of a user who is there; and a slug is lost only to another maker
\* at work at the same time (auth-service.ts, signup; server.ts).
THEOREM SignupsAreAllOrNothing == Spec => []SignupIsAllOrNothing
<1>1. IInv => SignupIsAllOrNothing
  <2> SUFFICES ASSUME IInv
               PROVE  SignupIsAllOrNothing
    OBVIOUS
  <2>1. ASSUME NEW s \in Signups, maker[s].at = "failed"
        PROVE  /\ s \notin users /\ \A p \in sessions : Owner(p) # s
               /\ \A m \in members : UserOf(m) # s
    <3>1. s \notin users
      BY <2>1 DEF IInv, RowsByPlace, Makers
    <3> QED
      BY <3>1 DEF IInv, RowsAreOwned
  <2>2. ASSUME NEW m \in Makers, maker[m].at = "done"
        PROVE  /\ workspace[m] # 0 /\ tenant[m].status = "active"
               /\ (m \in Signups \/ UserOf(m) \in users) => (UserOf(m) \in users /\ m \in members)
    <3>1. m \in Signups => m \in users /\ UserOf(m) = m
      BY <2>2 DEF IInv, RowsByPlace, UserOf, WithUser, WithTenant, WithWorkspace, WithMember
    <3> QED
      BY <2>2, <3>1 DEF IInv, RowsByPlace, WithTenant, WithWorkspace, WithMember
  <2> QED
    BY <2>1, <2>2 DEF IInv, SlugsLost, SignupIsAllOrNothing
<1> QED
  BY <1>1, Inductive, PTL

\* A user has two sessions only if the login or signup that made one overlapped the other
\* (login deletes the user's sessions before it makes its own).
THEOREM SessionsOverlapped == Spec => []SessionsOfOneUserOverlapped
<1>1. IInv => SessionsOfOneUserOverlapped
  BY DEF IInv
<1> QED
  BY <1>1, Inductive, PTL

\* No request is let through on a session that had expired, was logged out or was cleared
\* by a later login when the request began (getSession, requireAuth).
THEOREM AdmissionsAreInTime == Spec => []NoAdmissionTooLate
<1>1. IInv => NoAdmissionTooLate
  BY DEF IInv, NoneLate, NoAdmissionTooLate
<1> QED
  BY <1>1, Inductive, PTL

-----------------------------------------------------------------------------
(* The tab and its shell.                                                  *)

Pieces == {"metrics", "queries", "results", "plan", "tasks", "snapshot", "report", "google", "billing"}
ScanSteps == {"start", "audit", "audited", "plan", "planned", "over"}
Tenants == Workspaces \union {None}
Job == [of : Workspaces, kind : {"results", "report"}, at : {"active", "saved", "succeeded", "failed"},
        gives : Nat]
Scanner == [of : Tenants, at : ScanSteps]
ReadBefore == {"first", "page"}
Kinds == ReadBefore \union {"run", "act"}
Loads == [no : Nat, kind : Kinds, at : {"list", "acting", "reading"}, of : Tenants,
          left : SUBSET Pieces, got : SUBSET Shown]
Tab == [at : {"login", "open", "form", "verify", "deleted"}, tenant : Tenants, loads : SUBSET Loads,
        loading : BOOLEAN, shown : SUBSET Shown, waits : BOOLEAN, mine : Nat,
        failures : 0..(Patience - 1), said : {"nothing", "failed", "completed"},
        begun : Nat, landed : Nat, behind : BOOLEAN]
Shell == [of : Tenants, scan : ScanStatuses, at : {"loading", "loaded", "kept"}]

\* How many results of a kind there are in a workspace, and on a page those that it shows.
Left(kind) == IF kind = "report" THEN reports ELSE runs
KindOf(p) == IF p = "monitoring" THEN "report" ELSE "results"

WorkerFits ==
  /\ created \in Workspaces /\ live \subseteq 1..created
  /\ runs \in [Workspaces -> Nat] /\ reports \in [Workspaces -> Nat]
  /\ scan \in [Workspaces -> ScanStatuses]
  /\ scanners \in Seq(Scanner)
  /\ jobs \in Seq(Job)

\* A job gives no more than there is.
JobsFit == \A j \in DOMAIN jobs : jobs[j].gives <= Left(jobs[j].kind)[jobs[j].of]

\* What the tab does fits the page it is on, and the job it knows of.
TabFits ==
  /\ tab \in Tab /\ shell \in Shell /\ selected \in Tenants
  /\ page \in DOMAIN Reads \union {"onboarding"}
  /\ tab.mine \in DOMAIN jobs \union {None}
  /\ tab.at = "open" => page \in DOMAIN Reads
  /\ tab.at # "open" => tab.loads = {} /\ ~tab.waits
  /\ tab.waits => tab.tenant # None
  /\ (tab.waits \/ tab.said = "completed") =>
       /\ tab.mine # None /\ page \in DOMAIN Refresh
       /\ jobs[tab.mine].kind = KindOf(page)
  /\ tab.said = "completed" => jobs[tab.mine].at = "succeeded"

LoadsFit ==
  /\ tab.landed <= tab.begun
  /\ \A l \in tab.loads :
       /\ l.no \in 1..tab.begun
       /\ l.at = "reading" => l.left \subseteq Reads[page]
       /\ l.at = "acting" => l.kind = "act"
       /\ l.kind = "act" => page \in ReadForTheOneTheyWereOn
       /\ l.at # "list" /\ page # "settings" => l.of # None
  /\ tab.tenant = None /\ page # "settings" => tab.shown = {} /\ \A l \in tab.loads : l.at = "list"

\* The page agents does one thing at a time, and so does queries until it is on a
\* workspace, where it stays.
AgentsFit ==
  page = "agents" =>
    /\ \A l, k \in tab.loads : l = k
    /\ \A l \in tab.loads : l.kind \in ReadBefore => tab.loading
    /\ tab.waits => tab.loads = {} /\ jobs[tab.mine].of = tab.tenant

QueriesFit ==
  page = "queries" /\ tab.at = "open" =>
    /\ tab.tenant = None =>
         /\ \A l, k \in tab.loads : l = k
         /\ \A l \in tab.loads : l.kind \in ReadBefore /\ tab.loading
    /\ tab.tenant # None =>
         /\ \A l \in tab.loads : l.at = "reading" /\ l.of = tab.tenant
         /\ \A v \in tab.shown : v.of = tab.tenant
         /\ tab.waits => jobs[tab.mine].of = tab.tenant

\* What was read is as new as its workspace's results, unless some were left meanwhile.
Current(v) == v.run # NoRun => disturbed \/ v.run = Left(KindOf(page))[v.of]

AnswersFit ==
  /\ \A l \in tab.loads : l.at = "reading" => \A v \in l.got : v.of = l.of /\ Current(v)
  /\ ~tab.behind /\ ~disturbed /\ ~Reading =>
       \A v, u \in tab.shown : v.run = u.run \/ NoRun \in {v.run, u.run}

\* Unless another tab chose meanwhile, the shell and the page are on the active workspace.
ShellFits ==
  ~moved /\ tab.at \notin {"verify", "deleted"} /\ shell.at = "loaded" => shell.of = ResolveActiveTenant

NamesFit ==
  ~moved /\ tab.at = "open" =>
    /\ tab.tenant # None => tab.tenant = ResolveActiveTenant
    /\ \A l \in tab.loads : l.at # "list" => l.of = tab.tenant /\ tab.tenant = ResolveActiveTenant
    /\ \A v \in tab.shown : v.of = tab.tenant /\ tab.tenant = ResolveActiveTenant
    /\ tab.waits => jobs[tab.mine].of = tab.tenant

\* From some load on, all that is read is of W and among S, and so is what is shown once
\* the latest of them ended, with no failure and no earlier one after it.
Since(t, W, S) ==
  \E n \in 0..t.begun :
    /\ \A l \in t.loads : l.at = "reading" /\ l.no >= n => l.of \in W /\ l.got \subseteq S
    /\ ~t.behind /\ t.landed >= n => t.shown \subseteq S
    /\ t.landed >= n \/ \E l \in t.loads : l.at # "acting" /\ l.no >= n

OfThe(w) == {v \in Shown : v.of = w}
Enough == {v \in Shown : v.run # NoRun /\ v.of = jobs[tab.mine].of => v.run >= jobs[tab.mine].gives}

LatestFit ==
  /\ tab.at = "open" /\ page \notin ReadForTheOneTheyWereOn => Since(tab, {tab.tenant}, OfThe(tab.tenant))
  /\ tab.said = "completed" => Since(tab, Tenants, Enough)

ClientInv ==
  /\ WorkerFits /\ JobsFit /\ TabFits /\ LoadsFit /\ AgentsFit /\ QueriesFit
  /\ AnswersFit /\ ShellFits /\ NamesFit /\ LatestFit

-----------------------------------------------------------------------------
(* The active workspace.                                                   *)

Smaller == OpToRel(<, Nat)

\* A set of numbers has a least one.
LEMMA Least ==
  ASSUME NEW S \in SUBSET Nat, S # {}
  PROVE  \E x \in S : \A y \in S : x <= y
<1>1. IsWellFoundedOn(Smaller, Nat)
  BY NatLessThanWellFounded, Zenon DEF Smaller
<1>2. PICK x \in S : \A y \in S : ~(<<y, x>> \in Smaller)
  BY <1>1, WFMin, Zenon
<1>3. \A y \in S : y < x => <<y, x>> \in Smaller
  BY SMT DEF Smaller, OpToRel
<1>4. \A y \in S : ~(y < x)
  BY <1>2, <1>3, Zenon
<1>5. \A y \in S : x <= y
  BY <1>4, SMT
<1> QED BY <1>5

LEMMA MinIsMember ==
  ASSUME NEW S \in SUBSET Nat, S # {}
  PROVE  Min(S) \in S
<1>1. \E x \in S : \A y \in S : x <= y
  BY Least, Zenon
<1> QED
  BY <1>1, Zenon DEF Min

\* A set of numbers that has a bound has a greatest one.
LEMMA MaxIsMember ==
  ASSUME NEW n \in Nat, NEW S \in SUBSET (1..n), S # {}
  PROVE  Max(S) \in S
<1> DEFINE Below == {n - x : x \in S}
<1>1. Below \in SUBSET Nat
  OBVIOUS
<1>2. Below # {}
  OBVIOUS
<1> HIDE DEF Below
<1>3. PICK d \in Below : \A e \in Below : d <= e
  BY <1>1, <1>2, Least, Zenon
<1>4. PICK x \in S : d = n - x
  BY <1>3 DEF Below
<1>5. \A y \in S : x >= y
  <2> TAKE y \in S
  <2>1. n - y \in Below
    BY DEF Below
  <2>2. n - x <= n - y
    BY <1>3, <1>4, <2>1
  <2> QED
    BY <2>2
<1> QED
  BY <1>5, Zenon DEF Max

\* Without a workspace nothing is active, and otherwise one of them.
LEMMA Resolved ==
  ASSUME WorkerFits
  PROVE  /\ live \subseteq Workspaces /\ None \notin Workspaces
         /\ ResolveActiveTenant \in Tenants
         /\ live # {} => ResolveActiveTenant \in live
         /\ live = {} => ResolveActiveTenant = None
<1>1. created \in Nat /\ created \in 1..MaxWorkspaces /\ live \in SUBSET (1..created)
  BY WebClientAssumption DEF WorkerFits, Workspaces
<1>2. live # {} => Max(live) \in live
  BY <1>1, MaxIsMember
<1>3. live \subseteq Workspaces /\ None \notin Workspaces
  BY <1>1, WebClientAssumption DEF Workspaces, None
<1> QED
  BY <1>2, <1>3 DEF ResolveActiveTenant, Tenants

\* It stays while the list and the selection do.
LEMMA ResolvedStays ==
  ASSUME UNCHANGED <<live, selected>>
  PROVE  ResolveActiveTenant' = ResolveActiveTenant
  BY DEF ResolveActiveTenant

-----------------------------------------------------------------------------
(* What is shown since some load.                                          *)

\* A load that began after all others, and reads for W if it reads, is such a one.
LEMMA SinceNow ==
  ASSUME NEW W, NEW S, NEW u, u.begun \in Nat, u.landed \in Nat, u.landed < u.begun,
         NEW l \in u.loads, l.no = u.begun, l.at # "acting",
         \A k \in u.loads : k.at = "reading" /\ k.no >= u.begun => k.of \in W /\ k.got \subseteq S
  PROVE  Since(u, W, S)
<1> DEFINE n == u.begun
<1>1. n \in 0..u.begun /\ ~(u.landed >= n) /\ l.no >= n
  OBVIOUS
<1> QED
  BY <1>1, Zenon DEF Since

\* So is any, where nothing is shown or was read.
LEMMA SinceEver ==
  ASSUME NEW W, NEW S, NEW u, u.begun \in Nat, u.landed \in Nat, u.shown = {},
         \A k \in u.loads : k.at # "reading"
  PROVE  Since(u, W, S)
<1>1. 0 \in 0..u.begun /\ u.landed >= 0 /\ u.shown \subseteq S
  OBVIOUS
<1> QED
  BY <1>1 DEF Since

\* It stays one when others begin, go on or fail before they read.
LEMMA SinceGoesOn ==
  ASSUME NEW W, NEW S, NEW t, NEW u, Since(t, W, S), t.begun \in Nat, u.begun \in Nat, t.begun <= u.begun,
         \A l \in t.loads : l.no \in Nat,
         \A l \in u.loads : l.no \in Nat,
         u.landed = t.landed, u.behind = t.behind, u.shown = t.shown,
         \A l \in u.loads : l.at = "reading" =>
           \/ l.of \in W /\ l.got \subseteq S
           \/ \E k \in t.loads : /\ k.at = "reading" /\ k.no = l.no
                                 /\ k.of \in W /\ k.got \subseteq S => l.of \in W /\ l.got \subseteq S,
         \A k \in t.loads : k.at # "acting" => \E l \in u.loads : l.at # "acting" /\ k.no <= l.no
  PROVE  Since(u, W, S)
<1>1. PICK n \in 0..t.begun :
        /\ \A l \in t.loads : l.at = "reading" /\ l.no >= n => l.of \in W /\ l.got \subseteq S
        /\ ~t.behind /\ t.landed >= n => t.shown \subseteq S
        /\ t.landed >= n \/ \E l \in t.loads : l.at # "acting" /\ l.no >= n
  BY DEF Since
<1>2. n \in 0..u.begun /\ n \in Nat
  OBVIOUS
<1>3. \A l \in u.loads : l.at = "reading" /\ l.no >= n => l.of \in W /\ l.got \subseteq S
  BY <1>1
<1>4. u.landed >= n \/ \E l \in u.loads : l.at # "acting" /\ l.no >= n
  <2>1. CASE t.landed >= n
    BY <2>1
  <2>2. CASE \E k \in t.loads : k.at # "acting" /\ k.no >= n
    <3>1. PICK k \in t.loads : k.at # "acting" /\ k.no >= n
      BY <2>2
    <3>2. PICK l \in u.loads : l.at # "acting" /\ k.no <= l.no
      BY <3>1
    <3>3. k.no \in Nat /\ l.no \in Nat
      OBVIOUS
    <3>4. l.no >= n
      BY <1>2, <3>1, <3>2, <3>3
    <3> QED
      BY <3>2, <3>4
  <2> QED
    BY <1>1, <2>1, <2>2
<1> QED
  BY <1>1, <1>2, <1>3, <1>4 DEF Since

\* And when one ends: if a later one did before, or it fails, that is marked.
LEMMA SinceLands ==
  ASSUME NEW W, NEW S, NEW t, NEW u, NEW l \in t.loads, Since(t, W, S),
         t.begun \in Nat, t.landed \in Nat, l.no \in Nat, u.begun = t.begun,
         u.loads = t.loads \ {l},
         u.landed = IF l.no > t.landed THEN l.no ELSE t.landed,
         u.behind \/ /\ l.no >= t.landed /\ l.at = "reading"
                     /\ l.of \in W /\ l.got \subseteq S => u.shown \subseteq S
  PROVE  Since(u, W, S)
<1>1. PICK n \in 0..t.begun :
        /\ \A k \in t.loads : k.at = "reading" /\ k.no >= n => k.of \in W /\ k.got \subseteq S
        /\ ~t.behind /\ t.landed >= n => t.shown \subseteq S
        /\ t.landed >= n \/ \E k \in t.loads : k.at # "acting" /\ k.no >= n
  BY DEF Since
<1>2. n \in 0..u.begun /\ n \in Nat
  OBVIOUS
<1>3. u.landed \in Nat /\ u.landed >= t.landed /\ u.landed >= l.no
  OBVIOUS
<1>4. \A k \in u.loads : k.at = "reading" /\ k.no >= n => k.of \in W /\ k.got \subseteq S
  BY <1>1
<1>5. ASSUME ~u.behind, u.landed >= n
      PROVE  u.shown \subseteq S
  <2>1. l.no >= t.landed /\ l.at = "reading" /\ u.landed = l.no
    BY <1>3, <1>5
  <2>2. l.no >= n
    BY <1>5, <2>1
  <2>3. l.of \in W /\ l.got \subseteq S
    BY <1>1, <2>1, <2>2
  <2> QED
    BY <1>5, <2>3
<1>6. u.landed >= n \/ \E k \in u.loads : k.at # "acting" /\ k.no >= n
  <2>1. CASE t.landed >= n
    BY <1>2, <1>3, <2>1
  <2>2. CASE \E k \in t.loads : k.at # "acting" /\ k.no >= n
    <3>1. PICK k \in t.loads : k.at # "acting" /\ k.no >= n
      BY <2>2
    <3>2. CASE k = l
      BY <1>2, <1>3, <3>1, <3>2
    <3>3. CASE k # l
      BY <3>1, <3>3
    <3> QED
      BY <3>2, <3>3
  <2> QED
    BY <1>1, <2>1, <2>2
<1> QED
  BY <1>2, <1>4, <1>5, <1>6 DEF Since

\* Once nothing is under way, it shows.
LEMMA SinceShows ==
  ASSUME NEW W, NEW S, NEW t, Since(t, W, S), t.loads = {}, ~t.behind
  PROVE  t.shown \subseteq S
  BY DEF Since

-----------------------------------------------------------------------------
(* What stays.                                                             *)

LEMMA WorkerStays ==
  ASSUME ClientInv, UNCHANGED worker
  PROVE  /\ WorkerFits' /\ JobsFit'
         /\ UNCHANGED <<live, created, runs, reports, scan, scanners, jobs>>
<1>1. UNCHANGED <<live, created, runs, reports, scan, scanners, jobs>>
  BY DEF worker
<1> QED
  BY <1>1 DEF ClientInv, WorkerFits, JobsFit, Left

LEMMA ReadsFit ==
  /\ DOMAIN Refresh \subseteq DOMAIN Reads /\ "settings" \notin DOMAIN Refresh
  /\ {"execution", "monitoring"} \subseteq DOMAIN Refresh
  /\ {"home", "execution", "monitoring"} \subseteq DOMAIN Reads
  /\ "onboarding" \notin DOMAIN Refresh /\ "onboarding" \notin DOMAIN Reads
  /\ {"visibility", "queries"} \subseteq DOMAIN Refresh /\ "home" \notin DOMAIN Refresh
  /\ Refresh["agents"] # "again" /\ Refresh["queries"] # "again"
  /\ \A p \in DOMAIN Reads : Reads[p] \in SUBSET Pieces
  /\ \A p \in DOMAIN Reads : p # "monitoring" => "report" \notin Reads[p]
  /\ Reads["monitoring"] = {"snapshot", "report", "google"} /\ Reads["settings"] = {"billing"}
<1>1. DOMAIN Reads = {"home", "agents", "visibility", "queries", "reports", "plan", "execution", "monitoring", "settings"}
  BY DEF Reads
<1>2. DOMAIN Refresh = {"agents", "visibility", "queries", "execution", "monitoring"}
  BY DEF Refresh
<1>3. /\ Reads["home"] = {"metrics"} /\ Reads["agents"] = {"metrics"}
      /\ Reads["visibility"] = {"metrics", "queries", "results"}
      /\ Reads["queries"] = {"queries", "results"}
      /\ Reads["reports"] = {"metrics", "queries", "results"}
      /\ Reads["plan"] = {"plan"} /\ Reads["execution"] = {"tasks"}
      /\ Reads["monitoring"] = {"snapshot", "report", "google"}
      /\ Reads["settings"] = {"billing"}
  BY DEF Reads, HomeReads, AgentsReads, AiVisibilityReads, QueriesReads, ReportsReads,
         ContentPlanReads, ExecutionReads, MonitoringReads, SettingsReads
<1>4. \A p \in DOMAIN Reads : Reads[p] \in SUBSET Pieces
  BY <1>1, <1>3 DEF Pieces
<1>5. \A p \in DOMAIN Reads : p # "monitoring" => "report" \notin Reads[p]
  BY <1>1, <1>3
<1>6. Refresh["agents"] # "again" /\ Refresh["queries"] # "again"
  BY DEF Refresh, AgentsRefresh, QueriesRefresh
<1> QED
  BY <1>1, <1>2, <1>3, <1>4, <1>5, <1>6

LEMMA Shells ==
  ASSUME ClientInv
  PROVE  /\ EmptyShell \in Shell /\ EmptyShell.at # "loaded"
         /\ [shell EXCEPT !.at = "loading"] \in Shell /\ [shell EXCEPT !.at = "loading"].at = "loading"
         /\ [shell EXCEPT !.at = "kept"] \in Shell /\ [shell EXCEPT !.at = "kept"].at = "kept"
<1>1. shell \in Shell
  BY DEF ClientInv, TabFits
<1> QED
  BY <1>1 DEF Shell, EmptyShell, Tenants, ScanStatuses, None

LEMMA PagesAreRead ==
  /\ OpenPages \subseteq DOMAIN Reads \union {"onboarding"}
  /\ {"home", "visibility", "onboarding"} \subseteq DOMAIN Reads \union {"onboarding"}
  BY PagesAssumption DEF Reads

LEMMA FieldsOfTab ==
  ASSUME ClientInv
  PROVE  /\ tab \in Tab /\ tab.tenant \in Tenants /\ tab.loads \subseteq Loads
         /\ tab.loading \in BOOLEAN /\ tab.shown \subseteq Shown
         /\ tab.waits \in BOOLEAN /\ tab.mine \in Nat /\ tab.failures \in Nat
         /\ tab.failures \in 0..(Patience - 1) /\ 0 \in 0..(Patience - 1)
         /\ tab.said \in {"nothing", "failed", "completed"}
         /\ tab.begun \in Nat /\ tab.landed \in Nat /\ tab.behind \in BOOLEAN
<1>1. tab \in Tab
  BY DEF ClientInv, TabFits
<1>2. tab.failures \in 0..(Patience - 1)
  BY <1>1 DEF Tab
<1>3. tab.failures \in Nat /\ 0 \in 0..(Patience - 1)
  BY <1>2, WebClientAssumption
<1>4. /\ tab.tenant \in Tenants /\ tab.loads \subseteq Loads
      /\ tab.loading \in BOOLEAN /\ tab.shown \subseteq Shown
      /\ tab.waits \in BOOLEAN /\ tab.mine \in Nat
      /\ tab.said \in {"nothing", "failed", "completed"}
      /\ tab.begun \in Nat /\ tab.landed \in Nat /\ tab.behind \in BOOLEAN
  BY <1>1 DEF Tab
<1> QED
  BY <1>1, <1>2, <1>3, <1>4

LEMMA FieldsOfLoad ==
  ASSUME NEW l \in Loads
  PROVE  /\ l.no \in Nat /\ l.kind \in Kinds /\ l.at \in {"list", "acting", "reading"}
         /\ l.of \in Tenants /\ l.left \subseteq Pieces /\ l.got \subseteq Shown
  BY DEF Loads

\* A load is under way only on an open page, and runs are of pages that have some.
LEMMA LoadsAreOpen ==
  ASSUME ClientInv
  PROVE  /\ tab.loads # {} => tab.at = "open" /\ page \in DOMAIN Reads
         /\ tab.waits => tab.at = "open" /\ page \in DOMAIN Refresh /\ tab.mine \in DOMAIN jobs
         /\ tab.said = "completed" => tab.mine \in DOMAIN jobs /\ page \in DOMAIN Refresh
  BY DEF ClientInv, TabFits

\* The tab stays as it is: its jobs may go on, unless they succeeded, and results may be
\* left that it is told of by `disturbed'.
LEMMA SameTab ==
  ASSUME ClientInv, UNCHANGED <<page, tab>>,
         \A j \in DOMAIN jobs : /\ jobs'[j].of = jobs[j].of
                                /\ jobs[j].at = "succeeded" => jobs'[j] = jobs[j],
         disturbed => disturbed',
         disturbed' \/ UNCHANGED <<runs, reports>>
  PROVE  LoadsFit' /\ AgentsFit' /\ QueriesFit' /\ AnswersFit' /\ LatestFit'
<1>1. LoadsFit'
  BY DEF ClientInv, LoadsFit
<1>2. tab.waits => jobs'[tab.mine].of = jobs[tab.mine].of
  BY LoadsAreOpen
<1>3. AgentsFit'
  BY <1>2 DEF ClientInv, AgentsFit
<1>4. QueriesFit'
  BY <1>2 DEF ClientInv, QueriesFit
<1>5. \A v : Current(v) => Current(v)'
  BY DEF Current, Left
<1>6. Reading' = Reading
  BY DEF Reading
<1>7. AnswersFit'
  BY <1>5, <1>6 DEF ClientInv, AnswersFit
<1>8. tab.said = "completed" => jobs'[tab.mine] = jobs[tab.mine]
  BY LoadsAreOpen DEF ClientInv, TabFits
<1>9. tab.said = "completed" => Enough' = Enough
  BY <1>8 DEF Enough
<1>10. LatestFit'
  BY <1>9 DEF ClientInv, LatestFit, Since
<1> QED
  BY <1>1, <1>3, <1>4, <1>7, <1>10

LEMMA SameNames ==
  ASSUME ClientInv, UNCHANGED <<live, selected, page, tab, moved>>,
         \A j \in DOMAIN jobs : jobs'[j].of = jobs[j].of
  PROVE  NamesFit'
<1>1. ResolveActiveTenant' = ResolveActiveTenant
  BY ResolvedStays
<1>2. tab.waits => jobs'[tab.mine].of = jobs[tab.mine].of
  BY LoadsAreOpen
<1> QED
  BY <1>1, <1>2 DEF ClientInv, NamesFit

-----------------------------------------------------------------------------
(* Steps of the shell, of the user and of the page he opens.               *)

\* A page that is opened begins from nothing, and the shell looks again.
LEMMA BlankFits ==
  /\ Blank \in Tab /\ Blank.mine = None /\ ~Blank.waits /\ Blank.said = "nothing"
  /\ Blank.tenant = None /\ Blank.shown = {} /\ Blank.loads = {} /\ Blank.landed = 0 /\ Blank.begun = 0
  /\ Opened \in Tab /\ Opened.mine = None /\ ~Opened.waits /\ Opened.said = "nothing"
  /\ Opened.tenant = None /\ Opened.shown = {} /\ Opened.at = "open" /\ Opened.loading
  /\ Opened.landed = 0 /\ Opened.begun = 1
  /\ \E l \in Loads : /\ Opened.loads = {l} /\ l.no = 1 /\ l.kind = "first" /\ l.at = "list"
                      /\ l.got = {}
<1>1. 0 \in 0..(Patience - 1)
  BY WebClientAssumption
<1>2. None \in Tenants /\ None \in Nat
  BY DEF Tenants, None
<1>3. /\ Blank \in Tab /\ Blank.mine = None /\ ~Blank.waits /\ Blank.said = "nothing"
      /\ Blank.tenant = None /\ Blank.shown = {} /\ Blank.loads = {} /\ Blank.landed = 0 /\ Blank.begun = 0
  BY <1>1, <1>2 DEF Blank, Tab
<1> DEFINE l == Load(1, "first", "list", None)
<1>4. l \in Loads /\ l.no = 1 /\ l.kind = "first" /\ l.at = "list" /\ l.got = {}
  BY <1>2 DEF Load, Loads, Kinds, ReadBefore
<1> HIDE DEF l
<1> DEFINE yes == TRUE
           one == 1
<1>5. Opened = [Blank EXCEPT !.loads = {l}, !.loading = yes, !.begun = one] /\ yes \in BOOLEAN /\ one \in Nat
  BY DEF Opened, l
<1>6. yes = TRUE /\ one = 1
  OBVIOUS
<1> HIDE DEF yes, one
<1>7. {l} \in SUBSET Loads
  BY <1>4
<1>8. Opened \in Tab
  BY <1>3, <1>5, <1>7 DEF Tab
<1>9. /\ Opened.mine = Blank.mine /\ Opened.waits = Blank.waits /\ Opened.said = Blank.said
      /\ Opened.tenant = Blank.tenant /\ Opened.shown = Blank.shown /\ Opened.at = Blank.at
      /\ Opened.loading = yes /\ Opened.landed = Blank.landed /\ Opened.begun = one
      /\ Opened.loads = {l}
  BY <1>3, <1>5 DEF Tab
<1>10. Blank.at = "open"
  BY DEF Blank
<1> QED
  BY <1>3, <1>4, <1>6, <1>8, <1>9, <1>10

\* Such a page fits, whatever it is.
LEMMA NewPageFits ==
  ASSUME NEW t, t \in {Opened, [Blank EXCEPT !.at = "login"], [Blank EXCEPT !.at = "form"]}
  PROVE  /\ t \in Tab /\ t.at \in {"open", "login", "form"} /\ (t.at = "open" <=> t = Opened)
         /\ t.mine = None /\ ~t.waits /\ t.said = "nothing" /\ t.tenant = None /\ t.shown = {}
         /\ t.begun \in Nat /\ t.landed \in Nat /\ t.landed <= t.begun
         /\ \A l, k \in t.loads : l = k
         /\ \A l \in t.loads : l.no \in 1..t.begun /\ l.at = "list" /\ l.kind = "first" /\ t.loading
         /\ t.at # "open" => t.loads = {}
<1>1. CASE t = Opened
  <2>1. PICK l \in Loads : Opened.loads = {l} /\ l.no = 1 /\ l.kind = "first" /\ l.at = "list"
    BY BlankFits
  <2>2. 1 \in 1..1
    OBVIOUS
  <2> QED
    BY <1>1, <2>1, <2>2, BlankFits
<1>2. ASSUME NEW a \in {"login", "form"}, t = [Blank EXCEPT !.at = a]
      PROVE  /\ t \in Tab /\ t.at = a /\ t.mine = None /\ ~t.waits /\ t.said = "nothing"
             /\ t.tenant = None /\ t.shown = {} /\ t.begun = 0 /\ t.landed = 0 /\ t.loads = {}
  <2>1. t \in Tab /\ t.at = a
    BY <1>2, BlankFits DEF Tab
  <2>2. /\ t.mine = Blank.mine /\ t.waits = Blank.waits /\ t.said = Blank.said
        /\ t.tenant = Blank.tenant /\ t.shown = Blank.shown /\ t.begun = Blank.begun
        /\ t.landed = Blank.landed /\ t.loads = Blank.loads
    BY <1>2
  <2> QED
    BY <2>1, <2>2, BlankFits
<1>3. CASE \E a \in {"login", "form"} : t = [Blank EXCEPT !.at = a]
  <2>1. PICK a \in {"login", "form"} : t = [Blank EXCEPT !.at = a]
    BY <1>3
  <2>2. /\ t \in Tab /\ t.at = a /\ t.mine = None /\ ~t.waits /\ t.said = "nothing"
        /\ t.tenant = None /\ t.shown = {} /\ t.begun = 0 /\ t.landed = 0 /\ t.loads = {}
    BY <1>2, <2>1
  <2>3. Opened.at = "open"
    BY BlankFits
  <2>4. t # Opened
    BY <2>2, <2>3
  <2> QED
    BY <2>2, <2>4
<1> QED
  BY <1>1, <1>3

LEMMA NewTabKeeps ==
  ASSUME NEW t, t \in {Opened, [Blank EXCEPT !.at = "login"], [Blank EXCEPT !.at = "form"]},
         tab' = t, page' \in DOMAIN Reads \union {"onboarding"}, t = Opened => page' # "onboarding",
         WorkerFits', JobsFit', selected' \in Tenants, shell' \in Shell, shell'.at # "loaded"
  PROVE  ClientInv'
<1>1. /\ t \in Tab /\ t.at \in {"open", "login", "form"} /\ (t.at = "open" <=> t = Opened)
      /\ t.mine = None /\ ~t.waits /\ t.said = "nothing" /\ t.tenant = None /\ t.shown = {}
      /\ t.begun \in Nat /\ t.landed \in Nat /\ t.landed <= t.begun
      /\ \A l, k \in t.loads : l = k
      /\ \A l \in t.loads : l.no \in 1..t.begun /\ l.at = "list" /\ l.kind = "first" /\ t.loading
      /\ t.at # "open" => t.loads = {}
  BY NewPageFits
<1>2. TabFits'
  BY <1>1 DEF TabFits
<1>3. LoadsFit'
  BY <1>1 DEF LoadsFit
<1>4. AgentsFit' /\ QueriesFit'
  BY <1>1 DEF AgentsFit, QueriesFit, ReadBefore
<1>5. AnswersFit' /\ ShellFits' /\ NamesFit'
  BY <1>1 DEF AnswersFit, ShellFits, NamesFit
<1>6. LatestFit'
  <2>1. \A k \in t.loads : k.at # "reading"
    BY <1>1
  <2>2. \A W, S : Since(t, W, S)
    BY <1>1, <2>1, SinceEver
  <2> QED
    BY <1>1, <2>2 DEF LatestFit
<1> QED
  BY <1>2, <1>3, <1>4, <1>5, <1>6 DEF ClientInv

LEMMA MountKeeps ==
  ASSUME ClientInv, NEW p \in DOMAIN Reads \union {"onboarding"}, Mount(p),
         WorkerFits', JobsFit', selected' \in Tenants, shell' \in Shell, shell'.at # "loaded"
  PROVE  ClientInv'
<1>1. page' = p /\ tab' \in {Opened, [Blank EXCEPT !.at = "login"], [Blank EXCEPT !.at = "form"]}
  BY DEF Mount
<1>2. tab' = Opened => page' # "onboarding"
  <2>1. [Blank EXCEPT !.at = "login"] # Opened /\ [Blank EXCEPT !.at = "form"] # Opened
    <3>1. /\ [Blank EXCEPT !.at = "login"].at = "login" /\ [Blank EXCEPT !.at = "form"].at = "form"
          /\ Opened.at = "open"
      BY BlankFits DEF Tab
    <3> QED
      BY <3>1
  <2> QED
    BY <2>1 DEF Mount
<1> QED
  BY <1>1, <1>2, NewTabKeeps

LEMMA GoToKeeps ==
  ASSUME ClientInv, NEW p \in DOMAIN Reads \union {"onboarding"}, GoTo(p),
         WorkerFits', JobsFit', selected' \in Tenants
  PROVE  ClientInv'
  BY MountKeeps, Shells DEF GoTo

LEMMA OpeningKeeps ==
  ASSUME ClientInv,
         \/ \E p \in OpenPages : Visit(p)
         \/ Reload \/ Login \/ SkipVerification \/ LandElsewhere
         \/ \E w \in live : SwitchTenant(w)
  PROVE  ClientInv'
<1>1. page \in DOMAIN Reads \union {"onboarding"} /\ selected \in Tenants /\ None \in Tenants
  BY DEF ClientInv, TabFits, Tenants
<1>2. live \subseteq Tenants /\ (live # {} => Max(live) \in Tenants)
  <2>1. WorkerFits
    BY DEF ClientInv
  <2>2. created \in Nat /\ live \in SUBSET (1..created)
    BY <2>1, WebClientAssumption DEF WorkerFits, Workspaces
  <2> QED
    BY <2>1, <2>2, MaxIsMember, Resolved DEF Tenants
<1>3. CASE \E p \in OpenPages : Visit(p)
  <2>1. PICK p \in OpenPages : Visit(p)
    BY <1>3
  <2>2. UNCHANGED worker /\ selected' = selected /\ GoTo(p)
    BY <2>1 DEF Visit, storage
  <2> QED
    BY <1>1, <2>2, PagesAreRead, WorkerStays, GoToKeeps
<1>4. CASE Reload
  <2>1. UNCHANGED worker /\ selected' = selected /\ Mount(page) /\ shell' = EmptyShell
    BY <1>4 DEF Reload, storage
  <2> QED
    BY <1>1, <2>1, WorkerStays, Shells, MountKeeps
<1>5. CASE Login
  <2>1. UNCHANGED worker /\ selected' = selected /\ Mount(page) /\ shell' = EmptyShell
    BY <1>5 DEF Login
  <2> QED
    BY <1>1, <2>1, WorkerStays, Shells, MountKeeps
<1>6. CASE SkipVerification
  <2>1. UNCHANGED worker /\ selected' = selected /\ GoTo("visibility")
    BY <1>6 DEF SkipVerification, storage
  <2> QED
    BY <1>1, <2>1, PagesAreRead, WorkerStays, GoToKeeps
<1>7. CASE LandElsewhere
  <2>1. UNCHANGED worker /\ (GoTo("onboarding") \/ GoTo("home"))
    BY <1>7 DEF LandElsewhere
  <2>2. selected' \in Tenants
    BY <1>1, <1>2, <1>7 DEF LandElsewhere
  <2> QED
    BY <2>1, <2>2, PagesAreRead, WorkerStays, GoToKeeps
<1>8. CASE \E w \in live : SwitchTenant(w)
  <2>1. PICK w \in live : SwitchTenant(w)
    BY <1>8
  <2>2. UNCHANGED worker /\ selected' = w /\ Mount(page) /\ shell' = EmptyShell
    BY <2>1 DEF SwitchTenant
  <2> QED
    BY <1>1, <1>2, <2>2, WorkerStays, Shells, MountKeeps
<1> QED
  BY <1>3, <1>4, <1>5, <1>6, <1>7, <1>8

\* The shell alone moves, and what it loads is the active workspace.
LEMMA ShellMoves ==
  ASSUME ClientInv, UNCHANGED <<worker, storage, page, tab, witnesses>>,
         shell' \in Shell, shell'.at = "loaded" => shell'.of = ResolveActiveTenant
  PROVE  ClientInv'
<1>1. WorkerFits' /\ JobsFit' /\ UNCHANGED <<live, runs, reports, jobs>>
  BY WorkerStays
<1>2. UNCHANGED <<selected, page, tab, moved, disturbed>>
  BY DEF storage, witnesses
<1>3. ResolveActiveTenant' = ResolveActiveTenant
  BY <1>1, <1>2, ResolvedStays
<1>4. TabFits'
  BY <1>1, <1>2 DEF ClientInv, TabFits
<1>5. LoadsFit' /\ AgentsFit' /\ QueriesFit' /\ AnswersFit' /\ LatestFit' /\ NamesFit'
  BY <1>1, <1>2, SameTab, SameNames
<1>6. ShellFits'
  BY <1>2, <1>3 DEF ClientInv, ShellFits
<1> QED
  BY <1>1, <1>4, <1>5, <1>6 DEF ClientInv

LEMMA ShellKeeps ==
  ASSUME ClientInv, ShellPolls \/ LoadTenants \/ LoadTenantsFails
  PROVE  ClientInv'
<1>1. CASE ShellPolls
  BY <1>1, Shells, ShellMoves DEF ShellPolls
<1>2. CASE LoadTenantsFails
  BY <1>2, Shells, ShellMoves DEF LoadTenantsFails
<1>3. CASE LoadTenants /\ live # {}
  <2> DEFINE active == ResolveActiveTenant
             loaded == [of |-> active, scan |-> scan[active], at |-> "loaded"]
  <2>1. active \in Workspaces /\ scan[active] \in ScanStatuses
    BY <1>3, Resolved DEF ClientInv, WorkerFits
  <2>2. shell' = loaded /\ UNCHANGED <<worker, storage, page, tab, witnesses>>
    BY <1>3 DEF LoadTenants
  <2> HIDE DEF active
  <2>3. loaded \in Shell
    BY <2>1 DEF Shell, Tenants
  <2> QED
    BY <2>2, <2>3, ShellMoves DEF active
<1>4. CASE LoadTenants /\ live = {}
  <2>1. UNCHANGED worker /\ selected' = selected /\ GoTo("onboarding")
    BY <1>4 DEF LoadTenants, storage
  <2>2. selected \in Tenants
    BY DEF ClientInv, TabFits
  <2> QED
    BY <2>1, <2>2, PagesAreRead, WorkerStays, GoToKeeps
<1> QED
  BY <1>1, <1>2, <1>3, <1>4

\* What happens in another tab: this one is not told.
LEMMA OtherTabsKeep ==
  ASSUME ClientInv, SignOut \/ \E w \in live : SwitchElsewhere(w)
  PROVE  ClientInv'
<1>1. page \in DOMAIN Reads \union {"onboarding"} /\ selected \in Tenants
  BY DEF ClientInv, TabFits
<1>2. CASE SignOut /\ Mount(page) /\ shell' = EmptyShell
  <2>1. UNCHANGED worker /\ selected' = selected
    BY <1>2 DEF SignOut
  <2> QED
    BY <1>1, <1>2, <2>1, WorkerStays, Shells, MountKeeps
<1>3. CASE SignOut /\ UNCHANGED <<page, tab, shell, witnesses>>
  <2>1. UNCHANGED worker /\ UNCHANGED <<selected, page, tab, shell, moved, disturbed>>
    BY <1>3 DEF SignOut, witnesses
  <2>2. WorkerFits' /\ JobsFit' /\ UNCHANGED <<live, runs, reports, jobs>>
    BY <2>1, WorkerStays
  <2>3. ResolveActiveTenant' = ResolveActiveTenant
    BY <2>1, <2>2, ResolvedStays
  <2>4. TabFits'
    BY <2>1, <2>2 DEF ClientInv, TabFits
  <2>5. LoadsFit' /\ AgentsFit' /\ QueriesFit' /\ AnswersFit' /\ LatestFit' /\ NamesFit'
    BY <2>1, <2>2, SameTab, SameNames
  <2>6. ShellFits'
    BY <2>1, <2>3 DEF ClientInv, ShellFits
  <2> QED
    BY <2>2, <2>4, <2>5, <2>6 DEF ClientInv
<1>4. CASE \E w \in live : SwitchElsewhere(w)
  <2>1. PICK w \in live : SwitchElsewhere(w)
    BY <1>4
  <2>2. UNCHANGED worker /\ UNCHANGED <<page, tab, shell, disturbed>> /\ moved' = TRUE /\ selected' = w
    BY <2>1 DEF SwitchElsewhere
  <2>3. w \in Tenants
    BY Resolved DEF ClientInv, Tenants
  <2>4. WorkerFits' /\ JobsFit' /\ UNCHANGED <<live, runs, reports, jobs>>
    BY <2>2, WorkerStays
  <2>5. TabFits'
    BY <2>2, <2>3, <2>4 DEF ClientInv, TabFits
  <2>6. LoadsFit' /\ AgentsFit' /\ QueriesFit' /\ AnswersFit' /\ LatestFit'
    BY <2>2, <2>4, SameTab
  <2>7. ShellFits' /\ NamesFit'
    BY <2>2 DEF ShellFits, NamesFit
  <2> QED
    BY <2>4, <2>5, <2>6, <2>7 DEF ClientInv
<1> QED
  BY <1>2, <1>3, <1>4 DEF SignOut

-----------------------------------------------------------------------------
(* Steps of the worker.                                                    *)

LEMMA Grows ==
  ASSUME NEW f \in [Workspaces -> Nat], NEW w
  PROVE  /\ [f EXCEPT ![w] = @ + 1] \in [Workspaces -> Nat]
         /\ \A v \in Workspaces : f[v] <= [f EXCEPT ![w] = @ + 1][v]
<1> DEFINE g == [f EXCEPT ![w] = @ + 1]
<1>1. DOMAIN g = Workspaces /\ g = [v \in Workspaces |-> g[v]]
  OBVIOUS
<1>2. \A v \in Workspaces : g[v] \in Nat /\ f[v] <= g[v]
  <2> TAKE v \in Workspaces
  <2>1. f[v] \in Nat /\ f[v] <= f[v] + 1 /\ f[v] + 1 \in Nat /\ f[v] <= f[v]
    OBVIOUS
  <2>2. g[v] = f[v] \/ g[v] = f[v] + 1
    OBVIOUS
  <2> HIDE DEF g
  <2> QED
    BY <2>1, <2>2
<1> HIDE DEF g
<1>3. g \in [Workspaces -> Nat]
  BY <1>1, <1>2
<1> QED
  BY <1>2, <1>3 DEF g

LEMMA SetAt ==
  ASSUME NEW T, NEW s \in Seq(T), NEW i \in DOMAIN s, NEW x \in T
  PROVE  [s EXCEPT ![i] = x] \in Seq(T) /\ DOMAIN [s EXCEPT ![i] = x] = DOMAIN s
  OBVIOUS

LEMMA JobsAreJobs ==
  ASSUME ClientInv
  PROVE  \A j \in DOMAIN jobs : /\ jobs[j] \in Job
                                /\ jobs[j].of \in Workspaces /\ jobs[j].gives \in Nat
                                /\ jobs[j].kind \in {"results", "report"}
<1> TAKE j \in DOMAIN jobs
<1>1. jobs \in Seq(Job)
  BY DEF ClientInv, WorkerFits
<1>2. jobs[j] \in Job
  BY <1>1
<1> QED
  BY <1>2 DEF Job

\* The tab does not notice what the worker does: its workspaces and the kinds of its jobs
\* stay, and so does a job that succeeded; and when there are new results, a page that is
\* reading may see both.
LEMMA WorkerGoesOn ==
  ASSUME ClientInv, WorkerFits', JobsFit',
         UNCHANGED <<live, created, storage, page, tab, shell, moved>>,
         DOMAIN jobs' = DOMAIN jobs,
         \A j \in DOMAIN jobs : /\ jobs'[j].of = jobs[j].of
                                /\ jobs'[j].kind = jobs[j].kind
                                /\ jobs[j].at = "succeeded" => jobs'[j] = jobs[j],
         disturbed => disturbed',
         disturbed' \/ UNCHANGED <<runs, reports>>
  PROVE  ClientInv'
<1>1. selected' = selected
  BY DEF storage
<1>2. ResolveActiveTenant' = ResolveActiveTenant
  BY <1>1, ResolvedStays
<1>3. TabFits'
  <2>1. tab.mine \in DOMAIN jobs \union {None} /\ tab.mine' = tab.mine
    BY DEF ClientInv, TabFits
  <2> QED
    BY <1>1, <2>1 DEF ClientInv, TabFits
<1>4. LoadsFit' /\ AgentsFit' /\ QueriesFit' /\ AnswersFit' /\ LatestFit'
  <2>1. UNCHANGED <<page, tab>>
    OBVIOUS
  <2> QED
    BY <2>1, SameTab
<1>5. NamesFit'
  BY <1>1, SameNames
<1>6. ShellFits'
  BY <1>2 DEF ClientInv, ShellFits
<1> QED
  BY <1>3, <1>4, <1>5, <1>6 DEF ClientInv

\* More results are enough for the jobs that gave some.
LEMMA MoreIsEnough ==
  ASSUME ClientInv, WorkerFits',
         \A v \in Workspaces : runs[v] <= runs'[v] /\ reports[v] <= reports'[v]
  PROVE  \A j \in DOMAIN jobs :
           jobs[j].gives <= (IF jobs[j].kind = "report" THEN reports' ELSE runs')[jobs[j].of]
<1> TAKE j \in DOMAIN jobs
<1>1. jobs[j].of \in Workspaces /\ jobs[j].gives \in Nat
  BY JobsAreJobs
<1>2. jobs[j].gives <= Left(jobs[j].kind)[jobs[j].of]
  BY DEF ClientInv, JobsFit
<1>3. /\ runs[jobs[j].of] \in Nat /\ runs'[jobs[j].of] \in Nat
      /\ reports[jobs[j].of] \in Nat /\ reports'[jobs[j].of] \in Nat
  BY <1>1 DEF ClientInv, WorkerFits
<1>4. runs[jobs[j].of] <= runs'[jobs[j].of] /\ reports[jobs[j].of] <= reports'[jobs[j].of]
  BY <1>1
<1>5. CASE jobs[j].kind = "report"
  BY <1>1, <1>2, <1>3, <1>4, <1>5 DEF Left
<1>6. CASE jobs[j].kind # "report"
  BY <1>1, <1>2, <1>3, <1>4, <1>6 DEF Left
<1> QED
  BY <1>5, <1>6

\* Others' runs and the automatic scans leave the jobs of the tab alone.
LEMMA BesidesJobs ==
  ASSUME ClientInv, UNCHANGED <<live, created, jobs, reports, storage, page, tab, shell, moved>>,
         (runs' = runs /\ disturbed' = disturbed) \/ \E w : Leaves(w),
         scan' \in [Workspaces -> ScanStatuses],
         scanners' \in Seq(Scanner)
  PROVE  ClientInv'
<1>1. runs \in [Workspaces -> Nat] /\ reports \in [Workspaces -> Nat]
  BY DEF ClientInv, WorkerFits
<1>2. /\ runs' \in [Workspaces -> Nat]
      /\ \A v \in Workspaces : runs[v] <= runs'[v]
  <2>1. CASE runs' = runs
    <3>1. \A v \in Workspaces : runs[v] \in Nat
      BY <1>1
    <3> QED
      BY <1>1, <2>1, <3>1
  <2>2. CASE \E w : Leaves(w)
    <3>1. PICK w : runs' = [runs EXCEPT ![w] = @ + 1]
      BY <2>2 DEF Leaves
    <3> QED
      BY <1>1, <3>1, Grows
  <2> QED
    BY <2>1, <2>2
<1>3. \A v \in Workspaces : reports[v] <= reports'[v]
  BY <1>1
<1>4. WorkerFits'
  BY <1>1, <1>2 DEF ClientInv, WorkerFits
<1>5. JobsFit'
  BY <1>2, <1>3, <1>4, MoreIsEnough DEF JobsFit, Left
<1>6. (disturbed => disturbed') /\ (disturbed' \/ UNCHANGED <<runs, reports>>)
  BY DEF Leaves
<1> QED
  BY <1>4, <1>5, <1>6, WorkerGoesOn

LEMMA ScansKeep ==
  ASSUME ClientInv,
         \/ \E w \in live : RunElsewhere(w)
         \/ \E i \in DOMAIN scanners : ScanTenant(i) \/ ScanFails(i) \/ ScanDies(i)
  PROVE  ClientInv'
<1>1. scan \in [Workspaces -> ScanStatuses] /\ scanners \in Seq(Scanner)
  BY DEF ClientInv, WorkerFits
<1>2. CASE \E w \in live : RunElsewhere(w)
  BY <1>1, <1>2, BesidesJobs DEF RunElsewhere
<1>3. ASSUME NEW i \in DOMAIN scanners, NEW to \in ScanSteps
      PROVE  [scanners EXCEPT ![i].at = to] \in Seq(Scanner)
  <2> DEFINE s == [scanners[i] EXCEPT !.at = to]
  <2>1. scanners[i] \in Scanner
    BY <1>1, <1>3
  <2>2. s \in Scanner
    BY <1>3, <2>1 DEF Scanner
  <2>3. [scanners EXCEPT ![i].at = to] = [scanners EXCEPT ![i] = s]
    OBVIOUS
  <2> HIDE DEF s
  <2> QED
    BY <1>1, <1>3, <2>2, <2>3, SetAt
<1>4. ASSUME NEW w, NEW status \in ScanStatuses
      PROVE  [scan EXCEPT ![w] = status] \in [Workspaces -> ScanStatuses]
  BY <1>1, <1>4
<1>5. ASSUME NEW i \in DOMAIN scanners, ScanTenant(i)
      PROVE  ClientInv'
  <2>1. scanners' \in Seq(Scanner)
    <3>1. \E to \in ScanSteps : scanners' = [scanners EXCEPT ![i].at = to]
      BY <1>5 DEF ScanTenant, Scan, ScanSteps
    <3> QED
      BY <1>3, <1>5, <3>1
  <2>2. scan' \in [Workspaces -> ScanStatuses]
    <3>1. scan' = scan \/ \E status \in ScanStatuses : scan' = [scan EXCEPT ![scanners[i].of] = status]
      BY <1>5 DEF ScanTenant, SetScanStatus, ScanStatuses, InProgress
    <3> QED
      BY <1>1, <1>4, <3>1
  <2>3. (runs' = runs /\ disturbed' = disturbed) \/ \E w : Leaves(w)
    BY <1>5 DEF ScanTenant
  <2>4. UNCHANGED <<live, created, jobs, reports, storage, page, tab, shell, moved>>
    BY <1>5 DEF ScanTenant
  <2> QED
    BY <2>1, <2>2, <2>3, <2>4, BesidesJobs
<1>6. ASSUME NEW i \in DOMAIN scanners, ScanFails(i) \/ ScanDies(i)
      PROVE  ClientInv'
  <2>1. scanners' \in Seq(Scanner)
    BY <1>3, <1>6 DEF ScanFails, ScanDies, ScanSteps
  <2>2. scan' \in [Workspaces -> ScanStatuses]
    <3>1. scan' = scan \/ scan' = [scan EXCEPT ![scanners[i].of] = "failed"]
      BY <1>6 DEF ScanFails, ScanDies, SetScanStatus
    <3> QED
      BY <1>1, <1>4, <3>1 DEF ScanStatuses
  <2>3. runs' = runs /\ disturbed' = disturbed
        /\ UNCHANGED <<live, created, jobs, reports, storage, page, tab, shell, moved>>
    BY <1>6 DEF ScanFails, ScanDies
  <2> QED
    BY <2>1, <2>2, <2>3, BesidesJobs
<1> QED
  BY <1>2, <1>5, <1>6

\* One job of the tab changes, and gives no more than there is.
LEMMA JobChanges ==
  ASSUME ClientInv, NEW j \in DOMAIN jobs, NEW new \in Job, jobs' = [jobs EXCEPT ![j] = new],
         jobs[j].at # "succeeded", new.of = jobs[j].of, new.kind = jobs[j].kind,
         new.gives <= (IF new.kind = "report" THEN reports' ELSE runs')[new.of],
         UNCHANGED <<live, created, scan, scanners, storage, page, tab, shell, moved>>,
         runs' \in [Workspaces -> Nat], reports' \in [Workspaces -> Nat],
         \A v \in Workspaces : runs[v] <= runs'[v] /\ reports[v] <= reports'[v],
         disturbed => disturbed', disturbed' \/ UNCHANGED <<runs, reports>>
  PROVE  ClientInv'
<1>1. jobs \in Seq(Job)
  BY DEF ClientInv, WorkerFits
<1>2. jobs' \in Seq(Job) /\ DOMAIN jobs' = DOMAIN jobs
  BY <1>1, SetAt
<1>3. jobs'[j] = new /\ \A i \in DOMAIN jobs : i # j => jobs'[i] = jobs[i]
  BY <1>1
<1>4. WorkerFits'
  BY <1>2 DEF ClientInv, WorkerFits
<1>5. JobsFit'
  BY <1>2, <1>3, <1>4, MoreIsEnough DEF JobsFit, Left
<1> QED
  BY <1>2, <1>3, <1>4, <1>5, WorkerGoesOn

LEMMA JobsKeep ==
  ASSUME ClientInv, NEW j \in DOMAIN jobs, SaveResults(j) \/ JobEnds(j)
  PROVE  ClientInv'
<1>1. /\ jobs[j] \in Job /\ jobs[j].of \in Workspaces /\ jobs[j].gives \in Nat
      /\ jobs[j].kind \in {"results", "report"}
  BY JobsAreJobs
<1>2. runs \in [Workspaces -> Nat] /\ reports \in [Workspaces -> Nat]
  BY DEF ClientInv, WorkerFits
<1>3. \A v \in Workspaces : runs[v] \in Nat /\ reports[v] \in Nat
  BY <1>2
<1>4. CASE SaveResults(j)
  <2> DEFINE n == (IF jobs[j].kind = "report" THEN reports' ELSE runs')[jobs[j].of]
             new == [jobs[j] EXCEPT !.at = "saved", !.gives = n]
  <2>1. /\ runs' \in [Workspaces -> Nat] /\ reports' \in [Workspaces -> Nat]
        /\ \A v \in Workspaces : runs[v] <= runs'[v] /\ reports[v] <= reports'[v]
    <3>1. CASE Leaves(jobs[j].of) /\ UNCHANGED reports
      BY <1>2, <1>3, <3>1, Grows DEF Leaves
    <3>2. CASE reports' = [reports EXCEPT ![jobs[j].of] = @ + 1] /\ UNCHANGED runs
      BY <1>2, <1>3, <3>2, Grows
    <3> QED
      BY <1>4, <3>1, <3>2 DEF SaveResults
  <2>2. n \in Nat
    BY <1>1, <2>1
  <2>3. jobs' = [jobs EXCEPT ![j] = new] /\ jobs[j].at = "active" /\ disturbed'
    BY <1>4 DEF SaveResults, Leaves
  <2>4. UNCHANGED <<live, created, scan, scanners, storage, page, tab, shell, moved>>
    BY <1>4 DEF SaveResults
  <2>5. n = (IF jobs[j].kind = "report" THEN reports' ELSE runs')[jobs[j].of]
    OBVIOUS
  <2> HIDE DEF n
  <2>6. new \in Job /\ new.of = jobs[j].of /\ new.kind = jobs[j].kind /\ new.gives = n
    BY <1>1, <2>2 DEF Job
  <2> HIDE DEF new
  <2>7. new.gives <= (IF new.kind = "report" THEN reports' ELSE runs')[new.of]
    BY <2>2, <2>5, <2>6
  <2> QED
    BY <2>1, <2>3, <2>4, <2>6, <2>7, JobChanges
<1>5. CASE JobEnds(j)
  <2>1. PICK at \in {"succeeded", "failed"} : jobs' = [jobs EXCEPT ![j].at = at]
    BY <1>5 DEF JobEnds
  <2> DEFINE new == [jobs[j] EXCEPT !.at = at]
  <2>2. jobs' = [jobs EXCEPT ![j] = new] /\ jobs[j].at # "succeeded"
    BY <1>5, <2>1 DEF JobEnds, Active
  <2>3. UNCHANGED <<live, created, runs, reports, scan, scanners, storage, page, tab, shell, moved, disturbed>>
    BY <1>5 DEF JobEnds, witnesses
  <2>4. new \in Job /\ new.of = jobs[j].of /\ new.kind = jobs[j].kind /\ new.gives = jobs[j].gives
    BY <1>1 DEF Job
  <2> HIDE DEF new
  <2>5. jobs[j].gives <= Left(jobs[j].kind)[jobs[j].of]
    BY DEF ClientInv, JobsFit
  <2>6. new.gives <= (IF new.kind = "report" THEN reports' ELSE runs')[new.of]
    BY <2>3, <2>4, <2>5 DEF Left
  <2>7. \A v \in Workspaces : runs[v] <= runs'[v] /\ reports[v] <= reports'[v]
    BY <1>3, <2>3
  <2> QED
    BY <1>2, <2>2, <2>3, <2>4, <2>6, <2>7, JobChanges
<1> QED
  BY <1>4, <1>5

-----------------------------------------------------------------------------
(* Steps of the page: its run.                                             *)

\* What the page shows and its loads stay.
LEMMA ViewStays ==
  ASSUME ClientInv, UNCHANGED <<live, selected, page, shell, moved, disturbed, runs, reports>>,
         WorkerFits', JobsFit', TabFits',
         tab'.at = tab.at, tab'.tenant = tab.tenant, tab'.loads = tab.loads, tab'.loading = tab.loading,
         tab'.shown = tab.shown, tab'.begun = tab.begun, tab'.landed = tab.landed, tab'.behind = tab.behind,
         tab'.said = "completed" => tab.said = "completed" /\ tab'.mine = tab.mine /\ UNCHANGED jobs,
         tab'.waits => \/ tab.waits /\ tab'.mine = tab.mine /\ UNCHANGED jobs
                       \/ /\ jobs'[tab'.mine].of = tab.tenant
                          /\ page = "agents" => tab.loads = {}
  PROVE  ClientInv'
<1>1. ResolveActiveTenant' = ResolveActiveTenant
  BY ResolvedStays
<1>2. LoadsFit'
  BY DEF ClientInv, LoadsFit
<1>3. AgentsFit'
  BY DEF ClientInv, AgentsFit
<1>4. QueriesFit'
  BY DEF ClientInv, QueriesFit
<1>5. \A v : Current(v) => Current(v)'
  BY DEF Current, Left
<1>6. Reading' = Reading
  BY DEF Reading
<1>7. AnswersFit'
  BY <1>5, <1>6 DEF ClientInv, AnswersFit
<1>8. ShellFits'
  BY <1>1 DEF ClientInv, ShellFits
<1>9. NamesFit'
  BY <1>1 DEF ClientInv, NamesFit
<1>10. tab'.said = "completed" => Enough' = Enough
  BY DEF Enough
<1>11. \A W, S : Since(tab, W, S) => Since(tab', W, S)
  BY DEF Since
<1>12. LatestFit'
  <2>1. tab'.at = "open" /\ page' \notin ReadForTheOneTheyWereOn => Since(tab', {tab'.tenant}, OfThe(tab'.tenant))
    BY <1>11 DEF ClientInv, LatestFit
  <2>2. tab'.said = "completed" => Since(tab', Tenants, Enough')
    BY <1>10, <1>11 DEF ClientInv, LatestFit
  <2> QED
    BY <2>1, <2>2 DEF LatestFit
<1> QED
  BY <1>2, <1>3, <1>4, <1>7, <1>8, <1>9, <1>12 DEF ClientInv

LEMMA WaitingKeeps ==
  ASSUME ClientInv, StopWaiting \/ PollFails \/ PollPending \/ PollFailed
  PROVE  ClientInv'
<1>1. /\ tab.waits
      /\ UNCHANGED <<worker, storage, page, shell, witnesses>>
      /\ \/ tab' = Gone
         \/ \E n \in 0..(Patience - 1) : tab' = [tab EXCEPT !.failures = n]
  <2>1. CASE StopWaiting \/ PollFailed
    BY <2>1 DEF StopWaiting, PollFailed
  <2>2. CASE PollPending
    BY <2>2, FieldsOfTab DEF PollPending
  <2>3. CASE PollFails
    <3> DEFINE n == tab.failures + 1
    <3>1. tab' = (IF n >= Patience THEN Gone ELSE [tab EXCEPT !.failures = n])
          /\ tab.waits /\ UNCHANGED <<worker, storage, page, shell, witnesses>>
      BY <2>3 DEF PollFails
    <3>2. n \in Nat /\ (n >= Patience \/ n \in 0..(Patience - 1))
      BY FieldsOfTab, WebClientAssumption
    <3> HIDE DEF n
    <3> QED
      BY <3>1, <3>2
  <2> QED
    BY <2>1, <2>2, <2>3
<1>2. WorkerFits' /\ JobsFit' /\ UNCHANGED <<live, runs, reports, jobs>>
  BY <1>1, WorkerStays
<1>3. UNCHANGED <<selected, moved, disturbed>>
  BY <1>1 DEF storage, witnesses
<1>4. /\ tab' \in Tab /\ tab'.at = tab.at /\ tab'.tenant = tab.tenant /\ tab'.mine = tab.mine
      /\ tab'.loads = tab.loads /\ tab'.loading = tab.loading /\ tab'.shown = tab.shown
      /\ tab'.begun = tab.begun /\ tab'.landed = tab.landed /\ tab'.behind = tab.behind
      /\ (tab'.said = "completed" => tab.said = "completed")
      /\ tab.at = "open" /\ tab.tenant # None /\ tab'.waits \in BOOLEAN
  <2>1. tab.at = "open" /\ tab.tenant # None
    BY <1>1 DEF ClientInv, TabFits
  <2>2. CASE tab' = Gone
    BY <2>1, <2>2, FieldsOfTab DEF Gone, Tab
  <2>3. CASE \E n \in 0..(Patience - 1) : tab' = [tab EXCEPT !.failures = n]
    BY <2>1, <2>3, FieldsOfTab DEF Tab
  <2> QED
    BY <1>1, <2>2, <2>3
<1>5. TabFits'
  BY <1>1, <1>2, <1>3, <1>4 DEF ClientInv, TabFits
<1> QED
  BY <1>1, <1>2, <1>3, <1>4, <1>5, ViewStays

\* On agents, a page that is not loading and has no run has nothing under way.
LEMMA NothingElseOnAgents ==
  ASSUME ClientInv, page = "agents", ~tab.loading, \A l \in tab.loads : l.kind # "run"
  PROVE  tab.loads = {}
<1>1. ASSUME NEW l \in tab.loads
      PROVE  FALSE
  <2>1. l.kind \in Kinds
    BY <1>1, FieldsOfTab, FieldsOfLoad
  <2>2. l.kind # "act"
    BY <1>1 DEF ClientInv, LoadsFit, ReadForTheOneTheyWereOn
  <2>3. l.kind \notin ReadBefore
    BY <1>1 DEF ClientInv, AgentsFit
  <2> QED
    BY <1>1, <2>1, <2>2, <2>3 DEF Kinds
<1> QED
  BY <1>1

LEMMA StartingKeeps ==
  ASSUME ClientInv, StartRun
  PROVE  ClientInv'
<1> DEFINE kind == IF page = "monitoring" THEN "report" ELSE "results"
           same == {j \in DOMAIN jobs : jobs[j].of = tab.tenant /\ jobs[j].kind = kind /\ Active(j)}
           new == [of |-> tab.tenant, kind |-> kind, at |-> "active", gives |-> 0]
<1>1. /\ tab.at = "open" /\ tab.tenant # None /\ ~Running /\ (page = "agents" => ~tab.loading)
      /\ page \in DOMAIN Refresh
      /\ UNCHANGED <<live, created, runs, reports, scan, scanners, storage, page, shell, witnesses>>
  BY DEF StartRun, CanRun
<1>2. UNCHANGED <<selected, moved, disturbed>>
  BY <1>1 DEF storage, witnesses
<1>3. kind = KindOf(page) /\ kind \in {"results", "report"}
  BY DEF KindOf
<1>4. \/ /\ same # {} /\ jobs' = jobs
         /\ tab' = [tab EXCEPT !.waits = TRUE, !.mine = Min(same), !.failures = 0, !.said = "nothing"]
      \/ /\ jobs' = Append(jobs, new)
         /\ tab' = [tab EXCEPT !.waits = TRUE, !.mine = Len(jobs'), !.failures = 0, !.said = "nothing"]
  BY DEF StartRun
<1> HIDE DEF kind
<1>5. jobs \in Seq(Job) /\ WorkerFits
  BY DEF ClientInv, WorkerFits
<1>6. /\ jobs' \in Seq(Job) /\ DOMAIN jobs \subseteq DOMAIN jobs'
      /\ \A j \in DOMAIN jobs' : jobs'[j] = new \/ (j \in DOMAIN jobs /\ jobs'[j] = jobs[j])
      /\ \E m \in DOMAIN jobs' :
           /\ m \in Nat /\ m # None /\ jobs'[m].kind = kind /\ jobs'[m].of = tab.tenant
           /\ tab' = [tab EXCEPT !.waits = TRUE, !.mine = m, !.failures = 0, !.said = "nothing"]
  <2>1. CASE /\ same # {} /\ jobs' = jobs
             /\ tab' = [tab EXCEPT !.waits = TRUE, !.mine = Min(same), !.failures = 0, !.said = "nothing"]
    <3>1. DOMAIN jobs = 1..Len(jobs) /\ Len(jobs) \in Nat
      BY <1>5
    <3>2. same \in SUBSET Nat
      BY <3>1
    <3>3. Min(same) \in same
      BY <2>1, <3>2, MinIsMember
    <3>4. Min(same) \in DOMAIN jobs /\ jobs[Min(same)].kind = kind /\ jobs[Min(same)].of = tab.tenant
      BY <3>3
    <3> HIDE DEF same
    <3>5. Min(same) \in Nat /\ Min(same) # None
      BY <3>1, <3>4 DEF None
    <3>6. \A j \in DOMAIN jobs' : j \in DOMAIN jobs /\ jobs'[j] = jobs[j]
      BY <2>1
    <3> HIDE DEF new
    <3>7. jobs' \in Seq(Job) /\ DOMAIN jobs \subseteq DOMAIN jobs'
      BY <1>5, <2>1
    <3> DEFINE m == Min(same)
    <3>8. /\ m \in DOMAIN jobs' /\ m \in Nat /\ m # None /\ jobs'[m].kind = kind /\ jobs'[m].of = tab.tenant
          /\ tab' = [tab EXCEPT !.waits = TRUE, !.mine = m, !.failures = 0, !.said = "nothing"]
      BY <2>1, <3>4, <3>5
    <3> HIDE DEF m
    <3> QED
      BY <3>6, <3>7, <3>8
  <2>2. CASE /\ jobs' = Append(jobs, new)
             /\ tab' = [tab EXCEPT !.waits = TRUE, !.mine = Len(jobs'), !.failures = 0, !.said = "nothing"]
    <3>1. tab.tenant \in Workspaces
      BY <1>1, FieldsOfTab DEF Tenants
    <3>2. new \in Job /\ new.kind = kind /\ new.of = tab.tenant
      BY <1>3, <3>1 DEF Job
    <3> HIDE DEF new
    <3>3. /\ jobs' \in Seq(Job) /\ Len(jobs') = Len(jobs) + 1 /\ Len(jobs) \in Nat
          /\ DOMAIN jobs' = 1..(Len(jobs) + 1) /\ DOMAIN jobs = 1..Len(jobs)
      BY <1>5, <2>2, <3>2
    <3>4. /\ jobs'[Len(jobs) + 1] = new
          /\ \A j \in 1..Len(jobs) : jobs'[j] = jobs[j]
      BY <1>5, <2>2, <3>2
    <3>5. \A j \in DOMAIN jobs' : j = Len(jobs) + 1 \/ j \in DOMAIN jobs
      BY <3>3
    <3>6. /\ Len(jobs') \in DOMAIN jobs' /\ Len(jobs') \in Nat /\ Len(jobs') # None
          /\ jobs'[Len(jobs')].kind = kind /\ jobs'[Len(jobs')].of = tab.tenant
      BY <3>2, <3>3, <3>4 DEF None
    <3>7. DOMAIN jobs \subseteq DOMAIN jobs'
      BY <3>3
    <3>8. \A j \in DOMAIN jobs' : jobs'[j] = new \/ (j \in DOMAIN jobs /\ jobs'[j] = jobs[j])
      BY <3>3, <3>4, <3>5
    <3> DEFINE m == Len(jobs')
    <3>9. /\ m \in DOMAIN jobs' /\ m \in Nat /\ m # None /\ jobs'[m].kind = kind /\ jobs'[m].of = tab.tenant
          /\ tab' = [tab EXCEPT !.waits = TRUE, !.mine = m, !.failures = 0, !.said = "nothing"]
      BY <2>2, <3>6
    <3> HIDE DEF m
    <3> QED
      BY <3>3, <3>7, <3>8, <3>9
  <2> QED
    BY <1>4, <2>1, <2>2
<1>7. PICK m \in DOMAIN jobs' :
        /\ m \in Nat /\ m # None /\ jobs'[m].kind = kind /\ jobs'[m].of = tab.tenant
        /\ tab' = [tab EXCEPT !.waits = TRUE, !.mine = m, !.failures = 0, !.said = "nothing"]
  BY <1>6
<1>8. WorkerFits'
  BY <1>1, <1>6 DEF ClientInv, WorkerFits
<1>9. JobsFit'
  <2> SUFFICES ASSUME NEW j \in DOMAIN jobs'
               PROVE  jobs'[j].gives <= Left(jobs[j].kind)[jobs[j].of]'
    BY DEF JobsFit
  <2>1. CASE j \in DOMAIN jobs /\ jobs'[j] = jobs[j]
    BY <1>1, <2>1 DEF ClientInv, JobsFit, Left
  <2>2. CASE jobs'[j] = new
    <3>1. jobs'[j].gives = 0 /\ jobs'[j].of = tab.tenant /\ tab.tenant \in Workspaces
      BY <1>1, <2>2, FieldsOfTab DEF Tenants
    <3>2. runs'[tab.tenant] \in Nat /\ reports'[tab.tenant] \in Nat
      BY <1>8, <3>1 DEF WorkerFits
    <3> QED
      BY <3>1, <3>2 DEF Left
  <2> QED
    BY <1>6, <2>1, <2>2
<1>10. /\ tab' \in Tab /\ tab'.at = tab.at /\ tab'.tenant = tab.tenant /\ tab'.mine = m
       /\ tab'.loads = tab.loads /\ tab'.loading = tab.loading /\ tab'.shown = tab.shown
       /\ tab'.begun = tab.begun /\ tab'.landed = tab.landed /\ tab'.behind = tab.behind
       /\ tab'.said = "nothing" /\ tab'.waits
  BY <1>7, FieldsOfTab DEF Tab
<1>11. TabFits'
  BY <1>1, <1>2, <1>3, <1>7, <1>10 DEF ClientInv, TabFits
<1>12. page = "agents" => tab.loads = {}
  BY <1>1, NothingElseOnAgents DEF Running
<1> QED
  BY <1>1, <1>2, <1>7, <1>8, <1>9, <1>10, <1>11, <1>12, ViewStays

-----------------------------------------------------------------------------
(* Steps of the page: its loads begin.                                     *)

LEMMA LoadFits ==
  ASSUME NEW no \in Nat, NEW kind \in Kinds, NEW at \in {"list", "acting", "reading"}, NEW w \in Tenants,
         page \in DOMAIN Reads, NEW l, l = Load(no, kind, at, w)
  PROVE  /\ l \in Loads /\ l.no = no /\ l.kind = kind /\ l.at = at /\ l.of = w /\ l.got = {}
         /\ at = "reading" => l.left = Reads[page]
<1> DEFINE left == IF at = "reading" THEN Reads[page] ELSE {}
<1>1. left \in SUBSET Pieces
  <2>1. Reads[page] \in SUBSET Pieces
    BY ReadsFit
  <2> QED
    BY <2>1
<1>2. l = [no |-> no, kind |-> kind, at |-> at, of |-> w, left |-> left, got |-> {}]
  BY DEF Load
<1>3. at = "reading" => left = Reads[page]
  OBVIOUS
<1> HIDE DEF left
<1>4. l \in Loads
  BY <1>1, <1>2 DEF Loads
<1> QED
  BY <1>2, <1>3, <1>4

LEMMA Begun ==
  ASSUME NEW t \in Tab, NEW kind \in Kinds, NEW at \in {"list", "acting", "reading"}, NEW w \in Tenants,
         page \in DOMAIN Reads, NEW l, l = Load(t.begun + 1, kind, at, w), NEW u, u = Begin(t, kind, at, w)
  PROVE  /\ u \in Tab /\ u.loads = t.loads \union {l} /\ u.begun = t.begun + 1
         /\ u.loading = (t.loading \/ Announced(kind))
         /\ u.at = t.at /\ u.tenant = t.tenant /\ u.shown = t.shown /\ u.waits = t.waits /\ u.mine = t.mine
         /\ u.said = t.said /\ u.landed = t.landed /\ u.behind = t.behind
<1>1. /\ t.begun \in Nat /\ t.loads \in SUBSET Loads /\ t.loading \in BOOLEAN
  BY DEF Tab
<1>2. l \in Loads
  <2>1. t.begun + 1 \in Nat
    BY <1>1
  <2> QED
    BY <2>1, LoadFits
<1> DEFINE ls == t.loads \union {l}
           on == t.loading \/ Announced(kind)
           n == t.begun + 1
<1>3. u = [t EXCEPT !.begun = n, !.loads = ls, !.loading = on]
  BY DEF Begin
<1>4. ls \in SUBSET Loads /\ n \in Nat
  BY <1>1, <1>2
<1>5. on \in BOOLEAN
  BY <1>1, Zenon DEF Announced
<1>6. ls = t.loads \union {l} /\ n = t.begun + 1
  OBVIOUS
<1> HIDE DEF ls, n
<1>7. on = (t.loading \/ Announced(kind))
  OBVIOUS
<1> HIDE DEF on
<1>8. u \in Tab
  BY <1>3, <1>4, <1>5 DEF Tab
<1>9. /\ u.loads = ls /\ u.begun = n /\ u.loading = on
      /\ u.at = t.at /\ u.tenant = t.tenant /\ u.shown = t.shown /\ u.waits = t.waits /\ u.mine = t.mine
      /\ u.said = t.said /\ u.landed = t.landed /\ u.behind = t.behind
  BY <1>3 DEF Tab
<1> QED
  BY <1>6, <1>7, <1>8, <1>9

\* A load begins, of an active page, and perhaps because its run is over.
LEMMA BeginningKeeps ==
  ASSUME ClientInv, UNCHANGED <<live, runs, reports, jobs, selected, page, shell, moved>>, WorkerFits', JobsFit',
         tab.at = "open", page \in DOMAIN Reads,
         NEW t \in Tab, NEW kind \in Kinds, NEW at \in {"list", "acting", "reading"}, NEW w \in Tenants,
         /\ t.at = tab.at /\ t.tenant = tab.tenant /\ t.loads = tab.loads /\ t.loading = tab.loading
         /\ t.shown = tab.shown /\ t.begun = tab.begun /\ t.landed = tab.landed /\ t.behind = tab.behind
         /\ t.mine = tab.mine,
         \/ t.said = tab.said /\ t.waits = tab.waits
         \/ t.said = "completed" /\ ~t.waits /\ tab.waits /\ jobs[tab.mine].at = "succeeded" /\ at # "acting",
         tab' = Begin(t, kind, at, w),
         disturbed' = IF at = "reading" THEN disturbed /\ Reading ELSE disturbed,
         at = "acting" => kind = "act",
         kind = "act" => page \in ReadForTheOneTheyWereOn,
         at # "list" => tab.tenant # None /\ w # None /\ w \in {tab.tenant, jobs[tab.mine].of},
         at # "list" /\ w # tab.tenant => tab.waits,
         at # "list" /\ page \notin ReadForTheOneTheyWereOn => w = tab.tenant,
         page = "agents" => tab.loads = {} /\ ~t.waits,
         page = "queries" => IF tab.tenant = None THEN tab.loads = {} /\ at = "list" /\ kind \in ReadBefore
                             ELSE at = "reading"
  PROVE  ClientInv'
<1> DEFINE l == Load(t.begun + 1, kind, at, w)
<1>1. /\ tab' \in Tab /\ tab'.loads = tab.loads \union {l} /\ tab'.begun = tab.begun + 1
      /\ tab'.loading = (tab.loading \/ Announced(kind))
      /\ tab'.at = tab.at /\ tab'.tenant = tab.tenant /\ tab'.shown = tab.shown /\ tab'.waits = t.waits
      /\ tab'.mine = tab.mine /\ tab'.said = t.said /\ tab'.landed = tab.landed /\ tab'.behind = tab.behind
  BY Begun
<1>2. /\ l \in Loads /\ l.no = tab.begun + 1 /\ l.kind = kind /\ l.at = at /\ l.of = w /\ l.got = {}
      /\ at = "reading" => l.left = Reads[page]
  <2>1. t.begun + 1 \in Nat
    BY FieldsOfTab
  <2> QED
    BY <2>1, LoadFits
<1> HIDE DEF l
<1>3. WorkerFits' /\ JobsFit' /\ UNCHANGED <<live, runs, reports, jobs>>
  OBVIOUS
<1>4. UNCHANGED selected
  OBVIOUS
<1>5. ResolveActiveTenant' = ResolveActiveTenant
  BY <1>3, <1>4, ResolvedStays
<1>6. tab.begun \in Nat /\ tab.landed \in Nat /\ \A k \in tab.loads : k.no \in Nat /\ k.no <= tab.begun
  BY FieldsOfTab, FieldsOfLoad DEF ClientInv, LoadsFit
<1>7. TabFits'
  BY <1>1, <1>3, <1>4 DEF ClientInv, TabFits
<1>8. LoadsFit'
  <2>1. \A k \in tab.loads : k.no \in 1..(tab.begun + 1)
    BY <1>6 DEF ClientInv, LoadsFit
  <2>2. l.no \in 1..(tab.begun + 1)
    BY <1>2, <1>6
  <2>3. tab.landed <= tab.begun + 1
    BY <1>6 DEF ClientInv, LoadsFit
  <2> QED
    BY <1>1, <1>2, <2>1, <2>2, <2>3 DEF ClientInv, LoadsFit
<1>9. kind \in ReadBefore => tab'.loading
  BY <1>1 DEF ReadBefore, Announced
<1>10. AgentsFit'
  BY <1>1, <1>2, <1>9 DEF AgentsFit
<1>11. QueriesFit'
  <2>1. CASE page = "queries" /\ tab.tenant = None
    BY <1>1, <1>2, <1>9, <2>1 DEF QueriesFit
  <2>2. CASE page = "queries" /\ tab.tenant # None
    <3>1. w = tab.tenant /\ at = "reading"
      BY <2>2 DEF ReadForTheOneTheyWereOn
    <3>2. tab'.waits => jobs'[tab'.mine].of = tab.tenant
      BY <1>1, <1>3, <2>2 DEF ClientInv, QueriesFit
    <3> QED
      BY <1>1, <1>2, <2>2, <3>1, <3>2 DEF ClientInv, QueriesFit
  <2> QED
    BY <2>1, <2>2 DEF QueriesFit
<1>12. Reading' <=> (Reading \/ at = "reading")
  BY <1>1, <1>2 DEF Reading
<1>13. AnswersFit'
  <2>1. ASSUME NEW k \in tab'.loads, k.at = "reading", NEW v \in k.got
        PROVE  v.of = k.of /\ Current(v)'
    <3>1. k \in tab.loads
      BY <1>1, <1>2, <2>1
    <3>2. Reading /\ (v.of = k.of /\ Current(v))
      BY <2>1, <3>1 DEF Reading, ClientInv, AnswersFit
    <3>3. disturbed => disturbed'
      BY <3>2
    <3> QED
      BY <1>3, <3>2, <3>3 DEF Current, Left
  <2>2. ~tab'.behind /\ ~disturbed' /\ ~Reading' =>
          \A v, u \in tab'.shown : v.run = u.run \/ NoRun \in {v.run, u.run}
    BY <1>1, <1>12 DEF ClientInv, AnswersFit
  <2> QED
    BY <2>1, <2>2 DEF AnswersFit
<1>14. ShellFits'
  BY <1>1, <1>5 DEF ClientInv, ShellFits
<1>15. NamesFit'
  <2> SUFFICES ASSUME ~moved
               PROVE  /\ tab.tenant # None => tab.tenant = ResolveActiveTenant
                      /\ \A k \in tab'.loads : k.at # "list" => k.of = tab.tenant /\ tab.tenant = ResolveActiveTenant
                      /\ \A v \in tab.shown : v.of = tab.tenant /\ tab.tenant = ResolveActiveTenant
                      /\ tab'.waits => jobs[tab.mine].of = tab.tenant
    BY <1>1, <1>3, <1>5 DEF NamesFit
  <2>1. /\ tab.tenant # None => tab.tenant = ResolveActiveTenant
        /\ \A k \in tab.loads : k.at # "list" => k.of = tab.tenant /\ tab.tenant = ResolveActiveTenant
        /\ \A v \in tab.shown : v.of = tab.tenant /\ tab.tenant = ResolveActiveTenant
        /\ tab.waits => jobs[tab.mine].of = tab.tenant
    BY DEF ClientInv, NamesFit
  <2>2. at # "list" => w = tab.tenant
    BY <2>1
  <2>3. tab'.waits => tab.waits
    BY <1>1
  <2> QED
    BY <1>1, <1>2, <2>1, <2>2, <2>3
<1>16. ASSUME NEW W, NEW S, Since(tab, W, S), at = "reading" => w \in W
       PROVE  Since(tab', W, S)
  <2>1. tab.begun <= tab'.begun /\ tab'.begun \in Nat
    BY <1>1, <1>6
  <2>2. \A k \in tab'.loads : k.no \in Nat
    BY <1>1, <1>2, <1>6
  <2>3. \A k \in tab'.loads : k.at = "reading" =>
           \/ k.of \in W /\ k.got \subseteq S
           \/ \E m \in tab.loads : /\ m.at = "reading" /\ m.no = k.no
                                   /\ m.of \in W /\ m.got \subseteq S => k.of \in W /\ k.got \subseteq S
    BY <1>1, <1>2, <1>16
  <2>4. \A m \in tab.loads : m.at # "acting" => \E k \in tab'.loads : k.at # "acting" /\ m.no <= k.no
    BY <1>1, <1>6
  <2> QED
    BY <1>1, <1>6, <1>16, <2>1, <2>2, <2>3, <2>4, SinceGoesOn
<1>17. tab'.at = "open" /\ page' \notin ReadForTheOneTheyWereOn => Since(tab', {tab'.tenant}, OfThe(tab'.tenant))
  BY <1>1, <1>16 DEF ClientInv, LatestFit
<1>18. tab'.said = "completed" => Since(tab', Tenants, Enough')
  <2>1. Enough' = Enough
    BY <1>1, <1>3 DEF Enough
  <2>2. CASE tab.said = "completed"
    BY <1>16, <2>1, <2>2 DEF ClientInv, LatestFit
  <2>3. CASE at # "acting"
    <3>1. tab'.landed < tab'.begun /\ tab'.begun \in Nat /\ tab'.landed \in Nat
      BY <1>1, <1>6 DEF ClientInv, LoadsFit
    <3>2. l \in tab'.loads /\ l.no = tab'.begun /\ l.at # "acting"
      BY <1>1, <1>2, <2>3
    <3>3. \A k \in tab'.loads : k.at = "reading" /\ k.no >= tab'.begun => k.of \in Tenants /\ k.got \subseteq Enough
      <4> SUFFICES ASSUME NEW k \in tab'.loads, k.no >= tab'.begun
                   PROVE  k.of \in Tenants /\ k.got \subseteq Enough
        OBVIOUS
      <4>1. k = l
        BY <1>1, <1>6
      <4> QED
        BY <1>2, <4>1
    <3> QED
      BY <2>1, <3>1, <3>2, <3>3, SinceNow
  <2> QED
    BY <1>1, <2>2, <2>3
<1>19. LatestFit'
  BY <1>17, <1>18 DEF LatestFit
<1> QED
  BY <1>3, <1>7, <1>8, <1>10, <1>11, <1>13, <1>14, <1>15, <1>19 DEF ClientInv

LEMMA RefreshingKeeps ==
  ASSUME ClientInv, RefreshPage
  PROVE  ClientInv'
<1>1. /\ tab.at = "open" /\ page # "settings" /\ ~tab.loading
      /\ page \in LockedByRuns => ~Running
      /\ UNCHANGED <<worker, storage, page, shell>>
  BY DEF RefreshPage
<1>2. WorkerFits' /\ JobsFit' /\ UNCHANGED <<live, runs, reports, jobs, selected, page, shell>>
  BY <1>1, WorkerStays DEF storage
<1>3. page \in DOMAIN Reads /\ tab \in Tab
  BY <1>1, FieldsOfTab DEF ClientInv, TabFits
<1>4. page = "agents" => tab.loads = {} /\ ~tab.waits
  BY <1>1, NothingElseOnAgents DEF Running, LockedByRuns
<1>5. page = "queries" /\ tab.tenant = None => tab.loads = {}
  BY <1>1 DEF ClientInv, QueriesFit
<1>6. CASE page \in LookUpOnce /\ tab.tenant # None
  <2> DEFINE kind == "page"
             at == "reading"
             w == tab.tenant
  <2>1. /\ tab' = Begin(tab, kind, at, w) /\ disturbed' = (disturbed /\ Reading) /\ moved' = moved
    BY <1>6 DEF RefreshPage, Undisturbed
  <2>2. kind \in Kinds /\ at \in {"list", "acting", "reading"} /\ w \in Tenants
    BY FieldsOfTab DEF Kinds, ReadBefore
  <2>3. page = "queries"
    BY <1>6 DEF LookUpOnce
  <2>4. kind # "act" /\ at = "reading" /\ w = tab.tenant
    OBVIOUS
  <2> HIDE DEF kind, at, w
  <2> QED
    BY <1>1, <1>2, <1>3, <1>6, <2>1, <2>2, <2>3, <2>4, BeginningKeeps
<1>7. CASE ~(page \in LookUpOnce /\ tab.tenant # None)
  <2> DEFINE kind == IF tab.tenant = None THEN "first" ELSE "page"
             at == "list"
             w == None
  <2>1. /\ tab' = Begin(tab, kind, at, w) /\ disturbed' = disturbed /\ moved' = moved
    BY <1>7 DEF RefreshPage, witnesses
  <2>2. kind \in ReadBefore /\ at \in {"list", "acting", "reading"} /\ w \in Tenants
    BY DEF ReadBefore, Tenants
  <2>3. page = "queries" => tab.tenant = None
    BY <1>7 DEF LookUpOnce
  <2>4. kind \in Kinds /\ kind # "act"
    BY <2>2 DEF Kinds, ReadBefore
  <2>5. at = "list"
    OBVIOUS
  <2> HIDE DEF kind, at, w
  <2> QED
    BY <1>1, <1>2, <1>3, <1>4, <1>5, <2>1, <2>2, <2>3, <2>4, <2>5, BeginningKeeps
<1> QED
  BY <1>6, <1>7

LEMMA ActingKeeps ==
  ASSUME ClientInv, Act
  PROVE  ClientInv'
<1>1. /\ tab.at = "open" /\ tab.shown # {} /\ page \in {"execution", "monitoring"}
      /\ UNCHANGED <<worker, storage, page, shell, moved, disturbed>>
  BY DEF Act, witnesses
<1>2. WorkerFits' /\ JobsFit' /\ UNCHANGED <<live, runs, reports, jobs, selected, page, shell, moved>>
  BY <1>1, WorkerStays DEF storage
<1>3. page \in DOMAIN Reads /\ tab \in Tab /\ tab.tenant \in Tenants
  BY <1>1, FieldsOfTab DEF ClientInv, TabFits
<1>4. tab.tenant # None
  BY <1>1 DEF ClientInv, LoadsFit
<1> DEFINE kind == "act"
           at == "acting"
<1>5. tab' = Begin(tab, kind, at, tab.tenant)
  BY DEF Act
<1>6. kind \in Kinds /\ at \in {"list", "acting", "reading"} /\ at # "reading" /\ page \in ReadForTheOneTheyWereOn
  BY <1>1 DEF Kinds, ReadForTheOneTheyWereOn
<1>7. kind = "act"
  OBVIOUS
<1> HIDE DEF kind, at
<1> QED
  BY <1>1, <1>2, <1>3, <1>4, <1>5, <1>6, <1>7, BeginningKeeps

LEMMA RefreshAfterRunKeeps ==
  ASSUME ClientInv, PollSucceeded
  PROVE  ClientInv'
<1>1. /\ tab.at = "open" /\ tab.tenant # None /\ tab.waits
      /\ tab.mine # None /\ page \in DOMAIN Refresh
      /\ jobs[tab.mine].at = "succeeded"
  BY LoadsAreOpen DEF PollSucceeded, ClientInv, TabFits
<1>2. page \in DOMAIN Reads /\ page # "settings"
  BY <1>1, ReadsFit
<1>3. UNCHANGED <<worker, storage, page, shell>> /\ moved' = moved
  BY DEF PollSucceeded, RefreshAfterRun, witnesses, Undisturbed
<1>4. WorkerFits' /\ JobsFit' /\ UNCHANGED <<live, runs, reports, jobs, selected, page, shell, moved>>
  BY <1>3, WorkerStays DEF storage
<1> DEFINE none == 0
           off == FALSE
           done == "completed"
           t == [tab EXCEPT !.waits = off, !.failures = none, !.said = done]
<1>5. /\ none \in 0..(Patience - 1) /\ off \in BOOLEAN /\ done \in {"nothing", "failed", "completed"}
      /\ ~off /\ done = "completed"
  BY FieldsOfTab
<1>6. \/ /\ Refresh[page] = "again"
         /\ tab' = Begin(t, "run", "list", None) /\ disturbed' = disturbed
      \/ /\ Refresh[page] # "again"
         /\ tab' = Begin(t, "run", "reading", jobs[tab.mine].of)
         /\ disturbed' = (disturbed /\ Reading)
  BY DEF PollSucceeded, RefreshAfterRun, witnesses, Undisturbed
<1> HIDE DEF none, off, done
<1>7. t \in Tab
  BY <1>5, FieldsOfTab DEF Tab
<1>8. /\ t.at = tab.at /\ t.tenant = tab.tenant /\ t.loads = tab.loads /\ t.loading = tab.loading
      /\ t.shown = tab.shown /\ t.begun = tab.begun /\ t.landed = tab.landed /\ t.behind = tab.behind
      /\ t.mine = tab.mine /\ t.said = "completed" /\ ~t.waits
  BY <1>5, FieldsOfTab DEF Tab
<1> HIDE DEF t
<1> DEFINE kind == "run"
<1>9. kind \in Kinds /\ kind # "act"
  BY DEF Kinds
<1>10. page = "agents" => tab.loads = {} /\ jobs[tab.mine].of = tab.tenant
  BY <1>1 DEF ClientInv, AgentsFit
<1>11. page = "queries" => jobs[tab.mine].of = tab.tenant
  BY <1>1 DEF ClientInv, QueriesFit
<1>12. jobs[tab.mine].of \in Workspaces /\ jobs[tab.mine].of \in Tenants /\ jobs[tab.mine].of # None
  <2>1. tab.mine \in DOMAIN jobs
    BY <1>1, LoadsAreOpen
  <2>2. None \notin Workspaces
    BY Resolved DEF ClientInv
  <2> QED
    BY <2>1, <2>2, JobsAreJobs DEF Tenants
<1>13. CASE Refresh[page] = "again"
  <2> DEFINE at == "list"
             w == None
  <2>1. tab' = Begin(t, kind, at, w) /\ disturbed' = disturbed
    BY <1>6, <1>13
  <2>2. at = "list" /\ at \in {"list", "acting", "reading"} /\ w \in Tenants
    BY DEF Tenants
  <2>3. page # "queries" /\ page # "agents"
    BY <1>13, ReadsFit
  <2> HIDE DEF kind, at, w
  <2> QED
    BY <1>1, <1>2, <1>4, <1>7, <1>8, <1>9, <2>1, <2>2, <2>3, BeginningKeeps
<1>14. CASE Refresh[page] # "again"
  <2> DEFINE at == "reading"
             w == jobs[tab.mine].of
  <2>1. tab' = Begin(t, kind, at, w) /\ disturbed' = (disturbed /\ Reading)
    BY <1>6, <1>14
  <2>2. at = "reading" /\ at \in {"list", "acting", "reading"} /\ w \in Tenants /\ w # None
    BY <1>12
  <2>3. page \notin ReadForTheOneTheyWereOn => page \in {"agents", "queries"}
    BY <1>1, <1>14 DEF Refresh, ReadForTheOneTheyWereOn, AiVisibilityRefresh
  <2>4. page \notin ReadForTheOneTheyWereOn => w = tab.tenant
    BY <1>10, <1>11, <2>3
  <2>5. w \in {tab.tenant, jobs[tab.mine].of}
    OBVIOUS
  <2> HIDE DEF kind, at, w
  <2>6. page = "agents" => tab.loads = {} /\ ~t.waits
    BY <1>8, <1>10
  <2> QED
    BY <1>1, <1>2, <1>4, <1>7, <1>8, <1>9, <2>1, <2>2, <2>4, <2>5, <2>6, BeginningKeeps
<1> QED
  BY <1>13, <1>14

-----------------------------------------------------------------------------
(* Steps of the page: its loads go on.                                     *)

\* A load begins to read: of the active workspace, or of the one it acted on.
LEMMA ReadingBegins ==
  ASSUME ClientInv, UNCHANGED <<worker, storage, page, shell>>,
         NEW l \in tab.loads, l.at # "reading", NEW w \in Tenants, StartReading(l, w),
         l.at = "list" => w = ResolveActiveTenant /\ (w # None \/ page = "settings"),
         l.at = "acting" => w = l.of
  PROVE  ClientInv'
<1> DEFINE new == Load(tab.begun + 1, l.kind, "reading", w)
           x == IF l.at = "list" THEN w ELSE tab.tenant
           n == tab.begun + 1
           ls == (tab.loads \ {l}) \union {new}
<1>1. /\ tab' = [tab EXCEPT !.tenant = x, !.begun = n, !.loads = ls]
      /\ disturbed' = (disturbed /\ Reading) /\ moved' = moved
  BY DEF StartReading, Undisturbed
<1>2. /\ tab \in Tab /\ tab.begun \in Nat /\ tab.landed \in Nat /\ tab.tenant \in Tenants
      /\ \A k \in tab.loads : k \in Loads /\ k.no \in Nat /\ k.no <= tab.begun
  BY FieldsOfTab, FieldsOfLoad DEF ClientInv, LoadsFit
<1>3. tab.at = "open" /\ page \in DOMAIN Reads /\ l \in Loads
  BY <1>2, LoadsAreOpen
<1>4. /\ new \in Loads /\ new.no = tab.begun + 1 /\ new.kind = l.kind /\ new.at = "reading" /\ new.of = w
      /\ new.got = {} /\ new.left = Reads[page]
  <2>1. tab.begun + 1 \in Nat /\ l.kind \in Kinds
    BY <1>2, <1>3, FieldsOfLoad
  <2> QED
    BY <1>3, <2>1, LoadFits
<1> HIDE DEF new
<1>5. ls \in SUBSET Loads /\ x \in Tenants /\ n \in Nat
  BY <1>2, <1>4
<1>6. \A k : k \in ls <=> (k = new \/ (k \in tab.loads /\ k # l))
  OBVIOUS
<1>7. /\ n = tab.begun + 1 /\ (l.at = "list" => x = w) /\ (l.at # "list" => x = tab.tenant)
  OBVIOUS
<1> HIDE DEF ls, x, n
<1>8. /\ tab' \in Tab /\ tab'.tenant = x /\ tab'.begun = n /\ tab'.loads = ls
      /\ tab'.at = tab.at /\ tab'.loading = tab.loading /\ tab'.shown = tab.shown /\ tab'.waits = tab.waits
      /\ tab'.mine = tab.mine /\ tab'.said = tab.said /\ tab'.landed = tab.landed /\ tab'.behind = tab.behind
  BY <1>1, <1>2, <1>5 DEF Tab
<1>9. WorkerFits' /\ JobsFit' /\ UNCHANGED <<live, runs, reports, jobs, selected>>
  BY WorkerStays DEF storage
<1>10. ResolveActiveTenant' = ResolveActiveTenant
  BY <1>9, ResolvedStays
<1>11. l.at \in {"list", "acting"} /\ (l.at = "acting" => l.kind = "act" /\ page \in ReadForTheOneTheyWereOn)
  BY <1>3, FieldsOfLoad DEF ClientInv, LoadsFit
<1>12. page # "settings" => w # None /\ x # None
  <2>1. page # "settings" /\ l.at = "acting" => l.of # None /\ tab.tenant # None
    BY DEF ClientInv, LoadsFit
  <2> QED
    BY <1>7, <1>11, <2>1
<1>13. TabFits'
  <2>1. tab.waits => tab'.tenant # None
    <3>1. tab.waits => page # "settings"
      BY LoadsAreOpen, ReadsFit
    <3> QED
      BY <1>8, <1>12, <3>1
  <2> QED
    BY <1>3, <1>8, <1>9, <2>1 DEF ClientInv, TabFits
<1>14. LoadsFit'
  <2>1. \A k \in ls : k.no \in 1..n
    BY <1>2, <1>4, <1>6, <1>7 DEF ClientInv, LoadsFit
  <2>2. tab.landed <= n
    BY <1>2, <1>7 DEF ClientInv, LoadsFit
  <2>3. \A k \in ls : /\ k.at = "reading" => k.left \subseteq Reads[page]
                      /\ k.at = "acting" => k.kind = "act"
                      /\ k.kind = "act" => page \in ReadForTheOneTheyWereOn
                      /\ k.at # "list" /\ page # "settings" => k.of # None
    BY <1>4, <1>6, <1>12 DEF ClientInv, LoadsFit
  <2> QED
    BY <1>8, <1>12, <2>1, <2>2, <2>3 DEF LoadsFit
<1>15. AgentsFit'
  BY <1>4, <1>6, <1>8 DEF ClientInv, AgentsFit
<1>16. QueriesFit'
  <2> SUFFICES ASSUME page = "queries" PROVE QueriesFit'
    BY DEF QueriesFit
  <2>1. l.at = "list" /\ tab.tenant = None
    BY <1>3, <1>11 DEF ReadForTheOneTheyWereOn, ClientInv, QueriesFit
  <2>2. tab.shown = {} /\ ~tab.waits
    BY <2>1 DEF ClientInv, LoadsFit, TabFits
  <2>3. \A k \in tab.loads : k = l
    BY <1>3, <2>1 DEF ClientInv, QueriesFit
  <2>4. x = w /\ w # None
    BY <1>7, <1>12, <2>1
  <2> QED
    BY <1>4, <1>6, <1>8, <2>2, <2>3, <2>4 DEF QueriesFit
<1>17. Reading'
  BY <1>4, <1>6, <1>8 DEF Reading
<1>18. AnswersFit'
  <2>1. ASSUME NEW k \in tab'.loads, k.at = "reading", NEW v \in k.got
        PROVE  v.of = k.of /\ Current(v)'
    <3>1. k \in tab.loads
      BY <1>4, <1>6, <1>8, <2>1
    <3>2. Reading /\ (v.of = k.of /\ Current(v))
      BY <2>1, <3>1 DEF Reading, ClientInv, AnswersFit
    <3>3. disturbed => disturbed'
      BY <1>1, <3>2
    <3> QED
      BY <1>9, <3>2, <3>3 DEF Current, Left
  <2> QED
    BY <1>17, <2>1 DEF AnswersFit
<1>19. ShellFits'
  BY <1>1, <1>8, <1>10 DEF ClientInv, ShellFits
<1>20. NamesFit'
  <2> SUFFICES ASSUME ~moved
               PROVE  /\ x # None => x = ResolveActiveTenant
                      /\ \A k \in ls : k.at # "list" => k.of = x /\ x = ResolveActiveTenant
                      /\ \A v \in tab.shown : v.of = x /\ x = ResolveActiveTenant
                      /\ tab.waits => jobs[tab.mine].of = x
    BY <1>1, <1>8, <1>9, <1>10 DEF NamesFit
  <2>1. /\ tab.tenant # None => tab.tenant = ResolveActiveTenant
        /\ \A k \in tab.loads : k.at # "list" => k.of = tab.tenant /\ tab.tenant = ResolveActiveTenant
        /\ \A v \in tab.shown : v.of = tab.tenant /\ tab.tenant = ResolveActiveTenant
        /\ tab.waits => jobs[tab.mine].of = tab.tenant /\ tab.tenant # None
    BY <1>3 DEF ClientInv, NamesFit, TabFits
  <2>2. CASE l.at = "list"
    BY <1>4, <1>6, <1>7, <2>1, <2>2
  <2>3. CASE l.at = "acting"
    BY <1>4, <1>6, <1>7, <2>1, <2>3
  <2> QED
    BY <1>11, <2>2, <2>3
<1>21. tab'.begun \in Nat /\ tab'.landed \in Nat /\ tab'.landed < tab'.begun /\ new \in tab'.loads
       /\ new.no = tab'.begun /\ \A k \in tab'.loads : k.no \in Nat /\ (k.no >= tab'.begun => k = new)
  <2>1. tab.landed <= tab.begun
    BY DEF ClientInv, LoadsFit
  <2> QED
    BY <1>2, <1>4, <1>6, <1>7, <1>8, <2>1
<1>22. page \notin ReadForTheOneTheyWereOn => Since(tab', {tab'.tenant}, OfThe(tab'.tenant))
  <2> SUFFICES ASSUME page \notin ReadForTheOneTheyWereOn PROVE Since(tab', {w}, OfThe(w))
    BY <1>7, <1>8, <1>11
  <2>1. \A k \in tab'.loads : k.at = "reading" /\ k.no >= tab'.begun => k.of \in {w} /\ k.got \subseteq OfThe(w)
    BY <1>4, <1>21
  <2>2. new.at # "acting"
    BY <1>4
  <2> QED
    BY <1>21, <2>1, <2>2, SinceNow
<1>23. tab'.said = "completed" => Since(tab', Tenants, Enough')
  <2> SUFFICES ASSUME tab.said = "completed" PROVE Since(tab', Tenants, Enough)
    BY <1>8, <1>9 DEF Enough
  <2>1. Since(tab, Tenants, Enough)
    BY DEF ClientInv, LatestFit
  <2>2. tab.begun <= tab'.begun
    BY <1>2, <1>7, <1>8
  <2>3. \A k \in tab'.loads : k.at = "reading" =>
           \/ k.of \in Tenants /\ k.got \subseteq Enough
           \/ \E m \in tab.loads : /\ m.at = "reading" /\ m.no = k.no
                                   /\ m.of \in Tenants /\ m.got \subseteq Enough => k.of \in Tenants /\ k.got \subseteq Enough
    <3>1. ASSUME NEW k \in tab'.loads, k.at = "reading", k = new
          PROVE  k.of \in Tenants /\ k.got \subseteq Enough
      <4>1. k.of \in Tenants
        BY <1>4, <3>1
      <4>2. k.got = {}
        BY <1>4, <3>1
      <4> QED
        BY <4>1, <4>2
    <3>2. \A k \in tab'.loads : k = new \/ k \in tab.loads
      BY <1>6, <1>8
    <3> QED
      BY <3>1, <3>2, Zenon
  <2>4. \A m \in tab.loads : m.at # "acting" => \E k \in tab'.loads : k.at # "acting" /\ m.no <= k.no
    <3> SUFFICES ASSUME NEW m \in tab.loads, m.at # "acting"
                 PROVE  \E k \in tab'.loads : k.at # "acting" /\ m.no <= k.no
      OBVIOUS
    <3>1. new.at # "acting" /\ m.no <= new.no /\ new \in tab'.loads
      BY <1>2, <1>4, <1>21
    <3> QED
      BY <3>1
  <2>5. tab'.landed = tab.landed /\ tab'.behind = tab.behind /\ tab'.shown = tab.shown
    BY <1>8
  <2> QED
    BY <1>2, <1>21, <2>1, <2>2, <2>3, <2>4, <2>5, SinceGoesOn
<1>24. LatestFit'
  BY <1>8, <1>22, <1>23 DEF LatestFit
<1> QED
  BY <1>9, <1>13, <1>14, <1>15, <1>16, <1>18, <1>19, <1>20, <1>24 DEF ClientInv

LEMMA ActAnsweredKeeps ==
  ASSUME ClientInv, NEW l \in tab.loads, ActIsAnswered(l)
  PROVE  ClientInv'
<1>1. /\ l.at = "acting" /\ StartReading(l, l.of) /\ UNCHANGED <<worker, storage, page, shell>>
  BY DEF ActIsAnswered
<1>2. l.of \in Tenants
  BY FieldsOfTab, FieldsOfLoad
<1> QED
  BY <1>1, <1>2, ReadingBegins

-----------------------------------------------------------------------------
(* Steps of the page: its loads end.                                       *)

\* A load ends: before it read, with an error, or with what the page shows from then on.
LEMMA EndingKeeps ==
  ASSUME ClientInv, UNCHANGED <<worker, storage, page, shell, witnesses>>,
         NEW l \in tab.loads, tab' \in Tab,
         tab'.at = tab.at, tab'.tenant = tab.tenant, tab'.waits = tab.waits, tab'.mine = tab.mine,
         tab'.begun = tab.begun, tab'.loads = tab.loads \ {l},
         tab'.said = tab.said \/ tab'.said = "failed",
         NEW latest, latest = (IF l.no > tab.landed THEN l.no ELSE tab.landed),
         \/ /\ l.at = "acting" /\ tab'.landed = tab.landed /\ tab'.behind = tab.behind
            /\ tab'.shown = tab.shown
         \/ tab'.landed = latest /\ tab'.behind /\ tab'.shown = tab.shown
         \/ /\ l.at = "reading" /\ tab'.landed = latest /\ tab'.behind = (l.no < tab.landed)
            /\ \A v \in tab'.shown : v \in Shown /\ v.of = l.of /\ Current(v)
            /\ tab.said = "completed" /\ l.got \subseteq Enough => tab'.shown \subseteq Enough
  PROVE  ClientInv'
<1> DEFINE gaveUp == /\ l.at = "acting" /\ tab'.landed = tab.landed /\ tab'.behind = tab.behind
                     /\ tab'.shown = tab.shown
           failed == tab'.landed = latest /\ tab'.behind /\ tab'.shown = tab.shown
           succeeded == /\ l.at = "reading" /\ tab'.landed = latest /\ tab'.behind = (l.no < tab.landed)
                        /\ \A v \in tab'.shown : v \in Shown /\ v.of = l.of /\ Current(v)
                        /\ tab.said = "completed" /\ l.got \subseteq Enough => tab'.shown \subseteq Enough
<1>1. gaveUp \/ failed \/ succeeded
  OBVIOUS
<1>2. WorkerFits' /\ JobsFit' /\ UNCHANGED <<live, runs, reports, jobs>>
  BY WorkerStays
<1>3. UNCHANGED <<selected, moved, disturbed>>
  BY DEF storage, witnesses
<1>4. ResolveActiveTenant' = ResolveActiveTenant
  BY <1>2, <1>3, ResolvedStays
<1>5. /\ tab.begun \in Nat /\ tab.landed \in Nat /\ tab.landed <= tab.begun
      /\ \A k \in tab.loads : k.no \in Nat /\ k.no <= tab.begun
  BY FieldsOfTab, FieldsOfLoad DEF ClientInv, LoadsFit
<1>6. latest \in Nat /\ latest <= tab.begun /\ latest >= l.no
  BY <1>5
<1>7. tab.at = "open" /\ page \in DOMAIN Reads
  BY LoadsAreOpen
<1>8. TabFits'
  BY <1>2, <1>3, <1>7 DEF ClientInv, TabFits
<1>9. tab'.landed <= tab'.begun
  BY <1>1, <1>5, <1>6
<1>10. tab.tenant = None /\ page # "settings" => l.at = "list" /\ tab.shown = {}
  BY DEF ClientInv, LoadsFit
<1>11. tab.tenant = None /\ page # "settings" => tab'.shown = {}
  BY <1>1, <1>10
<1>12. LoadsFit'
  BY <1>9, <1>11 DEF ClientInv, LoadsFit
<1>13. AgentsFit'
  <2>1. page = "agents" => tab'.loads = {} /\ ~tab.waits
    BY DEF ClientInv, AgentsFit
  <2> QED
    BY <2>1 DEF AgentsFit
<1>14. QueriesFit'
  <2> SUFFICES ASSUME page = "queries" PROVE QueriesFit'
    BY DEF QueriesFit
  <2>1. CASE tab.tenant = None
    <3>1. tab'.loads = {}
      BY <1>7, <2>1 DEF ClientInv, QueriesFit
    <3> QED
      BY <2>1, <3>1 DEF QueriesFit
  <2>2. CASE tab.tenant # None
    <3>1. /\ \A k \in tab.loads : k.at = "reading" /\ k.of = tab.tenant
          /\ \A v \in tab.shown : v.of = tab.tenant
          /\ tab.waits => jobs[tab.mine].of = tab.tenant
      BY <1>7, <2>2 DEF ClientInv, QueriesFit
    <3>2. \A v \in tab'.shown : v.of = tab.tenant
      BY <1>1, <3>1
    <3> QED
      BY <1>2, <2>2, <3>1, <3>2 DEF QueriesFit
  <2> QED
    BY <2>1, <2>2
<1>15. \A v : Current(v)' = Current(v)
  BY <1>2, <1>3 DEF Current, Left
<1>16. AnswersFit'
  <2>1. ASSUME ~tab'.behind, ~disturbed, ~Reading', NEW v \in tab'.shown, NEW u \in tab'.shown
        PROVE  v.run = u.run \/ NoRun \in {v.run, u.run}
    <3>1. CASE gaveUp
      <4>1. ~Reading
        BY <2>1, <3>1 DEF Reading
      <4>2. v \in tab.shown /\ u \in tab.shown /\ ~tab.behind
        BY <2>1, <3>1
      <4> QED
        BY <2>1, <4>1, <4>2 DEF ClientInv, AnswersFit
    <3>2. CASE succeeded
      <4>1. v.of = l.of /\ Current(v) /\ u.of = l.of /\ Current(u)
        BY <2>1, <3>2
      <4> QED
        BY <2>1, <4>1 DEF Current
    <3> QED
      BY <1>1, <2>1, <3>1, <3>2
  <2>2. \A k \in tab'.loads : k.at = "reading" => \A v \in k.got : v.of = k.of /\ Current(v)'
    BY <1>15 DEF ClientInv, AnswersFit
  <2> QED
    BY <1>3, <2>1, <2>2 DEF AnswersFit
<1>17. ShellFits'
  BY <1>3, <1>4 DEF ClientInv, ShellFits
<1>18. NamesFit'
  <2> SUFFICES ASSUME ~moved PROVE NamesFit'
    BY <1>3 DEF NamesFit
  <2>1. /\ tab.tenant # None => tab.tenant = ResolveActiveTenant
        /\ \A k \in tab.loads : k.at # "list" => k.of = tab.tenant /\ tab.tenant = ResolveActiveTenant
        /\ \A v \in tab.shown : v.of = tab.tenant /\ tab.tenant = ResolveActiveTenant
        /\ tab.waits => jobs[tab.mine].of = tab.tenant
    BY <1>7 DEF ClientInv, NamesFit
  <2>2. \A v \in tab'.shown : v.of = tab.tenant /\ tab.tenant = ResolveActiveTenant
    BY <1>1, <2>1
  <2> QED
    BY <1>2, <1>4, <2>1, <2>2 DEF NamesFit
<1>19. ASSUME NEW W, NEW S, Since(tab, W, S),
              succeeded /\ l.of \in W /\ l.got \subseteq S => tab'.shown \subseteq S
       PROVE  Since(tab', W, S)
  <2>1. CASE gaveUp
    <3>1. /\ tab'.landed = tab.landed /\ tab'.behind = tab.behind /\ tab'.shown = tab.shown
          /\ l.at = "acting"
      BY <2>1
    <3>2. \A k \in tab'.loads : k \in tab.loads
      OBVIOUS
    <3>3. \A k \in tab.loads : k.at # "acting" => \E m \in tab'.loads : m.at # "acting" /\ k.no <= m.no
      <4> SUFFICES ASSUME NEW k \in tab.loads, k.at # "acting"
                   PROVE  \E m \in tab'.loads : m.at # "acting" /\ k.no <= m.no
        OBVIOUS
      <4>1. k \in tab'.loads /\ k.no <= k.no
        BY <1>5, <3>1
      <4> QED
        BY <4>1
    <3>4. \A k \in tab'.loads : k.at = "reading" =>
             \/ k.of \in W /\ k.got \subseteq S
             \/ \E m \in tab.loads : /\ m.at = "reading" /\ m.no = k.no
                                     /\ m.of \in W /\ m.got \subseteq S => k.of \in W /\ k.got \subseteq S
      BY <3>2, Zenon
    <3>5. \A k \in tab'.loads : k.no \in Nat
      BY <1>5
    <3> QED
      BY <1>5, <1>19, <3>1, <3>3, <3>4, <3>5, SinceGoesOn
  <2>2. CASE ~gaveUp
    <3>1. /\ tab'.landed = latest
          /\ tab'.behind \/ /\ l.no >= tab.landed /\ l.at = "reading"
                            /\ l.of \in W /\ l.got \subseteq S => tab'.shown \subseteq S
      <4>1. CASE failed
        BY <4>1
      <4>2. CASE succeeded
        <5>1. l.of \in W /\ l.got \subseteq S => tab'.shown \subseteq S
          BY <1>19, <4>2, Zenon
        <5>2. l.at = "reading" /\ tab'.landed = latest /\ tab'.behind = (l.no < tab.landed)
          BY <4>2
        <5>3. l.no < tab.landed \/ l.no >= tab.landed
          BY <1>5
        <5> HIDE DEF succeeded
        <5> QED
          BY <5>1, <5>2, <5>3
      <4> QED
        BY <1>1, <2>2, <4>1, <4>2
    <3>2. l.no \in Nat
      BY <1>5
    <3> QED
      BY <1>5, <1>19, <3>1, <3>2, SinceLands
  <2> QED
    BY <2>1, <2>2
<1>20. page \notin ReadForTheOneTheyWereOn => Since(tab', {tab'.tenant}, OfThe(tab'.tenant))
  <2> SUFFICES ASSUME page \notin ReadForTheOneTheyWereOn PROVE Since(tab', {tab.tenant}, OfThe(tab.tenant))
    OBVIOUS
  <2>1. Since(tab, {tab.tenant}, OfThe(tab.tenant))
    BY <1>7 DEF ClientInv, LatestFit
  <2>2. succeeded /\ l.of \in {tab.tenant} => tab'.shown \subseteq OfThe(tab.tenant)
    BY DEF OfThe
  <2> HIDE DEF succeeded
  <2> QED
    BY <1>19, <2>1, <2>2
<1>21. tab'.said = "completed" => Since(tab', Tenants, Enough')
  <2> SUFFICES ASSUME tab.said = "completed" PROVE Since(tab', Tenants, Enough)
    BY <1>2 DEF Enough
  <2>1. Since(tab, Tenants, Enough)
    BY DEF ClientInv, LatestFit
  <2>2. succeeded /\ l.got \subseteq Enough => tab'.shown \subseteq Enough
    OBVIOUS
  <2> HIDE DEF succeeded
  <2> QED
    BY <1>19, <2>1, <2>2
<1>22. LatestFit'
  BY <1>20, <1>21 DEF LatestFit
<1> QED
  BY <1>2, <1>8, <1>12, <1>13, <1>14, <1>16, <1>17, <1>18, <1>22 DEF ClientInv

LEMMA EndedFits ==
  ASSUME ClientInv, NEW l \in tab.loads, NEW t, t = Ended(l)
  PROVE  /\ t \in Tab /\ t.at = tab.at /\ t.tenant = tab.tenant /\ t.waits = tab.waits /\ t.mine = tab.mine
         /\ t.begun = tab.begun /\ t.loads = tab.loads \ {l} /\ t.said = tab.said
         /\ t.landed = tab.landed /\ t.behind = tab.behind /\ t.shown = tab.shown
<1> DEFINE ls == tab.loads \ {l}
           on == tab.loading /\ ~Announced(l.kind)
<1>1. t = [tab EXCEPT !.loads = ls, !.loading = on]
  BY DEF Ended
<1>2. ls \in SUBSET Loads
  BY FieldsOfTab
<1>3. on \in BOOLEAN
  BY FieldsOfTab, Zenon DEF Announced
<1>4. ls = tab.loads \ {l}
  OBVIOUS
<1> HIDE DEF ls, on
<1>5. t \in Tab /\ t.loads = ls
  BY <1>1, <1>2, <1>3, FieldsOfTab DEF Tab
<1>6. /\ t.at = tab.at /\ t.tenant = tab.tenant /\ t.waits = tab.waits /\ t.mine = tab.mine
      /\ t.begun = tab.begun /\ t.said = tab.said
      /\ t.landed = tab.landed /\ t.behind = tab.behind /\ t.shown = tab.shown
  BY <1>1
<1> QED
  BY <1>4, <1>5, <1>6

LEMMA LandedFits ==
  ASSUME ClientInv, NEW l \in tab.loads, NEW t, t = Landed(l)
  PROVE  /\ t \in Tab /\ t.at = tab.at /\ t.tenant = tab.tenant /\ t.waits = tab.waits /\ t.mine = tab.mine
         /\ t.begun = tab.begun /\ t.loads = tab.loads \ {l} /\ t.said = tab.said
         /\ t.landed = (IF l.no > tab.landed THEN l.no ELSE tab.landed)
         /\ t.behind = tab.behind /\ t.shown = tab.shown
<1> DEFINE e == Ended(l)
           n == IF l.no > tab.landed THEN l.no ELSE tab.landed
<1>1. /\ e \in Tab /\ e.at = tab.at /\ e.tenant = tab.tenant /\ e.waits = tab.waits /\ e.mine = tab.mine
      /\ e.begun = tab.begun /\ e.loads = tab.loads \ {l} /\ e.said = tab.said
      /\ e.landed = tab.landed /\ e.behind = tab.behind /\ e.shown = tab.shown
  BY EndedFits
<1>2. n \in Nat
  BY FieldsOfTab, FieldsOfLoad
<1>3. t = [e EXCEPT !.landed = IF l.no > e.landed THEN l.no ELSE e.landed]
  BY DEF Landed
<1> HIDE DEF e
<1>4. t = [e EXCEPT !.landed = n]
  BY <1>1, <1>3
<1>5. n = (IF l.no > tab.landed THEN l.no ELSE tab.landed)
  OBVIOUS
<1> HIDE DEF n
<1>6. t \in Tab /\ t.landed = n
  BY <1>1, <1>2, <1>4 DEF Tab
<1>7. /\ t.at = e.at /\ t.tenant = e.tenant /\ t.waits = e.waits /\ t.mine = e.mine
      /\ t.begun = e.begun /\ t.loads = e.loads /\ t.said = e.said
      /\ t.behind = e.behind /\ t.shown = e.shown
  BY <1>4
<1> QED
  BY <1>1, <1>5, <1>6, <1>7

LEMMA FailingKeeps ==
  ASSUME ClientInv, NEW l \in tab.loads, tab' = Failed(l),
         UNCHANGED <<worker, storage, page, shell, witnesses>>
  PROVE  ClientInv'
<1> DEFINE latest == IF l.no > tab.landed THEN l.no ELSE tab.landed
<1>1. CASE l.at = "acting"
  <2>1. tab' = Ended(l)
    BY <1>1 DEF Failed
  <2>2. /\ tab' \in Tab /\ tab'.at = tab.at /\ tab'.tenant = tab.tenant /\ tab'.waits = tab.waits
        /\ tab'.mine = tab.mine /\ tab'.begun = tab.begun /\ tab'.loads = tab.loads \ {l}
        /\ tab'.said = tab.said /\ tab'.landed = tab.landed /\ tab'.behind = tab.behind
        /\ tab'.shown = tab.shown
    BY <2>1, EndedFits
  <2>3. latest = (IF l.no > tab.landed THEN l.no ELSE tab.landed)
    OBVIOUS
  <2> HIDE DEF latest
  <2> QED
    BY <1>1, <2>2, <2>3, EndingKeeps
<1>2. CASE l.at # "acting"
  <2> DEFINE t == Landed(l)
             yes == TRUE
             failed == "failed"
             s == IF l.kind = "run" /\ page \in ReadForTheOneTheyWereOn THEN failed ELSE tab.said
  <2>1. /\ t \in Tab /\ t.at = tab.at /\ t.tenant = tab.tenant /\ t.waits = tab.waits /\ t.mine = tab.mine
        /\ t.begun = tab.begun /\ t.loads = tab.loads \ {l} /\ t.said = tab.said
        /\ t.landed = latest /\ t.behind = tab.behind /\ t.shown = tab.shown
    BY LandedFits
  <2>2. tab' = [t EXCEPT !.behind = yes,
                         !.said = IF l.kind = "run" /\ page \in ReadForTheOneTheyWereOn THEN failed ELSE t.said]
    BY <1>2 DEF Failed
  <2>3. s \in {"nothing", "failed", "completed"} /\ yes \in BOOLEAN /\ yes
        /\ (s = tab.said \/ s = "failed")
    BY FieldsOfTab
  <2> HIDE DEF t
  <2>4. tab' = [t EXCEPT !.behind = yes, !.said = s]
    BY <2>1, <2>2
  <2> HIDE DEF s, yes, failed
  <2>5. tab' \in Tab /\ tab'.behind = yes /\ tab'.said = s
    BY <2>1, <2>3, <2>4 DEF Tab
  <2>6. /\ tab'.at = t.at /\ tab'.tenant = t.tenant /\ tab'.waits = t.waits /\ tab'.mine = t.mine
        /\ tab'.begun = t.begun /\ tab'.loads = t.loads /\ tab'.landed = t.landed /\ tab'.shown = t.shown
    BY <2>4
  <2>7. latest = (IF l.no > tab.landed THEN l.no ELSE tab.landed)
    OBVIOUS
  <2> HIDE DEF latest
  <2> QED
    BY <2>1, <2>3, <2>5, <2>6, <2>7, EndingKeeps
<1> QED
  BY <1>1, <1>2

LEMMA LoadingKeeps ==
  ASSUME ClientInv, NEW l \in tab.loads, LoadActiveTenant(l) \/ RequestFails(l)
  PROVE  ClientInv'
<1>1. UNCHANGED <<worker, storage, page, shell>>
  BY DEF LoadActiveTenant, RequestFails
<1>2. CASE tab' = Failed(l) /\ UNCHANGED witnesses
  BY <1>1, <1>2, FailingKeeps
<1>3. CASE /\ l.at = "list" /\ StartReading(l, ResolveActiveTenant)
           /\ ResolveActiveTenant # None \/ page = "settings"
  <2> DEFINE w == ResolveActiveTenant
  <2>1. w \in Tenants
    BY Resolved DEF ClientInv
  <2>2. StartReading(l, w) /\ w = ResolveActiveTenant /\ (w # None \/ page = "settings")
    BY <1>3
  <2> HIDE DEF w
  <2> QED
    BY <1>1, <1>3, <2>1, <2>2, ReadingBegins
<1> QED
  BY <1>2, <1>3 DEF LoadActiveTenant, RequestFails

\* What a load is answered is of the workspace it reads and, unless a run leaves something
\* there meanwhile, the last; so it is enough for a page that says its run is completed.
LEMMA AnswersAreCurrent ==
  ASSUME ClientInv, NEW l \in tab.loads, l.at = "reading", NEW piece \in l.left,
         NEW v, v = Answer(piece, l.of)
  PROVE  /\ v \in Shown /\ v.of = l.of /\ Current(v)
         /\ tab.said = "completed" => v \in Enough
<1> DEFINE w == l.of
<1>1. /\ w \in Tenants /\ page \in DOMAIN Reads /\ piece \in Reads[page]
      /\ page # "settings" => w \in Workspaces
  <2>1. page \in DOMAIN Reads /\ l.left \subseteq Reads[page] /\ (page # "settings" => w # None)
    BY LoadsAreOpen DEF ClientInv, LoadsFit
  <2>2. w \in Tenants
    BY FieldsOfTab, FieldsOfLoad
  <2> QED
    BY <2>1, <2>2 DEF Tenants
<1>2. w \in Workspaces => runs[w] \in Nat /\ reports[w] \in Nat
  BY DEF ClientInv, WorkerFits
<1>3. /\ v.of = w
      /\ page = "settings" => v = [of |-> w, run |-> NoRun]
      /\ page # "settings" => v.run \in {runs[w], reports[w], NoRun}
      /\ v.run # NoRun => v.run = IF piece = "report" THEN reports[w] ELSE runs[w]
      /\ v \in {[of |-> w, run |-> NoRun], [of |-> w, run |-> runs[w]], [of |-> w, run |-> reports[w]]}
  <2>1. CASE piece = "report"
    <3>1. v = [of |-> w, run |-> reports[w]]
      BY <2>1 DEF Answer, CitationViews, LatestReport
    <3>2. page # "settings"
      BY <1>1, <2>1, ReadsFit
    <3> QED
      BY <1>1, <2>1, <3>1, <3>2
  <2>2. CASE piece # "report"
    <3>1. v = [of |-> w, run |-> runs[w]] \/ v = [of |-> w, run |-> NoRun]
      BY <2>2 DEF Answer, LatestAudit, LatestPlan, ExecutionTasks, Unnumbered
    <3>2. page = "settings" => v = [of |-> w, run |-> NoRun]
      <4>1. page = "settings" => piece = "billing"
        BY <1>1, ReadsFit
      <4> QED
        BY <4>1 DEF Answer, CitationViews, Unnumbered
    <3> QED
      BY <1>1, <2>2, <3>1, <3>2
  <2> QED
    BY <2>1, <2>2
<1>4. v \in Shown
  <2>1. CASE page = "settings"
    BY <1>1, <1>3, <2>1 DEF Shown, Tenants
  <2>2. CASE page # "settings"
    BY <1>1, <1>2, <1>3, <2>2 DEF Shown
  <2> QED
    BY <2>1, <2>2
<1>5. v.run # NoRun => v.run = Left(KindOf(page))[w] /\ w \in Workspaces
  <2>1. CASE page = "monitoring"
    <3>1. piece \in {"snapshot", "report", "google"}
      BY <1>1, <2>1, ReadsFit
    <3>2. piece = "report" \/ v = [of |-> w, run |-> NoRun]
      BY <3>1 DEF Answer, CitationViews, Unnumbered
    <3> QED
      BY <1>1, <1>3, <2>1, <3>2 DEF Left, KindOf
  <2>2. CASE page # "monitoring"
    <3>1. piece # "report"
      BY <1>1, <2>2, ReadsFit
    <3>2. page = "settings" => v.run = NoRun
      BY <1>3
    <3> QED
      BY <1>1, <1>3, <2>2, <3>1, <3>2 DEF Left, KindOf
  <2> QED
    BY <2>1, <2>2
<1>6. ASSUME v.run # NoRun, tab.said = "completed", jobs[tab.mine].of = w
      PROVE  v.run >= jobs[tab.mine].gives
  <2>1. tab.mine \in DOMAIN jobs /\ jobs[tab.mine].kind = KindOf(page) /\ jobs[tab.mine].gives \in Nat
    BY <1>6, LoadsAreOpen, JobsAreJobs DEF ClientInv, TabFits
  <2>2. jobs[tab.mine].gives <= Left(KindOf(page))[w]
    BY <1>6, <2>1 DEF ClientInv, JobsFit
  <2>3. Left(KindOf(page))[w] \in Nat
    BY <1>2, <1>5, <1>6 DEF Left
  <2> QED
    BY <1>5, <1>6, <2>1, <2>2, <2>3
<1>7. Current(v)
  BY <1>3, <1>5 DEF Current
<1> QED
  BY <1>3, <1>4, <1>6, <1>7 DEF Enough

\* One of several answers.
LEMMA GettingKeeps ==
  ASSUME ClientInv, UNCHANGED <<worker, storage, page, shell, witnesses>>,
         NEW l \in tab.loads, l.at = "reading", NEW m \in Loads,
         m.no = l.no, m.kind = l.kind, m.at = l.at, m.of = l.of, m.left \subseteq l.left,
         \A v \in m.got : v.of = l.of /\ Current(v),
         \A S : S = Enough /\ tab.said = "completed" /\ l.got \subseteq S => m.got \subseteq S,
         \A v \in m.got : v \in Shown,
         tab' = [tab EXCEPT !.loads = (tab.loads \ {l}) \union {m}]
  PROVE  ClientInv'
<1> DEFINE ls == (tab.loads \ {l}) \union {m}
<1>1. ls \in SUBSET Loads
  BY FieldsOfTab
<1>2. \A k : k \in ls <=> (k = m \/ (k \in tab.loads /\ k # l))
  OBVIOUS
<1> HIDE DEF ls
<1>3. tab' = [tab EXCEPT !.loads = ls]
  BY DEF ls
<1>4. /\ tab' \in Tab /\ tab'.loads = ls
      /\ tab'.at = tab.at /\ tab'.tenant = tab.tenant /\ tab'.loading = tab.loading
      /\ tab'.shown = tab.shown /\ tab'.waits = tab.waits /\ tab'.mine = tab.mine
      /\ tab'.said = tab.said /\ tab'.begun = tab.begun /\ tab'.landed = tab.landed /\ tab'.behind = tab.behind
  BY <1>1, <1>3, FieldsOfTab DEF Tab
<1>5. WorkerFits' /\ JobsFit' /\ UNCHANGED <<live, runs, reports, jobs>>
  BY WorkerStays
<1>6. UNCHANGED <<selected, moved, disturbed>>
  BY DEF storage, witnesses
<1>7. ResolveActiveTenant' = ResolveActiveTenant
  BY <1>5, <1>6, ResolvedStays
<1>8. /\ tab.begun \in Nat
      /\ \A k \in tab.loads : k.no \in Nat /\ k.no <= tab.begun
  BY FieldsOfTab, FieldsOfLoad DEF ClientInv, LoadsFit
<1>9. tab.at = "open"
  BY LoadsAreOpen
<1>10. TabFits'
  BY <1>4, <1>5, <1>6, <1>9 DEF ClientInv, TabFits
<1>11. LoadsFit'
  BY <1>2, <1>4 DEF ClientInv, LoadsFit
<1>12. AgentsFit'
  <2> SUFFICES ASSUME page = "agents" PROVE AgentsFit'
    BY DEF AgentsFit
  <2>1. /\ \A k \in tab.loads : k = l
        /\ \A k \in tab.loads : k.kind \in ReadBefore => tab.loading
        /\ ~tab.waits
    BY DEF ClientInv, AgentsFit
  <2> QED
    BY <1>2, <1>4, <2>1 DEF AgentsFit
<1>13. QueriesFit'
  <2> SUFFICES ASSUME page = "queries" PROVE QueriesFit'
    BY DEF QueriesFit
  <2>1. CASE tab.tenant = None
    <3>1. /\ \A k \in tab.loads : k = l
          /\ \A k \in tab.loads : k.kind \in ReadBefore /\ tab.loading
      BY <1>9, <2>1 DEF ClientInv, QueriesFit
    <3> QED
      BY <1>2, <1>4, <2>1, <3>1 DEF QueriesFit
  <2>2. CASE tab.tenant # None
    BY <1>2, <1>4, <1>5, <2>2 DEF ClientInv, QueriesFit
  <2> QED
    BY <2>1, <2>2
<1>14. \A v : Current(v)' = Current(v)
  BY <1>5, <1>6 DEF Current, Left
<1>15. Reading /\ Reading'
  BY <1>2, <1>4 DEF Reading
<1>16. AnswersFit'
  <2>1. ASSUME NEW k \in ls, k.at = "reading", NEW v \in k.got
        PROVE  v.of = k.of /\ Current(v)'
    <3>1. CASE k = m
      BY <1>14, <2>1, <3>1
    <3>2. CASE k \in tab.loads
      BY <1>14, <2>1, <3>2 DEF ClientInv, AnswersFit
    <3> QED
      BY <1>2, <3>1, <3>2
  <2> QED
    BY <1>4, <1>15, <2>1 DEF AnswersFit
<1>17. ShellFits'
  BY <1>4, <1>6, <1>7 DEF ClientInv, ShellFits
<1>18. NamesFit'
  BY <1>2, <1>4, <1>5, <1>6, <1>7 DEF ClientInv, NamesFit
<1>19. ASSUME NEW W, NEW S, Since(tab, W, S), l.of \in W /\ l.got \subseteq S => m.got \subseteq S
       PROVE  Since(tab', W, S)
  <2>1. ASSUME NEW k \in tab'.loads, k.at = "reading"
        PROVE  \E j \in tab.loads : /\ j.at = "reading" /\ j.no = k.no
                                    /\ j.of \in W /\ j.got \subseteq S => k.of \in W /\ k.got \subseteq S
    <3>1. CASE k = m
      <4>1. l.at = "reading" /\ l.no = k.no /\ l.of = k.of
        BY <3>1
      <4>2. l.of \in W /\ l.got \subseteq S => k.of \in W /\ k.got \subseteq S
        BY <1>19, <3>1, <4>1, Zenon
      <4> QED
        BY <4>1, <4>2, Zenon
    <3>2. CASE k \in tab.loads
      BY <2>1, <3>2, Zenon
    <3> QED
      BY <1>2, <1>4, <3>1, <3>2
  <2>2. \A k \in tab'.loads : k.at = "reading" =>
           \/ k.of \in W /\ k.got \subseteq S
           \/ \E j \in tab.loads : /\ j.at = "reading" /\ j.no = k.no
                                   /\ j.of \in W /\ j.got \subseteq S => k.of \in W /\ k.got \subseteq S
    BY <2>1, Zenon
  <2>3. \A k \in tab'.loads : k.no \in Nat
    BY <1>2, <1>4, <1>8
  <2>4. \A k \in tab.loads : k.at # "acting" => \E j \in tab'.loads : j.at # "acting" /\ k.no <= j.no
    <3> SUFFICES ASSUME NEW k \in tab.loads, k.at # "acting"
                 PROVE  \E j \in tab'.loads : j.at # "acting" /\ k.no <= j.no
      OBVIOUS
    <3>1. CASE k = l
      <4>1. m \in tab'.loads /\ m.at # "acting" /\ k.no <= m.no
        BY <1>2, <1>4, <1>8, <3>1
      <4> QED
        BY <4>1
    <3>2. CASE k # l
      <4>1. k \in tab'.loads /\ k.no <= k.no
        BY <1>2, <1>4, <1>8, <3>2
      <4> QED
        BY <4>1
    <3> QED
      BY <3>1, <3>2
  <2>5. tab.begun <= tab'.begun /\ tab'.begun \in Nat
    BY <1>4, <1>8
  <2>6. tab'.landed = tab.landed /\ tab'.behind = tab.behind /\ tab'.shown = tab.shown
    BY <1>4
  <2> QED
    BY <1>8, <1>19, <2>2, <2>3, <2>4, <2>5, <2>6, SinceGoesOn
<1>20. page \notin ReadForTheOneTheyWereOn => Since(tab', {tab'.tenant}, OfThe(tab'.tenant))
  <2> SUFFICES ASSUME page \notin ReadForTheOneTheyWereOn PROVE Since(tab', {tab.tenant}, OfThe(tab.tenant))
    BY <1>4
  <2>1. Since(tab, {tab.tenant}, OfThe(tab.tenant))
    BY <1>9 DEF ClientInv, LatestFit
  <2>2. l.of \in {tab.tenant} => m.got \subseteq OfThe(tab.tenant)
    BY DEF OfThe
  <2> QED
    BY <1>19, <2>1, <2>2
<1>21. tab'.said = "completed" => Since(tab', Tenants, Enough')
  <2> SUFFICES ASSUME tab.said = "completed" PROVE Since(tab', Tenants, Enough)
    BY <1>4, <1>5 DEF Enough
  <2>1. Since(tab, Tenants, Enough)
    BY DEF ClientInv, LatestFit
  <2> QED
    BY <1>19, <2>1
<1>22. LatestFit'
  BY <1>4, <1>20, <1>21 DEF LatestFit
<1> QED
  BY <1>5, <1>10, <1>11, <1>12, <1>13, <1>16, <1>17, <1>18, <1>22 DEF ClientInv

LEMMA ReadingKeeps ==
  ASSUME ClientInv, NEW l \in tab.loads, NEW piece \in l.left, ReadPiece(l, piece)
  PROVE  ClientInv'
<1> DEFINE v == Answer(piece, l.of)
           all == l.got \union {v}
<1>1. l.at = "reading" /\ UNCHANGED <<worker, storage, page, shell, witnesses>>
  BY DEF ReadPiece
<1>2. /\ v \in Shown /\ v.of = l.of /\ Current(v)
      /\ tab.said = "completed" => v \in Enough
  BY <1>1, AnswersAreCurrent
<1>3. IF l.left = {piece}
        THEN tab' = [Landed(l) EXCEPT !.shown = all, !.behind = l.no < tab.landed]
        ELSE tab' = [tab EXCEPT !.loads = (@ \ {l}) \union {[l EXCEPT !.left = l.left \ {piece}, !.got = all]}]
  BY DEF ReadPiece, Receive
<1> HIDE DEF v
<1>4. l \in Loads /\ l.got \in SUBSET Shown /\ l.left \in SUBSET Pieces
  BY FieldsOfTab, FieldsOfLoad
<1>5. \A u \in all : u \in Shown /\ u.of = l.of /\ Current(u)
  BY <1>1, <1>2, <1>4 DEF ClientInv, AnswersFit
<1>6. tab.said = "completed" /\ l.got \subseteq Enough => all \subseteq Enough
  BY <1>2
<1> HIDE DEF all
<1>7. all \in SUBSET Shown
  BY <1>5
<1>8. CASE l.left = {piece}
  <2> DEFINE t == Landed(l)
             late == l.no < tab.landed
             latest == IF l.no > tab.landed THEN l.no ELSE tab.landed
  <2>1. /\ t \in Tab /\ t.at = tab.at /\ t.tenant = tab.tenant /\ t.waits = tab.waits /\ t.mine = tab.mine
        /\ t.begun = tab.begun /\ t.loads = tab.loads \ {l} /\ t.said = tab.said
        /\ t.landed = latest
    BY LandedFits
  <2>2. tab' = [t EXCEPT !.shown = all, !.behind = late]
    BY <1>3, <1>8
  <2>3. late \in BOOLEAN
    OBVIOUS
  <2>4. late = (l.no < tab.landed) /\ latest = (IF l.no > tab.landed THEN l.no ELSE tab.landed)
    OBVIOUS
  <2> HIDE DEF t, late, latest
  <2>5. tab' \in Tab /\ tab'.shown = all /\ tab'.behind = late
    BY <1>7, <2>1, <2>2, <2>3 DEF Tab
  <2>6. /\ tab'.at = t.at /\ tab'.tenant = t.tenant /\ tab'.waits = t.waits /\ tab'.mine = t.mine
        /\ tab'.begun = t.begun /\ tab'.loads = t.loads /\ tab'.landed = t.landed /\ tab'.said = t.said
    BY <2>2
  <2> QED
    BY <1>1, <1>5, <1>6, <2>1, <2>4, <2>5, <2>6, EndingKeeps
<1>9. CASE l.left # {piece}
  <2> DEFINE left == l.left \ {piece}
             m == [l EXCEPT !.left = left, !.got = all]
  <2>1. left \in SUBSET Pieces /\ left \subseteq l.left
    BY <1>4
  <2>2. tab' = [tab EXCEPT !.loads = (tab.loads \ {l}) \union {m}]
    BY <1>3, <1>9
  <2> HIDE DEF left
  <2>3. m \in Loads /\ m.left = left /\ m.got = all
    BY <1>4, <1>7, <2>1 DEF Loads
  <2>4. m.no = l.no /\ m.kind = l.kind /\ m.at = l.at /\ m.of = l.of
    OBVIOUS
  <2> HIDE DEF m
  <2>5. m.left \subseteq l.left /\ \A u \in m.got : u \in Shown /\ u.of = l.of /\ Current(u)
    BY <1>5, <2>1, <2>3
  <2>6. \A S : S = Enough /\ tab.said = "completed" /\ l.got \subseteq S => m.got \subseteq S
    BY <1>6, <2>3, Zenon
  <2> QED
    BY <1>1, <2>2, <2>3, <2>4, <2>5, <2>6, GettingKeeps
<1> QED
  BY <1>8, <1>9

-----------------------------------------------------------------------------
(* Workspaces come and go.                                                 *)

\* The page is left for another state in which it loads nothing.
LEMMA LeavingKeeps ==
  ASSUME ClientInv, WorkerFits', JobsFit', UNCHANGED <<runs, reports, jobs, page, shell, disturbed>>,
         selected' \in Tenants, tab.loads = {}, ~tab.waits, tab' \in Tab,
         tab'.at \in {"verify", "deleted"}, tab'.tenant # None \/ tab'.tenant = tab.tenant,
         tab'.loads = tab.loads, tab'.shown = tab.shown, tab'.waits = tab.waits, tab'.mine = tab.mine,
         tab'.said = tab.said, tab'.begun = tab.begun, tab'.landed = tab.landed, tab'.behind = tab.behind
  PROVE  ClientInv'
<1>1. TabFits'
  BY DEF ClientInv, TabFits
<1>2. LoadsFit'
  BY DEF ClientInv, LoadsFit
<1>3. AgentsFit' /\ QueriesFit' /\ ShellFits' /\ NamesFit'
  BY DEF AgentsFit, QueriesFit, ShellFits, NamesFit
<1>4. AnswersFit'
  <2>1. ~Reading /\ ~Reading'
    BY DEF Reading
  <2> QED
    BY <2>1 DEF ClientInv, AnswersFit
<1>5. LatestFit'
  <2>1. tab.said = "completed" => Since(tab', Tenants, Enough)
    BY DEF ClientInv, LatestFit, Since
  <2>2. Enough' = Enough
    BY DEF Enough
  <2> QED
    BY <2>1, <2>2 DEF LatestFit
<1> QED
  BY <1>1, <1>2, <1>3, <1>4, <1>5 DEF ClientInv

LEMMA CreatingKeeps ==
  ASSUME ClientInv, CreateWorkspace
  PROVE  ClientInv'
<1>1. /\ tab.at = "form" /\ ~tab.waits /\ tab.loads = {}
      /\ tab' = [tab EXCEPT !.at = "verify", !.tenant = created']
      /\ selected' = created' /\ created' = created + 1 /\ live' = live \union {created'}
      /\ UNCHANGED <<runs, reports, scan, scanners, jobs, page, shell, disturbed>>
  BY DEF CreateWorkspace, ClientInv, TabFits, witnesses
<1>2. created' \in Workspaces /\ live' \subseteq 1..created'
  <2>1. created \in 1..MaxWorkspaces /\ created < MaxWorkspaces /\ live \subseteq 1..created
    BY DEF CreateWorkspace, ClientInv, WorkerFits, Workspaces
  <2>2. created' \in 1..MaxWorkspaces
    BY <1>1, <2>1, WebClientAssumption
  <2>3. \A w \in live : w \in 1..created'
    BY <1>1, <2>1, WebClientAssumption
  <2>4. created' \in 1..created'
    BY <2>2, WebClientAssumption
  <2> QED
    BY <1>1, <2>2, <2>3, <2>4 DEF Workspaces
<1>3. WorkerFits' /\ JobsFit'
  BY <1>1, <1>2 DEF ClientInv, WorkerFits, JobsFit, Left
<1>4. created' \in Tenants /\ created' # None
  BY <1>2, Resolved DEF Tenants, ClientInv
<1> DEFINE w == created'
           verify == "verify"
<1>5. tab' = [tab EXCEPT !.at = verify, !.tenant = w] /\ w \in Tenants /\ w # None
      /\ verify \in {"login", "open", "form", "verify", "deleted"} /\ verify = "verify"
  BY <1>1, <1>4
<1> HIDE DEF w, verify
<1>6. tab' \in Tab /\ tab'.at = verify /\ tab'.tenant = w
  BY <1>5, FieldsOfTab DEF Tab
<1>7. /\ tab'.loads = tab.loads /\ tab'.shown = tab.shown /\ tab'.waits = tab.waits /\ tab'.mine = tab.mine
      /\ tab'.said = tab.said /\ tab'.begun = tab.begun /\ tab'.landed = tab.landed
      /\ tab'.behind = tab.behind
  BY <1>5
<1> QED
  BY <1>1, <1>3, <1>4, <1>5, <1>6, <1>7, LeavingKeeps

LEMMA DeletingKeeps ==
  ASSUME ClientInv, DeleteWorkspace
  PROVE  ClientInv'
<1>1. /\ tab.loads = {} /\ tab' = [tab EXCEPT !.at = "deleted"] /\ page = "settings"
      /\ selected' = None /\ live' \subseteq live
      /\ UNCHANGED <<created, runs, reports, scan, scanners, jobs, page, shell, disturbed>>
  BY DEF DeleteWorkspace, witnesses
<1>2. WorkerFits' /\ JobsFit' /\ None \in Tenants
  BY <1>1 DEF ClientInv, WorkerFits, JobsFit, Left, Tenants
<1>3. ~tab.waits
  BY <1>1, LoadsAreOpen, ReadsFit
<1> DEFINE deleted == "deleted"
<1>4. tab' = [tab EXCEPT !.at = deleted] /\ deleted = "deleted"
      /\ deleted \in {"login", "open", "form", "verify", "deleted"}
  BY <1>1
<1> HIDE DEF deleted
<1>5. tab' \in Tab /\ tab'.at = deleted
  BY <1>4, FieldsOfTab DEF Tab
<1>6. /\ tab'.loads = tab.loads /\ tab'.shown = tab.shown /\ tab'.waits = tab.waits /\ tab'.mine = tab.mine
      /\ tab'.said = tab.said /\ tab'.begun = tab.begun /\ tab'.landed = tab.landed
      /\ tab'.behind = tab.behind /\ tab'.tenant = tab.tenant
  BY <1>4
<1> QED
  BY <1>1, <1>2, <1>3, <1>4, <1>5, <1>6, LeavingKeeps

LEMMA VerifyingKeeps ==
  ASSUME ClientInv, VerifyDomain
  PROVE  ClientInv'
<1> DEFINE w == tab.tenant
           new == [of |-> w, at |-> "start"]
<1>1. /\ scan' = [scan EXCEPT ![w] = "auditing"] /\ scanners' = Append(scanners, new)
      /\ UNCHANGED <<live, created, runs, reports, jobs, storage>>
  BY DEF VerifyDomain
<1>2. w \in Tenants /\ new \in Scanner
  BY FieldsOfTab DEF Scanner, ScanSteps
<1> HIDE DEF w, new
<1>3. scan' \in [Workspaces -> ScanStatuses] /\ scanners' \in Seq(Scanner)
  <2>1. scan \in [Workspaces -> ScanStatuses] /\ scanners \in Seq(Scanner)
    BY DEF ClientInv, WorkerFits
  <2>2. "auditing" \in ScanStatuses
    BY DEF ScanStatuses, InProgress
  <2>3. scan' \in [Workspaces -> ScanStatuses]
    BY <1>1, <2>1, <2>2
  <2> QED
    BY <1>1, <1>2, <2>1, <2>3
<1>4. WorkerFits' /\ JobsFit'
  BY <1>1, <1>3 DEF ClientInv, WorkerFits, JobsFit, Left
<1>5. UNCHANGED selected /\ selected \in Tenants
  BY <1>1 DEF storage, ClientInv, TabFits
<1>6. CASE GoTo("visibility")
  BY <1>4, <1>5, <1>6, PagesAreRead, GoToKeeps
<1>7. CASE /\ tab.at = "open" /\ page = "home"
           /\ tab' = Begin(tab, "page", "list", None)
           /\ UNCHANGED <<page, shell, witnesses>>
  <2> DEFINE kind == "page"
             at == "list"
             none == None
  <2>1. tab' = Begin(tab, kind, at, none) /\ moved' = moved /\ disturbed' = disturbed
    BY <1>7 DEF witnesses
  <2>2. kind \in Kinds /\ kind # "act" /\ at \in {"list", "acting", "reading"} /\ at = "list" /\ none \in Tenants
    BY DEF Kinds, ReadBefore, Tenants
  <2>3. tab \in Tab /\ page \in DOMAIN Reads
    BY <1>7, FieldsOfTab, ReadsFit
  <2> HIDE DEF kind, at, none
  <2> QED
    BY <1>1, <1>4, <1>5, <1>7, <2>1, <2>2, <2>3, BeginningKeeps
<1> QED
  BY <1>6, <1>7 DEF VerifyDomain

-----------------------------------------------------------------------------
(* Every page.                                                             *)

LEMMA ClientBegins ==
  ASSUME ClientInit
  PROVE  ClientInv
<1>1. /\ created \in Workspaces /\ live = 1..created
      /\ runs = [w \in Workspaces |-> 0] /\ reports = [w \in Workspaces |-> 0]
      /\ scan = [w \in Workspaces |-> "not_started"]
      /\ scanners = <<>> /\ jobs = <<>> /\ selected \in {None, 1} /\ page \in OpenPages
      /\ shell = EmptyShell
  BY DEF ClientInit
<1>2. /\ tab \in {Opened, [Blank EXCEPT !.at = "login"], [Blank EXCEPT !.at = "form"]}
      /\ tab = Opened => page # "onboarding"
  <2>1. [Blank EXCEPT !.at = "form"].at = "form" /\ Opened.at = "open"
    BY BlankFits DEF Tab
  <2>2. [Blank EXCEPT !.at = "form"] # Opened
    BY <2>1
  <2> QED
    BY <2>2 DEF ClientInit
<1>3. /\ tab \in Tab /\ tab.at \in {"open", "login", "form"} /\ (tab.at = "open" <=> tab = Opened)
      /\ tab.mine = None /\ ~tab.waits /\ tab.said = "nothing" /\ tab.tenant = None /\ tab.shown = {}
      /\ tab.begun \in Nat /\ tab.landed \in Nat /\ tab.landed <= tab.begun
      /\ \A l, k \in tab.loads : l = k
      /\ \A l \in tab.loads : l.no \in 1..tab.begun /\ l.at = "list" /\ l.kind = "first" /\ tab.loading
      /\ tab.at # "open" => tab.loads = {}
  BY <1>2, NewPageFits
<1>4. WorkerFits
  BY <1>1 DEF WorkerFits, ScanStatuses
<1>5. JobsFit
  BY <1>1 DEF JobsFit
<1>6. shell \in Shell /\ shell.at # "loaded"
  BY <1>1 DEF EmptyShell, Shell, Tenants, ScanStatuses
<1>7. selected \in Tenants /\ page \in DOMAIN Reads \union {"onboarding"}
  BY <1>1, WebClientAssumption, PagesAssumption DEF Tenants, Workspaces
<1>8. TabFits
  BY <1>2, <1>3, <1>6, <1>7 DEF TabFits
<1>9. LoadsFit
  BY <1>3 DEF LoadsFit
<1>10. AgentsFit /\ QueriesFit
  BY <1>3 DEF AgentsFit, QueriesFit, ReadBefore
<1>11. AnswersFit /\ ShellFits /\ NamesFit
  BY <1>3, <1>6 DEF AnswersFit, ShellFits, NamesFit
<1>12. LatestFit
  <2>1. \A k \in tab.loads : k.at # "reading"
    BY <1>3
  <2>2. \A W, S : Since(tab, W, S)
    BY <1>3, <2>1, SinceEver
  <2> QED
    BY <1>3, <2>2 DEF LatestFit
<1> QED
  BY <1>4, <1>5, <1>8, <1>9, <1>10, <1>11, <1>12 DEF ClientInv

LEMMA ClientStutters ==
  ASSUME ClientInv, UNCHANGED clientVars
  PROVE  ClientInv'
<1>1. UNCHANGED <<worker, storage, page, tab, shell, witnesses>>
  BY DEF clientVars, program
<1>2. shell \in Shell /\ (shell.at = "loaded" /\ ~moved /\ tab.at \notin {"verify", "deleted"}
                          => shell.of = ResolveActiveTenant)
  BY DEF ClientInv, TabFits, ShellFits
<1>3. WorkerFits' /\ JobsFit' /\ UNCHANGED <<live, runs, reports, jobs>>
  BY <1>1, WorkerStays
<1>4. UNCHANGED <<selected, moved, disturbed>>
  BY <1>1 DEF storage, witnesses
<1>5. ResolveActiveTenant' = ResolveActiveTenant
  BY <1>3, <1>4, ResolvedStays
<1>6. LoadsFit' /\ AgentsFit' /\ QueriesFit' /\ AnswersFit' /\ LatestFit' /\ NamesFit'
  BY <1>1, <1>3, <1>4, SameTab, SameNames
<1>7. TabFits' /\ ShellFits'
  BY <1>1, <1>2, <1>3, <1>4, <1>5 DEF ClientInv, TabFits, ShellFits
<1> QED
  BY <1>3, <1>6, <1>7 DEF ClientInv

LEMMA ClientGoesOn ==
  ASSUME ClientInv, [ClientNext]_clientVars
  PROVE  ClientInv'
<1>1. CASE UserStep
  BY <1>1, OpeningKeeps, OtherTabsKeep, RefreshingKeeps, StartingKeeps, ActingKeeps, CreatingKeeps,
     DeletingKeeps, VerifyingKeeps, ScansKeep
     DEF UserStep
<1>2. CASE PageStep
  BY <1>2, OpeningKeeps, LoadingKeeps, ActAnsweredKeeps, ReadingKeeps DEF PageStep
<1>3. CASE Polls \/ StopWaiting
  BY <1>3, WaitingKeeps, RefreshAfterRunKeeps DEF Polls
<1>4. CASE WorkerStep
  BY <1>4, JobsKeep, ScansKeep DEF WorkerStep
<1>5. CASE ShellPolls \/ LoadTenants \/ LoadTenantsFails
  BY <1>5, ShellKeeps
<1>6. CASE UNCHANGED clientVars
  BY <1>6, ClientStutters
<1> QED
  BY <1>1, <1>2, <1>3, <1>4, <1>5, <1>6 DEF ClientNext

LEMMA ClientFits == ClientSpec => []ClientInv
  BY ClientBegins, ClientGoesOn, PTL DEF ClientSpec

\* What a page of the application shows once its loads have ended (page.tsx) is of the
\* workspace it names: as long as no other tab chose one, for ever on the page queries,
\* and elsewhere if the latest of them neither failed, which leaves the name of the
\* workspace it looked up over what was shown before, nor was overtaken, but for the two
\* pages that read for the one they were on.  It is of one run, with the same exceptions,
\* unless one ended while it was reading, and AppShell names the same workspace.  For
\* every number of workspaces, jobs, scans and loads side by side.
THEOREM PagesAreCoherent == ClientSpec => []PageIsCoherent
<1>1. ASSUME ClientInv PROVE PageIsCoherent
  <2>1. ClientTypeOK
    <3>1. \A i \in DOMAIN scanners : scanners[i].at \in {"start", "audit", "audited", "plan", "planned", "over"}
      <4> TAKE i \in DOMAIN scanners
      <4>1. scanners \in Seq(Scanner)
        BY <1>1 DEF ClientInv, WorkerFits
      <4>2. scanners[i] \in Scanner
        BY <4>1
      <4> QED
        BY <4>2 DEF Scanner, ScanSteps
    <3>2. \A j \in DOMAIN jobs : jobs[j].at \in {"active", "saved", "succeeded", "failed"}
      BY <1>1, JobsAreJobs DEF Job
    <3>3. tab.at \in {"login", "open", "form", "verify", "deleted"}
      BY <1>1, FieldsOfTab DEF Tab
    <3>4. \A v \in tab.shown : v \in Shown
      BY <1>1, FieldsOfTab
    <3>5. \A l \in tab.loads : /\ l.at \in {"list", "acting", "reading"} /\ l.no \in 1..tab.begun
                               /\ \A v \in l.got : v \in Shown
      <4> TAKE l \in tab.loads
      <4>1. l \in Loads
        BY <1>1, FieldsOfTab
      <4>2. l.at \in {"list", "acting", "reading"} /\ l.got \subseteq Shown
        BY <4>1, FieldsOfLoad
      <4>3. l.no \in 1..tab.begun
        BY <1>1 DEF ClientInv, LoadsFit
      <4> QED
        BY <4>2, <4>3
    <3>6. /\ tab.mine \in DOMAIN jobs \union {None} /\ (tab.waits => tab.mine # None)
          /\ page \in DOMAIN Reads \union {"onboarding"} /\ selected \in Tenants
      BY <1>1 DEF ClientInv, TabFits
    <3>7. tab.failures \in 0..(Patience - 1)
      BY <1>1, FieldsOfTab
    <3> QED
      BY <1>1, <3>1, <3>2, <3>3, <3>4, <3>5, <3>6, <3>7 DEF ClientTypeOK, ClientInv, WorkerFits, Tenants
  <2>2. ASSUME Settled, ~moved
        PROVE  \A v \in tab.shown : v.of = tab.tenant
    BY <1>1, <2>2 DEF Settled, ClientInv, NamesFit
  <2>3. ASSUME Settled, page \in LookUpOnce
        PROVE  \A v \in tab.shown : v.of = tab.tenant
    <3>1. page = "queries" /\ tab.at = "open"
      BY <2>3 DEF LookUpOnce, Settled
    <3>2. tab.tenant # None => \A v \in tab.shown : v.of = tab.tenant
      BY <1>1, <3>1 DEF ClientInv, QueriesFit
    <3>3. tab.tenant = None => tab.shown = {}
      BY <1>1, <3>1 DEF ClientInv, LoadsFit
    <3> QED
      BY <3>2, <3>3
  <2>4. ASSUME Settled, ~tab.behind, page \notin ReadForTheOneTheyWereOn
        PROVE  \A v \in tab.shown : v.of = tab.tenant
    <3>1. Since(tab, {tab.tenant}, OfThe(tab.tenant)) /\ tab.loads = {}
      BY <1>1, <2>4 DEF Settled, ClientInv, LatestFit
    <3>2. tab.shown \subseteq OfThe(tab.tenant)
      BY <2>4, <3>1, SinceShows
    <3> QED
      BY <3>2 DEF OfThe
  <2>5. ASSUME Settled, ~tab.behind, ~disturbed
        PROVE  \A v, u \in tab.shown : v.run = u.run \/ NoRun \in {v.run, u.run}
    <3>1. ~Reading
      BY <2>5 DEF Settled, Reading
    <3> QED
      BY <1>1, <2>5, <3>1 DEF ClientInv, AnswersFit
  <2>6. ASSUME Settled, ~moved, shell.at = "loaded", tab.tenant # None
        PROVE  shell.of = tab.tenant
    <3>1. shell.of = ResolveActiveTenant /\ tab.tenant = ResolveActiveTenant
      BY <1>1, <2>6 DEF Settled, ClientInv, ShellFits, NamesFit
    <3> QED
      BY <3>1
  <2> QED
    BY <2>1, <2>2, <2>3, <2>4, <2>5, <2>6 DEF PageIsCoherent
<1> QED
  BY <1>1, ClientFits, PTL

\* A page that says its run is completed (authFetchJob) shows what that run left or
\* something later, also when it joined a run that was active or gave up before, and
\* whatever else it was loading by then; unless the latest of its loads failed or was
\* overtaken by the answer to an earlier one.
THEOREM CompletedRunsAreShown == ClientSpec => []CompletedRunIsShown
<1>1. ASSUME ClientInv PROVE CompletedRunIsShown
  <2> SUFFICES ASSUME Settled, ~tab.behind, tab.said = "completed", jobs[tab.mine].of = tab.tenant,
                      NEW v \in tab.shown, v.of = tab.tenant, v.run # NoRun
               PROVE  v.run >= jobs[tab.mine].gives
    BY DEF CompletedRunIsShown
  <2>1. Since(tab, Tenants, Enough) /\ tab.loads = {}
    BY <1>1 DEF Settled, ClientInv, LatestFit
  <2>2. tab.shown \subseteq Enough
    BY <2>1, SinceShows
  <2> QED
    BY <2>2 DEF Enough
<1> QED
  BY <1>1, ClientFits, PTL
=============================================================================
