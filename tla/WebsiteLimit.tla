--------------------------- MODULE WebsiteLimit ---------------------------
(***************************************************************************)
(* The gate of POST /api/tenants: how many websites a user's plan allows,  *)
(* against creations that overlap, deletions, and the Stripe events of     *)
(* Billing that change the plan.  The plan and the count are read by two   *)
(* statements before the provisioning, which takes its time, and the new   *)
(* website only counts once it is linked to its owner.                     *)
(***************************************************************************)
EXTENDS Billing, Integers, FiniteSets

CONSTANTS
  Requests,    \* creations that may be in progress
  ScaleLimit,  \* websites of the plan scale, 5 in the code
  MaxWebsites  \* the bound on websites

ASSUME WebsiteAssumption ==
  /\ IsFiniteSet(Requests)
  /\ ScaleLimit \in Nat \ {0}
  /\ MaxWebsites \in Nat

VARIABLES
  websites,  \* countTenantsOwnedByUser: live tenants linked to the user
  pc,        \* a request: "idle", "gate" or "provisioning"
  readLimit, \* the limit it read, while it is in progress
  readCount, \* the count it read
  rivals,    \* history: requests that were in progress at some time while it was
  allowed    \* history: the largest limit that it or they read

overlap == <<rivals, allowed>>
requests == <<pc, readLimit, readCount, overlap>>
websiteVars == <<vars, websites, requests>>

Unread == -1

\* The column website_limit, which is written with plan_tier every time.
limit == IF account.tier = "scale" THEN ScaleLimit ELSE 1

InProgress == {r \in Requests : pc[r] # "idle"}

WebsiteTypeOK ==
  /\ TypeOK
  /\ websites \in 0..MaxWebsites
  /\ pc \in [Requests -> {"idle", "gate", "provisioning"}]
  /\ readLimit \in [Requests -> {Unread, 1, ScaleLimit}]
  /\ readCount \in [Requests -> 0..MaxWebsites \union {Unread}]
  /\ rivals \in [Requests -> SUBSET Requests]
  /\ allowed \in [Requests -> {Unread, 1, ScaleLimit}]

WebsiteInit ==
  /\ Init
  /\ websites = 0
  /\ pc = [r \in Requests |-> "idle"]
  /\ readLimit = [r \in Requests |-> Unread]
  /\ readCount = [r \in Requests |-> Unread]
  /\ rivals = [r \in Requests |-> {}]
  /\ allowed = [r \in Requests |-> Unread]

-----------------------------------------------------------------------------
\* The gate starts its two reads at the same time.
Begin(r) ==
  /\ pc[r] = "idle"
  /\ pc' = [pc EXCEPT ![r] = "gate"]
  /\ rivals' = [q \in Requests |->
                  IF q = r THEN InProgress
                  ELSE IF q \in InProgress THEN rivals[q] \union {r} ELSE rivals[q]]
  /\ allowed' = [allowed EXCEPT ![r] = Max({Unread} \union {readLimit[q] : q \in Requests})]
  /\ UNCHANGED <<vars, websites, readLimit, readCount>>

\* getEffectivePlanForUser
ReadPlan(r) ==
  /\ pc[r] = "gate"
  /\ readLimit[r] = Unread
  /\ readLimit' = [readLimit EXCEPT ![r] = limit]
  /\ allowed' = [q \in Requests |->
                   IF q \in InProgress THEN Max({allowed[q], limit}) ELSE allowed[q]]
  /\ UNCHANGED <<vars, websites, pc, readCount, rivals>>

\* countTenantsOwnedByUser
CountWebsites(r) ==
  /\ pc[r] = "gate"
  /\ readCount[r] = Unread
  /\ readCount' = [readCount EXCEPT ![r] = websites]
  /\ UNCHANGED <<vars, websites, pc, readLimit, overlap>>

\* Wrong on purpose: one more than the plan allows.
PassesOneMore(r) == readCount[r] <= readLimit[r]

Passes(r) == readCount[r] < readLimit[r]

Provision(r) ==
  /\ pc[r] = "gate"
  /\ Unread \notin {readLimit[r], readCount[r]}
  /\ Passes(r)
  /\ pc' = [pc EXCEPT ![r] = "provisioning"]
  /\ UNCHANGED <<vars, websites, readLimit, readCount, overlap>>

\* The request is answered and what it read forgotten.
Ends(r) ==
  /\ pc' = [pc EXCEPT ![r] = "idle"]
  /\ readLimit' = [readLimit EXCEPT ![r] = Unread]
  /\ readCount' = [readCount EXCEPT ![r] = Unread]
  /\ rivals' = [rivals EXCEPT ![r] = {}]
  /\ allowed' = [allowed EXCEPT ![r] = Unread]

\* 403, or a read throws.
Refuse(r) ==
  /\ pc[r] = "gate"
  /\ Ends(r)
  /\ UNCHANGED <<vars, websites>>

\* Provisioned and linked; the count is not looked at again.
Link(r) ==
  /\ pc[r] = "provisioning"
  /\ websites < MaxWebsites
  /\ websites' = websites + 1
  /\ Ends(r)
  /\ UNCHANGED vars

\* Provisioning or linking throws: no website.
CreationFails(r) ==
  /\ pc[r] = "provisioning"
  /\ Ends(r)
  /\ UNCHANGED <<vars, websites>>

\* A deleted website stops counting at once.
Delete ==
  /\ websites > 0
  /\ websites' = websites - 1
  /\ UNCHANGED <<vars, requests>>

WebsiteNext ==
  \/ \E r \in Requests :
       \/ Begin(r) \/ ReadPlan(r) \/ CountWebsites(r) \/ Provision(r) \/ Refuse(r)
       \/ Link(r) \/ CreationFails(r)
  \/ Delete
  \/ Next /\ UNCHANGED <<websites, requests>>

WebsiteSpec == WebsiteInit /\ [][WebsiteNext]_websiteVars

-----------------------------------------------------------------------------
\* Only creations that overlap get past the limit, each by at most one website,
\* whatever Stripe's events do to the plan meanwhile: a creation ends with no
\* more than the largest limit that was read by it or by one it overlapped, and
\* one more for each of the latter.
OnlyOverlapExceeds ==
  [][\A r \in Requests :
       Link(r) => websites' <= allowed[r] + Cardinality(rivals[r])]_websiteVars
===========================================================================
