------------------------------ MODULE Billing ------------------------------
(***************************************************************************)
(* One user's row in platform.billing_accounts and the Stripe events that  *)
(* keep it (stripe-webhook-handler.ts, billing-repository.ts).  Stripe's   *)
(* side is external: a subscription is paid for, changes its plan or its   *)
(* status, and ends, and each change leaves an event that is delivered     *)
(* until the webhook answers 200.  Subscriptions are for the two plans     *)
(* that have a price; others never reach the row.                          *)
(***************************************************************************)
EXTENDS Sequences, Naturals, SequencesExt

CONSTANTS
  Subscriptions,  \* the subscriptions the user may buy
  Live,           \* Stripe's statuses of a subscription that has not ended
  MaxEvents       \* the bound on the events of all subscriptions

NoSubscription == "none"

ASSUME BillingAssumption ==
  /\ NoSubscription \notin Subscriptions
  /\ "active" \in Live /\ Live \subseteq {"active", "past_due", "unpaid"}
  /\ MaxEvents \in Nat

VARIABLES
  stripe,   \* Stripe's truth of each subscription: its status and plan
  sent,     \* the events not yet answered with 200, oldest first
  count,    \* how many events there have been
  account,  \* the row: plan_tier, status and stripe_subscription_id
  fetched,  \* for a checkout being handled, the subscription as it was fetched
  smooth,   \* history: events came in order, and never two subscriptions at once
  latest    \* history: the subscription whose checkout was handled last

vars == <<stripe, sent, count, account, fetched, smooth, latest>>

SelfServePlans == {"growth", "scale"}
Fetched == [status : Live \union {"canceled"}, plan : SelfServePlans]
Nothing == [status |-> "none"]

Event == [type : {"completed", "updated", "deleted"}, sub : Subscriptions,
          status : Live \union {"canceled"}, plan : SelfServePlans]

\* The CHECK of the column status, which does not know all of Stripe's.
RowStatuses == {"active", "past_due", "canceled"}

\* A user without a row is on the free tier.
FreeTier == [tier |-> "free", status |-> "active", sub |-> NoSubscription]

TypeOK ==
  /\ stripe \in [Subscriptions ->
       [status : Live \union {"unpaid for", "canceled"}, plan : SelfServePlans]]
  /\ Len(sent) <= MaxEvents /\ \A i \in DOMAIN sent : sent[i] \in Event
  /\ count \in 0..MaxEvents
  /\ account \in [tier : SelfServePlans \union {"free"}, status : RowStatuses,
                  sub : Subscriptions \union {NoSubscription}]
  /\ \A s \in Subscriptions : fetched[s] = Nothing \/ fetched[s] \in Fetched
  /\ smooth \in BOOLEAN
  /\ latest \in Subscriptions \union {NoSubscription}

Init ==
  /\ stripe = [s \in Subscriptions |-> [status |-> "unpaid for", plan |-> "growth"]]
  /\ sent = <<>>
  /\ count = 0
  /\ account = FreeTier
  /\ fetched = [s \in Subscriptions |-> Nothing]
  /\ smooth = TRUE
  /\ latest = NoSubscription

-----------------------------------------------------------------------------
\* Stripe's side.
Emit(type, s) ==
  /\ count < MaxEvents
  /\ count' = count + 1
  /\ sent' = Append(sent, [type |-> type, sub |-> s, status |-> stripe'[s].status,
                           plan |-> stripe'[s].plan])
  /\ UNCHANGED <<account, fetched, latest>>

\* A checkout of POST /api/billing/checkout is paid.  The route asks for no more
\* than a plan with a price, so nothing but the user prevents a second purchase.
Pay(s) ==
  /\ stripe[s].status = "unpaid for"
  /\ \E p \in SelfServePlans : stripe' = [stripe EXCEPT ![s] = [status |-> "active", plan |-> p]]
  /\ Emit("completed", s)
  /\ smooth' = (smooth /\ \A r \in Subscriptions : stripe[r].status \notin Live)

Change(s) ==
  /\ stripe[s].status \in Live
  /\ \E p \in SelfServePlans, x \in Live :
       stripe' = [stripe EXCEPT ![s] = [status |-> x, plan |-> p]]
  /\ stripe' # stripe
  /\ Emit("updated", s)
  /\ UNCHANGED smooth

End(s) ==
  /\ stripe[s].status \in Live
  /\ stripe' = [stripe EXCEPT ![s].status = "canceled"]
  /\ Emit("deleted", s)
  /\ UNCHANGED smooth

-----------------------------------------------------------------------------
\* Stripe delivers its events in any order.
Deliver(i) == smooth' = (smooth /\ i = 1)

\* The webhook's answer arrives, or is lost and the event will come again.
Answer(i) == sent' \in {RemoveAt(sent, i), sent} /\ Deliver(i)

\* handleCheckoutSessionCompleted asks Stripe for the subscription ...
FetchSubscription(i) ==
  /\ sent[i].type = "completed"
  /\ fetched[sent[i].sub] = Nothing
  /\ fetched' = [fetched EXCEPT ![sent[i].sub] = stripe[sent[i].sub]]
  /\ Deliver(i)
  /\ UNCHANGED <<stripe, sent, count, account, latest>>

\* ... and replaces the user's row by it, unless the table's CHECK refuses its
\* status.
UpsertFromCheckout(i) ==
  LET s == sent[i].sub IN
  /\ sent[i].type = "completed"
  /\ fetched[s] # Nothing
  /\ fetched[s].status \in RowStatuses
  /\ account' = [tier |-> fetched[s].plan, status |-> fetched[s].status, sub |-> s]
  /\ latest' = s
  /\ fetched' = [fetched EXCEPT ![s] = Nothing]
  /\ Answer(i)
  /\ UNCHANGED <<stripe, count>>

\* The handler dies, or a call in it throws: 500, and the event comes again.
CheckoutFails(s) ==
  /\ fetched[s] # Nothing
  /\ fetched' = [fetched EXCEPT ![s] = Nothing]
  /\ UNCHANGED <<stripe, sent, count, account, smooth, latest>>

\* Wrong on purpose: the plan of an update is dropped.
UpdateStatusOnly(i) ==
  /\ sent[i].type = "updated"
  /\ account.sub = sent[i].sub => sent[i].status \in RowStatuses
  /\ account' = IF account.sub = sent[i].sub
                  THEN [account EXCEPT !.status = sent[i].status]
                  ELSE account
  /\ Answer(i)
  /\ UNCHANGED <<stripe, count, fetched, latest>>

\* The UPDATEs look for the subscription's id alone.  A status that the CHECK
\* refuses is a 500: the row stays as it is and the event comes again.
UpdateSubscription(i) ==
  /\ sent[i].type = "updated"
  /\ account.sub = sent[i].sub => sent[i].status \in RowStatuses
  /\ account' = IF account.sub = sent[i].sub
                  THEN [account EXCEPT !.tier = sent[i].plan, !.status = sent[i].status]
                  ELSE account
  /\ Answer(i)
  /\ UNCHANGED <<stripe, count, fetched, latest>>

\* Wrong on purpose: whichever subscription the row is for.
CancelByUser(i) ==
  /\ sent[i].type = "deleted"
  /\ account' = [account EXCEPT !.tier = "free", !.status = "canceled"]
  /\ Answer(i)
  /\ UNCHANGED <<stripe, count, fetched, latest>>

CancelSubscription(i) ==
  /\ sent[i].type = "deleted"
  /\ account' = IF account.sub = sent[i].sub
                  THEN [account EXCEPT !.tier = "free", !.status = "canceled"]
                  ELSE account
  /\ Answer(i)
  /\ UNCHANGED <<stripe, count, fetched, latest>>

Webhook ==
  \/ \E i \in DOMAIN sent :
       \/ FetchSubscription(i) \/ UpsertFromCheckout(i)
       \/ UpdateSubscription(i) \/ CancelSubscription(i)
  \/ \E s \in Subscriptions : CheckoutFails(s)

Next ==
  \/ \E s \in Subscriptions : Pay(s) \/ Change(s) \/ End(s)
  \/ Webhook

Spec == Init /\ [][Next]_vars

-----------------------------------------------------------------------------
Settled == sent = <<>>

\* "Webhook-driven sync": once every event is answered, the row says what Stripe
\* says: the plan and status of the subscription that is paid for, or the free
\* tier; provided the events came in order, each as often as it may, and no
\* second subscription was bought while one was paid for.
SettledAgrees ==
  Settled /\ smooth =>
    /\ \A s \in Subscriptions : stripe[s].status \in Live =>
         account = [tier |-> stripe[s].plan, status |-> stripe[s].status, sub |-> s]
    /\ (\A s \in Subscriptions : stripe[s].status \notin Live) => account.tier = "free"

\* However late, repeated or disordered the updates and ends of other subscriptions
\* come, and its own, they do not take away what is paid for: from the handling of
\* its checkout on, the row is a paid subscription's and not on the free tier, until
\* the checkout of another is handled.  That may be a later purchase, but also an old
\* checkout delivered late, whose end then leaves a paying user on the free tier.
PaidPlanStays ==
  \A s \in Subscriptions :
    stripe[s].status \in Live /\ latest = s => account.sub = s /\ account.tier # "free"
=============================================================================
