----------------------- MODULE WebsiteLimitProofs -----------------------
(***************************************************************************)
(* What the billing row and the gate of new websites promise, for any      *)
(* number of subscriptions, events and creations: the row agrees with      *)
(* Stripe when events came in order, the last checkout handled keeps its   *)
(* plan while it is paid for, and only creations that overlap exceed the   *)
(* limit.                                                                  *)
(***************************************************************************)
EXTENDS WebsiteLimit, SequenceTheorems, FiniteSetTheorems, TLAPS

-----------------------------------------------------------------------------
(* The billing row.                                                        *)

Paid == {s \in Subscriptions : stripe[s].status \in Live}
RowOf(s) == [tier |-> stripe[s].plan, status |-> stripe[s].status, sub |-> s]
LastSent == sent[Len(sent)]

\* The values have their types.
Typed ==
  /\ TypeOK
  /\ sent \in Seq(Event) /\ Len(sent) <= count
  /\ fetched \in [Subscriptions -> Fetched \union {Nothing}]

\* An event, or a fetched subscription, is of one that was bought, and a deletion's has
\* ended.
EventsAreOfThePast ==
  /\ \A i \in 1..Len(sent) :
       /\ stripe[sent[i].sub].status # "unpaid for"
       /\ sent[i].type = "deleted" => stripe[sent[i].sub].status = "canceled"
  /\ \A s \in Subscriptions : fetched[s] # Nothing => stripe[s].status # "unpaid for"

\* Between the events of two subscriptions is the completed checkout of the later.
Grouped ==
  \A i, j \in 1..Len(sent) :
    i < j /\ sent[i].sub # sent[j].sub =>
      \E k \in 1..j : i < k /\ sent[k].type = "completed" /\ sent[k].sub = sent[j].sub

\* When an update or an end comes to be handled, the row is of its subscription.
Expected ==
  \A i \in 1..Len(sent) :
    \/ sent[i].type = "completed"
    \/ account.sub = sent[i].sub
    \/ \E k \in 1..i-1 : sent[k].type = "completed" /\ sent[k].sub = sent[i].sub

\* The row is what Stripe says, or will be once the last event is handled.
RowFollows ==
  /\ \A s, t \in Paid : s = t
  /\ \A s \in Paid : sent = <<>> => account = RowOf(s)
  /\ \A s \in Paid : sent # <<>> =>
       /\ LastSent.sub = s
       /\ LastSent.type = "updated" =>
            LastSent.plan = stripe[s].plan /\ LastSent.status = stripe[s].status
       /\ LastSent.type = "completed" /\ fetched[s] # Nothing => fetched[s] = stripe[s]
  /\ Paid = {} /\ sent = <<>> => account.tier = "free"
  /\ Paid = {} /\ sent # <<>> => LastSent.type = "deleted"

\* Together they are inductive.
BillingInv ==
  /\ Typed
  /\ EventsAreOfThePast
  /\ smooth => Grouped /\ Expected /\ RowFollows

-----------------------------------------------------------------------------
\* What is left when an element is taken out of a sequence.
LEMMA RemoveAtFacts ==
  ASSUME NEW S, NEW s \in Seq(S), NEW i \in 1..Len(s)
  PROVE  /\ RemoveAt(s, i) \in Seq(S)
         /\ Len(RemoveAt(s, i)) = Len(s) - 1
         /\ \A j \in 1..Len(s) - 1 : RemoveAt(s, i)[j] = IF j < i THEN s[j] ELSE s[j + 1]
<1> DEFINE a == SubSeq(s, 1, i - 1)
           b == SubSeq(s, i + 1, Len(s))
<1>1. /\ a \in Seq(S) /\ Len(a) = i - 1
      /\ \A j \in 1..i - 1 : a[j] = s[j]
  <2>1. \A j \in 1..i - 1 : s[j] \in S
    BY ElementOfSeq
  <2>2. Len(a) = IF 1 <= i - 1 THEN i - 1 - 1 + 1 ELSE 0
    BY <2>1, SubSeqProperties
  <2>3. \A j \in 1..i - 1 - 1 + 1 : a[j] = s[1 + j - 1]
    BY <2>1, SubSeqProperties
  <2>4. a \in Seq(S)
    BY <2>1, SubSeqProperties
  <2> HIDE DEF a
  <2> QED
    BY <2>2, <2>3, <2>4
<1>2. /\ b \in Seq(S) /\ Len(b) = Len(s) - i
      /\ \A j \in 1..Len(s) - i : b[j] = s[i + j]
  <2>1. \A j \in i + 1..Len(s) : s[j] \in S
    BY ElementOfSeq
  <2>2. Len(b) = IF i + 1 <= Len(s) THEN Len(s) - (i + 1) + 1 ELSE 0
    BY <2>1, SubSeqProperties
  <2>3. \A j \in 1..Len(s) - (i + 1) + 1 : b[j] = s[i + 1 + j - 1]
    BY <2>1, SubSeqProperties
  <2>4. b \in Seq(S)
    BY <2>1, SubSeqProperties
  <2> HIDE DEF b
  <2> QED
    BY <2>2, <2>3, <2>4
<1> HIDE DEF a, b
<1>3. /\ a \o b \in Seq(S) /\ Len(a \o b) = Len(a) + Len(b)
      /\ \A j \in 1..Len(a) + Len(b) : (a \o b)[j] = IF j <= Len(a) THEN a[j] ELSE b[j - Len(a)]
  BY <1>1, <1>2, ConcatProperties
<1>4. \A j \in 1..Len(s) - 1 : (a \o b)[j] = IF j < i THEN s[j] ELSE s[j + 1]
  BY <1>1, <1>2, <1>3
<1>5. RemoveAt(s, i) = a \o b
  BY DEF RemoveAt, a, b
<1>6. a \o b \in Seq(S) /\ Len(a \o b) = Len(s) - 1
  BY <1>1, <1>2, <1>3, LenProperties
<1> QED
  BY <1>4, <1>5, <1>6, Zenon

\* What an answered event leaves: the events before it and after it, or all of them.
LEMMA AnswerFacts ==
  ASSUME Typed, NEW i \in DOMAIN sent, Answer(i)
  PROVE  /\ i \in 1..Len(sent)
         /\ sent' \in Seq(Event)
         /\ Len(sent') <= Len(sent)
         /\ \A j \in 1..Len(sent') : \E k \in 1..Len(sent) : sent'[j] = sent[k]
         /\ smooth' => i = 1 /\ smooth
         /\ smooth' \in BOOLEAN
<1>1. i \in 1..Len(sent)
  BY LenProperties DEF Typed
<1>2. smooth' = (smooth /\ i = 1) /\ smooth \in BOOLEAN
  BY DEF Answer, Deliver, Typed, TypeOK
<1>3. (smooth' => i = 1 /\ smooth) /\ smooth' \in BOOLEAN
  BY <1>2
<1>4. CASE sent' = sent
  BY <1>1, <1>3, <1>4, LenProperties DEF Typed
<1>5. CASE sent' = RemoveAt(sent, i)
  <2>1. /\ sent' \in Seq(Event) /\ Len(sent') = Len(sent) - 1
        /\ \A j \in 1..Len(sent) - 1 : sent'[j] = IF j < i THEN sent[j] ELSE sent[j + 1]
    BY <1>1, <1>5, RemoveAtFacts DEF Typed
  <2>2. Len(sent) \in Nat
    BY LenProperties DEF Typed
  <2>3. \A j \in 1..Len(sent') : \E k \in 1..Len(sent) : sent'[j] = sent[k]
    <3> TAKE j \in 1..Len(sent')
    <3>1. /\ j \in 1..Len(sent) /\ j + 1 \in 1..Len(sent)
          /\ sent'[j] = IF j < i THEN sent[j] ELSE sent[j + 1]
      BY <2>1, <2>2
    <3> QED
      BY <3>1
  <2> QED
    BY <1>1, <1>3, <2>1, <2>2, <2>3
<1> QED
  BY <1>4, <1>5 DEF Answer

\* Stripe's event is one more at the end.
LEMMA EmitFacts ==
  ASSUME Typed, NEW type \in {"completed", "updated", "deleted"}, NEW s \in Subscriptions,
         Emit(type, s), stripe'[s].status \in Live \union {"canceled"},
         stripe'[s].plan \in SelfServePlans
  PROVE  /\ sent' \in Seq(Event)
         /\ Len(sent') = Len(sent) + 1
         /\ \A i \in 1..Len(sent) : sent'[i] = sent[i]
         /\ sent'[Len(sent')] = [type |-> type, sub |-> s, status |-> stripe'[s].status,
                                 plan |-> stripe'[s].plan]
<1> DEFINE e == [type |-> type, sub |-> s, status |-> stripe'[s].status, plan |-> stripe'[s].plan]
<1>1. e \in Event
  BY DEF Event
<1>2. sent' = Append(sent, e)
  BY DEF Emit
<1> HIDE DEF e
<1>3. sent' \in Seq(Event) /\ Len(sent') = Len(sent) + 1
      /\ (\A i \in 1..Len(sent) : sent'[i] = sent[i]) /\ sent'[Len(sent) + 1] = e
  BY <1>1, <1>2, AppendProperties DEF Typed
<1> QED
  BY <1>3 DEF e
-----------------------------------------------------------------------------
\* What the types say of the bounds and of one event.
LEMMA TypedFacts ==
  ASSUME Typed
  PROVE  /\ MaxEvents \in Nat /\ count \in Nat /\ Len(sent) \in Nat
         /\ Len(sent) <= count /\ count <= MaxEvents
         /\ DOMAIN sent = 1..Len(sent)
         /\ \A i \in 1..Len(sent) :
              /\ sent[i] \in Event
              /\ sent[i].sub \in Subscriptions /\ sent[i].plan \in SelfServePlans
              /\ sent[i].type \in {"completed", "updated", "deleted"}
         /\ "unpaid for" \notin Live \union {"canceled"} /\ "canceled" \notin Live
<1>1. MaxEvents \in Nat /\ "unpaid for" \notin Live \union {"canceled"} /\ "canceled" \notin Live
  BY BillingAssumption
<1>2. count \in 0..MaxEvents
  BY DEF Typed, TypeOK
<1>3. Len(sent) \in Nat /\ DOMAIN sent = 1..Len(sent) /\ Len(sent) <= count
  BY LenProperties DEF Typed
<1>4. \A i \in 1..Len(sent) : sent[i] \in Event
  BY ElementOfSeq DEF Typed
<1>5. \A i \in 1..Len(sent) :
        /\ sent[i].sub \in Subscriptions /\ sent[i].plan \in SelfServePlans
        /\ sent[i].type \in {"completed", "updated", "deleted"}
  BY <1>4 DEF Event
<1>6. count \in Nat /\ count <= MaxEvents
  <2>1. MaxEvents \in Nat
    BY <1>1
  <2> QED
    BY <1>2, <2>1
<1> QED
  BY <1>1, <1>3, <1>4, <1>5, <1>6

\* What Stripe does keeps the types, and its events of the past.
LEMMA StripeKeepsTypes ==
  ASSUME Typed, EventsAreOfThePast, NEW s \in Subscriptions, Pay(s) \/ Change(s) \/ End(s)
  PROVE  /\ Typed' /\ EventsAreOfThePast'
         /\ stripe'[s].status \in Live \union {"canceled"} /\ stripe'[s].plan \in SelfServePlans
         /\ \A r \in Subscriptions \ {s} : stripe'[r] = stripe[r]
<1>1. \A r \in Subscriptions :
        stripe[r] \in [status : Live \union {"unpaid for", "canceled"}, plan : SelfServePlans]
  BY DEF Typed, TypeOK
<1>2. /\ stripe' \in [Subscriptions ->
            [status : Live \union {"unpaid for", "canceled"}, plan : SelfServePlans]]
      /\ stripe'[s].status \in Live \union {"canceled"}
      /\ \A r \in Subscriptions \ {s} : stripe'[r] = stripe[r]
  <2>1. CASE Pay(s) \/ Change(s)
    <3>1. PICK x \in Live, p \in SelfServePlans :
            stripe' = [stripe EXCEPT ![s] = [status |-> x, plan |-> p]]
      <4>1. CASE Pay(s)
        BY <4>1, BillingAssumption DEF Pay
      <4>2. CASE Change(s)
        BY <4>2 DEF Change
      <4> QED
        BY <2>1, <4>1, <4>2
    <3> DEFINE new == [status |-> x, plan |-> p]
    <3>2. /\ new \in [status : Live \union {"unpaid for", "canceled"}, plan : SelfServePlans]
          /\ new.status \in Live
      BY <3>1
    <3> HIDE DEF new
    <3>3. stripe' = [stripe EXCEPT ![s] = new]
      BY <3>1 DEF new
    <3> QED
      BY <3>2, <3>3 DEF Typed, TypeOK
  <2>3. CASE End(s)
    BY <1>1, <2>3 DEF End, Typed, TypeOK
  <2> QED
    BY <2>1, <2>3
<1>3. stripe'[s].plan \in SelfServePlans
  BY <1>2
<1>4. PICK type \in {"completed", "updated", "deleted"} :
        Emit(type, s) /\ (type = "deleted" => End(s))
  BY DEF Pay, Change, End
<1>5. /\ sent' \in Seq(Event) /\ Len(sent') = Len(sent) + 1
      /\ \A i \in 1..Len(sent) : sent'[i] = sent[i]
      /\ sent'[Len(sent')] = [type |-> type, sub |-> s, status |-> stripe'[s].status,
                                plan |-> stripe'[s].plan]
  BY <1>2, <1>3, <1>4, EmitFacts
<1>6. /\ count \in Nat /\ count < MaxEvents /\ count' = count + 1 /\ Len(sent) \in Nat
      /\ UNCHANGED <<account, fetched, latest>>
  BY <1>4, TypedFacts DEF Emit
<1>7. Len(sent') <= count' /\ Len(sent') <= MaxEvents /\ count' \in 0..MaxEvents
  <2>1. Len(sent) <= count /\ Len(sent) \in Nat /\ MaxEvents \in Nat
    BY TypedFacts
  <2> QED
    BY <1>5, <1>6, <2>1
<1>8. smooth' \in BOOLEAN
  <2>1. CASE Pay(s)
    <3>1. smooth' = (smooth /\ \A r \in Subscriptions : stripe[r].status \notin Live)
      BY <2>1 DEF Pay
    <3> QED
      BY <3>1
  <2>2. CASE Change(s) \/ End(s)
    BY <2>2 DEF Change, End, Typed, TypeOK
  <2> QED
    BY <2>1, <2>2
<1>9. \A i \in DOMAIN sent' : sent'[i] \in Event
  BY <1>5, ElementOfSeq, LenProperties
<1>10. Typed'
  BY <1>2, <1>5, <1>6, <1>7, <1>8, <1>9 DEF Typed, TypeOK
<1>11. EventsAreOfThePast'
  <2>1. stripe'[s].status # "unpaid for"
    BY <1>2, <1>3, TypedFacts
  <2>2. \A r \in Subscriptions :
          /\ stripe[r].status # "unpaid for" => stripe'[r].status # "unpaid for"
          /\ stripe[r].status = "canceled" => stripe'[r].status = "canceled"
    <3>1. stripe[s].status # "canceled"
      BY BillingAssumption DEF Pay, Change, End
    <3> QED
      BY <1>2, <2>1, <3>1
  <2>3. type = "deleted" => stripe'[s].status = "canceled"
    BY <1>4 DEF End, Typed, TypeOK
  <2>4. \A i \in 1..Len(sent) : sent[i].sub \in Subscriptions
    BY TypedFacts
  <2>6. \A i \in 1..Len(sent) : sent'[i] = sent[i]
    BY <1>5
  <2>7. 1..Len(sent') = 1..Len(sent) \union {Len(sent')}
    BY <1>5, <1>6
  <2>8. sent'[Len(sent')].sub = s /\ sent'[Len(sent')].type = type
    BY <1>5
  <2>5. ASSUME NEW i \in 1..Len(sent')
        PROVE  /\ stripe'[sent'[i].sub].status # "unpaid for"
               /\ sent'[i].type = "deleted" => stripe'[sent'[i].sub].status = "canceled"
    <3>1. CASE i = Len(sent')
      BY <2>8, <2>1, <2>3, <3>1
    <3>2. CASE i \in 1..Len(sent)
      BY <2>6, <2>2, <2>4, <3>2 DEF EventsAreOfThePast
    <3> QED
      BY <2>7, <3>1, <3>2
  <2>9. \A r \in Subscriptions : fetched'[r] # Nothing => stripe'[r].status # "unpaid for"
    BY <1>6, <2>2 DEF EventsAreOfThePast
  <2> QED
    BY <2>5, <2>9 DEF EventsAreOfThePast
<1> QED
  BY <1>2, <1>3, <1>10, <1>11

\* So does the webhook.
LEMMA WebhookKeepsTypes ==
  ASSUME Typed, EventsAreOfThePast, Webhook
  PROVE  Typed' /\ EventsAreOfThePast'
<1>1. ASSUME NEW i \in DOMAIN sent, FetchSubscription(i)
      PROVE  Typed' /\ EventsAreOfThePast'
  <2>1. /\ i \in 1..Len(sent) /\ sent[i].sub \in Subscriptions
        /\ stripe[sent[i].sub].status # "unpaid for"
    BY TypedFacts DEF EventsAreOfThePast
  <2>2. stripe[sent[i].sub] \in Fetched
    <3>1. stripe[sent[i].sub] \in [status : Live \union {"unpaid for", "canceled"}, plan : SelfServePlans]
      BY <2>1 DEF Typed, TypeOK
    <3> QED
      BY <2>1, <3>1 DEF Fetched
  <2>3. fetched' \in [Subscriptions -> Fetched \union {Nothing}]
    BY <1>1, <2>1, <2>2 DEF FetchSubscription, Typed
  <2>4. smooth' \in BOOLEAN
    <3>1. smooth' = (smooth /\ i = 1)
      BY <1>1 DEF FetchSubscription, Deliver
    <3> QED
      BY <3>1
  <2>5. UNCHANGED <<stripe, sent, count, account, latest>>
    BY <1>1 DEF FetchSubscription
  <2>6. Typed'
    BY <2>3, <2>4, <2>5 DEF Typed, TypeOK
  <2>7. \A s \in Subscriptions : fetched'[s] # Nothing => stripe[s].status # "unpaid for"
    BY <1>1, <2>1 DEF FetchSubscription, Typed, EventsAreOfThePast
  <2> QED
    BY <2>5, <2>6, <2>7 DEF EventsAreOfThePast
<1>2. ASSUME NEW s \in Subscriptions, CheckoutFails(s)
      PROVE  Typed' /\ EventsAreOfThePast'
  <2>1. fetched' \in [Subscriptions -> Fetched \union {Nothing}]
    BY <1>2 DEF CheckoutFails, Typed
  <2>2. UNCHANGED <<stripe, sent, count, account, smooth, latest>>
    BY <1>2 DEF CheckoutFails
  <2>3. Typed'
    BY <2>1, <2>2 DEF Typed, TypeOK
  <2>4. \A r \in Subscriptions : fetched'[r] # Nothing => fetched[r] # Nothing
    BY <1>2 DEF CheckoutFails, Typed
  <2> QED
    BY <2>2, <2>3, <2>4 DEF EventsAreOfThePast
<1>3. ASSUME NEW i \in DOMAIN sent, UpsertFromCheckout(i) \/ UpdateSubscription(i) \/ CancelSubscription(i)
      PROVE  Typed' /\ EventsAreOfThePast'
  <2>1. Answer(i) /\ UNCHANGED <<stripe, count>>
    BY <1>3 DEF UpsertFromCheckout, UpdateSubscription, CancelSubscription
  <2>2. /\ i \in 1..Len(sent) /\ sent' \in Seq(Event) /\ Len(sent') <= Len(sent)
        /\ \A j \in 1..Len(sent') : \E k \in 1..Len(sent) : sent'[j] = sent[k]
        /\ smooth' \in BOOLEAN
    BY <2>1, AnswerFacts
  <2>3. sent[i] \in Event
    BY <2>2, ElementOfSeq DEF Typed
  <2>4. fetched' \in [Subscriptions -> Fetched \union {Nothing}]
    BY <1>3 DEF UpsertFromCheckout, UpdateSubscription, CancelSubscription, Typed
  <2>5. account' \in [tier : SelfServePlans \union {"free"}, status : RowStatuses,
                      sub : Subscriptions \union {NoSubscription}]
    <3>1. CASE UpsertFromCheckout(i)
      <4> DEFINE s == sent[i].sub
      <4>1. fetched[s] \in Fetched /\ fetched[s].status \in RowStatuses /\ s \in Subscriptions
        BY <2>3, <3>1 DEF UpsertFromCheckout, Typed, Event
      <4>2. account' = [tier |-> fetched[s].plan, status |-> fetched[s].status, sub |-> s]
        BY <3>1 DEF UpsertFromCheckout
      <4> HIDE DEF s
      <4> QED
        BY <4>1, <4>2 DEF Fetched
    <3>2. CASE UpdateSubscription(i)
      BY <2>3, <3>2 DEF UpdateSubscription, Typed, TypeOK, Event
    <3>3. CASE CancelSubscription(i)
      BY <3>3 DEF CancelSubscription, Typed, TypeOK, RowStatuses
    <3> QED
      BY <1>3, <3>1, <3>2, <3>3
  <2>6. \A j \in DOMAIN sent' : sent'[j] \in Event
    BY <2>2, ElementOfSeq, LenProperties
  <2>7. Len(sent') <= count /\ Len(sent') <= MaxEvents
    <3>1. Len(sent) \in Nat /\ Len(sent') \in Nat /\ count \in Nat /\ MaxEvents \in Nat
      BY <2>2, LenProperties, TypedFacts
    <3>2. Len(sent) <= count /\ count <= MaxEvents
      BY TypedFacts
    <3> QED
      BY <2>2, <3>1, <3>2
  <2>8. Typed'
    <3>1. latest' \in Subscriptions \union {NoSubscription}
      BY <1>3, <2>3 DEF UpsertFromCheckout, UpdateSubscription, CancelSubscription, Typed,
        TypeOK, Event
    <3> QED
      BY <2>1, <2>2, <2>4, <2>5, <2>6, <2>7, <3>1 DEF Typed, TypeOK
  <2>9. EventsAreOfThePast'
    <3>1. \A r \in Subscriptions : fetched'[r] # Nothing => fetched[r] # Nothing
      BY <1>3 DEF UpsertFromCheckout, UpdateSubscription, CancelSubscription, Typed
    <3>2. \A j \in 1..Len(sent') :
            /\ stripe'[sent'[j].sub].status # "unpaid for"
            /\ sent'[j].type = "deleted" => stripe'[sent'[j].sub].status = "canceled"
      BY <2>1, <2>2 DEF EventsAreOfThePast
    <3> QED
      BY <2>1, <3>1, <3>2 DEF EventsAreOfThePast
  <2> QED
    BY <2>8, <2>9
<1> QED
  BY <1>1, <1>2, <1>3 DEF Webhook

-----------------------------------------------------------------------------
\* What Stripe does adds an event at the end ...
LEMMA StripeAdds ==
  ASSUME Typed, EventsAreOfThePast, NEW s \in Subscriptions,
         NEW type \in {"completed", "updated", "deleted"}, Emit(type, s),
         Pay(s) \/ Change(s) \/ End(s)
  PROVE  /\ Len(sent) \in Nat /\ Len(sent') = Len(sent) + 1 /\ sent' # <<>>
         /\ \A i \in 1..Len(sent) : sent'[i] = sent[i]
         /\ LastSent'.sub = s /\ LastSent'.type = type
         /\ LastSent'.status = stripe'[s].status /\ LastSent'.plan = stripe'[s].plan
         /\ UNCHANGED <<account, fetched>>
         /\ \A r \in Subscriptions \ {s} : stripe'[r] = stripe[r]
<1>1. /\ stripe'[s].status \in Live \union {"canceled"} /\ stripe'[s].plan \in SelfServePlans
      /\ \A r \in Subscriptions \ {s} : stripe'[r] = stripe[r]
  BY StripeKeepsTypes
<1>2. /\ sent' \in Seq(Event) /\ Len(sent') = Len(sent) + 1
      /\ \A i \in 1..Len(sent) : sent'[i] = sent[i]
      /\ LastSent' = [type |-> type, sub |-> s, status |-> stripe'[s].status,
                      plan |-> stripe'[s].plan]
  BY <1>1, EmitFacts DEF LastSent
<1>3. Len(sent) \in Nat
  BY TypedFacts
<1>4. sent' # <<>>
  BY <1>2, <1>3, EmptySeq
<1> QED
  BY <1>1, <1>2, <1>3, <1>4 DEF Emit

\* ... which leaves the events before it as they are ordered and expected ...
LEMMA StripeKeepsOrder ==
  ASSUME Typed, EventsAreOfThePast, Grouped, Expected, NEW s \in Subscriptions,
         NEW type \in {"completed", "updated", "deleted"}, Emit(type, s),
         Pay(s) \/ Change(s) \/ End(s),
         \/ type = "completed"
         \/ sent = <<>> /\ account.sub = s
         \/ sent # <<>> /\ LastSent.sub = s
  PROVE  Grouped' /\ Expected'
<1> DEFINE n == Len(sent)
<1>1. /\ n \in Nat /\ Len(sent') = n + 1
      /\ \A i \in 1..n : sent'[i] = sent[i]
      /\ sent'[n + 1].sub = s /\ sent'[n + 1].type = type
      /\ account' = account
  BY StripeAdds DEF LastSent
<1>2. type = "completed" \/ (n = 0 /\ account.sub = s) \/ (n > 0 /\ sent[n].sub = s)
  BY <1>1, EmptySeq DEF LastSent, Typed
<1> HIDE DEF n
<1>3. \A i, j \in 1..n :
        i < j /\ sent[i].sub # sent[j].sub =>
          \E k \in 1..j : i < k /\ sent[k].type = "completed" /\ sent[k].sub = sent[j].sub
  BY DEF Grouped, n
<1>4. \A i \in 1..n :
        \/ sent[i].type = "completed"
        \/ account.sub = sent[i].sub
        \/ \E k \in 1..i-1 : sent[k].type = "completed" /\ sent[k].sub = sent[i].sub
  BY DEF Expected, n
<1>5. ASSUME NEW i \in 1..n + 1, NEW j \in 1..n + 1, i < j, sent'[i].sub # sent'[j].sub
      PROVE  \E k \in 1..j : i < k /\ sent'[k].type = "completed" /\ sent'[k].sub = sent'[j].sub
  <2>1. CASE j <= n
    <3>1. i \in 1..n /\ j \in 1..n /\ sent'[i] = sent[i] /\ sent'[j] = sent[j]
      BY <1>1, <1>5, <2>1
    <3>2. PICK k \in 1..j : i < k /\ sent[k].type = "completed" /\ sent[k].sub = sent[j].sub
      BY <1>3, <1>5, <3>1
    <3>3. sent'[k] = sent[k]
      BY <1>1, <2>1, <3>2
    <3> QED
      BY <3>1, <3>2, <3>3
  <2>2. CASE j = n + 1 /\ type = "completed"
    BY <1>1, <1>5, <2>2
  <2>3. CASE j = n + 1 /\ type # "completed"
    <3>1. i \in 1..n /\ n \in 1..n /\ sent[n].sub = s /\ sent'[i] = sent[i]
      BY <1>1, <1>2, <1>5, <2>3
    <3>2. i < n /\ sent[i].sub # sent[n].sub
      BY <1>1, <1>5, <2>3, <3>1
    <3>3. PICK k \in 1..n : i < k /\ sent[k].type = "completed" /\ sent[k].sub = sent[n].sub
      BY <1>3, <3>1, <3>2
    <3>4. sent'[k] = sent[k] /\ k \in 1..j
      BY <1>1, <2>3, <3>3
    <3> QED
      BY <1>1, <2>3, <3>1, <3>3, <3>4
  <2> QED
    BY <1>1, <1>5, <2>1, <2>2, <2>3
<1>6. ASSUME NEW i \in 1..n + 1, sent'[i].type # "completed", account.sub # sent'[i].sub
      PROVE  \E k \in 1..i-1 : sent'[k].type = "completed" /\ sent'[k].sub = sent'[i].sub
  <2>1. CASE i <= n
    <3>1. i \in 1..n /\ sent'[i] = sent[i]
      BY <1>1, <1>6, <2>1
    <3>2. PICK k \in 1..i-1 : sent[k].type = "completed" /\ sent[k].sub = sent[i].sub
      BY <1>4, <1>6, <3>1
    <3>3. sent'[k] = sent[k]
      BY <1>1, <2>1, <3>2
    <3> QED
      BY <3>1, <3>2, <3>3
  <2>2. CASE i = n + 1
    <3>1. n \in 1..n /\ sent[n].sub = s /\ account.sub # s /\ sent'[n] = sent[n]
      BY <1>1, <1>2, <1>6, <2>2
    <3>2. CASE sent[n].type = "completed"
      BY <1>1, <2>2, <3>1, <3>2
    <3>3. CASE sent[n].type # "completed"
      <4>1. PICK k \in 1..n-1 : sent[k].type = "completed" /\ sent[k].sub = sent[n].sub
        BY <1>4, <3>1, <3>3
      <4>2. sent'[k] = sent[k] /\ k \in 1..i-1
        BY <1>1, <2>2, <4>1
      <4> QED
        BY <1>1, <2>2, <3>1, <4>1, <4>2
    <3> QED
      BY <3>2, <3>3
  <2> QED
    BY <1>1, <1>6, <2>1, <2>2
<1>7. Len(sent') = n + 1 /\ account' = account
  BY <1>1
<1>8. Grouped'
  BY <1>5, <1>7 DEF Grouped
<1>9. Expected'
  BY <1>6, <1>7 DEF Expected
<1> QED
  BY <1>8, <1>9

\* ... and which the row will follow.
LEMMA StripeIsFollowed ==
  ASSUME BillingInv, NEW s \in Subscriptions, Pay(s) \/ Change(s) \/ End(s), smooth'
  PROVE  (Grouped /\ Expected /\ RowFollows)'
<1>1. Typed /\ EventsAreOfThePast /\ "unpaid for" \notin Live /\ "canceled" \notin Live
  BY TypedFacts DEF BillingInv
<1>2. Grouped /\ Expected /\ RowFollows /\ (Pay(s) => Paid = {})
  BY <1>1 DEF Pay, Change, End, BillingInv, Paid
<1>3. CASE Pay(s)
  <2>1. Emit("completed", s)
    BY <1>3 DEF Pay
  <2>2. Grouped' /\ Expected'
    BY <1>1, <1>2, <1>3, <2>1, StripeKeepsOrder
  <2>3. /\ sent' # <<>> /\ LastSent'.sub = s /\ LastSent'.type = "completed"
        /\ fetched' = fetched /\ \A r \in Subscriptions \ {s} : stripe'[r] = stripe[r]
    BY <1>1, <1>3, <2>1, StripeAdds
  <2>4. fetched'[s] = Nothing
    BY <1>1, <1>3, <2>3 DEF Pay, EventsAreOfThePast
  <2>5. Paid' = {s}
    <3>1. stripe'[s].status \in Live
      <4>1. PICK p \in SelfServePlans : stripe' = [stripe EXCEPT ![s] = [status |-> "active", plan |-> p]]
        BY <1>3 DEF Pay
      <4>2. stripe'[s] = [status |-> "active", plan |-> p]
        BY <1>1, <4>1 DEF Typed, TypeOK
      <4> QED
        BY <4>2, BillingAssumption
    <3> QED
      BY <1>2, <1>3, <2>3, <3>1 DEF Paid
  <2>6. RowFollows'
    BY <2>3, <2>4, <2>5 DEF RowFollows
  <2> QED
    BY <2>2, <2>6
<1>4. ASSUME Change(s) \/ End(s)
      PROVE  /\ Paid = {s}
             /\ \/ sent = <<>> /\ account.sub = s
                \/ sent # <<>> /\ LastSent.sub = s
  <2>1. s \in Paid
    BY <1>4 DEF Change, End, Paid
  <2>2. Paid = {s}
    BY <1>2, <2>1 DEF RowFollows
  <2>3. CASE sent = <<>>
    BY <1>2, <2>1, <2>2, <2>3 DEF RowFollows, RowOf
  <2>4. CASE sent # <<>>
    BY <1>2, <2>1, <2>2, <2>4 DEF RowFollows
  <2> QED
    BY <2>2, <2>3, <2>4
<1>5. CASE Change(s)
  <2>1. Emit("updated", s) /\ Paid = {s}
    BY <1>4, <1>5 DEF Change
  <2>2. Grouped' /\ Expected'
    BY <1>1, <1>2, <1>4, <1>5, <2>1, StripeKeepsOrder
  <2>3. /\ sent' # <<>> /\ LastSent'.sub = s /\ LastSent'.type = "updated"
        /\ LastSent'.status = stripe'[s].status /\ LastSent'.plan = stripe'[s].plan
        /\ \A r \in Subscriptions \ {s} : stripe'[r] = stripe[r]
    BY <1>1, <1>5, <2>1, StripeAdds
  <2>4. Paid' = {s}
    <3>1. PICK x \in Live, p \in SelfServePlans :
            stripe' = [stripe EXCEPT ![s] = [status |-> x, plan |-> p]]
      BY <1>5 DEF Change
    <3>2. stripe'[s] = [status |-> x, plan |-> p]
      BY <1>1, <3>1 DEF Typed, TypeOK
    <3>3. stripe'[s].status \in Live
      BY <3>1, <3>2
    <3> QED
      BY <2>1, <2>3, <3>3 DEF Paid
  <2>5. RowFollows'
    BY <2>3, <2>4 DEF RowFollows
  <2> QED
    BY <2>2, <2>5
<1>6. CASE End(s)
  <2>1. Emit("deleted", s) /\ Paid = {s}
    BY <1>4, <1>6 DEF End
  <2>2. Grouped' /\ Expected'
    BY <1>1, <1>2, <1>4, <1>6, <2>1, StripeKeepsOrder
  <2>3. /\ sent' # <<>> /\ LastSent'.type = "deleted"
        /\ \A r \in Subscriptions \ {s} : stripe'[r] = stripe[r]
    BY <1>1, <1>6, <2>1, StripeAdds
  <2>4. stripe'[s].status = "canceled"
    BY <1>1, <1>6 DEF End, Typed, TypeOK
  <2>5. Paid' = {}
    BY <1>1, <2>1, <2>3, <2>4 DEF Paid
  <2>6. RowFollows'
    BY <2>3, <2>5 DEF RowFollows
  <2> QED
    BY <2>2, <2>6
<1> QED
  BY <1>3, <1>5, <1>6

-----------------------------------------------------------------------------
\* An event handled in its turn may go, and the row is of its subscription.
LEMMA AnsweredInTurn ==
  ASSUME Typed, 1 \in DOMAIN sent, Answer(1)
  PROVE  \/ sent' = sent
         \/ /\ Len(sent') = Len(sent) - 1
            /\ \A j \in 1..Len(sent) - 1 : sent'[j] = sent[j + 1]
<1>1. 1 \in 1..Len(sent) /\ Len(sent) \in Nat
  BY TypedFacts
<1>2. /\ Len(RemoveAt(sent, 1)) = Len(sent) - 1
      /\ \A j \in 1..Len(sent) - 1 : RemoveAt(sent, 1)[j] = IF j < 1 THEN sent[j] ELSE sent[j + 1]
  BY <1>1, RemoveAtFacts DEF Typed
<1>3. \A j \in 1..Len(sent) - 1 : RemoveAt(sent, 1)[j] = sent[j + 1]
  BY <1>2
<1>4. sent' = sent \/ sent' = RemoveAt(sent, 1)
  BY DEF Answer
<1> QED
  BY <1>2, <1>3, <1>4

LEMMA HandlingKeepsOrder ==
  ASSUME Typed, Grouped, Expected, 1 \in DOMAIN sent, Answer(1),
         sent[1].type = "completed" => account'.sub = sent[1].sub,
         sent[1].type # "completed" => account'.sub = account.sub
  PROVE  /\ Grouped' /\ Expected'
         /\ sent[1].type = "completed" \/ account.sub = sent[1].sub
<1> DEFINE n == Len(sent)
<1>1. n \in Nat /\ 1 \in 1..n
  BY TypedFacts
<1>2. \A i, j \in 1..n :
        i < j /\ sent[i].sub # sent[j].sub =>
          \E k \in 1..j : i < k /\ sent[k].type = "completed" /\ sent[k].sub = sent[j].sub
  BY DEF Grouped
<1>3. \A i \in 1..n :
        \/ sent[i].type = "completed"
        \/ account.sub = sent[i].sub
        \/ \E k \in 1..i-1 : sent[k].type = "completed" /\ sent[k].sub = sent[i].sub
  BY DEF Expected
<1>4. sent[1].type = "completed" \/ account.sub = sent[1].sub
  BY <1>1, <1>3
<1>5. (sent' = sent) \/ (Len(sent') = n - 1 /\ \A j \in 1..n - 1 : sent'[j] = sent[j + 1])
  BY AnsweredInTurn
<1> HIDE DEF n
\* What is expected without the event that was handled.
<1>6. ASSUME NEW i \in 1..n, i # 1, sent[i].type # "completed", account'.sub # sent[i].sub
      PROVE  \E k \in 2..i-1 : sent[k].type = "completed" /\ sent[k].sub = sent[i].sub
  <2>1. CASE sent[1].type = "completed"
    <3>1. PICK k \in 1..i : 1 < k /\ sent[k].type = "completed" /\ sent[k].sub = sent[i].sub
      BY <1>1, <1>2, <1>6, <2>1
    <3>2. k # i
      BY <1>6, <3>1
    <3> QED
      BY <1>6, <3>1, <3>2
  <2>2. CASE sent[1].type # "completed"
    <3>1. PICK k \in 1..i-1 : sent[k].type = "completed" /\ sent[k].sub = sent[i].sub
      BY <1>3, <1>6, <2>2
    <3>2. k # 1
      BY <2>2, <3>1
    <3> QED
      BY <1>6, <3>1, <3>2
  <2> QED
    BY <2>1, <2>2
<1>7. CASE sent' = sent
  <2>1. Grouped'
    BY <1>7 DEF Grouped
  <2>2. ASSUME NEW i \in 1..n, sent[i].type # "completed", account'.sub # sent[i].sub
        PROVE  \E k \in 1..i-1 : sent[k].type = "completed" /\ sent[k].sub = sent[i].sub
    <3>1. i # 1
      BY <1>4, <2>2
    <3>2. PICK k \in 2..i-1 : sent[k].type = "completed" /\ sent[k].sub = sent[i].sub
      BY <1>6, <2>2, <3>1
    <3>3. k \in 1..i-1
      BY <3>2
    <3> QED
      BY <3>2, <3>3
  <2>3. Expected'
    BY <1>7, <2>2 DEF Expected, n
  <2> QED
    BY <1>4, <2>1, <2>3
<1>8. CASE Len(sent') = n - 1 /\ \A j \in 1..n - 1 : sent'[j] = sent[j + 1]
  <2>1. ASSUME NEW i \in 1..n - 1, NEW j \in 1..n - 1, i < j, sent'[i].sub # sent'[j].sub
        PROVE  \E k \in 1..j : i < k /\ sent'[k].type = "completed" /\ sent'[k].sub = sent'[j].sub
    <3>1. /\ i + 1 \in 1..n /\ j + 1 \in 1..n /\ i + 1 < j + 1
          /\ sent'[i] = sent[i + 1] /\ sent'[j] = sent[j + 1]
      BY <1>1, <1>8, <2>1
    <3>2. PICK k \in 1..j + 1 :
            i + 1 < k /\ sent[k].type = "completed" /\ sent[k].sub = sent[j + 1].sub
      BY <1>2, <2>1, <3>1
    <3>3. k - 1 \in 1..j /\ i < k - 1 /\ k - 1 \in 1..n - 1 /\ k - 1 + 1 = k
      BY <1>1, <3>1, <3>2
    <3>4. sent'[k - 1] = sent[k]
      BY <1>8, <3>3
    <3> QED
      BY <3>1, <3>2, <3>3, <3>4
  <2>2. ASSUME NEW i \in 1..n - 1, sent'[i].type # "completed", account'.sub # sent'[i].sub
        PROVE  \E k \in 1..i-1 : sent'[k].type = "completed" /\ sent'[k].sub = sent'[i].sub
    <3>1. i + 1 \in 1..n /\ i + 1 # 1 /\ sent'[i] = sent[i + 1]
      BY <1>1, <1>8
    <3>2. PICK k \in 2..i+1-1 : sent[k].type = "completed" /\ sent[k].sub = sent[i + 1].sub
      BY <1>6, <2>2, <3>1
    <3>3. k - 1 \in 1..i-1 /\ k - 1 \in 1..n - 1 /\ k - 1 + 1 = k
      BY <1>1, <3>1, <3>2
    <3>4. sent'[k - 1] = sent[k]
      BY <1>8, <3>3
    <3> QED
      BY <3>1, <3>2, <3>3, <3>4
  <2>3. Len(sent') = n - 1
    BY <1>8
  <2>4. Grouped'
    BY <2>1, <2>3 DEF Grouped
  <2>5. Expected'
    BY <2>2, <2>3 DEF Expected
  <2> QED
    BY <1>4, <2>4, <2>5
<1> QED
  BY <1>4, <1>5, <1>7, <1>8

\* An event that is handled in its turn brings the row where it is expected.
LEMMA HandlingIsFollowed ==
  ASSUME Typed, EventsAreOfThePast, Grouped, Expected, RowFollows, 1 \in DOMAIN sent,
         UpsertFromCheckout(1) \/ UpdateSubscription(1) \/ CancelSubscription(1)
  PROVE  Grouped' /\ Expected' /\ RowFollows'
<1> DEFINE t == sent[1].sub
<1>1. Answer(1) /\ stripe' = stripe
  BY DEF UpsertFromCheckout, UpdateSubscription, CancelSubscription
<1>2. UpsertFromCheckout(1) =>
        /\ sent[1].type = "completed" /\ fetched[t] # Nothing
        /\ account' = [tier |-> fetched[t].plan, status |-> fetched[t].status, sub |-> t]
  BY DEF UpsertFromCheckout
<1>3. UpdateSubscription(1) =>
        /\ sent[1].type = "updated"
        /\ account' = IF account.sub = t
                        THEN [account EXCEPT !.tier = sent[1].plan, !.status = sent[1].status]
                        ELSE account
  BY DEF UpdateSubscription
<1>4. CancelSubscription(1) =>
        /\ sent[1].type = "deleted"
        /\ account' = IF account.sub = t
                        THEN [account EXCEPT !.tier = "free", !.status = "canceled"]
                        ELSE account
  BY DEF CancelSubscription
<1>5. 1 \in 1..Len(sent) /\ Len(sent) \in Nat /\ t \in Subscriptions /\ sent # <<>>
  <2>1. 1 \in 1..Len(sent) /\ Len(sent) \in Nat /\ t \in Subscriptions
    BY TypedFacts
  <2>2. Len(<<>>) = 0
    BY EmptySeq
  <2> QED
    BY <2>1, <2>2
<1>6. account \in [tier : SelfServePlans \union {"free"}, status : RowStatuses,
                   sub : Subscriptions \union {NoSubscription}]
  BY DEF Typed, TypeOK
<1>7. /\ sent[1].type = "completed" => account'.sub = t
      /\ sent[1].type # "completed" => account'.sub = account.sub
  <2>1. CASE UpsertFromCheckout(1)
    BY <1>2, <2>1
  <2>2. CASE UpdateSubscription(1)
    BY <1>3, <1>6, <2>2
  <2>3. CASE CancelSubscription(1)
    BY <1>4, <1>6, <2>3
  <2> QED
    BY <2>1, <2>2, <2>3
<1>8. Grouped' /\ Expected' /\ (sent[1].type = "completed" \/ account.sub = t)
  BY <1>1, <1>7, HandlingKeepsOrder
<1>9. \A s \in Subscriptions : fetched'[s] # Nothing => fetched'[s] = fetched[s]
  BY DEF UpsertFromCheckout, UpdateSubscription, CancelSubscription, Typed
<1>10. CASE sent' # <<>>
  <2>1. LastSent' = LastSent
    <3>1. Len(sent') \in Nat /\ Len(sent') > 0
      <4>1. sent' \in Seq(Event)
        BY <1>1, AnswerFacts
      <4> QED
        BY <1>10, <4>1, EmptySeq, LenProperties
    <3>2. CASE sent' = sent
      BY <3>2 DEF LastSent
    <3>3. CASE Len(sent') = Len(sent) - 1 /\ \A j \in 1..Len(sent) - 1 : sent'[j] = sent[j + 1]
      <4>1. Len(sent') \in 1..Len(sent) - 1 /\ Len(sent') + 1 = Len(sent)
        BY <1>5, <3>1, <3>3
      <4> QED
        BY <3>3, <4>1 DEF LastSent
    <3> QED
      BY <1>1, <3>2, <3>3, AnsweredInTurn
  <2> QED
    BY <1>1, <1>5, <1>8, <1>9, <1>10, <2>1 DEF RowFollows, Paid
<1>11. CASE sent' = <<>>
  <2>1. LastSent = sent[1]
    <3>1. Len(sent') = 0
      BY <1>11, EmptySeq
    <3>2. Len(sent) = 1
      BY <1>1, <1>5, <1>11, <3>1, AnsweredInTurn
    <3> QED
      BY <3>2 DEF LastSent
  <2>2. ASSUME NEW s \in Paid
        PROVE  account' = RowOf(s)
    <3>1. s = t /\ stripe[s].status # "canceled"
      BY <1>5, <2>1, TypedFacts DEF RowFollows, Paid
    <3>2. CASE UpsertFromCheckout(1)
      BY <1>2, <1>5, <2>1, <3>1, <3>2 DEF RowFollows, RowOf
    <3>3. CASE UpdateSubscription(1)
      <4>1. /\ account' = [account EXCEPT !.tier = sent[1].plan, !.status = sent[1].status]
            /\ account.sub = s
        BY <1>3, <1>8, <3>1, <3>3
      <4>2. sent[1].plan = stripe[s].plan /\ sent[1].status = stripe[s].status
        BY <1>3, <1>5, <2>1, <3>3 DEF RowFollows
      <4> QED
        BY <1>6, <4>1, <4>2 DEF RowOf
    <3>4. CASE CancelSubscription(1)
      BY <1>4, <1>5, <3>1, <3>4 DEF EventsAreOfThePast
    <3> QED
      BY <3>2, <3>3, <3>4
  <2>3. ASSUME Paid = {}
        PROVE  account'.tier = "free"
    <3>1. CancelSubscription(1) /\ account.sub = t
      BY <1>2, <1>3, <1>5, <1>8, <2>1, <2>3 DEF RowFollows
    <3> QED
      BY <1>4, <1>6, <3>1
  <2>4. Paid' = Paid /\ \A s \in Subscriptions : RowOf(s)' = RowOf(s)
    BY <1>1 DEF Paid, RowOf
  <2> QED
    BY <1>8, <1>11, <2>2, <2>3, <2>4 DEF RowFollows, Paid
<1> QED
  BY <1>10, <1>11

-----------------------------------------------------------------------------
\* At first nothing was bought.
LEMMA InitBillingInv == Init => BillingInv
<1> SUFFICES ASSUME Init PROVE BillingInv
  OBVIOUS
<1>1. sent = <<>> /\ Len(sent) = 0 /\ sent \in Seq(Event) /\ DOMAIN sent = 1..0
  BY EmptySeq, LenProperties DEF Init
<1>2. TypeOK
  <2>1. stripe \in [Subscriptions ->
          [status : Live \union {"unpaid for", "canceled"}, plan : SelfServePlans]]
    BY DEF Init, SelfServePlans
  <2>2. account \in [tier : SelfServePlans \union {"free"}, status : RowStatuses,
                     sub : Subscriptions \union {NoSubscription}]
    BY DEF Init, FreeTier, RowStatuses
  <2>3. \A i \in DOMAIN sent : sent[i] \in Event
    BY <1>1
  <2>4. Len(sent) <= MaxEvents /\ count \in 0..MaxEvents
    <3>1. MaxEvents \in Nat /\ count = 0
      BY BillingAssumption DEF Init
    <3> QED
      BY <1>1, <3>1
  <2> QED
    BY <2>1, <2>2, <2>3, <2>4 DEF Init, TypeOK
<1>3. Typed
  <2>1. Len(sent) <= count
    <3>1. count = 0
      BY DEF Init
    <3> QED
      BY <1>1, <3>1
  <2>2. fetched \in [Subscriptions -> Fetched \union {Nothing}]
    BY DEF Init
  <2> QED
    BY <1>1, <1>2, <2>1, <2>2 DEF Typed
<1>4. EventsAreOfThePast
  <2>1. \A s \in Subscriptions : fetched[s] = Nothing
    BY DEF Init
  <2>2. \A i \in 1..Len(sent) : FALSE
    BY <1>1
  <2> QED
    BY <2>1, <2>2 DEF EventsAreOfThePast
<1>5. Paid = {}
  BY BillingAssumption DEF Init, Paid
<1>6. Grouped /\ Expected
  BY <1>1 DEF Grouped, Expected
<1>7. RowFollows
  BY <1>1, <1>5 DEF Init, FreeTier, RowFollows
<1> QED
  BY <1>3, <1>4, <1>6, <1>7 DEF BillingInv

\* Every step of Stripe and of the webhook keeps the invariant.
LEMMA BillingInvIsKept ==
  ASSUME BillingInv, [Next]_vars
  PROVE  BillingInv'
<1> USE DEF BillingInv
<1>1. CASE \E s \in Subscriptions : Pay(s) \/ Change(s) \/ End(s)
  <2>1. PICK s \in Subscriptions : Pay(s) \/ Change(s) \/ End(s)
    BY <1>1
  <2>2. Typed' /\ EventsAreOfThePast'
    BY <2>1, StripeKeepsTypes
  <2>3. smooth' => (Grouped /\ Expected /\ RowFollows)'
    BY <2>1, StripeIsFollowed
  <2> QED
    BY <2>2, <2>3
<1>2. ASSUME NEW i \in DOMAIN sent, FetchSubscription(i), smooth'
      PROVE  Grouped' /\ Expected' /\ RowFollows'
  <2>1. i = 1 /\ smooth /\ UNCHANGED <<stripe, sent, account>>
    BY <1>2 DEF FetchSubscription, Deliver
  <2>2. Grouped' /\ Expected'
    <3>1. Grouped /\ Expected /\ sent' = sent /\ account' = account
      BY <2>1
    <3>2. Grouped'
      BY <3>1 DEF Grouped
    <3>3. Expected'
      BY <3>1 DEF Expected
    <3> QED
      BY <3>2, <3>3
  <2>3. \A s \in Subscriptions : fetched'[s] = fetched[s] \/ fetched'[s] = stripe[s]
    BY <1>2 DEF FetchSubscription, Typed
  <2>4. RowFollows'
    BY <2>1, <2>3 DEF RowFollows, Paid, RowOf, LastSent
  <2> QED
    BY <2>2, <2>4
<1>3. ASSUME NEW s \in Subscriptions, CheckoutFails(s), smooth'
      PROVE  Grouped' /\ Expected' /\ RowFollows'
  <2>1. smooth /\ UNCHANGED <<stripe, sent, account>>
    BY <1>3 DEF CheckoutFails
  <2>2. Grouped' /\ Expected'
    <3>1. Grouped /\ Expected /\ sent' = sent /\ account' = account
      BY <2>1
    <3>2. Grouped'
      BY <3>1 DEF Grouped
    <3>3. Expected'
      BY <3>1 DEF Expected
    <3> QED
      BY <3>2, <3>3
  <2>3. \A r \in Subscriptions : fetched'[r] = fetched[r] \/ fetched'[r] = Nothing
    BY <1>3 DEF CheckoutFails, Typed
  <2>4. RowFollows'
    BY <2>1, <2>3 DEF RowFollows, Paid, RowOf, LastSent
  <2> QED
    BY <2>2, <2>4
<1>4. ASSUME NEW i \in DOMAIN sent, smooth',
             UpsertFromCheckout(i) \/ UpdateSubscription(i) \/ CancelSubscription(i)
      PROVE  Grouped' /\ Expected' /\ RowFollows'
  <2>1. Answer(i)
    BY <1>4 DEF UpsertFromCheckout, UpdateSubscription, CancelSubscription
  <2>2. i = 1 /\ smooth
    BY <1>4, <2>1, AnswerFacts
  <2> QED
    BY <1>4, <2>2, HandlingIsFollowed
<1>5. CASE Webhook
  <2>1. Typed' /\ EventsAreOfThePast'
    BY <1>5, WebhookKeepsTypes
  <2>2. smooth' => Grouped' /\ Expected' /\ RowFollows'
    BY <1>2, <1>3, <1>4, <1>5 DEF Webhook
  <2> QED
    BY <2>1, <2>2
<1>6. CASE UNCHANGED vars
  <2>1. Typed' /\ EventsAreOfThePast'
    BY <1>6 DEF vars, Typed, TypeOK, EventsAreOfThePast
  <2>2. smooth' => Grouped' /\ Expected' /\ RowFollows'
    BY <1>6 DEF vars, Grouped, Expected, RowFollows, Paid, RowOf, LastSent
  <2> QED
    BY <2>1, <2>2
<1> QED
  BY <1>1, <1>5, <1>6 DEF Next

\* The invariant of the billing row holds in every state.
THEOREM BillingInductive == Spec => []BillingInv
<1>1. BillingInv /\ [Next]_vars => BillingInv'
  BY BillingInvIsKept
<1> QED
  BY InitBillingInv, <1>1, PTL DEF Spec

\* Whatever is bought, changed and ended, and however often an answer is lost: once
\* all events are answered in their order, the row says what Stripe says.
THEOREM SettledRowAgrees == Spec => []SettledAgrees
<1>1. BillingInv => SettledAgrees
  BY DEF BillingInv, RowFollows, Paid, RowOf, Settled, SettledAgrees
<1> QED
  BY BillingInductive, <1>1, PTL

\* The row is of the subscription whose checkout was handled last, which was bought; while
\* it is paid for, the row is not on the free tier.
RowIsHeld ==
  /\ latest = account.sub
  /\ \A s \in Subscriptions : latest = s =>
       /\ stripe[s].status # "unpaid for"
       /\ stripe[s].status \in Live => account.tier # "free"

\* Stripe's side leaves the row alone, and an end of what it is for ends the claim.
LEMMA StripeKeepsHeld ==
  ASSUME BillingInv, RowIsHeld, NEW s \in Subscriptions, Pay(s) \/ Change(s) \/ End(s)
  PROVE  RowIsHeld'
<1>1. UNCHANGED <<account, latest>>
  BY DEF Pay, Change, End, Emit
<1>2. stripe \in [Subscriptions ->
        [status : Live \union {"unpaid for", "canceled"}, plan : SelfServePlans]]
  BY DEF BillingInv, Typed, TypeOK
<1>3. \A r \in Subscriptions : r # s => stripe'[r] = stripe[r]
  BY <1>2 DEF Pay, Change, End
<1>4. CASE Pay(s)
  BY <1>1, <1>3, <1>4 DEF Pay, RowIsHeld
<1>5. CASE Change(s)
  <2>1. stripe'[s].status \in Live /\ stripe[s].status \in Live
    <3>1. PICK p \in SelfServePlans, x \in Live :
            stripe' = [stripe EXCEPT ![s] = [status |-> x, plan |-> p]]
      BY <1>5 DEF Change
    <3>2. stripe'[s] = [status |-> x, plan |-> p]
      BY <1>2, <3>1
    <3> QED
      BY <1>5, <3>2 DEF Change
  <2>2. "unpaid for" \notin Live
    BY BillingAssumption
  <2> QED
    BY <1>1, <1>3, <2>1, <2>2 DEF RowIsHeld
<1>6. CASE End(s)
  <2>1. stripe'[s].status = "canceled"
    BY <1>2, <1>6 DEF End
  <2>2. "canceled" \notin Live
    BY BillingAssumption
  <2> QED
    BY <1>1, <1>3, <2>1, <2>2 DEF RowIsHeld
<1> QED
  BY <1>4, <1>5, <1>6

\* The webhook changes whose the row is by a checkout alone, which puts it on a plan; and an
\* end is of a subscription that ended.
LEMMA WebhookKeepsHeld ==
  ASSUME BillingInv, RowIsHeld, Webhook
  PROVE  RowIsHeld'
<1>1. Typed /\ EventsAreOfThePast
  BY DEF BillingInv
<1>2. stripe' = stripe
  BY DEF Webhook, FetchSubscription, UpsertFromCheckout, UpdateSubscription,
         CancelSubscription, CheckoutFails
<1>3. ASSUME NEW i \in DOMAIN sent, UpsertFromCheckout(i)
      PROVE  RowIsHeld'
  <2> DEFINE s == sent[i].sub
  <2>1. s \in Subscriptions
    BY <1>1, TypedFacts
  <2>2. fetched[s] \in Fetched /\ fetched[s] # Nothing
    BY <1>1, <1>3, <2>1 DEF UpsertFromCheckout, Typed
  <2>3. stripe[s].status # "unpaid for"
    BY <1>1, <2>1, <2>2 DEF EventsAreOfThePast
  <2>4. latest' = s /\ account'.sub = s /\ account'.tier = fetched[s].plan
    BY <1>3 DEF UpsertFromCheckout
  <2>5. account'.tier # "free"
    BY <2>2, <2>4 DEF Fetched, SelfServePlans
  <2> HIDE DEF s
  <2> QED
    BY <1>2, <2>3, <2>4, <2>5 DEF RowIsHeld
<1>4. ASSUME NEW i \in DOMAIN sent, UpdateSubscription(i)
      PROVE  RowIsHeld'
  <2>1. sent[i].plan \in SelfServePlans
    BY <1>1, TypedFacts
  <2>2. latest' = latest /\ account'.sub = account.sub
    BY <1>1, <1>4 DEF UpdateSubscription, Typed, TypeOK
  <2>3. account' = account \/ account'.tier # "free"
    BY <1>1, <1>4, <2>1 DEF UpdateSubscription, SelfServePlans, Typed, TypeOK
  <2> QED
    BY <1>2, <2>2, <2>3 DEF RowIsHeld
<1>5. ASSUME NEW i \in DOMAIN sent, CancelSubscription(i)
      PROVE  RowIsHeld'
  <2>1. i \in 1..Len(sent) /\ sent[i].type = "deleted" /\ "canceled" \notin Live
    BY <1>1, <1>5, TypedFacts DEF CancelSubscription
  <2>2. stripe[sent[i].sub].status \notin Live
    BY <1>1, <2>1 DEF EventsAreOfThePast
  <2>3. latest' = latest /\ account'.sub = account.sub
    BY <1>1, <1>5 DEF CancelSubscription, Typed, TypeOK
  <2>4. account' = account \/ account.sub = sent[i].sub
    BY <1>5 DEF CancelSubscription
  <2> QED
    BY <1>2, <2>2, <2>3, <2>4 DEF RowIsHeld
<1>6. CASE UNCHANGED <<stripe, account, latest>>
  BY <1>6 DEF RowIsHeld
<1> QED
  BY <1>3, <1>4, <1>5, <1>6 DEF Webhook, FetchSubscription, CheckoutFails

\* In whatever order and however often events come, the subscription whose checkout was
\* handled last keeps the row and a plan while it is paid for.
THEOREM PaidPlansStay == Spec => []PaidPlanStays
<1>1. Init => RowIsHeld
  <2>1. ASSUME Init PROVE latest = NoSubscription /\ account.sub = NoSubscription
    BY <2>1 DEF Init, FreeTier
  <2> QED
    BY <2>1, BillingAssumption DEF RowIsHeld
<1>2. BillingInv /\ RowIsHeld /\ [Next]_vars => RowIsHeld'
  <2>1. ASSUME RowIsHeld, UNCHANGED vars PROVE RowIsHeld'
    BY <2>1 DEF vars, RowIsHeld
  <2> QED
    BY <2>1, StripeKeepsHeld, WebhookKeepsHeld DEF Next
<1>3. RowIsHeld => PaidPlanStays
  BY DEF RowIsHeld, PaidPlanStays
<1> QED
  BY BillingInductive, <1>1, <1>2, <1>3, PTL DEF Spec

-----------------------------------------------------------------------------
(* The gate of new websites.                                               *)

\* The values have their types, whatever the row is.
GateTyped ==
  /\ websites \in 0..MaxWebsites
  /\ pc \in [Requests -> {"idle", "gate", "provisioning"}]
  /\ readLimit \in [Requests -> {Unread, 1, ScaleLimit}]
  /\ readCount \in [Requests -> 0..MaxWebsites \union {Unread}]
  /\ rivals \in [Requests -> SUBSET Requests]
  /\ allowed \in [Requests -> {Unread, 1, ScaleLimit}]

\* What a request has read, by where it is.
ReadsBy ==
  \A r \in Requests :
    /\ pc[r] = "idle" => readLimit[r] = Unread /\ readCount[r] = Unread
    /\ pc[r] = "provisioning" =>
         readLimit[r] # Unread /\ readCount[r] # Unread /\ readCount[r] < readLimit[r]

\* Requests in progress know of each other, and allow what each of them read.
KnowEachOther ==
  \A q, r \in InProgress :
    /\ q # r => q \in rivals[r]
    /\ readLimit[q] <= allowed[r]

\* The requests that may still link a website when n are allowed.
Pending(n) == {q \in InProgress : readCount[q] # Unread /\ readCount[q] < n}

\* Counted and linked alternate: of a request and its rivals, each adds at most one to
\* what the last of them counted.
OverlapBound ==
  \A r \in InProgress, n \in Nat :
    readCount[r] # Unread /\ readCount[r] < n /\ allowed[r] <= n =>
      websites + Cardinality(Pending(n)) <= n - 1 + Cardinality(rivals[r] \union {r})

\* Together they are inductive.
GateInv == GateTyped /\ ReadsBy /\ KnowEachOther /\ OverlapBound

-----------------------------------------------------------------------------
\* The sets involved are finite, and Unread is below everything that is read.
LEMMA GateFacts ==
  ASSUME GateTyped
  PROVE  /\ ScaleLimit \in Nat \ {0} /\ MaxWebsites \in Nat /\ Unread = -1
         /\ websites \in Nat /\ limit \in {1, ScaleLimit}
         /\ \A S \in SUBSET Requests : IsFiniteSet(S) /\ Cardinality(S) \in Nat
         /\ \A r \in Requests : rivals[r] \union {r} \in SUBSET Requests
         /\ \A n \in Nat : Pending(n) \in SUBSET Requests
<1>1. ScaleLimit \in Nat \ {0} /\ MaxWebsites \in Nat /\ Unread = -1
  BY WebsiteAssumption DEF Unread
<1>2. websites \in Nat
  BY <1>1 DEF GateTyped
<1>3. ASSUME NEW S \in SUBSET Requests
      PROVE  IsFiniteSet(S) /\ Cardinality(S) \in Nat
  BY WebsiteAssumption, FS_Subset, FS_CardinalityType
<1>4. limit \in {1, ScaleLimit}
  BY DEF limit
<1>5. \A r \in Requests : rivals[r] \union {r} \in SUBSET Requests
  BY DEF GateTyped
<1>6. \A n \in Nat : Pending(n) \in SUBSET Requests
  BY DEF Pending, InProgress
<1> QED
  BY <1>1, <1>2, <1>3, <1>4, <1>5, <1>6

\* The largest of what may be read.
LEMMA MaxOfLimits ==
  ASSUME NEW S \in SUBSET {Unread, 1, ScaleLimit}, S # {}
  PROVE  Max(S) \in {Unread, 1, ScaleLimit} /\ \A x \in S : x <= Max(S)
<1>1. ScaleLimit \in Int /\ 1 <= ScaleLimit /\ Unread = -1
  BY WebsiteAssumption DEF Unread
<1>2. \E x \in S : \A y \in S : x >= y
  <2>1. CASE ScaleLimit \in S
    BY <1>1, <2>1
  <2>2. CASE ScaleLimit \notin S /\ 1 \in S
    BY <1>1, <2>2
  <2>3. CASE ScaleLimit \notin S /\ 1 \notin S
    <3>1. Unread \in S /\ \A y \in S : y = Unread
      BY <2>3
    <3>2. Unread >= Unread
      BY <1>1
    <3> QED
      BY <3>1, <3>2
  <2> QED
    BY <2>1, <2>2, <2>3
<1>3. Max(S) \in S /\ \A y \in S : Max(S) >= y
  BY <1>2 DEF Max
<1>4. \A x \in S : x \in Int
  BY <1>1
<1> QED
  BY <1>3, <1>4

\* A request that begins is known to all in progress, and knows them.
LEMMA BeginKeepsGate ==
  ASSUME GateInv, NEW r \in Requests, Begin(r)
  PROVE  GateInv'
<1> USE DEF GateInv
<1>1. /\ pc[r] = "idle" /\ pc' = [pc EXCEPT ![r] = "gate"]
      /\ rivals' = [q \in Requests |->
                      IF q = r THEN InProgress
                      ELSE IF q \in InProgress THEN rivals[q] \union {r} ELSE rivals[q]]
      /\ allowed' = [allowed EXCEPT ![r] = Max({Unread} \union {readLimit[q] : q \in Requests})]
      /\ UNCHANGED <<websites, readLimit, readCount>>
  BY DEF Begin
<1> DEFINE L == {Unread} \union {readLimit[q] : q \in Requests}
<1>2. /\ Max(L) \in {Unread, 1, ScaleLimit}
      /\ \A q \in Requests : readLimit[q] <= Max(L)
  <2>1. L \in SUBSET {Unread, 1, ScaleLimit} /\ L # {}
    BY DEF GateTyped
  <2>2. \A q \in Requests : readLimit[q] \in L
    OBVIOUS
  <2> HIDE DEF L
  <2> QED
    BY <2>1, <2>2, MaxOfLimits
<1> HIDE DEF L
<1>3. allowed' = [allowed EXCEPT ![r] = Max(L)]
  BY <1>1 DEF L
<1>4. InProgress \in SUBSET Requests /\ InProgress' = InProgress \union {r} /\ r \notin InProgress
  BY <1>1 DEF InProgress, GateTyped
<1>5. GateTyped'
  <2>1. rivals' \in [Requests -> SUBSET Requests]
    BY <1>1, <1>4 DEF GateTyped
  <2>2. allowed' \in [Requests -> {Unread, 1, ScaleLimit}]
    BY <1>2, <1>3 DEF GateTyped
  <2>3. pc' \in [Requests -> {"idle", "gate", "provisioning"}]
    BY <1>1 DEF GateTyped
  <2> QED
    BY <1>1, <2>1, <2>2, <2>3 DEF GateTyped
<1>6. ReadsBy'
  BY <1>1 DEF ReadsBy, GateTyped
<1>7. KnowEachOther'
  <2>1. ASSUME NEW q \in InProgress', NEW p \in InProgress', q # p
        PROVE  q \in rivals'[p]
    BY <1>1, <1>4, <2>1 DEF KnowEachOther
  <2>2. ASSUME NEW q \in InProgress', NEW p \in InProgress'
        PROVE  readLimit'[q] <= allowed'[p]
    <3>1. q \in Requests /\ p \in Requests /\ readLimit' = readLimit
      BY <1>1, <1>4
    <3>2. CASE p = r
      BY <1>2, <1>3, <3>1, <3>2 DEF GateTyped
    <3>3. CASE p # r /\ q # r
      BY <1>3, <1>4, <3>1, <3>3 DEF KnowEachOther, GateTyped
    <3>4. CASE p # r /\ q = r
      <4>1. readLimit[r] = Unread /\ allowed'[p] \in {Unread, 1, ScaleLimit}
        BY <1>1, <1>5, <3>1 DEF ReadsBy, GateTyped
      <4> QED
        BY <3>1, <3>4, <4>1, GateFacts
    <3> QED
      BY <3>2, <3>3, <3>4
  <2> QED
    BY <2>1, <2>2 DEF KnowEachOther
<1>8. OverlapBound'
  <2>1. ASSUME NEW q \in InProgress', NEW n \in Nat,
               readCount'[q] # Unread, readCount'[q] < n, allowed'[q] <= n
        PROVE  websites' + Cardinality(Pending(n)') <= n - 1 + Cardinality(rivals'[q] \union {q})
    <3>1. readCount[r] = Unread /\ readCount' = readCount /\ websites' = websites
      BY <1>1 DEF ReadsBy
    <3>2. q # r /\ q \in InProgress /\ q \in Requests
      BY <1>4, <2>1, <3>1
    <3>3. Pending(n)' = Pending(n)
      BY <1>4, <3>1 DEF Pending
    <3>4. allowed'[q] = allowed[q] /\ rivals'[q] = rivals[q] \union {r}
      BY <1>1, <1>3, <3>2 DEF GateTyped
    <3>5. websites + Cardinality(Pending(n)) <= n - 1 + Cardinality(rivals[q] \union {q})
      BY <2>1, <3>1, <3>2, <3>4 DEF OverlapBound
    <3>6. Cardinality(rivals[q] \union {q}) <= Cardinality(rivals'[q] \union {q})
      <4>1. rivals'[q] \union {q} \in SUBSET Requests
        BY <1>5, <3>2 DEF GateTyped
      <4>2. IsFiniteSet(rivals'[q] \union {q})
        BY <4>1, GateFacts
      <4>3. rivals[q] \union {q} \in SUBSET (rivals'[q] \union {q})
        BY <3>4
      <4> QED
        BY <4>2, <4>3, FS_Subset
    <3>7. /\ Cardinality(rivals[q] \union {q}) \in Nat /\ Cardinality(rivals'[q] \union {q}) \in Nat
          /\ Cardinality(Pending(n)) \in Nat /\ websites \in Nat
      <4>1. rivals'[q] \union {q} \in SUBSET Requests
        BY <1>5, <3>2 DEF GateTyped
      <4> QED
        BY <3>2, <4>1, GateFacts
    <3> QED
      BY <3>1, <3>3, <3>5, <3>6, <3>7
  <2> QED
    BY <2>1 DEF OverlapBound
<1> QED
  BY <1>5, <1>6, <1>7, <1>8

\* The plan is read: more may be allowed than before, never less.
LEMMA ReadPlanKeepsGate ==
  ASSUME GateInv, NEW r \in Requests, ReadPlan(r)
  PROVE  GateInv'
<1> USE DEF GateInv
<1>1. /\ pc[r] = "gate" /\ readLimit' = [readLimit EXCEPT ![r] = limit]
      /\ allowed' = [q \in Requests |->
                       IF q \in InProgress THEN Max({allowed[q], limit}) ELSE allowed[q]]
      /\ UNCHANGED <<websites, pc, readCount, rivals>>
  BY DEF ReadPlan
<1>2. InProgress' = InProgress /\ r \in InProgress
  BY <1>1 DEF InProgress
<1>3. limit \in {1, ScaleLimit} /\ ScaleLimit \in Nat \ {0} /\ Unread = -1
  BY GateFacts
<1>4. ASSUME NEW q \in InProgress
      PROVE  /\ allowed'[q] \in {Unread, 1, ScaleLimit}
             /\ allowed[q] <= allowed'[q] /\ limit <= allowed'[q]
  <2>1. q \in Requests
    BY <1>4 DEF InProgress
  <2>2. {allowed[q], limit} \in SUBSET {Unread, 1, ScaleLimit}
    BY <1>3, <2>1 DEF GateTyped
  <2>3. allowed'[q] = Max({allowed[q], limit})
    BY <1>1, <1>4, <2>1
  <2> QED
    BY <2>2, <2>3, MaxOfLimits
<1>5. GateTyped'
  <2>1. readLimit' \in [Requests -> {Unread, 1, ScaleLimit}]
    BY <1>1, <1>3 DEF GateTyped
  <2>2. \A q \in Requests : allowed'[q] \in {Unread, 1, ScaleLimit}
    BY <1>1, <1>4 DEF GateTyped
  <2>3. allowed' \in [Requests -> {Unread, 1, ScaleLimit}]
    BY <1>1, <2>2
  <2> QED
    BY <1>1, <2>1, <2>3 DEF GateTyped
<1>6. ReadsBy'
  BY <1>1 DEF ReadsBy, GateTyped
<1>7. KnowEachOther'
  <2>1. ASSUME NEW q \in InProgress, NEW p \in InProgress
        PROVE  readLimit'[q] <= allowed'[p]
    <3>1. q \in Requests /\ p \in Requests
      BY DEF InProgress
    <3>2. CASE q = r
      BY <1>1, <1>4, <3>1, <3>2 DEF GateTyped
    <3>3. CASE q # r
      <4>1. readLimit'[q] = readLimit[q] /\ readLimit[q] <= allowed[p] /\ allowed[p] <= allowed'[p]
        BY <1>1, <1>4, <3>1, <3>3 DEF KnowEachOther, GateTyped
      <4>2. readLimit[q] \in Int /\ allowed[p] \in Int /\ allowed'[p] \in Int
        BY <1>3, <1>4, <3>1 DEF GateTyped
      <4> QED
        BY <4>1, <4>2
    <3> QED
      BY <3>2, <3>3
  <2>2. \A q, p \in InProgress : q # p => q \in rivals'[p]
    BY <1>1 DEF KnowEachOther
  <2> QED
    BY <1>2, <2>1, <2>2 DEF KnowEachOther
<1>8. OverlapBound'
  <2>1. ASSUME NEW q \in InProgress, NEW n \in Nat, allowed'[q] <= n
        PROVE  allowed[q] <= n
    <3>1. allowed[q] \in Int /\ allowed'[q] \in Int /\ allowed[q] <= allowed'[q]
      BY <1>3, <1>4 DEF InProgress, GateTyped
    <3> QED
      BY <2>1, <3>1
  <2>2. \A n \in Nat : Pending(n)' = Pending(n)
    BY <1>1, <1>2 DEF Pending
  <2> QED
    BY <1>1, <1>2, <2>1, <2>2 DEF OverlapBound
<1> QED
  BY <1>5, <1>6, <1>7, <1>8

\* The websites are counted: what may still be linked on top of them is the requests in
\* progress, which know of each other.
LEMMA CountKeepsGate ==
  ASSUME GateInv, NEW r \in Requests, CountWebsites(r)
  PROVE  GateInv'
<1> USE DEF GateInv
<1>1. /\ pc[r] = "gate" /\ readCount[r] = Unread
      /\ readCount' = [readCount EXCEPT ![r] = websites]
      /\ UNCHANGED <<websites, pc, readLimit, rivals, allowed>>
  BY DEF CountWebsites, overlap
<1>2. InProgress' = InProgress /\ r \in InProgress /\ InProgress \in SUBSET Requests
  BY <1>1 DEF InProgress
<1>3. GateTyped' /\ ReadsBy' /\ KnowEachOther'
  BY <1>1, <1>2 DEF GateTyped, ReadsBy, KnowEachOther
<1>4. ASSUME NEW q \in InProgress, NEW n \in Nat,
             readCount'[q] # Unread, readCount'[q] < n, allowed[q] <= n
      PROVE  websites + Cardinality(Pending(n)') <= n - 1 + Cardinality(rivals[q] \union {q})
  <2>1. Cardinality(rivals[q] \union {q}) \in Nat /\ websites \in Nat
    BY <1>2, GateFacts
  <2>2. CASE websites < n
    <3>1. Pending(n)' \in SUBSET InProgress
      BY <1>2 DEF Pending
    <3>2. InProgress \in SUBSET (rivals[q] \union {q})
      BY DEF KnowEachOther
    <3>3. IsFiniteSet(rivals[q] \union {q})
      BY <1>2, GateFacts
    <3>4. Pending(n)' \in SUBSET (rivals[q] \union {q}) /\ Pending(n)' \in SUBSET Requests
      BY <1>2, <3>1, <3>2
    <3>5. Cardinality(Pending(n)') <= Cardinality(rivals[q] \union {q})
      BY <3>3, <3>4, FS_Subset
    <3>6. Cardinality(Pending(n)') \in Nat
      BY <3>4, GateFacts
    <3> QED
      BY <2>1, <2>2, <3>5, <3>6
  <2>3. CASE ~(websites < n)
    <3>1. q # r /\ readCount'[q] = readCount[q]
      BY <1>1, <1>2, <1>4, <2>3 DEF GateTyped
    <3>2. Pending(n)' = Pending(n)
      <4>1. \A p \in InProgress :
              (readCount'[p] # Unread /\ readCount'[p] < n) <=> (readCount[p] # Unread /\ readCount[p] < n)
        BY <1>1, <1>2, <2>3 DEF GateTyped
      <4> QED
        BY <1>2, <4>1 DEF Pending
    <3> QED
      BY <1>4, <3>1, <3>2 DEF OverlapBound
  <2> QED
    BY <2>2, <2>3
<1>5. OverlapBound'
  BY <1>1, <1>2, <1>4 DEF OverlapBound
<1> QED
  BY <1>3, <1>5

\* A request that ends leaves the pending ones; a website it links is one for it.
LEMMA EndKeepsGate ==
  ASSUME GateInv, NEW r \in Requests, pc[r] # "idle", Ends(r),
         \/ websites' = websites
         \/ pc[r] = "provisioning" /\ websites < MaxWebsites /\ websites' = websites + 1
  PROVE  GateInv'
<1> USE DEF GateInv
<1>1. /\ pc' = [pc EXCEPT ![r] = "idle"]
      /\ readLimit' = [readLimit EXCEPT ![r] = Unread]
      /\ readCount' = [readCount EXCEPT ![r] = Unread]
      /\ rivals' = [rivals EXCEPT ![r] = {}]
      /\ allowed' = [allowed EXCEPT ![r] = Unread]
  BY DEF Ends
<1>2. InProgress' = InProgress \ {r} /\ r \in InProgress /\ InProgress \in SUBSET Requests
  BY <1>1 DEF InProgress, GateTyped
<1>3. GateTyped'
  <2>1. websites' \in 0..MaxWebsites
    BY GateFacts DEF GateTyped
  <2> QED
    BY <1>1, <2>1 DEF GateTyped
<1>4. ReadsBy'
  BY <1>1 DEF ReadsBy, GateTyped
<1>5. KnowEachOther'
  BY <1>1, <1>2 DEF KnowEachOther, GateTyped
<1>6. ASSUME NEW q \in InProgress, q # r, NEW n \in Nat,
             readCount[q] # Unread, readCount[q] < n, allowed[q] <= n
      PROVE  websites' + Cardinality(Pending(n)') <= n - 1 + Cardinality(rivals[q] \union {q})
  <2>1. Pending(n)' = Pending(n) \ {r}
    BY <1>1, <1>2 DEF Pending, GateTyped
  <2>2. /\ IsFiniteSet(Pending(n)) /\ Cardinality(Pending(n)) \in Nat
        /\ Cardinality(rivals[q] \union {q}) \in Nat /\ websites \in Nat
    BY <1>2, GateFacts
  <2>3. Cardinality(Pending(n)') =
          IF r \in Pending(n) THEN Cardinality(Pending(n)) - 1 ELSE Cardinality(Pending(n))
    BY <2>1, <2>2, FS_RemoveElement
  <2>4. websites + Cardinality(Pending(n)) <= n - 1 + Cardinality(rivals[q] \union {q})
    BY <1>6 DEF OverlapBound
  <2>5. CASE websites' = websites
    BY <2>2, <2>3, <2>4, <2>5
  <2>6. CASE pc[r] = "provisioning" /\ websites' = websites + 1
    <3>1. readCount[r] # Unread /\ readCount[r] < readLimit[r] /\ readLimit[r] <= allowed[q]
      BY <1>2, <2>6 DEF ReadsBy, KnowEachOther
    <3>2. readCount[r] \in Int /\ readLimit[r] \in Int /\ allowed[q] \in Int
      BY <1>2, GateFacts DEF GateTyped
    <3>3. r \in Pending(n)
      BY <1>2, <1>6, <3>1, <3>2 DEF Pending
    <3> QED
      BY <2>2, <2>3, <2>4, <2>6, <3>3
  <2> QED
    BY <2>5, <2>6
<1>7. OverlapBound'
  <2>1. \A q \in InProgress' : /\ q \in InProgress /\ q # r /\ readCount'[q] = readCount[q]
                               /\ rivals'[q] = rivals[q] /\ allowed'[q] = allowed[q]
    BY <1>1, <1>2 DEF GateTyped
  <2> QED
    BY <1>6, <2>1 DEF OverlapBound
<1> QED
  BY <1>3, <1>4, <1>5, <1>7

\* The rest: a request that passes, a deletion, and what Stripe does.
LEMMA RestKeepsGate ==
  ASSUME GateInv,
         \/ \E r \in Requests : Provision(r)
         \/ Delete
         \/ UNCHANGED <<websites, requests>>
  PROVE  GateInv'
<1> USE DEF GateInv, requests, overlap
<1>1. ASSUME NEW r \in Requests, Provision(r)
      PROVE  GateInv'
  <2>1. /\ pc[r] = "gate" /\ pc' = [pc EXCEPT ![r] = "provisioning"]
        /\ Unread \notin {readLimit[r], readCount[r]} /\ readCount[r] < readLimit[r]
        /\ UNCHANGED <<websites, readLimit, readCount, rivals, allowed>>
    BY <1>1 DEF Provision, Passes
  <2>2. InProgress' = InProgress
    BY <2>1 DEF InProgress, GateTyped
  <2>3. GateTyped' /\ ReadsBy'
    BY <2>1 DEF GateTyped, ReadsBy
  <2>4. KnowEachOther'
    BY <2>1, <2>2 DEF KnowEachOther
  <2>5. \A n \in Nat : Pending(n)' = Pending(n)
    BY <2>1, <2>2 DEF Pending
  <2>6. OverlapBound'
    BY <2>1, <2>2, <2>5 DEF OverlapBound
  <2> QED
    BY <2>3, <2>4, <2>6
<1>2. CASE Delete
  <2>1. websites' = websites - 1 /\ websites > 0 /\ UNCHANGED <<pc, readLimit, readCount, rivals, allowed>>
    BY <1>2 DEF Delete
  <2>2. websites' \in 0..MaxWebsites
    BY <2>1, GateFacts DEF GateTyped
  <2>3. InProgress' = InProgress /\ InProgress \in SUBSET Requests
    BY <2>1 DEF InProgress
  <2>4. \A n \in Nat : Pending(n)' = Pending(n)
    BY <2>1, <2>3 DEF Pending
  <2>5. GateTyped' /\ ReadsBy' /\ KnowEachOther'
    BY <2>1, <2>2, <2>3 DEF GateTyped, ReadsBy, KnowEachOther
  <2>6. ASSUME NEW q \in InProgress, NEW n \in Nat,
               readCount[q] # Unread, readCount[q] < n, allowed[q] <= n
        PROVE  websites' + Cardinality(Pending(n)) <= n - 1 + Cardinality(rivals[q] \union {q})
    <3>1. websites + Cardinality(Pending(n)) <= n - 1 + Cardinality(rivals[q] \union {q})
      BY <2>6 DEF OverlapBound
    <3>2. /\ Cardinality(rivals[q] \union {q}) \in Nat /\ Cardinality(Pending(n)) \in Nat
          /\ websites \in Nat
      BY <2>3, GateFacts
    <3> QED
      BY <2>1, <3>1, <3>2
  <2>7. OverlapBound'
    BY <2>1, <2>3, <2>4, <2>6 DEF OverlapBound
  <2> QED
    BY <2>5, <2>7
<1>3. CASE UNCHANGED <<websites, requests>>
  <2>1. InProgress' = InProgress /\ UNCHANGED <<websites, pc, readLimit, readCount, rivals, allowed>>
    BY <1>3 DEF InProgress
  <2>2. \A n \in Nat : Pending(n)' = Pending(n)
    BY <2>1 DEF Pending
  <2>3. GateTyped' /\ ReadsBy' /\ KnowEachOther'
    BY <2>1 DEF GateTyped, ReadsBy, KnowEachOther
  <2>4. OverlapBound'
    BY <2>1, <2>2 DEF OverlapBound
  <2> QED
    BY <2>3, <2>4
<1> QED
  BY <1>1, <1>2, <1>3

-----------------------------------------------------------------------------
\* The invariant of the gate holds in every state.
THEOREM GateInductive == WebsiteSpec => []GateInv
<1>1. WebsiteInit => GateInv
  <2> SUFFICES ASSUME WebsiteInit PROVE GateInv
    OBVIOUS
  <2>1. GateTyped
    BY WebsiteAssumption DEF WebsiteInit, GateTyped
  <2>2. ReadsBy
    BY DEF WebsiteInit, ReadsBy
  <2>3. InProgress = {}
    BY DEF WebsiteInit, InProgress
  <2>4. KnowEachOther /\ OverlapBound
    BY <2>3 DEF KnowEachOther, OverlapBound
  <2> QED
    BY <2>1, <2>2, <2>4 DEF GateInv
<1>2. ASSUME GateInv, [WebsiteNext]_websiteVars
      PROVE  GateInv'
  <2>1. ASSUME NEW r \in Requests, Refuse(r) \/ Link(r) \/ CreationFails(r)
        PROVE  GateInv'
    <3>1. /\ pc[r] # "idle" /\ Ends(r)
          /\ \/ websites' = websites
             \/ pc[r] = "provisioning" /\ websites < MaxWebsites /\ websites' = websites + 1
      BY <2>1 DEF Refuse, Link, CreationFails
    <3> QED
      BY <1>2, <3>1, EndKeepsGate
  <2>2. CASE UNCHANGED websiteVars
    BY <1>2, <2>2, RestKeepsGate DEF websiteVars
  <2>3. CASE WebsiteNext
    BY <1>2, <2>1, <2>3, BeginKeepsGate, ReadPlanKeepsGate, CountKeepsGate, RestKeepsGate
      DEF WebsiteNext
  <2> QED
    BY <1>2, <2>2, <2>3
<1> QED
  BY <1>1, <1>2, PTL DEF WebsiteSpec

\* The gate only reads the row: with it, Stripe and the webhook behave as without.
THEOREM GateLeavesBilling == WebsiteSpec => Spec
<1>1. WebsiteInit => Init
  BY DEF WebsiteInit
<1>2. [WebsiteNext]_websiteVars => [Next]_vars
  BY DEF WebsiteNext, websiteVars, Begin, ReadPlan, CountWebsites, Provision, Refuse, Link,
         CreationFails, Delete
<1> QED
  BY <1>1, <1>2, PTL DEF WebsiteSpec, Spec

\* Every value of the row, of Stripe's events and of the gate has its type.
THEOREM TypeCorrect == WebsiteSpec => []WebsiteTypeOK
<1>1. BillingInv /\ GateInv => WebsiteTypeOK
  BY DEF BillingInv, Typed, GateInv, GateTyped, WebsiteTypeOK
<1> QED
  BY BillingInductive, GateLeavesBilling, GateInductive, <1>1, PTL

\* However many creations overlap, whatever is deleted and whatever Stripe's events do to
\* the plan meanwhile: a creation ends with no more websites than the largest limit read
\* by it or by a rival, and one for each rival.
THEOREM OverlapIsBounded == WebsiteSpec => OnlyOverlapExceeds
<1>1. ASSUME GateInv, NEW r \in Requests, Link(r)
      PROVE  websites' <= allowed[r] + Cardinality(rivals[r])
  <2>1. pc[r] = "provisioning" /\ websites' = websites + 1 /\ r \in InProgress
    BY <1>1 DEF Link, InProgress
  <2>2. readCount[r] # Unread /\ readCount[r] < readLimit[r] /\ readLimit[r] <= allowed[r]
    BY <1>1, <2>1 DEF GateInv, ReadsBy, KnowEachOther
  <2>3. /\ readCount[r] \in Nat /\ readLimit[r] \in Int /\ allowed[r] \in Int /\ websites \in Nat
    BY <1>1, <2>2, GateFacts DEF GateInv, GateTyped
  <2>4. allowed[r] \in Nat /\ readCount[r] < allowed[r] /\ allowed[r] <= allowed[r]
    BY <2>2, <2>3
  <2>5. websites + Cardinality(Pending(allowed[r]))
          <= allowed[r] - 1 + Cardinality(rivals[r] \union {r})
    BY <1>1, <2>1, <2>2, <2>4 DEF GateInv, OverlapBound
  <2>6. /\ IsFiniteSet(Pending(allowed[r])) /\ IsFiniteSet(rivals[r])
        /\ Cardinality(Pending(allowed[r])) \in Nat /\ Cardinality(rivals[r]) \in Nat
    <3>1. rivals[r] \in SUBSET Requests
      BY <1>1 DEF GateInv, GateTyped
    <3> QED
      BY <1>1, <2>4, <3>1, GateFacts DEF GateInv
  <2>7. Cardinality(Pending(allowed[r])) >= 1
    <3>1. r \in Pending(allowed[r])
      BY <2>1, <2>2, <2>4 DEF Pending
    <3> QED
      BY <2>6, <3>1, FS_EmptySet
  <2>8. Cardinality(rivals[r] \union {r}) =
          IF r \in rivals[r] THEN Cardinality(rivals[r]) ELSE Cardinality(rivals[r]) + 1
    BY <2>6, FS_AddElement
  <2>9. Cardinality(rivals[r] \union {r}) <= Cardinality(rivals[r]) + 1
        /\ Cardinality(rivals[r] \union {r}) \in Nat
    BY <2>6, <2>8
  <2> QED
    BY <2>1, <2>3, <2>5, <2>6, <2>7, <2>9
<1>2. GateInv =>
        [\A r \in Requests : Link(r) => websites' <= allowed[r] + Cardinality(rivals[r])]_websiteVars
  BY <1>1
<1> QED
  BY GateInductive, <1>2, PTL DEF WebsiteSpec, OnlyOverlapExceeds
=============================================================================
