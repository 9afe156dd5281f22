---------------------- MODULE GoogleConnectionProofs ----------------------
(***************************************************************************)
(* What the connection promises, for any number of consent flows,          *)
(* monitoring runs and calls: the row's tokens belong together, the        *)
(* latest wish holds when no run was at work with the row, and a snapshot  *)
(* is of one source.                                                       *)
(***************************************************************************)
EXTENDS GoogleConnection, FiniteSetTheorems, TLAPS

AtWork == {"token", "refresh", "store"}

\* Every bundle, in the row or in a run, is of one grant.
OneGrant ==
  /\ vault.access = vault.refresh
  /\ \A m \in Monitors : bundle[m].access = bundle[m].refresh

\* After a wish that found no run at work, those at work now read the row after it.
WishHolds ==
  /\ wish.what = "disconnect" /\ wish.calm =>
       /\ vault.revoked
       /\ \A m \in Monitors, c \in Calls : call[m][c] \notin AtWork
  /\ wish.what = "connect" /\ wish.calm =>
       /\ vault.refresh = wish.grant
       /\ \A m \in Monitors, c \in Calls :
            call[m][c] \in AtWork => bundle[m].refresh = wish.grant

\* A run that is about to save has its answers from one adapter.
OneSource ==
  /\ \A m \in Monitors :
       run[m] = "save" => \E s \in Adapters : \A c \in Calls : answers[m][c] = s
  /\ \A s \in snapshots : \E a \in Adapters : s = {a}

\* Together they are inductive.
IInv == TypeOK /\ OneGrant /\ WishHolds /\ OneSource

-----------------------------------------------------------------------------
\* The first state: nothing is connected and nothing runs.
LEMMA InitIInv == Init => IInv
<1> SUFFICES ASSUME Init PROVE IInv
  OBVIOUS
<1>1. TypeOK
  BY GoogleAssumption DEF Init, TypeOK, Grants, Bundle, NoBundle, Adapters
<1>2. OneGrant
  BY DEF Init, OneGrant, NoBundle
<1>3. WishHolds
  BY DEF Init, WishHolds
<1>4. OneSource
  BY DEF Init, OneSource
<1> QED
  BY <1>1, <1>2, <1>3, <1>4 DEF IInv

\* A consent flow keeps the invariant: only its last step writes the row, and a
\* wish that finds a run at work is no calm one.
LEMMA FlowKeepsIInv ==
  ASSUME IInv, NEW f \in Flows, FlowStep(f)
  PROVE  IInv'
<1>1. CASE UNCHANGED <<vault, open, monitoring, history>> /\
           \E place \in {"none", "consent", "exchange", "store", "over"} : MoveFlow(f, place)
  <2>1. TypeOK'
    BY <1>1 DEF IInv, TypeOK, MoveFlow, monitoring, history
  <2> QED
    BY <1>1, <2>1 DEF IInv, OneGrant, WishHolds, OneSource, monitoring, history
<1>2. CASE StoreGrant(f)
  <2>1. TypeOK'
    BY <1>2 DEF IInv, TypeOK, StoreGrant, StoreCredential, MoveFlow, monitoring, Grants
  <2>2. OneGrant'
    BY <1>2 DEF IInv, OneGrant, StoreGrant, StoreCredential, monitoring
  <2>3. WishHolds'
    BY <1>2 DEF WishHolds, StoreGrant, StoreCredential, Refreshing, AtWork, monitoring
  <2>4. OneSource'
    BY <1>2 DEF IInv, OneSource, StoreGrant, monitoring
  <2> QED
    BY <2>1, <2>2, <2>3, <2>4 DEF IInv
<1> QED
  BY <1>1, <1>2 DEF FlowStep, StartConsent, RefuseCallback, AcceptCallback, Exchange, ExchangeFails

\* So do disconnecting, losing access, and time.
LEMMA UserKeepsIInv ==
  ASSUME IInv, Disconnect \/ AccessEnds \/ Tick
  PROVE  IInv'
<1>1. CASE Disconnect
  <2>1. TypeOK'
    <3>1. disconnects' \in 0..MaxDisconnects
      BY <1>1, GoogleAssumption DEF IInv, TypeOK, Disconnect
    <3>2. vault' \in [refresh : Grants, access : Grants, revoked : BOOLEAN]
      BY <1>1 DEF IInv, TypeOK, Disconnect
    <3>3. wish' \in [what : {"nothing", "connect", "disconnect"}, grant : Grants, calm : BOOLEAN]
      BY <1>1 DEF IInv, TypeOK, Disconnect, Grants, Refreshing
    <3> QED
      BY <1>1, <3>1, <3>2, <3>3 DEF IInv, TypeOK, Disconnect, monitoring
  <2>2. WishHolds'
    BY <1>1 DEF IInv, TypeOK, WishHolds, Disconnect, Refreshing, AtWork, monitoring
  <2>3. OneGrant' /\ OneSource'
    BY <1>1 DEF IInv, TypeOK, OneGrant, OneSource, Disconnect, monitoring
  <2> QED
    BY <2>1, <2>2, <2>3 DEF IInv
<1>2. CASE AccessEnds
  <2>1. TypeOK'
    BY <1>2 DEF IInv, TypeOK, AccessEnds, monitoring, history
  <2> QED
    BY <1>2, <2>1 DEF IInv, OneGrant, WishHolds, OneSource, AccessEnds, monitoring, history
<1>3. CASE Tick
  <2>1. flow' \in [Flows -> [at : {"none", "consent", "exchange", "store", "over"},
                             age : 0..StateTTL + 1]]
    BY <1>3, GoogleAssumption DEF IInv, TypeOK, Tick
  <2> QED
    BY <1>3, <2>1 DEF IInv, TypeOK, OneGrant, WishHolds, OneSource, Tick, monitoring, history
<1> QED
  BY <1>1, <1>2, <1>3

\* A call works with the bundle its run read, and answers only while its run waits
\* for it.
LEMMA CallKeepsIInv ==
  ASSUME IInv, NEW m \in Monitors, NEW c \in Calls, CallStep(m, c)
  PROVE  IInv'
<1> USE DEF IInv
<1>1. CASE TokenIsValid(m, c)
  BY <1>1 DEF TypeOK, OneGrant, WishHolds, OneSource, TokenIsValid, MoveCall, AtWork, connection, history
<1>2. CASE TokenExpires(m, c)
  BY <1>2 DEF TypeOK, OneGrant, WishHolds, OneSource, TokenExpires, MoveCall, AtWork, connection, history
<1>3. CASE Refreshed(m, c)
  <2>1. TypeOK'
    BY <1>3 DEF TypeOK, Refreshed, MoveCall, Bundle, connection, history
  <2>2. OneGrant'
    BY <1>3 DEF TypeOK, OneGrant, Refreshed, Bundle, connection
  <2>3. WishHolds'
    BY <1>3 DEF TypeOK, WishHolds, Refreshed, MoveCall, AtWork, Bundle, connection, history
  <2>4. OneSource'
    BY <1>3 DEF OneSource, Refreshed
  <2> QED
    BY <2>1, <2>2, <2>3, <2>4
<1>4. CASE StoreBundle(m, c)
  <2>1. TypeOK'
    BY <1>4 DEF TypeOK, StoreBundle, StoreCredential, MoveCall, Bundle, history
  <2>2. OneGrant'
    BY <1>4 DEF OneGrant, StoreBundle, StoreCredential
  <2>3. WishHolds'
    BY <1>4 DEF TypeOK, WishHolds, StoreBundle, StoreCredential, MoveCall, AtWork, history
  <2>4. OneSource'
    BY <1>4 DEF OneSource, StoreBundle
  <2> QED
    BY <2>1, <2>2, <2>3, <2>4
<1>5. ASSUME NEW a \in {"google", "failed"},
             MoveCall(m, c, "over"),
             IF run[m] = "calls" THEN AnswerCall(m, c, a) ELSE UNCHANGED answers,
             UNCHANGED <<connection, run, bundle, snapshots, history>>
      PROVE  IInv'
  <2>1. TypeOK'
    <3>1. answers' \in [Monitors -> [Calls -> Adapters \union {"none", "failed"}]]
      <4>1. CASE run[m] = "calls"
        <5>1. answers' = [answers EXCEPT ![m] = [answers[m] EXCEPT ![c] = a]]
          BY <1>5, <4>1 DEF AnswerCall
        <5> QED
          BY <5>1 DEF TypeOK, Adapters
      <4>2. CASE run[m] # "calls"
        BY <1>5, <4>2 DEF TypeOK
      <4> QED
        BY <4>1, <4>2
    <3>2. call' \in [Monitors -> [Calls -> {"none", "token", "refresh", "store", "api", "over"}]]
      BY <1>5 DEF TypeOK, MoveCall
    <3> QED
      BY <1>5, <3>1, <3>2 DEF TypeOK, connection, history
  <2>2. OneGrant'
    BY <1>5 DEF OneGrant, connection
  <2>3. WishHolds'
    BY <1>5 DEF TypeOK, WishHolds, MoveCall, AtWork, connection, history
  <2>4. OneSource'
    BY <1>5 DEF TypeOK, OneSource, AnswerCall
  <2> QED
    BY <2>1, <2>2, <2>3, <2>4
<1>6. CASE GoogleAnswers(m, c)
  BY <1>5, <1>6 DEF GoogleAnswers
<1>7. CASE CallFails(m, c)
  BY <1>5, <1>7 DEF CallFails
<1> QED
  BY <1>1, <1>2, <1>3, <1>4, <1>6, <1>7 DEF CallStep

\* A run reads the row once, at its start, and only if it is connected.
LEMMA MonitorKeepsIInv ==
  ASSUME IInv, NEW m \in Monitors, MonitorStep(m)
  PROVE  IInv'
<1> USE DEF IInv
<1>1. CASE StartMonitoring(m)
  <2>1. TypeOK'
    <3>1. [refresh |-> vault.refresh, access |-> vault.access] \in Bundle
      BY DEF TypeOK, Bundle
    <3>2. [c \in Calls |-> "token"] \in [Calls -> {"none", "token", "refresh", "store", "api", "over"}]
      OBVIOUS
    <3>3. bundle' \in [Monitors -> Bundle]
      BY <1>1, <3>1, Zenon DEF TypeOK, StartMonitoring
    <3>4. call' \in [Monitors -> [Calls -> {"none", "token", "refresh", "store", "api", "over"}]]
      BY <1>1, <3>2, Zenon DEF TypeOK, StartMonitoring
    <3>5. run' \in [Monitors -> {"none", "calls", "fallback", "save", "over"}]
      BY <1>1 DEF TypeOK, StartMonitoring
    <3> QED
      BY <1>1, <3>3, <3>4, <3>5 DEF TypeOK, StartMonitoring, connection, history
  <2>2. CASE UNCHANGED <<bundle, call>>
    <3>1. OneGrant' /\ WishHolds'
      BY <1>1, <2>2 DEF OneGrant, WishHolds, StartMonitoring, connection, history
    <3>2. OneSource'
      BY <1>1 DEF TypeOK, OneSource, StartMonitoring
    <3> QED
      BY <2>1, <3>1, <3>2
  <2>3. CASE ~UNCHANGED <<bundle, call>>
    <3>1. /\ Connected
          /\ run' = [run EXCEPT ![m] = "calls"]
          /\ bundle' = [bundle EXCEPT ![m] = [refresh |-> vault.refresh, access |-> vault.access]]
          /\ call' = [call EXCEPT ![m] = [c \in Calls |-> "token"]]
          /\ UNCHANGED <<connection, answers, snapshots, history>>
      BY <1>1, <2>3 DEF StartMonitoring
    <3>2. OneGrant'
      BY <3>1 DEF TypeOK, OneGrant, connection
    <3>3. WishHolds'
      BY <3>1 DEF TypeOK, WishHolds, Connected, AtWork, connection, history
    <3>4. OneSource'
      BY <3>1 DEF TypeOK, OneSource
    <3> QED
      BY <2>1, <3>2, <3>3, <3>4
  <2> QED
    BY <2>2, <2>3
<1>2. CASE AllAnswered(m)
  <2>1. TypeOK'
    BY <1>2 DEF TypeOK, AllAnswered, connection, history
  <2>2. OneSource'
    <3>1. \A s \in snapshots' : \E a \in Adapters : s = {a}
      BY <1>2 DEF OneSource, AllAnswered
    <3>2. ASSUME NEW n \in Monitors, run'[n] = "save"
          PROVE  \E s \in Adapters : \A c \in Calls : answers'[n][c] = s
      <4>1. CASE n = m
        BY <1>2, <3>2, <4>1 DEF TypeOK, AllAnswered, Adapters
      <4>2. CASE n # m
        <5>1. run[n] = "save" /\ answers'[n] = answers[n]
          BY <1>2, <3>2, <4>2 DEF TypeOK, AllAnswered
        <5> QED
          BY <5>1 DEF OneSource
      <4> QED
        BY <4>1, <4>2
    <3> QED
      BY <3>1, <3>2 DEF OneSource
  <2> QED
    BY <1>2, <2>1, <2>2 DEF OneGrant, WishHolds, AllAnswered, connection, history
<1>3. CASE FirstFailure(m)
  BY <1>3 DEF TypeOK, OneGrant, WishHolds, OneSource, FirstFailure, connection, history
<1>4. CASE FallBack(m)
  <2>1. TypeOK'
    BY <1>4 DEF TypeOK, FallBack, Adapters, connection, history
  <2>2. OneGrant' /\ WishHolds'
    BY <1>4 DEF OneGrant, WishHolds, FallBack, connection, history
  <2>3. OneSource'
    <3>1. \A s \in snapshots' : \E a \in Adapters : s = {a}
      BY <1>4 DEF OneSource, FallBack
    <3>2. ASSUME NEW n \in Monitors, run'[n] = "save"
          PROVE  \E s \in Adapters : \A c \in Calls : answers'[n][c] = s
      <4>1. CASE n = m
        BY <1>4, <3>2, <4>1 DEF TypeOK, FallBack, Adapters
      <4>2. CASE n # m
        <5>1. run[n] = "save" /\ answers'[n] = answers[n]
          BY <1>4, <3>2, <4>2 DEF TypeOK, FallBack
        <5> QED
          BY <5>1 DEF OneSource
      <4> QED
        BY <4>1, <4>2
    <3> QED
      BY <3>1, <3>2 DEF OneSource
  <2> QED
    BY <2>1, <2>2, <2>3
<1>5. CASE SaveSnapshot(m)
  <2>1. PICK source \in Adapters : \A c \in Calls : answers[m][c] = source
    BY <1>5 DEF SaveSnapshot, OneSource
  <2>2. {answers[m][c] : c \in Calls} = {source}
    BY <2>1, GoogleAssumption
  <2>3. TypeOK'
    BY <1>5, <2>2 DEF TypeOK, SaveSnapshot, connection, history
  <2>4. OneGrant' /\ WishHolds'
    BY <1>5 DEF OneGrant, WishHolds, SaveSnapshot, connection, history
  <2>5. OneSource'
    <3>1. \A s \in snapshots' : \E a \in Adapters : s = {a}
      BY <1>5, <2>2 DEF OneSource, SaveSnapshot
    <3>2. ASSUME NEW n \in Monitors, run'[n] = "save"
          PROVE  \E s \in Adapters : \A c \in Calls : answers'[n][c] = s
      <4>1. CASE n = m
        BY <1>5, <3>2, <4>1 DEF TypeOK, SaveSnapshot, Adapters
      <4>2. CASE n # m
        <5>1. run[n] = "save" /\ answers'[n] = answers[n]
          BY <1>5, <3>2, <4>2 DEF TypeOK, SaveSnapshot
        <5> QED
          BY <5>1 DEF OneSource
      <4> QED
        BY <4>1, <4>2
    <3> QED
      BY <3>1, <3>2 DEF OneSource
  <2> QED
    BY <2>3, <2>4, <2>5
<1>6. CASE MonitorDies(m)
  <2>1. TypeOK'
    BY <1>6 DEF TypeOK, MonitorDies, connection, history
  <2>2. OneGrant' /\ OneSource'
    BY <1>6 DEF TypeOK, OneGrant, OneSource, MonitorDies, connection
  <2>3. WishHolds'
    BY <1>6 DEF TypeOK, WishHolds, MonitorDies, AtWork, connection, history
  <2> QED
    BY <2>1, <2>2, <2>3
<1> QED
  BY <1>1, <1>2, <1>3, <1>4, <1>5, <1>6, CallKeepsIInv DEF MonitorStep

\* The invariant holds in every state.
THEOREM Inductive == Spec => []IInv
<1>1. ASSUME IInv, [Next]_vars
      PROVE  IInv'
  <2>1. CASE Next
    BY <1>1, <2>1, FlowKeepsIInv, MonitorKeepsIInv, UserKeepsIInv DEF Next
  <2>2. CASE UNCHANGED vars
    BY <1>1, <2>2 DEF IInv, TypeOK, OneGrant, WishHolds, OneSource, vars, connection, monitoring, history
  <2> QED
    BY <1>1, <2>1, <2>2
<1> QED
  BY InitIInv, <1>1, PTL DEF Spec

-----------------------------------------------------------------------------
\* However many calls of however many runs store their bundle at any time, the row's
\* access token is one of the refresh token beside it.
THEOREM RowIsOfOneGrant == Spec => []BundleIsOfOneGrant
<1>1. IInv => BundleIsOfOneGrant
  BY DEF IInv, OneGrant, BundleIsOfOneGrant
<1> QED
  BY Inductive, <1>1, PTL

\* A disconnection, or a connection, that found no run at work with the row is undone
\* by nobody but the user, however many runs start, refresh and die after it.
THEOREM LatestWishIsKept == Spec => []LatestWishHolds
<1>1. IInv => LatestWishHolds
  BY DEF IInv, WishHolds, LatestWishHolds
<1> QED
  BY Inductive, <1>1, PTL

\* Whatever fails, and whenever, a snapshot is all of Google's figures or all synthetic.
THEOREM SnapshotsAreOfOneSource == Spec => []SnapshotIsOfOneSource
<1>1. IInv => SnapshotIsOfOneSource
  BY FS_Singleton DEF IInv, OneSource, SnapshotIsOfOneSource
<1> QED
  BY Inductive, <1>1, PTL
=============================================================================
