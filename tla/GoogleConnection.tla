-------------------------- MODULE GoogleConnection --------------------------
(***************************************************************************)
(* One tenant's connection to Google: the consent flow of the OAuth        *)
(* routes, the row of platform.credential_vault, and the monitoring runs   *)
(* that read the row once, refresh its access token and store the whole    *)
(* bundle again (google-analytics-adapter.ts, monitoring-agent.ts).        *)
(* Google is external: it may refuse, expire or fail at any call.          *)
(***************************************************************************)
EXTENDS Integers, FiniteSets, Sequences

CONSTANTS
  Flows,       \* consent flows; a flow that succeeds obtains the grant of its name
  Monitors,    \* monitoring runs
  Calls,       \* what a run asks its adapter for, at the same time
  NoGrant,     \* the row before the first connection
  StateTTL,    \* STATE_TTL_MS, in ticks
  MaxDisconnects  \* the bound on how often the user disconnects

ASSUME GoogleAssumption ==
  /\ NoGrant \notin Flows
  /\ Calls # {}
  /\ StateTTL \in Nat
  /\ MaxDisconnects \in Nat

VARIABLES
  vault,     \* the row: the grants its refresh and access token belong to, revoked_at
  open,      \* does the user have access to the tenant, which is alive?
  flow,      \* where a consent flow is, and the age of its state
  run,       \* where a monitoring run is
  bundle,    \* this.bundle of a run's adapter
  call,      \* where each of the run's calls is
  answers,   \* what the calls have answered: "google" or "mock"
  snapshots, \* the sources of each saved snapshot's metrics
  disconnects, \* how often the user has disconnected
  wish       \* history: what the user last did, and whether no run was at work then

connection == <<vault, open, flow>>
monitoring == <<run, bundle, call, answers, snapshots>>
history == <<disconnects, wish>>
vars == <<connection, monitoring, history>>

Grants == Flows \union {NoGrant}
Bundle == [refresh : Grants, access : Grants]
NoBundle == [refresh |-> NoGrant, access |-> NoGrant]
Adapters == {"google", "mock"}

TypeOK ==
  /\ vault \in [refresh : Grants, access : Grants, revoked : BOOLEAN]
  /\ open \in BOOLEAN
  /\ flow \in [Flows -> [at : {"none", "consent", "exchange", "store", "over"}, age : 0..StateTTL + 1]]
  /\ run \in [Monitors -> {"none", "calls", "fallback", "save", "over"}]
  /\ bundle \in [Monitors -> Bundle]
  /\ call \in [Monitors -> [Calls -> {"none", "token", "refresh", "store", "api", "over"}]]
  /\ answers \in [Monitors -> [Calls -> Adapters \union {"none", "failed"}]]
  /\ snapshots \subseteq SUBSET Adapters
  /\ disconnects \in 0..MaxDisconnects
  /\ wish \in [what : {"nothing", "connect", "disconnect"}, grant : Grants, calm : BOOLEAN]

Init ==
  /\ vault = [refresh |-> NoGrant, access |-> NoGrant, revoked |-> TRUE]
  /\ open = TRUE
  /\ flow = [f \in Flows |-> [at |-> "none", age |-> 0]]
  /\ run = [m \in Monitors |-> "none"]
  /\ bundle = [m \in Monitors |-> NoBundle]
  /\ call = [m \in Monitors |-> [c \in Calls |-> "none"]]
  /\ answers = [m \in Monitors |-> [c \in Calls |-> "none"]]
  /\ snapshots = {}
  /\ disconnects = 0
  /\ wish = [what |-> "nothing", grant |-> NoGrant, calm |-> TRUE]

-----------------------------------------------------------------------------
(* The vault.                                                              *)

\* An UPSERT, which also makes a revoked credential valid again.
StoreCredential(b) ==
  vault' = [refresh |-> b.refresh, access |-> b.access, revoked |-> FALSE]

\* Wrong on purpose: the SELECT forgets revoked_at.
ConnectedEver == vault.refresh # NoGrant

\* The row getCredential selects, if it can be decrypted.
Connected == ~vault.revoked

\* Runs that have read the row and may still write it.
Refreshing == \E m \in Monitors, c \in Calls : call[m][c] \in {"token", "refresh", "store"}

-----------------------------------------------------------------------------
(* The consent flow.                                                       *)

MoveFlow(f, place) == flow' = [flow EXCEPT ![f].at = place]

\* GET oauth/google/start signs a state that names the tenant and the user.
StartConsent(f) ==
  /\ open
  /\ flow[f].at = "none"
  /\ MoveFlow(f, "consent")
  /\ UNCHANGED <<vault, open, monitoring, history>>

\* The callback with a state that is forged or too old, an error of Google's, a
\* session of another user, or a user without access: a redirect and no more.
RefuseCallback(f) ==
  /\ flow[f].at = "consent"
  /\ MoveFlow(f, "over")
  /\ UNCHANGED <<vault, open, monitoring, history>>

\* The callback with a valid state, of a user who still has access.
AcceptCallback(f) ==
  /\ flow[f].at = "consent"
  /\ flow[f].age <= StateTTL
  /\ open
  /\ MoveFlow(f, "exchange")
  /\ UNCHANGED <<vault, open, monitoring, history>>

\* The code becomes a grant, and a property and a site are looked for; a
\* discovery that finds nothing does not matter.
Exchange(f) ==
  /\ flow[f].at = "exchange"
  /\ MoveFlow(f, "store")
  /\ UNCHANGED <<vault, open, monitoring, history>>

\* Google refuses the code or gives no refresh token, or the request dies.
ExchangeFails(f) ==
  /\ flow[f].at \in {"exchange", "store"}
  /\ MoveFlow(f, "over")
  /\ UNCHANGED <<vault, open, monitoring, history>>

StoreGrant(f) ==
  /\ flow[f].at = "store"
  /\ StoreCredential([refresh |-> f, access |-> f])
  /\ MoveFlow(f, "over")
  /\ wish' = [what |-> "connect", grant |-> f, calm |-> ~Refreshing]
  /\ UNCHANGED <<open, monitoring, disconnects>>

\* POST oauth/google/disconnect.
Disconnect ==
  /\ open
  /\ disconnects < MaxDisconnects
  /\ disconnects' = disconnects + 1
  /\ vault' = [vault EXCEPT !.revoked = TRUE]
  /\ wish' = [what |-> "disconnect", grant |-> NoGrant, calm |-> ~Refreshing]
  /\ UNCHANGED <<open, flow, monitoring>>

\* The workspace is deleted: from now on its user is refused.
AccessEnds ==
  /\ open
  /\ open' = FALSE
  /\ UNCHANGED <<vault, flow, monitoring, history>>

\* States grow old.
Tick ==
  /\ \E f \in Flows : flow[f].at = "consent" /\ flow[f].age <= StateTTL
  /\ flow' = [f \in Flows |->
       IF flow[f].at = "consent" /\ flow[f].age <= StateTTL
       THEN [flow[f] EXCEPT !.age = @ + 1] ELSE flow[f]]
  /\ UNCHANGED <<vault, open, monitoring, history>>

-----------------------------------------------------------------------------
(* A monitoring run.                                                       *)

MoveCall(m, c, place) == call' = [call EXCEPT ![m] = [@ EXCEPT ![c] = place]]
AnswerCall(m, c, a) == answers' = [answers EXCEPT ![m] = [@ EXCEPT ![c] = a]]

\* createGoogleAnalyticsAdapter reads the row once.  Without a row, and with one that
\* cannot be decrypted or parsed or lacks a part, the mock answers everything at once.
StartMonitoring(m) ==
  /\ run[m] = "none"
  /\ \/ /\ Connected
        /\ run' = [run EXCEPT ![m] = "calls"]
        /\ bundle' = [bundle EXCEPT ![m] = [refresh |-> vault.refresh, access |-> vault.access]]
        /\ call' = [call EXCEPT ![m] = [c \in Calls |-> "token"]]
     \/ /\ run' = [run EXCEPT ![m] = "fallback"]
        /\ UNCHANGED <<bundle, call>>
  /\ UNCHANGED <<connection, answers, snapshots, history>>

\* Each call asks for a valid access token first: this.bundle has one ...
TokenIsValid(m, c) ==
  /\ call[m][c] = "token"
  /\ MoveCall(m, c, "api")
  /\ UNCHANGED <<connection, run, bundle, answers, snapshots, history>>

\* ... or it is about to expire, and Google is asked for another.
TokenExpires(m, c) ==
  /\ call[m][c] = "token"
  /\ MoveCall(m, c, "refresh")
  /\ UNCHANGED <<connection, run, bundle, answers, snapshots, history>>

\* Wrong on purpose: the bundle is read again, and the new token put into it.
RefreshWhatIsStored(m, c) ==
  /\ call[m][c] = "refresh"
  /\ bundle' = [bundle EXCEPT ![m] = [refresh |-> vault.refresh, access |-> @.refresh]]
  /\ MoveCall(m, c, "store")
  /\ UNCHANGED <<connection, run, answers, snapshots, history>>

\* The new token goes into the run's bundle ...
Refreshed(m, c) ==
  /\ call[m][c] = "refresh"
  /\ bundle' = [bundle EXCEPT ![m].access = bundle[m].refresh]
  /\ MoveCall(m, c, "store")
  /\ UNCHANGED <<connection, run, answers, snapshots, history>>

\* ... and the whole bundle into the vault, whatever became of the row since it
\* was read.
StoreBundle(m, c) ==
  /\ call[m][c] = "store"
  /\ StoreCredential(bundle[m])
  /\ MoveCall(m, c, "api")
  /\ UNCHANGED <<open, flow, run, bundle, answers, snapshots, history>>

\* Google answers with figures.
GoogleAnswers(m, c) ==
  /\ call[m][c] = "api"
  /\ MoveCall(m, c, "over")
  /\ IF run[m] = "calls" THEN AnswerCall(m, c, "google") ELSE UNCHANGED answers
  /\ UNCHANGED <<connection, run, bundle, snapshots, history>>

\* No property or site, an error of Google's or of the vault's: the call throws.
CallFails(m, c) ==
  /\ call[m][c] \in {"token", "refresh", "store", "api"}
  /\ MoveCall(m, c, "over")
  /\ IF run[m] = "calls" THEN AnswerCall(m, c, "failed") ELSE UNCHANGED answers
  /\ UNCHANGED <<connection, run, bundle, snapshots, history>>

\* All have answered.
AllAnswered(m) ==
  /\ run[m] = "calls"
  /\ \A c \in Calls : answers[m][c] = "google"
  /\ run' = [run EXCEPT ![m] = "save"]
  /\ UNCHANGED <<connection, bundle, call, answers, snapshots, history>>

\* Promise.all throws with the first failure; the other calls go on unobserved.
FirstFailure(m) ==
  /\ run[m] = "calls"
  /\ \E c \in Calls : answers[m][c] = "failed"
  /\ run' = [run EXCEPT ![m] = "fallback"]
  /\ UNCHANGED <<connection, bundle, call, answers, snapshots, history>>

\* Wrong on purpose: only what failed is asked of the mock.
FallBackForFailures(m) ==
  /\ run[m] = "fallback"
  /\ run' = [run EXCEPT ![m] = "save"]
  /\ answers' = [answers EXCEPT ![m] =
       [c \in Calls |-> IF @[c] = "google" THEN "google" ELSE "mock"]]
  /\ UNCHANGED <<connection, bundle, call, snapshots, history>>

\* The mock answers everything.
FallBack(m) ==
  /\ run[m] = "fallback"
  /\ run' = [run EXCEPT ![m] = "save"]
  /\ answers' = [answers EXCEPT ![m] = [c \in Calls |-> "mock"]]
  /\ UNCHANGED <<connection, bundle, call, snapshots, history>>

SaveSnapshot(m) ==
  /\ run[m] = "save"
  /\ run' = [run EXCEPT ![m] = "over"]
  /\ snapshots' = snapshots \union {{answers[m][c] : c \in Calls}}
  /\ UNCHANGED <<connection, bundle, call, answers, history>>

\* A run dies, and its calls with it.
MonitorDies(m) ==
  /\ run[m] \in {"calls", "fallback", "save"}
  /\ run' = [run EXCEPT ![m] = "over"]
  /\ call' = [call EXCEPT ![m] = [c \in Calls |-> "over"]]
  /\ UNCHANGED <<connection, bundle, answers, snapshots, history>>

-----------------------------------------------------------------------------
FlowStep(f) ==
  \/ StartConsent(f)
  \/ RefuseCallback(f)
  \/ AcceptCallback(f)
  \/ Exchange(f)
  \/ ExchangeFails(f)
  \/ StoreGrant(f)

CallStep(m, c) ==
  \/ TokenIsValid(m, c)
  \/ TokenExpires(m, c)
  \/ Refreshed(m, c)
  \/ StoreBundle(m, c)
  \/ GoogleAnswers(m, c)
  \/ CallFails(m, c)

MonitorStep(m) ==
  \/ StartMonitoring(m)
  \/ AllAnswered(m)
  \/ FirstFailure(m)
  \/ FallBack(m)
  \/ SaveSnapshot(m)
  \/ MonitorDies(m)
  \/ \E c \in Calls : CallStep(m, c)

Next ==
  \/ \E f \in Flows : FlowStep(f)
  \/ \E m \in Monitors : MonitorStep(m)
  \/ Disconnect
  \/ AccessEnds
  \/ Tick

Spec == Init /\ [][Next]_vars

-----------------------------------------------------------------------------
(* What must hold.                                                         *)

\* A credential that was disconnected while no run was at work with it stays
\* disconnected until somebody connects: no later run may find it and, with its
\* next refresh, bring it back.
\* After a connection the row is that connection's, with whatever token, unless a
\* run was refreshing an older one when it was made.  (The types come with it.)
LatestWishHolds ==
  /\ TypeOK
  /\ wish.what = "disconnect" /\ wish.calm => vault.revoked
  /\ wish.what = "connect" /\ wish.calm => vault.refresh = wish.grant

\* However many calls of however many runs refresh and store at once, the access
\* token in the row is one of the refresh token beside it.
BundleIsOfOneGrant == vault.access = vault.refresh

\* "Falls back to synthetic mock data rather than breaking the run": a snapshot
\* never mixes figures of Google's with synthetic ones.
SnapshotIsOfOneSource == \A s \in snapshots : Cardinality(s) = 1
=============================================================================
