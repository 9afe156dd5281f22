---------------------------- MODULE RateLimiter ----------------------------
(***************************************************************************)
(* One bucket of usage/rate-limiter.ts (a tenant and a provider) and the   *)
(* calls that pass through usage/meter.ts at the same time.  Taking a      *)
(* token is one statement, but its NOW() is the time the statement began   *)
(* and its effect takes place when it gets the row's lock, up to MaxLag    *)
(* later.  A refused call reads the bucket again, in another statement, to *)
(* learn how long to wait.                                                 *)
(*                                                                         *)
(* Tokens are counted in grains: a token is Cost grains and Rate grains    *)
(* are added per unit of time, so a bucket that refills in fractions of a  *)
(* token stays integral.                                                   *)
(***************************************************************************)
EXTENDS Integers

CONSTANTS
  Callers,       \* metered calls that may be in progress at the same time
  Capacity,      \* grains a full bucket holds
  Rate,          \* grains added per unit of time
  Cost,          \* grains of one token
  MaxLag,        \* the longest a statement may wait for the row
  LimiterFails,  \* may a statement on platform.rate_limit_buckets fail?
  Horizon        \* the bound on the clock

\* rateLimitConfigFor keeps the capacity at one token or more and the rate
\* positive.
ASSUME LimiterAssumption ==
  /\ Cost \in Nat \ {0}
  /\ Capacity \in Nat
  /\ Capacity >= Cost
  /\ Rate \in Nat \ {0}
  /\ MaxLag \in Nat
  /\ LimiterFails \in BOOLEAN
  /\ Horizon \in Nat

VARIABLES
  now,        \* NOW()
  known,      \* does the bucket have a row?
  tokens,     \* the column tokens, in grains
  updatedAt,  \* the column updated_at
  pc,         \* where a call is: "idle", "take", "peek", "call" or "wait"
  stamp,      \* NOW() of its statement in progress
  wakeAt,     \* when a refused call may try again
  alone,      \* history: nobody else took a token since it was refused
  since,      \* history: when the observed window began
  granted     \* history: tokens taken from the bucket in that window

bucket == <<known, tokens, updatedAt>>
calls == <<pc, stamp, wakeAt, alone>>
window == <<since, granted>>
vars == <<now, bucket, calls, window>>

TypeOK ==
  /\ now \in 0..Horizon
  /\ known \in BOOLEAN
  /\ tokens \in 0..Capacity
  /\ updatedAt \in 0..Horizon
  /\ pc \in [Callers -> {"idle", "take", "peek", "call", "wait"}]
  /\ stamp \in [Callers -> 0..Horizon]
  /\ wakeAt \in [Callers -> Nat]
  /\ alone \in [Callers -> BOOLEAN]
  /\ since \in 0..Horizon
  /\ granted \in Nat

Init ==
  /\ now = 0
  /\ known = FALSE
  /\ tokens = 0
  /\ updatedAt = 0
  /\ pc = [c \in Callers |-> "idle"]
  /\ stamp = [c \in Callers |-> 0]
  /\ wakeAt = [c \in Callers |-> 0]
  /\ alone = [c \in Callers |-> FALSE]
  /\ since = 0
  /\ granted = 0

-----------------------------------------------------------------------------
Smaller(x, y) == IF x < y THEN x ELSE y
Elapsed(t) == IF t > updatedAt THEN t - updatedAt ELSE 0

\* Wrong on purpose: the refill is not capped.
UncappedLevel(t) == IF known THEN tokens + Elapsed(t) * Rate ELSE Capacity

\* The refilled bucket as a statement with NOW() = t computes it.
Level(t) == IF known THEN Smaller(Capacity, tokens + Elapsed(t) * Rate) ELSE Capacity

\* Wrong on purpose: rounded down.
WaitRoundedDown(level) ==
  IF level + Rate >= Cost THEN 1 ELSE (Cost - level) \div Rate

\* secondsUntilAvailable: what the bucket lacks of a token divided by the rate,
\* rounded up, and at least 1.
Wait(level) ==
  IF level + Rate >= Cost THEN 1 ELSE (Cost - level + Rate - 1) \div Rate

\* A call is metered for the first time, or again after its wait.
Begin(c) ==
  /\ pc[c] = "idle" \/ (pc[c] = "wait" /\ now >= wakeAt[c])
  /\ pc' = [pc EXCEPT ![c] = "take"]
  /\ stamp' = [stamp EXCEPT ![c] = now]
  /\ UNCHANGED <<now, bucket, wakeAt, alone, window>>

\* What ratelimit.take writes when it grants a token.  The first call ever
\* inserts a full bucket less its own token.
SpendToken(c) ==
  /\ known' = TRUE
  /\ tokens' = Level(stamp[c]) - Cost
  /\ updatedAt' = stamp[c]

Granted(c) ==
  /\ pc[c] = "take"
  /\ Level(stamp[c]) >= Cost
  /\ SpendToken(c)
  /\ pc' = [pc EXCEPT ![c] = "call"]
  /\ granted' = granted + 1
  /\ alone' = [d \in Callers |-> FALSE]
  /\ UNCHANGED <<now, stamp, wakeAt, since>>

\* The WHERE clause does not hold: no row comes back and nothing changes.
Refused(c) ==
  /\ pc[c] = "take"
  /\ Level(stamp[c]) < Cost
  /\ pc' = [pc EXCEPT ![c] = "peek"]
  /\ UNCHANGED <<now, bucket, stamp, wakeAt, alone, window>>

\* ratelimit.peek, then RateLimitError with the wait.
Peek(c) ==
  /\ pc[c] = "peek"
  /\ pc' = [pc EXCEPT ![c] = "wait"]
  /\ wakeAt' = [wakeAt EXCEPT ![c] = now + Wait(Level(now))]
  /\ alone' = [alone EXCEPT ![c] = TRUE]
  /\ UNCHANGED <<now, bucket, stamp, window>>

\* Any other error of the limiter, in either statement, lets the call through;
\* the token may have been spent all the same.
FailOpen(c) ==
  /\ LimiterFails
  /\ pc[c] \in {"take", "peek"}
  /\ \/ UNCHANGED <<bucket, alone, granted>>
     \/ /\ pc[c] = "take"
        /\ Level(stamp[c]) >= Cost
        /\ SpendToken(c)
        /\ granted' = granted + 1
        /\ alone' = [d \in Callers |-> FALSE]
  /\ pc' = [pc EXCEPT ![c] = "call"]
  /\ UNCHANGED <<now, stamp, wakeAt, since>>

\* The provider's call ends; whether its usage is recorded changes nothing here.
CallEnds(c) ==
  /\ pc[c] = "call"
  /\ pc' = [pc EXCEPT ![c] = "idle"]
  /\ UNCHANGED <<now, bucket, stamp, wakeAt, alone, window>>

Tick ==
  /\ now < Horizon
  /\ \A c \in Callers : pc[c] = "take" => now - stamp[c] < MaxLag
  /\ now' = now + 1
  /\ UNCHANGED <<bucket, calls, window>>

\* An observer starts to count, at any moment.
Observe ==
  /\ since' = now
  /\ granted' = 0
  /\ UNCHANGED <<now, bucket, calls>>

Next ==
  \/ \E c \in Callers :
       Begin(c) \/ Granted(c) \/ Refused(c) \/ Peek(c) \/ FailOpen(c) \/ CallEnds(c)
  \/ Tick
  \/ Observe

Spec == Init /\ [][Next]_vars

-----------------------------------------------------------------------------
\* "It holds up to capacity tokens and refills continuously": in whatever
\* window one looks, no more tokens are taken than a full bucket and what the
\* window's length refills.  A statement that waited for the row writes an older
\* updated_at over a newer one, and the time between is refilled again: at most
\* MaxLag for each token taken, and nothing where statements do not wait.
NoWindowIsExceeded ==
  granted * Cost <= Capacity + (now - since + granted * MaxLag) * Rate

\* A call told to wait gets its token when the wait is over, unless somebody
\* else took one meanwhile: retryAfterSeconds is never too short.
WaitIsLongEnough ==
  \A c \in Callers :
    pc[c] = "wait" /\ alone[c] => Level(wakeAt[c]) >= Cost
=============================================================================
