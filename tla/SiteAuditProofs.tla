-------------------------- MODULE SiteAuditProofs --------------------------
(***************************************************************************)
(* The audit of a site and the limiter that its calls pass, both proved.   *)
(*                                                                         *)
(* The limiter's two promises hold for every number of callers, capacity,  *)
(* rate, cost of a token and lag, whichever statements fail: no window     *)
(* exceeds its share, and the wait it asks for is long enough.             *)
(*                                                                         *)
(* The audit's four properties hold for every two pages of a site, every   *)
(* number of questions, models and attempts, and however often a step is   *)
(* refused or fails.  What a page is charged is a sum of fees, one for     *)
(* each finding, which makes the scores of two pages comparable.           *)
(***************************************************************************)
EXTENDS SiteAudit, RateLimiter, FiniteSetTheorems, SequenceTheorems, TLAPS

-----------------------------------------------------------------------------
(* The limiter.                                                            *)


(***************************************************************************)
(* The clock never lies behind what the bucket and the statements have     *)
(* read from it.                                                           *)
(***************************************************************************)
Clocks ==
  /\ now \in Nat
  /\ known \in BOOLEAN
  /\ tokens \in Nat
  /\ updatedAt \in Nat
  /\ updatedAt <= now
  /\ pc \in [Callers -> {"idle", "take", "peek", "call", "wait"}]
  /\ stamp \in [Callers -> Nat]
  /\ \A c \in Callers : stamp[c] <= now
  /\ wakeAt \in [Callers -> Nat]
  /\ alone \in [Callers -> BOOLEAN]

\* The level of a bucket is a number of grains, never above the capacity.
LEMMA LevelType ==
  ASSUME Clocks, NEW t \in Nat
  PROVE  /\ Level(t) \in Nat
         /\ Level(t) <= Capacity
<1>1. CASE ~known
  BY <1>1, LimiterAssumption DEF Level
<1>2. CASE known
  <2>1. (t > updatedAt => t - updatedAt \in Nat) /\ Elapsed(t) \in Nat
    BY DEF Elapsed, Clocks
  <2>2. PICK refill \in Nat : refill = Elapsed(t) * Rate
    BY <2>1, LimiterAssumption
  <2>3. Level(t) = Smaller(Capacity, tokens + refill)
    BY <1>2, <2>2 DEF Level
  <2> QED
    BY <2>2, <2>3, LimiterAssumption DEF Smaller, Clocks
<1> QED
  BY <1>1, <1>2

\* From any moment at or after its last update, a bucket gains what the time that
\* passes refills, up to the capacity.
LEMMA LevelGrows ==
  ASSUME Clocks, NEW t \in Nat, t >= updatedAt, NEW w \in Nat
  PROVE  Level(t + w) = Smaller(Capacity, Level(t) + w * Rate)
<1> DEFINE e == t - updatedAt
<1>1. e \in Nat /\ Elapsed(t) = e /\ Elapsed(t + w) = e + w
  BY DEF Clocks, Elapsed
<1>2. (e + w) * Rate = e * Rate + w * Rate
  BY <1>1, LimiterAssumption
<1>3. e * Rate \in Nat /\ w * Rate \in Nat
  BY <1>1, LimiterAssumption
<1>4. CASE ~known
  BY <1>3, <1>4, LimiterAssumption DEF Level, Smaller
<1>5. CASE known
  <2>1. Level(t) = Smaller(Capacity, tokens + e * Rate)
    BY <1>1, <1>5 DEF Level
  <2>2. Level(t + w) = Smaller(Capacity, tokens + (e * Rate + w * Rate))
    BY <1>1, <1>2, <1>5 DEF Level
  <2> QED
    BY <1>3, <2>1, <2>2, LimiterAssumption DEF Smaller, Clocks
<1> QED
  BY <1>4, <1>5

\* The wait asked for is at least one, and fills the bucket up to a token.
LEMMA WaitWorks ==
  ASSUME NEW level \in Nat
  PROVE  /\ Wait(level) \in Nat
         /\ Wait(level) * Rate \in Nat
         /\ level + Wait(level) * Rate >= Cost
<1> USE LimiterAssumption
<1>1. CASE level + Rate >= Cost
  BY <1>1 DEF Wait
<1>2. CASE ~(level + Rate >= Cost)
  <2>1. PICK short \in Nat : short = Cost - level + Rate - 1
    BY <1>2
  <2>2. PICK q \in Nat : q = short \div Rate /\ short < q * Rate + Rate
    OBVIOUS
  <2>3. Wait(level) = q
    BY <1>2, <2>1, <2>2 DEF Wait
  <2>4. q * Rate \in Nat
    OBVIOUS
  <2> QED
    BY <2>1, <2>2, <2>3, <2>4
<1> QED
  BY <1>1, <1>2

-----------------------------------------------------------------------------
(***************************************************************************)
(* What holds of every behaviour: the clocks are in order, and a call that *)
(* waits undisturbed finds its token at the end of its wait.  The bucket   *)
(* only moves when a token is spent, and then nobody counts as undisturbed.*)
(***************************************************************************)
WaitInv == Clocks /\ tokens <= Capacity /\ WaitIsLongEnough

\* Nobody waits when the system starts.
LEMMA InitWait == Init => WaitInv
<1> SUFFICES ASSUME Init PROVE WaitInv
  OBVIOUS
<1>1. Clocks /\ tokens <= Capacity
  <2>1. /\ now = 0 /\ tokens = 0 /\ updatedAt = 0
        /\ \A c \in Callers : stamp[c] = 0
    BY DEF Init
  <2>2. /\ known \in BOOLEAN
        /\ pc \in [Callers -> {"idle", "take", "peek", "call", "wait"}]
        /\ alone \in [Callers -> BOOLEAN]
    BY Zenon DEF Init
  <2>3. stamp \in [Callers -> Nat] /\ wakeAt \in [Callers -> Nat]
    BY DEF Init
  <2> QED
    BY <2>1, <2>2, <2>3, LimiterAssumption DEF Clocks
<1>2. \A c \in Callers : pc[c] = "idle"
  BY DEF Init
<1>3. WaitIsLongEnough
  BY <1>2 DEF WaitIsLongEnough
<1> QED
  BY <1>1, <1>3 DEF WaitInv

\* A spent token leaves a number of grains, stamped no later than now.
LEMMA SpendKeepsClocks ==
  ASSUME Clocks, NEW c \in Callers, Level(stamp[c]) >= Cost, SpendToken(c)
  PROVE  /\ known' = TRUE
         /\ tokens' \in Nat /\ tokens' <= Capacity
         /\ updatedAt' \in Nat /\ updatedAt' <= now
<1>1. stamp[c] \in Nat /\ stamp[c] <= now
  BY DEF Clocks
<1>2. Level(stamp[c]) \in Nat /\ Level(stamp[c]) <= Capacity
  BY <1>1, LevelType
<1> QED
  BY <1>1, <1>2, LimiterAssumption DEF SpendToken

\* Every step keeps the clocks in order.
LEMMA ClocksKept ==
  ASSUME Clocks, tokens <= Capacity, [Next]_vars
  PROVE  Clocks' /\ tokens' <= Capacity
<1> USE DEF Clocks, calls, bucket, window
<1>1. ASSUME NEW c \in Callers, Begin(c) PROVE Clocks' /\ tokens' <= Capacity
  BY <1>1 DEF Begin
<1>2. ASSUME NEW c \in Callers, Granted(c) PROVE Clocks' /\ tokens' <= Capacity
  <2>1. SpendToken(c) /\ Level(stamp[c]) >= Cost
    BY <1>2 DEF Granted
  <2>2. /\ known' = TRUE
        /\ tokens' \in Nat /\ tokens' <= Capacity
        /\ updatedAt' \in Nat /\ updatedAt' <= now
    BY <2>1, SpendKeepsClocks
  <2> QED
    BY <1>2, <2>2 DEF Granted
<1>3. ASSUME NEW c \in Callers, Refused(c) PROVE Clocks' /\ tokens' <= Capacity
  BY <1>3 DEF Refused
<1>4. ASSUME NEW c \in Callers, Peek(c) PROVE Clocks' /\ tokens' <= Capacity
  <2>1. Level(now) \in Nat
    BY LevelType
  <2>2. now + Wait(Level(now)) \in Nat
    BY <2>1, WaitWorks
  <2> QED
    BY <1>4, <2>2 DEF Peek
<1>5. ASSUME NEW c \in Callers, FailOpen(c) PROVE Clocks' /\ tokens' <= Capacity
  <2>1. CASE UNCHANGED <<bucket, alone, granted>>
    BY <1>5, <2>1 DEF FailOpen
  <2>2. CASE /\ Level(stamp[c]) >= Cost
             /\ SpendToken(c)
             /\ alone' = [d \in Callers |-> FALSE]
    <3>1. /\ known' = TRUE
          /\ tokens' \in Nat /\ tokens' <= Capacity
          /\ updatedAt' \in Nat /\ updatedAt' <= now
      BY <2>2, SpendKeepsClocks
    <3> QED
      BY <1>5, <2>2, <3>1 DEF FailOpen
  <2> QED
    BY <1>5, <2>1, <2>2 DEF FailOpen
<1>6. ASSUME NEW c \in Callers, CallEnds(c) PROVE Clocks' /\ tokens' <= Capacity
  BY <1>6 DEF CallEnds
<1>7. CASE Tick
  BY <1>7 DEF Tick
<1>8. CASE Observe
  BY <1>8 DEF Observe
<1>9. CASE UNCHANGED vars
  BY <1>9 DEF vars
<1> QED
  BY <1>1, <1>2, <1>3, <1>4, <1>5, <1>6, <1>7, <1>8, <1>9 DEF Next

\* A step that leaves the bucket and the history alone, and lets nobody start to
\* wait, cannot make a wait too short.
LEMMA QuietStep ==
  ASSUME WaitInv, Clocks', UNCHANGED <<bucket, wakeAt, alone>>,
         \A c \in Callers : pc'[c] = "wait" => pc[c] = "wait"
  PROVE  WaitIsLongEnough'
<1>1. SUFFICES ASSUME NEW c \in Callers, pc'[c] = "wait", alone'[c]
               PROVE  Level(wakeAt[c])' >= Cost
  BY DEF WaitIsLongEnough
<1>2. Level(wakeAt[c]) >= Cost
  BY <1>1 DEF WaitInv, WaitIsLongEnough
<1> QED
  BY <1>2 DEF Level, Elapsed, Smaller, bucket

\* Every step keeps the waits long enough.
LEMMA WaitKept ==
  ASSUME WaitInv, [Next]_vars
  PROVE  WaitInv'
<1>1. Clocks' /\ tokens' <= Capacity
  BY ClocksKept DEF WaitInv
<1> USE <1>1 DEF WaitInv
<1>2. ASSUME NEW c \in Callers, Begin(c) PROVE WaitIsLongEnough'
  BY <1>2, QuietStep DEF Begin, Clocks
<1>3. ASSUME NEW c \in Callers, Granted(c) PROVE WaitIsLongEnough'
  BY <1>3 DEF Granted, WaitIsLongEnough
<1>4. ASSUME NEW c \in Callers, Refused(c) PROVE WaitIsLongEnough'
  BY <1>4, QuietStep DEF Refused, Clocks
<1>5. ASSUME NEW c \in Callers, Peek(c) PROVE WaitIsLongEnough'
  <2>1. PICK w \in Nat : w = Wait(Level(now)) /\ w * Rate \in Nat /\ Level(now) + w * Rate >= Cost
    BY LevelType, WaitWorks DEF Clocks
  <2>2. Level(now + w) = Smaller(Capacity, Level(now) + w * Rate)
    BY LevelGrows DEF Clocks
  <2>3. Level(now + w) >= Cost
    BY <2>1, <2>2, LimiterAssumption DEF Smaller
  <2>4. \A d \in Callers : pc'[d] = "wait" /\ alone'[d] =>
          d = c \/ (pc[d] = "wait" /\ alone[d])
    BY <1>5 DEF Peek, Clocks
  <2>5. /\ wakeAt'[c] = now + w
        /\ \A d \in Callers : d # c => wakeAt'[d] = wakeAt[d]
    BY <1>5, <2>1 DEF Peek, Clocks
  <2>6. \A d \in Callers : pc'[d] = "wait" /\ alone'[d] => Level(wakeAt'[d]) >= Cost
    BY <2>3, <2>4, <2>5 DEF WaitIsLongEnough
  <2> QED
    BY <1>5, <2>6 DEF Peek, WaitIsLongEnough, Level, Elapsed, Smaller, bucket
<1>6. ASSUME NEW c \in Callers, FailOpen(c) PROVE WaitIsLongEnough'
  <2>1. CASE UNCHANGED <<bucket, alone, granted>>
    BY <1>6, <2>1, QuietStep DEF FailOpen, Clocks
  <2>2. CASE alone' = [d \in Callers |-> FALSE]
    BY <2>2 DEF WaitIsLongEnough
  <2> QED
    BY <1>6, <2>1, <2>2 DEF FailOpen
<1>7. ASSUME NEW c \in Callers, CallEnds(c) PROVE WaitIsLongEnough'
  BY <1>7, QuietStep DEF CallEnds, Clocks
<1>8. CASE Tick
  BY <1>8, QuietStep DEF Tick, calls
<1>9. CASE Observe
  BY <1>9, QuietStep DEF Observe, calls
<1>10. CASE UNCHANGED vars
  BY <1>10, QuietStep DEF vars, calls
<1> QED
  BY <1>1, <1>2, <1>3, <1>4, <1>5, <1>6, <1>7, <1>8, <1>9, <1>10 DEF Next

\* secondsUntilAvailable never asks for too short a wait: whatever the lag and
\* whichever statements fail, a call nobody overtakes gets its token after it.
THEOREM WaitsAreLongEnough == Spec => []WaitIsLongEnough
<1>1. WaitInv => WaitIsLongEnough
  BY DEF WaitInv
<1> QED
  BY <1>1, InitWait, WaitKept, PTL DEF Spec

-----------------------------------------------------------------------------
(***************************************************************************)
(* What a window has taken and what the bucket still holds share what the  *)
(* window began with, a full bucket at most, and what has been refilled    *)
(* since.  A token taken by a statement that is late lowers the level by   *)
(* its cost, less what its lag is worth.                                   *)
(***************************************************************************)
Share == (now - since + granted * MaxLag) * Rate

Budget == granted * Cost + Level(now) <= Capacity + Share

WindowInv ==
  /\ Clocks
  /\ tokens <= Capacity
  /\ since \in Nat
  /\ since <= now
  /\ granted \in Nat
  /\ \A c \in Callers : pc[c] = "take" => now - stamp[c] <= MaxLag
  /\ Budget

\* A first window opens on an unknown bucket, which counts as full.
LEMMA InitWindow == Init => WindowInv
<1> SUFFICES ASSUME Init PROVE WindowInv
  OBVIOUS
<1>1. Clocks /\ tokens <= Capacity
  BY InitWait DEF WaitInv
<1>2. now = 0 /\ since = 0 /\ granted = 0 /\ known = FALSE
  BY DEF Init
<1>3. \A c \in Callers : pc[c] # "take"
  BY DEF Init
<1>4. Level(now) = Capacity
  BY <1>2 DEF Level
<1>5. granted * Cost = 0 /\ Share = 0
  BY <1>2, LimiterAssumption DEF Share
<1> QED
  BY <1>1, <1>2, <1>3, <1>4, <1>5, LimiterAssumption DEF WindowInv, Budget

\* The parts of the budget are numbers, whatever the window.
LEMMA BudgetTypes ==
  ASSUME WindowInv
  PROVE  /\ Level(now) \in Nat /\ Level(now) <= Capacity
         /\ granted * Cost \in Nat
         /\ granted * MaxLag \in Nat
         /\ Share \in Nat
<1>1. Level(now) \in Nat /\ Level(now) <= Capacity
  BY LevelType DEF WindowInv, Clocks
<1>2. granted \in Nat /\ now - since \in Nat
  BY DEF WindowInv, Clocks
<1>3. PICK late \in Nat : late = granted * MaxLag
  BY <1>2, LimiterAssumption
<1>4. PICK span \in Nat : span = now - since + late
  BY <1>2, <1>3
<1>5. Share = span * Rate
  BY <1>3, <1>4 DEF Share
<1> QED
  BY <1>1, <1>2, <1>3, <1>4, <1>5, LimiterAssumption

\* Each token taken adds the worth of the lag to the share.
LEMMA ShareGrows ==
  ASSUME WindowInv, now' = now, since' = since, granted' = granted + 1
  PROVE  Share' = Share + MaxLag * Rate
<1>1. PICK late \in Nat : late = granted * MaxLag
  BY LimiterAssumption DEF WindowInv
<1>2. granted' * MaxLag = late + MaxLag
  BY <1>1, LimiterAssumption DEF WindowInv
<1>3. PICK span \in Nat : span = now - since + late
  BY <1>1 DEF WindowInv, Clocks
<1>4. now' - since' + granted' * MaxLag = span + MaxLag
  BY <1>2, <1>3, LimiterAssumption DEF WindowInv, Clocks
<1>5. (span + MaxLag) * Rate = span * Rate + MaxLag * Rate
  BY LimiterAssumption
<1> QED
  BY <1>1, <1>3, <1>4, <1>5 DEF Share

\* A statement that began at t, no more than MaxLag ago, sees no more than the
\* present level, and the bucket regains no more than MaxLag's worth over what it
\* leaves.
LEMMA SpentLevel ==
  ASSUME WindowInv, NEW c \in Callers, pc[c] = "take", now' = now,
         Level(stamp[c]) >= Cost, SpendToken(c)
  PROVE  Level(now)' + Cost <= Level(now) + MaxLag * Rate
<1> DEFINE t == stamp[c]
<1>1. t \in Nat /\ t <= now /\ now - t <= MaxLag
  BY DEF WindowInv, Clocks
<1>2. Level(t) \in Nat /\ Level(now) \in Nat
  BY <1>1, LevelType DEF WindowInv, Clocks
<1>3. Level(t) <= Level(now)
  <2>1. Elapsed(t) \in Nat /\ Elapsed(now) \in Nat /\ Elapsed(t) <= Elapsed(now)
    BY <1>1 DEF Elapsed, WindowInv, Clocks
  <2>2. PICK more \in Nat : Elapsed(now) = Elapsed(t) + more
    <3>1. Elapsed(now) - Elapsed(t) \in Nat
      BY <2>1
    <3> QED
      BY <2>1, <3>1
  <2>3. /\ (Elapsed(t) + more) * Rate = Elapsed(t) * Rate + more * Rate
        /\ Elapsed(t) * Rate \in Nat /\ more * Rate \in Nat
    BY <2>1, <2>2, LimiterAssumption
  <2> QED
    BY <2>2, <2>3, LimiterAssumption DEF Level, Smaller, WindowInv, Clocks
<1>4. known' = TRUE /\ tokens' = Level(t) - Cost /\ updatedAt' = t
  BY DEF SpendToken
<1>5. Elapsed(now)' = now - t
  <2>1. now' > updatedAt' => now' - updatedAt' = now - t
    BY <1>4
  <2>2. ~(now' > updatedAt') => now - t = 0
    BY <1>1, <1>4 DEF WindowInv, Clocks
  <2> QED
    BY <2>1, <2>2 DEF Elapsed
<1>6. (now - t) * Rate \in Nat /\ (now - t) * Rate <= MaxLag * Rate
  <2>1. PICK lag \in Nat : lag = now - t
    BY <1>1 DEF WindowInv, Clocks
  <2>2. PICK rest \in Nat : MaxLag = lag + rest
    <3>1. MaxLag - lag \in Nat
      BY <1>1, <2>1, LimiterAssumption
    <3> QED
      BY <2>1, <3>1, LimiterAssumption
  <2>3. (lag + rest) * Rate = lag * Rate + rest * Rate
    BY LimiterAssumption
  <2>4. lag * Rate \in Nat /\ rest * Rate \in Nat
    BY LimiterAssumption
  <2> QED
    BY <2>1, <2>2, <2>3, <2>4
<1>7. Level(now)' = Smaller(Capacity, Level(t) - Cost + (now - t) * Rate)
  BY <1>4, <1>5 DEF Level, Smaller
<1>8. MaxLag * Rate \in Nat
  BY LimiterAssumption
<1> QED
  BY <1>2, <1>3, <1>6, <1>7, <1>8, LimiterAssumption DEF Smaller

\* So taking a token keeps the budget, whether its taker hears of it or not.
LEMMA SpentBudget ==
  ASSUME WindowInv, NEW c \in Callers, pc[c] = "take", UNCHANGED <<now, since>>,
         Level(stamp[c]) >= Cost, SpendToken(c), granted' = granted + 1
  PROVE  Budget'
<1>1. Level(now)' + Cost <= Level(now) + MaxLag * Rate
  BY SpentLevel
<1>2. Share' = Share + MaxLag * Rate
  BY ShareGrows
<1>3. granted' * Cost = granted * Cost + Cost
  BY LimiterAssumption DEF WindowInv
<1>4. /\ known' = TRUE
      /\ tokens' \in Nat /\ tokens' <= Capacity
      /\ updatedAt' \in Nat /\ updatedAt' <= now
  BY SpendKeepsClocks DEF WindowInv
<1>5. Level(now)' \in Nat
  <2>1. Elapsed(now)' \in Nat
    <3>1. now' \in Nat
      BY DEF WindowInv, Clocks
    <3>2. now' > updatedAt' => now' - updatedAt' \in Nat
      BY <1>4, <3>1
    <3> QED
      BY <3>2 DEF Elapsed
  <2>2. PICK refill \in Nat : refill = Elapsed(now)' * Rate
    BY <2>1, LimiterAssumption
  <2>3. Level(now)' = Smaller(Capacity, tokens' + refill)
    BY <1>4, <2>2 DEF Level, Smaller
  <2> QED
    BY <1>4, <2>2, <2>3, LimiterAssumption DEF Smaller
<1>6. granted * Cost + Level(now) <= Capacity + Share
  BY DEF WindowInv, Budget
<1>7. MaxLag * Rate \in Nat
  BY LimiterAssumption
<1>8. granted' * Cost + Level(now)' <= Capacity + Share'
  BY <1>1, <1>2, <1>3, <1>5, <1>6, <1>7, BudgetTypes, LimiterAssumption
<1> QED
  BY <1>8 DEF Budget

\* A step that leaves the clock, the bucket and the window alone keeps the budget.
LEMMA QuietBudget ==
  ASSUME WindowInv, UNCHANGED <<now, bucket, window>>
  PROVE  Budget'
BY DEF WindowInv, Budget, Share, Level, Elapsed, Smaller, bucket, window

\* Every step of the limiter keeps the window within its budget.
LEMMA WindowKept ==
  ASSUME WindowInv, [Next]_vars
  PROVE  WindowInv'
<1> DEFINE Kept == /\ since' \in Nat /\ since' <= now' /\ granted' \in Nat
                   /\ \A d \in Callers : pc'[d] = "take" => now' - stamp'[d] <= MaxLag
                   /\ Budget'
<1>1. Clocks' /\ tokens' <= Capacity
  BY ClocksKept DEF WindowInv
<1>2. ASSUME NEW c \in Callers, Begin(c) PROVE Kept
  BY <1>2, QuietBudget, LimiterAssumption DEF Begin, WindowInv, Clocks, window
<1>3. ASSUME NEW c \in Callers, Granted(c) PROVE Kept
  BY <1>3, SpentBudget DEF Granted, WindowInv, Clocks
<1>4. ASSUME NEW c \in Callers, Refused(c) PROVE Kept
  BY <1>4, QuietBudget DEF Refused, WindowInv, Clocks, window
<1>5. ASSUME NEW c \in Callers, Peek(c) PROVE Kept
  BY <1>5, QuietBudget DEF Peek, WindowInv, Clocks, window
<1>6. ASSUME NEW c \in Callers, FailOpen(c) PROVE Kept
  <2>1. Budget' /\ granted' \in Nat
    <3>1. CASE UNCHANGED <<bucket, alone, granted>>
      BY <1>6, <3>1, QuietBudget DEF FailOpen, WindowInv, window
    <3>2. CASE /\ pc[c] = "take"
               /\ Level(stamp[c]) >= Cost
               /\ SpendToken(c)
               /\ granted' = granted + 1
      BY <1>6, <3>2, SpentBudget DEF FailOpen, WindowInv
    <3> QED
      BY <1>6, <3>1, <3>2 DEF FailOpen
  <2> QED
    BY <1>6, <2>1 DEF FailOpen, WindowInv, Clocks
<1>7. ASSUME NEW c \in Callers, CallEnds(c) PROVE Kept
  BY <1>7, QuietBudget DEF CallEnds, WindowInv, Clocks, window
<1>8. ASSUME Tick PROVE Kept
  <2>1. /\ now' = now + 1 /\ UNCHANGED <<bucket, calls, window>>
        /\ \A d \in Callers : pc[d] = "take" => now - stamp[d] < MaxLag
    BY <1>8 DEF Tick
  <2>2. Level(now)' = Level(now + 1)
    BY <2>1 DEF Level, Elapsed, Smaller, bucket
  <2>3. Level(now + 1) = Smaller(Capacity, Level(now) + 1 * Rate)
    BY LevelGrows DEF WindowInv, Clocks
  <2>4. Level(now)' <= Level(now) + Rate /\ Level(now)' \in Nat
    BY <2>2, <2>3, BudgetTypes, LimiterAssumption DEF Smaller
  <2>5. Share' = Share + Rate
    <3>1. PICK late \in Nat : late = granted * MaxLag
      BY BudgetTypes
    <3>2. PICK span \in Nat : span = now - since + late
      BY <3>1 DEF WindowInv, Clocks
    <3>3. Share = span * Rate /\ Share' = (span + 1) * Rate
      BY <2>1, <3>1, <3>2 DEF Share, WindowInv, Clocks, window
    <3> QED
      BY <3>3, LimiterAssumption
  <2>6. Budget'
    BY <2>1, <2>4, <2>5, BudgetTypes, LimiterAssumption DEF Budget, WindowInv, window
  <2> QED
    BY <2>1, <2>6, LimiterAssumption DEF WindowInv, Clocks, calls, window
<1>9. ASSUME Observe PROVE Kept
  <2>1. since' = now /\ granted' = 0 /\ UNCHANGED <<now, bucket, calls>>
    BY <1>9 DEF Observe
  <2>2. Level(now)' = Level(now)
    BY <2>1 DEF Level, Elapsed, Smaller, bucket
  <2>3. granted' * Cost = 0 /\ Share' = 0
    BY <2>1, LimiterAssumption DEF WindowInv, Clocks, Share
  <2>4. Budget'
    BY <2>2, <2>3, BudgetTypes, LimiterAssumption DEF Budget
  <2> QED
    BY <2>1, <2>4 DEF WindowInv, Clocks, calls
<1>10. ASSUME UNCHANGED vars PROVE Kept
  BY <1>10, QuietBudget DEF vars, calls, WindowInv, Clocks, window
<1>11. Kept
  BY <1>2, <1>3, <1>4, <1>5, <1>6, <1>7, <1>8, <1>9, <1>10 DEF Next
<1> QED
  BY <1>1, <1>11 DEF WindowInv

\* Whatever the lag and whichever statements fail, no window of any length takes
\* more than a full bucket, what its length refills and, where statements are
\* late, the worth of the lag for each token.
THEOREM WindowsAreNotExceeded == Spec => []NoWindowIsExceeded
<1>1. WindowInv => NoWindowIsExceeded
  <2> SUFFICES ASSUME WindowInv PROVE NoWindowIsExceeded
    OBVIOUS
  <2>1. granted * Cost + Level(now) <= Capacity + Share
    BY DEF WindowInv, Budget
  <2>2. granted * Cost <= Capacity + Share
    BY <2>1, BudgetTypes, LimiterAssumption
  <2> QED
    BY <2>2 DEF Share, NoWindowIsExceeded
<1>2. WindowInv /\ [Next]_vars => WindowInv'
  BY WindowKept
<1> QED
  BY <1>1, <1>2, InitWindow, PTL DEF Spec

-----------------------------------------------------------------------------
(* Numbers.                                                                *)

\* The larger and the smaller of two numbers.
LEMMA MaxMinOfTwo ==
  ASSUME NEW a \in Int, NEW b \in Int
  PROVE  /\ Max({a, b}) = IF a >= b THEN a ELSE b
         /\ Min({a, b}) = IF a <= b THEN a ELSE b
  BY DEF Max, Min

\* A score is kept between 0 and 100.
LEMMA Clamped ==
  ASSUME NEW n \in Int
  PROVE  Clamp(n) = IF n < 0 THEN 0 ELSE IF n > 100 THEN 100 ELSE n
<1>1. Min({100, n}) = IF 100 <= n THEN 100 ELSE n
  BY MaxMinOfTwo
<1>2. Min({100, n}) \in Int
  BY <1>1
<1>3. Max({0, Min({100, n})}) = IF 0 >= Min({100, n}) THEN 0 ELSE Min({100, n})
  BY <1>2, MaxMinOfTwo
<1> QED
  BY <1>1, <1>3 DEF Clamp

\* The fold of the report's numbers is their sum, in whichever order it takes them.
LEMMA FoldIsSum ==
  ASSUME NEW n \in {4, 5}, NEW c, c \in [1..n -> Int]
  PROVE  FoldSeq(+, 0, c) = c[1] + c[2] + c[3] + c[4] + (IF n = 5 THEN c[5] ELSE 0)
<1> DEFINE D == 1..n
           Take(s) == CHOOSE x \in s : TRUE
           IsFold(iter) == iter = [s \in SUBSET D |->
                             IF s = {} THEN 0 ELSE c[Take(s)] + iter[s \ {Take(s)}]]
           Part(s, i) == IF i \in s THEN c[i] ELSE 0
           Sum(s) == Part(s, 1) + Part(s, 2) + Part(s, 3) + Part(s, 4)
                     + (IF n = 5 THEN Part(s, 5) ELSE 0)
           sum == [s \in SUBSET D |-> Sum(s)]
           fold == CHOOSE iter : IsFold(iter)
<1>1. FoldSeq(+, 0, c) = fold[D]
  BY DEF FoldSeq, FoldFunction, FoldFunctionOnSet, MapThenFoldSet
<1>2. ASSUME NEW s \in SUBSET D, s # {}
      PROVE  Take(s) \in s /\ Sum(s) = c[Take(s)] + Sum(s \ {Take(s)})
  <2>1. PICK x \in s : x = Take(s)
    BY <1>2
  <2>2. \A i \in D : c[i] \in Int
    OBVIOUS
  <2>3. \A i \in D : Part(s, i) = (IF i = x THEN c[x] ELSE 0) + Part(s \ {x}, i)
    <3> SUFFICES ASSUME NEW i \in D
                 PROVE  Part(s, i) = (IF i = x THEN c[x] ELSE 0) + Part(s \ {x}, i)
      OBVIOUS
    <3>1. CASE i = x
      BY <2>1, <2>2, <3>1
    <3>2. CASE i # x
      BY <2>2, <3>2
    <3> QED
      BY <3>1, <3>2
  <2>4. \A i \in D : Part(s, i) \in Int /\ Part(s \ {x}, i) \in Int
    BY <2>2
  <2>5. x \in D /\ c[x] \in Int /\ {1, 2, 3, 4} \subseteq D /\ (n = 5 => 5 \in D)
    <3>1. x \in D
      BY <2>1
    <3>2. {1, 2, 3, 4} \subseteq D /\ (n = 5 => 5 \in D)
      OBVIOUS
    <3> HIDE DEF D
    <3> QED
      BY <2>2, <3>1, <3>2
  <2>6. Sum(s) = c[x] + Sum(s \ {x})
    <3> HIDE DEF Part
    <3>1. CASE n = 4
      BY <2>3, <2>4, <2>5, <3>1
    <3>2. CASE n = 5
      BY <2>3, <2>4, <2>5, <3>2
    <3> QED
      BY <3>1, <3>2
  <2> QED
    BY <2>1, <2>6
<1>3. IsFold(fold)
  <2>1. Sum({}) = 0
    OBVIOUS
  <2>2. \A s \in SUBSET D : sum[s] = IF s = {} THEN 0 ELSE c[Take(s)] + sum[s \ {Take(s)}]
    <3> HIDE DEF Sum, Take
    <3> QED
      BY <1>2, <2>1
  <2>3. IsFold(sum)
    <3> HIDE DEF Sum, Take
    <3> QED
      BY <2>2
  <2> HIDE DEF sum, IsFold
  <2> QED
    BY <2>3 DEF fold
<1>4. \A s \in SUBSET D : fold[s] = IF s = {} THEN 0 ELSE c[Take(s)] + fold[s \ {Take(s)}]
  <2> HIDE DEF fold, Take
  <2> QED
    BY <1>3
<1> DEFINE Agree(k) == \A s \in SUBSET D : Cardinality(s) = k => fold[s] = Sum(s)
<1>5. IsFiniteSet(D) /\ Cardinality(D) = n
  <2>1. 1 \in Int /\ n \in Int /\ 1 <= n /\ n - 1 + 1 = n
    OBVIOUS
  <2> QED
    BY <2>1, FS_Interval
<1>6. Agree(0)
  <2> SUFFICES ASSUME NEW s \in SUBSET D, Cardinality(s) = 0
               PROVE  fold[s] = Sum(s)
    OBVIOUS
  <2>1. IsFiniteSet(s)
    <3> HIDE DEF D
    <3> QED
      BY <1>5, FS_Subset
  <2>2. s = {}
    BY <2>1, FS_EmptySet
  <2>3. Sum({}) = 0 /\ {} \in SUBSET D
    OBVIOUS
  <2> HIDE DEF Sum, fold, Take
  <2> QED
    BY <1>4, <2>2, <2>3
<1>7. ASSUME NEW k \in Nat, Agree(k)
      PROVE  Agree(k + 1)
  <2> SUFFICES ASSUME NEW s \in SUBSET D, Cardinality(s) = k + 1
               PROVE  fold[s] = Sum(s)
    OBVIOUS
  <2>1. IsFiniteSet(s) /\ s # {}
    <3> HIDE DEF D
    <3>1. IsFiniteSet(s)
      BY <1>5, FS_Subset
    <3> QED
      BY <3>1, FS_EmptySet
  <2>2. Take(s) \in s /\ Sum(s) = c[Take(s)] + Sum(s \ {Take(s)})
    BY <1>2, <2>1
  <2>3. Cardinality(s \ {Take(s)}) = k
    <3> DEFINE x == Take(s)
    <3> HIDE DEF x
    <3>1. Cardinality(s \ {x}) = Cardinality(s) - 1
      BY <2>1, <2>2, FS_RemoveElement DEF x
    <3> QED
      BY <3>1 DEF x
  <2> HIDE DEF Sum, fold, Take
  <2> QED
    BY <1>4, <1>7, <2>1, <2>2, <2>3
<1>8. Agree(n)
  <2> HIDE DEF Agree
  <2>1. Agree(1) /\ Agree(2) /\ Agree(3) /\ Agree(4) /\ Agree(5)
    <3>1. Agree(1)
      BY <1>6, <1>7
    <3>2. Agree(2)
      BY <3>1, <1>7
    <3>3. Agree(3)
      BY <3>2, <1>7
    <3>4. Agree(4)
      BY <3>3, <1>7
    <3> QED
      BY <3>1, <3>2, <3>3, <3>4, <1>7
  <2> QED
    BY <2>1
<1>9. FoldSeq(+, 0, c) = Sum(D)
  <2> HIDE DEF fold, Sum
  <2> QED
    BY <1>1, <1>5, <1>8
<1>10. {1, 2, 3, 4} \subseteq D /\ (n = 5 => 5 \in D)
  OBVIOUS
<1> QED
  BY <1>9, <1>10

\* Of some positions in the report there is an earliest.
LEMMA EarliestExists ==
  ASSUME NEW n \in {4, 5}, NEW c \in [1..n -> Int], NEW S \in SUBSET (1..n), S # {}
  PROVE  \E i \in S : \A j \in S \ {i} : Earlier(c, i, j)
<1> DEFINE D == 1..n
           Least(T) == \E i \in T : \A j \in T \ {i} : Earlier(c, i, j)
           Holds(k) == \A T \in SUBSET D : Cardinality(T) = k /\ T # {} => Least(T)
<1>1. IsFiniteSet(D) /\ Cardinality(D) = n
  <2>1. 1 \in Int /\ n \in Int /\ 1 <= n /\ n - 1 + 1 = n
    OBVIOUS
  <2> QED
    BY <2>1, FS_Interval
<1>2. \A T \in SUBSET D : IsFiniteSet(T) /\ Cardinality(T) \in Nat /\ Cardinality(T) <= n
  <2> HIDE DEF D
  <2> QED
    BY <1>1, FS_Subset, FS_CardinalityType
<1>3. Holds(0)
  BY <1>2, FS_EmptySet
<1>4. ASSUME NEW k \in Nat, Holds(k)
      PROVE  Holds(k + 1)
  <2> SUFFICES ASSUME NEW T \in SUBSET D, Cardinality(T) = k + 1, T # {}
               PROVE  Least(T)
    OBVIOUS
  <2>1. PICK x \in T : TRUE
    OBVIOUS
  <2>2. Cardinality(T \ {x}) = k
    <3>1. Cardinality(T \ {x}) = Cardinality(T) - 1
      BY <1>2, FS_RemoveElement
    <3> QED
      BY <3>1
  <2>3. CASE T \ {x} = {}
    BY <2>3
  <2>4. CASE T \ {x} # {}
    <3>1. T \ {x} \in SUBSET D
      OBVIOUS
    <3>2. PICK y \in T \ {x} : \A j \in (T \ {x}) \ {y} : Earlier(c, y, j)
      BY <1>4, <2>2, <2>4, <3>1
    <3>3. \A i \in T : i \in Int /\ c[i] \in Int
      OBVIOUS
    <3>4. CASE Earlier(c, x, y)
      <4>1. \A j \in T \ {x} : Earlier(c, x, j)
        BY <3>2, <3>3, <3>4 DEF Earlier
      <4> QED
        BY <4>1
    <3>5. CASE ~Earlier(c, x, y)
      <4>1. Earlier(c, y, x)
        BY <3>2, <3>3, <3>5 DEF Earlier
      <4>2. \A j \in T \ {y} : Earlier(c, y, j)
        BY <3>2, <4>1
      <4> QED
        BY <4>2
    <3> QED
      BY <3>4, <3>5
  <2> QED
    BY <2>3, <2>4
<1>5. Holds(0) /\ Holds(1) /\ Holds(2) /\ Holds(3) /\ Holds(4) /\ Holds(5)
  <2> HIDE DEF Holds
  <2>1. Holds(1)
    BY <1>3, <1>4
  <2>2. Holds(2)
    BY <2>1, <1>4
  <2>3. Holds(3)
    BY <2>2, <1>4
  <2>4. Holds(4)
    BY <2>3, <1>4
  <2> QED
    BY <1>3, <2>1, <2>2, <2>3, <2>4, <1>4
<1>6. Cardinality(S) \in {0, 1, 2, 3, 4, 5}
  BY <1>2
<1> QED
  BY <1>5, <1>6

\* The least and the greatest score of the report.
LEMMA ScoresBetween ==
  ASSUME NEW n \in {4, 5}, NEW c \in [1..n -> Int]
  PROVE  /\ Min(Range(c)) \in Int /\ \A i \in 1..n : Min(Range(c)) <= c[i]
         /\ Max(Range(c)) \in Int /\ \A i \in 1..n : c[i] <= Max(Range(c))
<1>1. 1 \in 1..n
  OBVIOUS
<1>2. PICK i \in 1..n : \A j \in (1..n) \ {i} : Earlier(c, i, j)
  BY <1>1, EarliestExists
<1>3. \A j \in 1..n : c[i] <= c[j]
  BY <1>2 DEF Earlier
<1>4. c[i] \in Range(c) /\ \A v \in Range(c) : v \in Int /\ c[i] <= v
  BY <1>3 DEF Range
<1>5. Min(Range(c)) \in Range(c) /\ \A v \in Range(c) : Min(Range(c)) <= v
  BY <1>4 DEF Min
<1> DEFINE d == [j \in 1..n |-> 0 - c[j]]
<1>6. d \in [1..n -> Int]
  OBVIOUS
<1>7. PICK k \in 1..n : \A j \in (1..n) \ {k} : Earlier(d, k, j)
  BY <1>1, <1>6, EarliestExists
<1>8. \A j \in 1..n : c[j] <= c[k]
  BY <1>7 DEF Earlier
<1>9. c[k] \in Range(c) /\ \A v \in Range(c) : v \in Int /\ v <= c[k]
  BY <1>8 DEF Range
<1>10. Max(Range(c)) \in Range(c) /\ \A v \in Range(c) : v <= Max(Range(c))
  BY <1>9 DEF Max
<1> QED
  BY <1>4, <1>5, <1>10 DEF Range

\* The mean, rounded to whole points, is between the worst and the best.
LEMMA OverallBetween ==
  ASSUME NEW n \in {4, 5}, NEW c, c \in [1..n -> Int], Len(c) = n
  PROVE  /\ 100 * OverallScore(c) >= Min(Range(c)) - 50
         /\ 100 * OverallScore(c) <= Max(Range(c)) + 50
<1> DEFINE low == Min(Range(c))
           high == Max(Range(c))
           sum == c[1] + c[2] + c[3] + c[4] + (IF n = 5 THEN c[5] ELSE 0)
<1>1. /\ low \in Int /\ \A i \in 1..n : low <= c[i]
      /\ high \in Int /\ \A i \in 1..n : c[i] <= high
  BY ScoresBetween
<1>2. sum \in Int /\ n * low <= sum /\ sum <= n * high
  <2> HIDE DEF low, high
  <2>1. CASE n = 4
    BY <1>1, <2>1
  <2>2. CASE n = 5
    BY <1>1, <2>2
  <2> QED
    BY <2>1, <2>2
<1>3. OverallScore(c) = RoundDiv(sum, 100 * n)
  BY FoldIsSum DEF OverallScore
<1> HIDE DEF sum, low, high
<1>4. 100 * RoundDiv(sum, 100 * n) >= low - 50 /\ 100 * RoundDiv(sum, 100 * n) <= high + 50
  <2>1. CASE n = 4
    BY <1>1, <1>2, <2>1 DEF RoundDiv
  <2>2. CASE n = 5
    BY <1>1, <1>2, <2>2 DEF RoundDiv
  <2> QED
    BY <2>1, <2>2
<1> QED
  BY <1>3, <1>4 DEF low, high

\* The priorities are the three weakest categories, the weakest first.
LEMMA PrioritiesAreWeakest ==
  ASSUME NEW n \in {4, 5}, NEW c \in [1..n -> Int]
  PROVE  \E a, b, d \in 1..n :
           /\ Priorities(c) = [k \in 1..3 |-> IF k = 1 THEN a ELSE IF k = 2 THEN b ELSE d]
           /\ c[a] <= c[b] /\ c[b] <= c[d]
           /\ \A j \in (1..n) \ {a, b, d} : c[d] <= c[j]
<1> DEFINE D == DOMAIN c
           Before(i) == {j \in D : Earlier(c, j, i)}
<1>1. D = 1..n /\ IsFiniteSet(D)
  <2>1. IsFiniteSet(1..n)
    BY FS_Interval
  <2> QED
    BY <2>1
<1>2. PICK a \in D : \A j \in D \ {a} : Earlier(c, a, j)
  <2>1. 1 \in 1..n
    OBVIOUS
  <2> QED
    BY <1>1, <2>1, EarliestExists
<1>3. PICK b \in D \ {a} : \A j \in (D \ {a}) \ {b} : Earlier(c, b, j)
  <2>1. D \ {a} # {}
    <3>1. {1, 2} \subseteq 1..n
      OBVIOUS
    <3> HIDE DEF D
    <3> QED
      BY <1>1, <3>1
  <2>2. D \ {a} \in SUBSET (1..n)
    BY <1>1
  <2> QED
    BY <2>1, <2>2, EarliestExists
<1>4. PICK d \in D \ {a, b} : \A j \in (D \ {a, b}) \ {d} : Earlier(c, d, j)
  <2>1. D \ {a, b} # {}
    <3>1. {1, 2, 3} \subseteq 1..n
      OBVIOUS
    <3> HIDE DEF D
    <3>2. 1 \in D /\ 2 \in D /\ 3 \in D
      BY <1>1, <3>1
    <3> QED
      BY <3>2
  <2>2. D \ {a, b} \in SUBSET (1..n)
    BY <1>1
  <2> QED
    BY <2>1, <2>2, EarliestExists
<1>5. \A i, j \in D : Earlier(c, i, j) => ~Earlier(c, j, i)
  <2>1. \A i \in D : i \in Int /\ c[i] \in Int
    BY <1>1
  <2> QED
    BY <2>1 DEF Earlier
<1>6. Before(a) = {} /\ Before(b) = {a} /\ Before(d) = {a, b}
  <2>1. \A i \in D : ~Earlier(c, i, i)
    BY <1>5
  <2> QED
    BY <1>2, <1>3, <1>4, <1>5, <2>1
<1>7. \A i \in D : IsFiniteSet(Before(i)) /\ Cardinality(Before(i)) \in Nat
  <2> SUFFICES ASSUME NEW i \in D
               PROVE  IsFiniteSet(Before(i)) /\ Cardinality(Before(i)) \in Nat
    OBVIOUS
  <2>1. Before(i) \in SUBSET D
    OBVIOUS
  <2> HIDE DEF D, Before
  <2> QED
    BY <1>1, <2>1, FS_Subset, FS_CardinalityType
<1>8. Cardinality({}) = 0 /\ Cardinality({a}) = 1
      /\ IsFiniteSet({a, b}) /\ Cardinality({a, b}) = 2
      /\ IsFiniteSet({a, b, d}) /\ Cardinality({a, b, d}) = 3
  <2>1. IsFiniteSet({a}) /\ Cardinality({a}) = 1
    BY FS_Singleton
  <2>2. b \notin {a} /\ d \notin {a, b}
    BY <1>3, <1>4
  <2> DEFINE two == {a} \union {b}
  <2>3. IsFiniteSet(two) /\ Cardinality(two) = 2
    <3>1. Cardinality(two) = Cardinality({a}) + 1
      BY <2>1, <2>2, FS_AddElement
    <3>2. IsFiniteSet(two)
      BY <2>1, FS_AddElement
    <3> QED
      BY <2>1, <3>1, <3>2
  <2>4. two = {a, b} /\ {a, b, d} = two \union {d} /\ d \notin two
    BY <2>2
  <2>5. IsFiniteSet({a, b, d}) /\ Cardinality({a, b, d}) = 3
    <3> HIDE DEF two
    <3>1. Cardinality(two \union {d}) = Cardinality(two) + 1
      BY <2>3, <2>4, FS_AddElement
    <3>2. IsFiniteSet(two \union {d})
      BY <2>3, FS_AddElement
    <3>3. Cardinality(two \union {d}) = 3
      BY <2>3, <3>1
    <3> QED
      BY <2>4, <3>2, <3>3, Zenon
  <2> QED
    BY <2>1, <2>3, <2>4, <2>5, FS_EmptySet
<1>9. \A j \in D \ {a, b, d} : Cardinality(Before(j)) >= 3
  <2> SUFFICES ASSUME NEW j \in D \ {a, b, d}
               PROVE  Cardinality(Before(j)) >= 3
    OBVIOUS
  <2>1. {a, b, d} \in SUBSET Before(j)
    BY <1>2, <1>3, <1>4
  <2>2. j \in D
    OBVIOUS
  <2> HIDE DEF Before, D
  <2>3. Cardinality({a, b, d}) <= Cardinality(Before(j))
    BY <1>7, <2>1, <2>2, FS_Subset
  <2> QED
    BY <1>7, <1>8, <2>2, <2>3
<1> DEFINE Nth(k) == CHOOSE i \in D : Cardinality(Before(i)) = k - 1
<1>10. Nth(1) = a /\ Nth(2) = b /\ Nth(3) = d
  <2>1. /\ Cardinality(Before(a)) = 0 /\ Cardinality(Before(b)) = 1 /\ Cardinality(Before(d)) = 2
        /\ a \in D /\ b \in D /\ d \in D
    BY <1>6, <1>8
  <2>2. \A i \in D : i \in {a, b, d} \/ Cardinality(Before(i)) >= 3
    BY <1>9
  <2> HIDE DEF D, Before
  <2>3. \A i \in D : Cardinality(Before(i)) = 0 <=> i = a
    BY <1>7, <2>1, <2>2
  <2>4. \A i \in D : Cardinality(Before(i)) = 1 <=> i = b
    BY <1>7, <2>1, <2>2
  <2>5. \A i \in D : Cardinality(Before(i)) = 2 <=> i = d
    BY <1>7, <2>1, <2>2
  <2> QED
    BY <2>1, <2>3, <2>4, <2>5
<1>11. Priorities(c) = [k \in 1..3 |-> Nth(k)]
  BY Zenon DEF Priorities
<1>12. Priorities(c) = [k \in 1..3 |-> IF k = 1 THEN a ELSE IF k = 2 THEN b ELSE d]
  <2>1. \A k \in 1..3 : k = 1 \/ k = 2 \/ k = 3
    OBVIOUS
  <2> HIDE DEF Nth
  <2> QED
    BY <1>10, <1>11, <2>1
<1>13. /\ c[a] <= c[b] /\ c[b] <= c[d]
       /\ \A j \in D \ {a, b, d} : c[d] <= c[j]
  BY <1>2, <1>3, <1>4 DEF Earlier
<1> HIDE DEF D
<1> QED
  BY <1>1, <1>12, <1>13

-----------------------------------------------------------------------------
(* What findings cost.                                                     *)

Severities == {"high", "medium", "low"}
Prices == [Severities -> Nat]
Fee(condition, price) == IF condition THEN price ELSE 0

\* A finite set of findings about these topics, and what it costs.
Costs(findings, topics, price, sum) ==
  /\ IsFiniteSet(findings)
  /\ \A f \in findings : f.topic \in topics
  /\ sum \in Nat
  /\ Penalty(findings, price) = sum

\* A finding costs its price if there is one.
LEMMA CostOfOne ==
  ASSUME NEW condition, NEW topic, NEW severity \in Severities, NEW price \in Prices
  PROVE  Costs(When(condition, topic, severity), {topic}, price, Fee(condition, price[severity]))
<1> DEFINE found == When(condition, topic, severity)
           Of(s) == {f \in found : f.severity = s}
<1>1. price.high \in Nat /\ price.medium \in Nat /\ price.low \in Nat
  BY DEF Prices, Severities
<1>2. CASE condition
  <2> DEFINE one == [topic |-> topic, severity |-> severity]
  <2>1. found = {one}
    BY <1>2 DEF When
  <2>2. \A s : Of(s) = IF s = severity THEN {one} ELSE {}
    BY <2>1
  <2>3. \A s : Cardinality(Of(s)) = IF s = severity THEN 1 ELSE 0
    BY <2>2, FS_Singleton, FS_EmptySet
  <2>4. \A s : Charged(found, s) = IF s = severity THEN 1 ELSE 0
    BY <2>3 DEF Charged
  <2>5. Penalty(found, price) = price[severity]
    BY <1>1, <2>4 DEF Penalty, Severities
  <2>6. IsFiniteSet(found)
    BY <2>1, FS_Singleton
  <2>7. \A f \in found : f.topic \in {topic}
    BY <2>1
  <2>8. Fee(condition, price[severity]) = price[severity] /\ price[severity] \in Nat
    BY <1>2 DEF Fee, Prices
  <2> QED
    BY <2>5, <2>6, <2>7, <2>8, Zenon DEF Costs
<1>3. CASE ~condition
  <2>1. found = {}
    BY <1>3 DEF When
  <2>2. \A s : Of(s) = {}
    BY <2>1
  <2>3. \A s : Charged(found, s) = 0
    BY <2>2, FS_EmptySet DEF Charged
  <2>4. Penalty(found, price) = 0
    BY <1>1, <2>3 DEF Penalty
  <2> QED
    BY <1>3, <2>1, <2>4, FS_EmptySet DEF Costs, Fee
<1> QED
  BY <1>2, <1>3

\* Findings about different topics cost what each of them does.
LEMMA CostsAdd ==
  ASSUME NEW A, NEW B, NEW S, NEW T, NEW price \in Prices, NEW a, NEW b,
         Costs(A, S, price, a), Costs(B, T, price, b), S \intersect T = {}
  PROVE  Costs(A \union B, S \union T, price, a + b)
<1> DEFINE Of(F, s) == {f \in F : f.severity = s}
<1>1. price.high \in Nat /\ price.medium \in Nat /\ price.low \in Nat
  BY DEF Prices, Severities
<1>2. IsFiniteSet(A) /\ IsFiniteSet(B) /\ A \intersect B = {}
  BY DEF Costs
<1>3. ASSUME NEW s
      PROVE  /\ Charged(A \union B, s) = Charged(A, s) + Charged(B, s)
             /\ Charged(A, s) \in Nat /\ Charged(B, s) \in Nat
  <2>1. /\ Of(A \union B, s) = Of(A, s) \union Of(B, s)
        /\ Of(A, s) \intersect Of(B, s) = {}
        /\ Of(A, s) \in SUBSET A /\ Of(B, s) \in SUBSET B
    BY <1>2
  <2> DEFINE X == Of(A, s)
             Y == Of(B, s)
  <2>2. Of(A \union B, s) = X \union Y /\ X \intersect Y = {}
    BY <2>1
  <2>3. IsFiniteSet(X) /\ IsFiniteSet(Y)
    <3> HIDE DEF Of
    <3> QED
      BY <1>2, <2>1, FS_Subset
  <2>4. Charged(A \union B, s) = Cardinality(X \union Y)
        /\ Charged(A, s) = Cardinality(X) /\ Charged(B, s) = Cardinality(Y)
    BY <2>2 DEF Charged
  <2> HIDE DEF X, Y, Of
  <2>5. Cardinality(X) \in Nat /\ Cardinality(Y) \in Nat
    BY <2>3, FS_CardinalityType
  <2>6. Cardinality(X \union Y) = Cardinality(X) + Cardinality(Y) - Cardinality({})
    BY <2>2, <2>3, FS_Union
  <2>7. Cardinality({}) = 0
    BY FS_EmptySet
  <2> QED
    BY <2>4, <2>5, <2>6, <2>7
<1>4. Penalty(A \union B, price) = Penalty(A, price) + Penalty(B, price)
  <2> DEFINE H == Charged(A, "high")
             M == Charged(A, "medium")
             L == Charged(A, "low")
             h == Charged(B, "high")
             m == Charged(B, "medium")
             l == Charged(B, "low")
  <2>1. H \in Nat /\ M \in Nat /\ L \in Nat /\ h \in Nat /\ m \in Nat /\ l \in Nat
    BY <1>3
  <2>2. /\ Charged(A \union B, "high") = H + h
        /\ Charged(A \union B, "medium") = M + m
        /\ Charged(A \union B, "low") = L + l
    BY <1>3
  <2>3. /\ Penalty(A, price) = price.high * H + price.medium * M + price.low * L
        /\ Penalty(B, price) = price.high * h + price.medium * m + price.low * l
        /\ Penalty(A \union B, price)
             = price.high * (H + h) + price.medium * (M + m) + price.low * (L + l)
    BY <2>2 DEF Penalty
  <2> HIDE DEF H, M, L, h, m, l
  <2> QED
    BY <1>1, <2>1, <2>3
<1>5. IsFiniteSet(A \union B)
  BY <1>2, FS_Union
<1> QED
  BY <1>4, <1>5 DEF Costs

\* One finding more costs its price.
LEMMA CostOfNext ==
  ASSUME NEW A, NEW S, NEW price \in Prices, NEW a, Costs(A, S, price, a),
         NEW condition, NEW topic, NEW severity \in Severities,
         NEW T, S \subseteq T, topic \in T, topic \notin S
  PROVE  Costs(A \union When(condition, topic, severity), T, price,
               a + Fee(condition, price[severity]))
<1>1. Costs(When(condition, topic, severity), {topic}, price, Fee(condition, price[severity]))
  BY CostOfOne
<1>2. Costs(A \union When(condition, topic, severity), S \union {topic}, price,
            a + Fee(condition, price[severity]))
  BY <1>1, CostsAdd
<1> QED
  BY <1>2, Zenon DEF Costs

\* The technical audit charges a page, as it was analysed (a) and as the probes found it (p).
TechnicalFees(a, p, lost) ==
    Fee("https" \notin a.merits, 10)
  + Fee("direct" \notin a.merits, 2)
  + Fee(a.title = "none", 10)
  + Fee(a.title = "odd", 5)
  + Fee(a.description = "none", 10)
  + Fee(a.description = "odd", 2)
  + Fee(a.h1 = 0, 10)
  + Fee(a.h1 > 1, 5)
  + Fee("alts" \notin a.merits, 5)
  + Fee(a.words < 300, 5)
  + Fee("robots" \notin p.merits, 5)
  + Fee("sitemap" \notin p.merits, 5)
  + Fee(BrokenLinksFound(p, a, lost), 10)

LEMMA TechnicalPenalty ==
  ASSUME NEW a, NEW p, NEW lost
  PROVE  /\ Penalty(TechnicalFindings(a, p, lost), TechnicalPrice) = TechnicalFees(a, p, lost)
         /\ TechnicalFees(a, p, lost) \in Nat
<1>1. TechnicalPrice \in Prices
  BY DEF TechnicalPrice, Prices, Severities
<1>2. TechnicalPrice["high"] = 10 /\ TechnicalPrice["medium"] = 5 /\ TechnicalPrice["low"] = 2
  BY DEF TechnicalPrice
<1> DEFINE
      C1 == "https" \notin a.merits
      C2 == "direct" \notin a.merits
      C3 == a.title = "none"
      C4 == a.title = "odd"
      C5 == a.description = "none"
      C6 == a.description = "odd"
      C7 == a.h1 = 0
      C8 == a.h1 > 1
      C9 == "alts" \notin a.merits
      C10 == a.words < 300
      C11 == "robots" \notin p.merits
      C12 == "sitemap" \notin p.merits
      C13 == BrokenLinksFound(p, a, lost)
      A1 == When(C1, "https", "high")
      A2 == A1 \union When(C2, "redirect", "low")
      A3 == A2 \union When(C3, "no title", "high")
      A4 == A3 \union When(C4, "title length", "medium")
      A5 == A4 \union When(C5, "no description", "high")
      A6 == A5 \union When(C6, "description length", "low")
      A7 == A6 \union When(C7, "no h1", "high")
      A8 == A7 \union When(C8, "multiple h1", "medium")
      A9 == A8 \union When(C9, "alt texts", "medium")
      A10 == A9 \union When(C10, "few words", "medium")
      A11 == A10 \union When(C11, "robots.txt", "medium")
      A12 == A11 \union When(C12, "sitemap.xml", "medium")
      A13 == A12 \union When(C13, "broken links", "high")
      n1 == Fee(C1, 10)
      n2 == n1 + Fee(C2, 2)
      n3 == n2 + Fee(C3, 10)
      n4 == n3 + Fee(C4, 5)
      n5 == n4 + Fee(C5, 10)
      n6 == n5 + Fee(C6, 2)
      n7 == n6 + Fee(C7, 10)
      n8 == n7 + Fee(C8, 5)
      n9 == n8 + Fee(C9, 5)
      n10 == n9 + Fee(C10, 5)
      n11 == n10 + Fee(C11, 5)
      n12 == n11 + Fee(C12, 5)
      n13 == n12 + Fee(C13, 10)
      T1 == {"https"}
      T2 == {"https", "redirect"}
      T3 == {"https", "redirect", "no title"}
      T4 == {"https", "redirect", "no title", "title length"}
      T5 == {"https", "redirect", "no title", "title length", "no description"}
      T6 == {"https", "redirect", "no title", "title length", "no description", "description length"}
      T7 == {"https", "redirect", "no title", "title length", "no description", "description length", "no h1"}
      T8 == {"https", "redirect", "no title", "title length", "no description", "description length", "no h1", "multiple h1"}
      T9 == {"https", "redirect", "no title", "title length", "no description", "description length", "no h1", "multiple h1", "alt texts"}
      T10 == {"https", "redirect", "no title", "title length", "no description", "description length", "no h1", "multiple h1", "alt texts", "few words"}
      T11 == {"https", "redirect", "no title", "title length", "no description", "description length", "no h1", "multiple h1", "alt texts", "few words", "robots.txt"}
      T12 == {"https", "redirect", "no title", "title length", "no description", "description length", "no h1", "multiple h1", "alt texts", "few words", "robots.txt", "sitemap.xml"}
      T13 == {"https", "redirect", "no title", "title length", "no description", "description length", "no h1", "multiple h1", "alt texts", "few words", "robots.txt", "sitemap.xml", "broken links"}
<1>3. Costs(A1, T1, TechnicalPrice, n1)
  <2> HIDE DEF C1
  <2> QED
    BY <1>1, <1>2, CostOfOne DEF Severities
<1>4. Costs(A2, T2, TechnicalPrice, n2)
  <2>1. T1 \subseteq T2 /\ "redirect" \in T2 /\ "redirect" \notin T1 /\ "low" \in Severities
    BY DEF Severities
  <2> HIDE DEF A1, T1, T2, n1, C2
  <2> QED
    BY <1>1, <1>2, <1>3, <2>1, CostOfNext
<1>5. Costs(A3, T3, TechnicalPrice, n3)
  <2>1. T2 \subseteq T3 /\ "no title" \in T3 /\ "no title" \notin T2 /\ "high" \in Severities
    BY DEF Severities
  <2> HIDE DEF A2, T2, T3, n2, C3
  <2> QED
    BY <1>1, <1>2, <1>4, <2>1, CostOfNext
<1>6. Costs(A4, T4, TechnicalPrice, n4)
  <2>1. T3 \subseteq T4 /\ "title length" \in T4 /\ "title length" \notin T3 /\ "medium" \in Severities
    BY DEF Severities
  <2> HIDE DEF A3, T3, T4, n3, C4
  <2> QED
    BY <1>1, <1>2, <1>5, <2>1, CostOfNext
<1>7. Costs(A5, T5, TechnicalPrice, n5)
  <2>1. T4 \subseteq T5 /\ "no description" \in T5 /\ "no description" \notin T4 /\ "high" \in Severities
    BY DEF Severities
  <2> HIDE DEF A4, T4, T5, n4, C5
  <2> QED
    BY <1>1, <1>2, <1>6, <2>1, CostOfNext
<1>8. Costs(A6, T6, TechnicalPrice, n6)
  <2>1. T5 \subseteq T6 /\ "description length" \in T6 /\ "description length" \notin T5 /\ "low" \in Severities
    BY DEF Severities
  <2> HIDE DEF A5, T5, T6, n5, C6
  <2> QED
    BY <1>1, <1>2, <1>7, <2>1, CostOfNext
<1>9. Costs(A7, T7, TechnicalPrice, n7)
  <2>1. T6 \subseteq T7 /\ "no h1" \in T7 /\ "no h1" \notin T6 /\ "high" \in Severities
    BY DEF Severities
  <2> HIDE DEF A6, T6, T7, n6, C7
  <2> QED
    BY <1>1, <1>2, <1>8, <2>1, CostOfNext
<1>10. Costs(A8, T8, TechnicalPrice, n8)
  <2>1. T7 \subseteq T8 /\ "multiple h1" \in T8 /\ "multiple h1" \notin T7 /\ "medium" \in Severities
    BY DEF Severities
  <2> HIDE DEF A7, T7, T8, n7, C8
  <2> QED
    BY <1>1, <1>2, <1>9, <2>1, CostOfNext
<1>11. Costs(A9, T9, TechnicalPrice, n9)
  <2>1. T8 \subseteq T9 /\ "alt texts" \in T9 /\ "alt texts" \notin T8 /\ "medium" \in Severities
    BY DEF Severities
  <2> HIDE DEF A8, T8, T9, n8, C9
  <2> QED
    BY <1>1, <1>2, <1>10, <2>1, CostOfNext
<1>12. Costs(A10, T10, TechnicalPrice, n10)
  <2>1. T9 \subseteq T10 /\ "few words" \in T10 /\ "few words" \notin T9 /\ "medium" \in Severities
    BY DEF Severities
  <2> HIDE DEF A9, T9, T10, n9, C10
  <2> QED
    BY <1>1, <1>2, <1>11, <2>1, CostOfNext
<1>13. Costs(A11, T11, TechnicalPrice, n11)
  <2>1. T10 \subseteq T11 /\ "robots.txt" \in T11 /\ "robots.txt" \notin T10 /\ "medium" \in Severities
    BY DEF Severities
  <2> HIDE DEF A10, T10, T11, n10, C11
  <2> QED
    BY <1>1, <1>2, <1>12, <2>1, CostOfNext
<1>14. Costs(A12, T12, TechnicalPrice, n12)
  <2>1. T11 \subseteq T12 /\ "sitemap.xml" \in T12 /\ "sitemap.xml" \notin T11 /\ "medium" \in Severities
    BY DEF Severities
  <2> HIDE DEF A11, T11, T12, n11, C12
  <2> QED
    BY <1>1, <1>2, <1>13, <2>1, CostOfNext
<1>15. Costs(A13, T13, TechnicalPrice, n13)
  <2>1. T12 \subseteq T13 /\ "broken links" \in T13 /\ "broken links" \notin T12 /\ "high" \in Severities
    BY DEF Severities
  <2> HIDE DEF A12, T12, T13, n12, C13
  <2> QED
    BY <1>1, <1>2, <1>14, <2>1, CostOfNext
<1>16. TechnicalFindings(a, p, lost) = A13
  BY DEF TechnicalFindings, OnPageFindings, DepthFindings, ProbeFindings
<1>17. TechnicalFees(a, p, lost) = n13
  BY DEF TechnicalFees
<1> HIDE DEF A13, n13
<1> QED
  BY <1>15, <1>16, <1>17 DEF Costs

\* And the content audit.
ContentFees(a) ==
    Fee(a.words < 300, 8)
  + Fee(a.words < 150, 15)
  + Fee(a.h1 = 0, 15)
  + Fee(a.h2 = 0, 8)
  + Fee(a.h2 > 2 /\ a.h3 = 0, 3)
  + Fee(a.title = "none", 15)
  + Fee(a.description = "none", 8)
  + Fee(a.title = "none" /\ Headings(a) = 0, 15)
  + Fee(Headings(a) < 3, 8)
  + Fee(a.links # "many", 3)

LEMMA ContentPenalty ==
  ASSUME NEW a
  PROVE  /\ Penalty(ContentAuditFindings(a), ContentPrice) = ContentFees(a)
         /\ ContentFees(a) \in Nat
<1>1. ContentPrice \in Prices
  BY DEF ContentPrice, Prices, Severities
<1>2. ContentPrice["high"] = 15 /\ ContentPrice["medium"] = 8 /\ ContentPrice["low"] = 3
  BY DEF ContentPrice
<1> DEFINE
      C1 == a.words < 300
      C2 == a.words < 150
      C3 == a.h1 = 0
      C4 == a.h2 = 0
      C5 == a.h2 > 2 /\ a.h3 = 0
      C6 == a.title = "none"
      C7 == a.description = "none"
      C8 == a.title = "none" /\ Headings(a) = 0
      C9 == Headings(a) < 3
      C10 == a.links # "many"
      A1 == When(C1, "few words", "medium")
      A2 == A1 \union When(C2, "very few words", "high")
      A3 == A2 \union When(C3, "no h1", "high")
      A4 == A3 \union When(C4, "no h2", "medium")
      A5 == A4 \union When(C5, "no h3", "low")
      A6 == A5 \union When(C6, "no title", "high")
      A7 == A6 \union When(C7, "no description", "medium")
      A8 == A7 \union When(C8, "no topic", "high")
      A9 == A8 \union When(C9, "few headings", "medium")
      A10 == A9 \union When(C10, "few links", "low")
      n1 == Fee(C1, 8)
      n2 == n1 + Fee(C2, 15)
      n3 == n2 + Fee(C3, 15)
      n4 == n3 + Fee(C4, 8)
      n5 == n4 + Fee(C5, 3)
      n6 == n5 + Fee(C6, 15)
      n7 == n6 + Fee(C7, 8)
      n8 == n7 + Fee(C8, 15)
      n9 == n8 + Fee(C9, 8)
      n10 == n9 + Fee(C10, 3)
      T1 == {"few words"}
      T2 == {"few words", "very few words"}
      T3 == {"few words", "very few words", "no h1"}
      T4 == {"few words", "very few words", "no h1", "no h2"}
      T5 == {"few words", "very few words", "no h1", "no h2", "no h3"}
      T6 == {"few words", "very few words", "no h1", "no h2", "no h3", "no title"}
      T7 == {"few words", "very few words", "no h1", "no h2", "no h3", "no title", "no description"}
      T8 == {"few words", "very few words", "no h1", "no h2", "no h3", "no title", "no description", "no topic"}
      T9 == {"few words", "very few words", "no h1", "no h2", "no h3", "no title", "no description", "no topic", "few headings"}
      T10 == {"few words", "very few words", "no h1", "no h2", "no h3", "no title", "no description", "no topic", "few headings", "few links"}
<1>3. Costs(A1, T1, ContentPrice, n1)
  <2> HIDE DEF C1
  <2> QED
    BY <1>1, <1>2, CostOfOne DEF Severities
<1>4. Costs(A2, T2, ContentPrice, n2)
  <2>1. T1 \subseteq T2 /\ "very few words" \in T2 /\ "very few words" \notin T1 /\ "high" \in Severities
    BY DEF Severities
  <2> HIDE DEF A1, T1, T2, n1, C2
  <2> QED
    BY <1>1, <1>2, <1>3, <2>1, CostOfNext
<1>5. Costs(A3, T3, ContentPrice, n3)
  <2>1. T2 \subseteq T3 /\ "no h1" \in T3 /\ "no h1" \notin T2 /\ "high" \in Severities
    BY DEF Severities
  <2> HIDE DEF A2, T2, T3, n2, C3
  <2> QED
    BY <1>1, <1>2, <1>4, <2>1, CostOfNext
<1>6. Costs(A4, T4, ContentPrice, n4)
  <2>1. T3 \subseteq T4 /\ "no h2" \in T4 /\ "no h2" \notin T3 /\ "medium" \in Severities
    BY DEF Severities
  <2> HIDE DEF A3, T3, T4, n3, C4
  <2> QED
    BY <1>1, <1>2, <1>5, <2>1, CostOfNext
<1>7. Costs(A5, T5, ContentPrice, n5)
  <2>1. T4 \subseteq T5 /\ "no h3" \in T5 /\ "no h3" \notin T4 /\ "low" \in Severities
    BY DEF Severities
  <2> HIDE DEF A4, T4, T5, n4, C5
  <2> QED
    BY <1>1, <1>2, <1>6, <2>1, CostOfNext
<1>8. Costs(A6, T6, ContentPrice, n6)
  <2>1. T5 \subseteq T6 /\ "no title" \in T6 /\ "no title" \notin T5 /\ "high" \in Severities
    BY DEF Severities
  <2> HIDE DEF A5, T5, T6, n5, C6
  <2> QED
    BY <1>1, <1>2, <1>7, <2>1, CostOfNext
<1>9. Costs(A7, T7, ContentPrice, n7)
  <2>1. T6 \subseteq T7 /\ "no description" \in T7 /\ "no description" \notin T6 /\ "medium" \in Severities
    BY DEF Severities
  <2> HIDE DEF A6, T6, T7, n6, C7
  <2> QED
    BY <1>1, <1>2, <1>8, <2>1, CostOfNext
<1>10. Costs(A8, T8, ContentPrice, n8)
  <2>1. T7 \subseteq T8 /\ "no topic" \in T8 /\ "no topic" \notin T7 /\ "high" \in Severities
    BY DEF Severities
  <2> HIDE DEF A7, T7, T8, n7, C8
  <2> QED
    BY <1>1, <1>2, <1>9, <2>1, CostOfNext
<1>11. Costs(A9, T9, ContentPrice, n9)
  <2>1. T8 \subseteq T9 /\ "few headings" \in T9 /\ "few headings" \notin T8 /\ "medium" \in Severities
    BY DEF Severities
  <2> HIDE DEF A8, T8, T9, n8, C9
  <2> QED
    BY <1>1, <1>2, <1>10, <2>1, CostOfNext
<1>12. Costs(A10, T10, ContentPrice, n10)
  <2>1. T9 \subseteq T10 /\ "few links" \in T10 /\ "few links" \notin T9 /\ "low" \in Severities
    BY DEF Severities
  <2> HIDE DEF A9, T9, T10, n9, C10
  <2> QED
    BY <1>1, <1>2, <1>11, <2>1, CostOfNext
<1>13. ContentAuditFindings(a) = A10
  BY DEF ContentAuditFindings, ContentFindings, EntityFindings
<1>14. ContentFees(a) = n10
  BY DEF ContentFees
<1> HIDE DEF A10, n10
<1> QED
  BY <1>12, <1>13, <1>14 DEF Costs

-----------------------------------------------------------------------------
(* Scores.                                                                 *)

\* What an analyzer makes of a page is a page.
LEMMA AnalysisIsPage ==
  ASSUME NEW p \in Page, NEW by \in Analyzers
  PROVE  Analysis(p, by) \in Page
<1>1. CASE Analysis(p, by) = p
  BY <1>1
<1>2. CASE Analysis(p, by) # p
  <2> DEFINE m == (p.merits \ {"paragraphs", "faq"}) \union {"alts"}
  <2>1. Analysis(p, by) = [p EXCEPT !.merits = m, !.h1 = 0, !.h2 = 0, !.h3 = 0, !.words = 0,
                                       !.links = "none"]
    BY <1>2 DEF Analysis, Delivered
  <2>2. m \in SUBSET Merits
    BY DEF Page, Merits
  <2>3. 0 \in 0..2 /\ 0 \in 0..3 /\ 0 \in 0..1 /\ 0 \in WordCounts /\ "none" \in Links
    BY DEF WordCounts, Links
  <2> HIDE DEF m
  <2> QED
    BY <2>1, <2>2, <2>3 DEF Page
<1> QED
  BY <1>1, <1>2

\* What is better about a page is better in its analysis, or as good.
LEMMA AnalysisImproves ==
  ASSUME NEW p \in Page, NEW q \in Page, Improves(p, q), NEW by \in Analyzers,
         NEW a, a = Analysis(p, by), NEW b, b = Analysis(q, by)
  PROVE  /\ a \in Page /\ b \in Page
         /\ a.merits \subseteq b.merits
         /\ Rank(a.title) <= Rank(b.title) /\ Rank(a.description) <= Rank(b.description)
         /\ a.h1 = b.h1 \/ b.h1 = 1
         /\ a.h2 <= b.h2 /\ a.h3 <= b.h3 /\ a.words <= b.words
         /\ b.links # "none" /\ q.broken = "yes" => a.links # "none" /\ p.broken = "yes"
         /\ b.links # "many" => a.links # "many"
         /\ ~HeadingsAreRecounted(p, q) => a.h1 <= b.h1 /\ ~(a.h2 <= 2 /\ b.h2 > 2 /\ b.h3 = 0)
<1> DEFINE D(x) == [x EXCEPT !.merits = (@ \ {"paragraphs", "faq"}) \union {"alts"},
                             !.h1 = 0, !.h2 = 0, !.h3 = 0, !.words = 0, !.links = "none"]
<1>1. a \in Page /\ b \in Page
  BY AnalysisIsPage
<1>2. \/ a = p /\ b = q
      \/ a = D(p) /\ b = D(q)
  BY DEF Analysis, Delivered, Improves
<1>3. CASE a = p /\ b = q
  <2>1. /\ p.h1 \in Int /\ q.h1 \in Int /\ p.h2 \in Int /\ q.h2 \in Int
        /\ p.h3 \in Int /\ q.h3 \in Int
    BY DEF Page
  <2>2. /\ b.links # "none" /\ q.broken = "yes" => a.links # "none" /\ p.broken = "yes"
        /\ b.links # "many" => a.links # "many"
    BY <1>3 DEF Improves
  <2>3. ~HeadingsAreRecounted(p, q) => a.h1 <= b.h1 /\ ~(a.h2 <= 2 /\ b.h2 > 2 /\ b.h3 = 0)
    BY <1>3, <2>1 DEF HeadingsAreRecounted
  <2> QED
    BY <1>1, <1>3, <2>2, <2>3 DEF Improves
<1>4. CASE a = D(p) /\ b = D(q)
  <2>1. /\ a.merits = (p.merits \ {"paragraphs", "faq"}) \union {"alts"}
        /\ a.h1 = 0 /\ a.h2 = 0 /\ a.h3 = 0 /\ a.words = 0 /\ a.links = "none"
        /\ a.title = p.title /\ a.description = p.description
    BY <1>4 DEF Page
  <2>2. /\ b.merits = (q.merits \ {"paragraphs", "faq"}) \union {"alts"}
        /\ b.h1 = 0 /\ b.h2 = 0 /\ b.h3 = 0 /\ b.words = 0 /\ b.links = "none"
        /\ b.title = q.title /\ b.description = q.description
    BY <1>4 DEF Page
  <2> QED
    BY <1>1, <2>1, <2>2 DEF Improves
<1> QED
  BY <1>2, <1>3, <1>4

\* The two scores, in numbers.
LEMMA TechnicalScoreIs ==
  ASSUME NEW a, NEW p, NEW lost
  PROVE  LET n == SeoScore(a) - TechnicalFees(a, p, lost) IN
         TechnicalScore(a, p, lost) = IF n < 0 THEN 0 ELSE IF n > 100 THEN 100 ELSE n
<1>1. SeoScore(a) - Penalty(TechnicalFindings(a, p, lost), TechnicalPrice)
        = SeoScore(a) - TechnicalFees(a, p, lost)
  BY TechnicalPenalty
<1>2. SeoScore(a) - TechnicalFees(a, p, lost) \in Int
  <2>1. SeoScore(a) \in Int
    BY DEF SeoScore
  <2> QED
    BY <2>1, TechnicalPenalty
<1> QED
  BY <1>1, <1>2, Clamped DEF TechnicalScore

LEMMA ContentScoreIs ==
  ASSUME NEW a
  PROVE  LET n == 100 - ContentFees(a) IN
         ContentScore(a) = IF n < 0 THEN 0 ELSE IF n > 100 THEN 100 ELSE n
<1>1. 100 - Penalty(ContentAuditFindings(a), ContentPrice) = 100 - ContentFees(a)
  BY ContentPenalty
<1>2. 100 - ContentFees(a) \in Int
  BY ContentPenalty
<1> QED
  BY <1>1, <1>2, Clamped DEF ContentScore

\* A better page, of which no link was lost, costs no more in the technical audit ...
LEMMA TechnicalImproves ==
  ASSUME NEW p \in Page, NEW q \in Page, Improves(p, q), NEW by \in Analyzers,
         NEW lost \in BOOLEAN, ~lost
  PROVE  TechnicalScore(Analysis(q, by), q, lost) >= TechnicalScore(Analysis(p, by), p, lost)
<1> DEFINE a == Analysis(p, by)
           b == Analysis(q, by)
<1>1. /\ a \in Page /\ b \in Page
      /\ a.merits \subseteq b.merits
      /\ Rank(a.title) <= Rank(b.title) /\ Rank(a.description) <= Rank(b.description)
      /\ a.h1 = b.h1 \/ b.h1 = 1
      /\ a.words <= b.words
      /\ b.links # "none" /\ q.broken = "yes" => a.links # "none" /\ p.broken = "yes"
  BY AnalysisImproves
<1>2. p.merits \subseteq q.merits
  BY DEF Improves
<1> HIDE DEF a, b
<1>3. /\ a.title \in Texts /\ b.title \in Texts /\ a.description \in Texts /\ b.description \in Texts
      /\ a.h1 \in 0..2 /\ b.h1 \in 0..2 /\ a.words \in Int /\ b.words \in Int
  BY <1>1 DEF Page, WordCounts
<1> DEFINE T(x) == (IF x.title # "none" THEN 35 ELSE 0)
                   - Fee(x.title = "none", 10) - Fee(x.title = "odd", 5)
           D(x) == (IF x.description # "none" THEN 30 ELSE 0)
                   - Fee(x.description = "none", 10) - Fee(x.description = "odd", 2)
           H(x) == (IF x.h1 > 0 THEN 35 ELSE 0) - Fee(x.h1 = 0, 10) - Fee(x.h1 > 1, 5)
           M(x) == Fee("https" \notin x.merits, 10) + Fee("direct" \notin x.merits, 2)
                   + Fee("alts" \notin x.merits, 5)
           W(x) == Fee(x.words < 300, 5)
           P(x) == Fee("robots" \notin x.merits, 5) + Fee("sitemap" \notin x.merits, 5)
           L(x, y) == Fee(BrokenLinksFound(y, x, lost), 10)
           All(x, y) == T(x) + D(x) + H(x) - M(x) - W(x) - P(y) - L(x, y)
<1>4. T(a) \in Int /\ T(b) \in Int /\ T(a) <= T(b)
  BY <1>1, <1>3 DEF Rank, Texts, Fee
<1>5. D(a) \in Int /\ D(b) \in Int /\ D(a) <= D(b)
  BY <1>1, <1>3 DEF Rank, Texts, Fee
<1>6. H(a) \in Int /\ H(b) \in Int /\ H(a) <= H(b)
  BY <1>1, <1>3 DEF Fee
<1>7. M(a) \in Int /\ M(b) \in Int /\ M(b) <= M(a)
  BY <1>1 DEF Fee
<1>8. W(a) \in Int /\ W(b) \in Int /\ W(b) <= W(a)
  BY <1>1, <1>3 DEF Fee
<1>9. P(p) \in Int /\ P(q) \in Int /\ P(q) <= P(p)
  BY <1>2 DEF Fee
<1>10. L(a, p) \in Int /\ L(b, q) \in Int /\ L(b, q) <= L(a, p)
  BY <1>1 DEF Fee, BrokenLinksFound
<1>11. ASSUME NEW x, NEW y
       PROVE  SeoScore(x) - TechnicalFees(x, y, lost) = All(x, y)
  BY DEF SeoScore, TechnicalFees, Fee
<1>12. All(a, p) \in Int /\ All(b, q) \in Int /\ All(a, p) <= All(b, q)
  <2> HIDE DEF T, D, H, M, W, P, L
  <2> QED
    BY <1>4, <1>5, <1>6, <1>7, <1>8, <1>9, <1>10
<1>13. TechnicalScore(b, q, lost) >= TechnicalScore(a, p, lost)
  <2>1. /\ SeoScore(a) - TechnicalFees(a, p, lost) = All(a, p)
        /\ SeoScore(b) - TechnicalFees(b, q, lost) = All(b, q)
    BY <1>11
  <2> HIDE DEF All
  <2>2. /\ TechnicalScore(a, p, lost) = IF All(a, p) < 0 THEN 0 ELSE IF All(a, p) > 100 THEN 100 ELSE All(a, p)
        /\ TechnicalScore(b, q, lost) = IF All(b, q) < 0 THEN 0 ELSE IF All(b, q) > 100 THEN 100 ELSE All(b, q)
    BY <2>1, TechnicalScoreIs
  <2> QED
    BY <1>12, <2>2
<1> QED
  BY <1>13 DEF a, b

\* ... nor in the content audit, unless its headings are recounted.
LEMMA ContentImproves ==
  ASSUME NEW p \in Page, NEW q \in Page, Improves(p, q), ~HeadingsAreRecounted(p, q),
         NEW by \in Analyzers
  PROVE  ContentScore(Analysis(q, by)) >= ContentScore(Analysis(p, by))
<1> DEFINE a == Analysis(p, by)
           b == Analysis(q, by)
<1>1. /\ a \in Page /\ b \in Page
      /\ a.merits \subseteq b.merits
      /\ Rank(a.title) <= Rank(b.title) /\ Rank(a.description) <= Rank(b.description)
      /\ a.h1 <= b.h1 /\ a.h2 <= b.h2 /\ a.h3 <= b.h3 /\ a.words <= b.words
      /\ b.links # "many" => a.links # "many"
      /\ ~(a.h2 <= 2 /\ b.h2 > 2 /\ b.h3 = 0)
  BY AnalysisImproves
<1> HIDE DEF a, b
<1>2. /\ a.title \in Texts /\ b.title \in Texts /\ a.description \in Texts /\ b.description \in Texts
      /\ a.h1 \in 0..2 /\ b.h1 \in 0..2 /\ a.h2 \in 0..3 /\ b.h2 \in 0..3
      /\ a.h3 \in 0..1 /\ b.h3 \in 0..1 /\ a.words \in Int /\ b.words \in Int
  BY <1>1 DEF Page, WordCounts
<1> DEFINE T(x) == Fee(x.title = "none", 15) + Fee(x.description = "none", 8)
           W(x) == Fee(x.words < 300, 8) + Fee(x.words < 150, 15)
           H(x) == Fee(x.h1 = 0, 15) + Fee(x.h2 = 0, 8) + Fee(x.h2 > 2 /\ x.h3 = 0, 3)
           N(x) == Fee(x.title = "none" /\ Headings(x) = 0, 15) + Fee(Headings(x) < 3, 8)
           L(x) == Fee(x.links # "many", 3)
           All(x) == T(x) + W(x) + H(x) + N(x) + L(x)
<1>3. T(a) \in Int /\ T(b) \in Int /\ T(b) <= T(a)
  BY <1>1, <1>2 DEF Rank, Texts, Fee
<1>4. W(a) \in Int /\ W(b) \in Int /\ W(b) <= W(a)
  BY <1>1, <1>2 DEF Fee
<1>5. H(a) \in Int /\ H(b) \in Int /\ H(b) <= H(a)
  BY <1>1, <1>2 DEF Fee
<1>6. N(a) \in Int /\ N(b) \in Int /\ N(b) <= N(a)
  <2>1. Headings(a) \in Int /\ Headings(b) \in Int /\ 0 <= Headings(a) /\ Headings(a) <= Headings(b)
    <3>1. /\ a.h1 \in Nat /\ b.h1 \in Nat /\ a.h2 \in Nat /\ b.h2 \in Nat
          /\ a.h3 \in Nat /\ b.h3 \in Nat
          /\ a.h1 <= b.h1 /\ a.h2 <= b.h2 /\ a.h3 <= b.h3
      BY <1>1, <1>2
    <3>2. Headings(a) = a.h1 + a.h2 + a.h3 /\ Headings(b) = b.h1 + b.h2 + b.h3
      BY DEF Headings
    <3> QED
      BY <3>1, <3>2
  <2>2. b.title = "none" => a.title = "none"
    BY <1>1, <1>2 DEF Rank, Texts
  <2> QED
    BY <2>1, <2>2 DEF Fee
<1>7. L(a) \in Int /\ L(b) \in Int /\ L(b) <= L(a)
  BY <1>1 DEF Fee
<1>8. ASSUME NEW x
      PROVE  ContentFees(x) = All(x)
  BY DEF ContentFees, Fee
<1>9. All(a) \in Int /\ All(b) \in Int /\ All(b) <= All(a)
  <2> HIDE DEF T, W, H, N, L
  <2> QED
    BY <1>3, <1>4, <1>5, <1>6, <1>7
<1>10. ContentScore(b) >= ContentScore(a)
  <2>1. ContentFees(a) = All(a) /\ ContentFees(b) = All(b)
    BY <1>8
  <2> HIDE DEF All
  <2> QED
    BY <1>9, <2>1, ContentScoreIs
<1> QED
  BY <1>10 DEF a, b

\* A whole number between two others is their quotient's.
LEMMA QuotientAtMost ==
  ASSUME NEW a \in Nat, NEW b \in Nat \ {0}, NEW k \in Nat, a < b * (k + 1)
  PROVE  a \div b \in 0..k
<1> DEFINE q == a \div b
           r == a % b
<1>1. q \in Int /\ r \in Int /\ a = b * q + r /\ 0 <= r /\ r < b
  OBVIOUS
<1> HIDE DEF q, r
<1>2. q <= k
  <2> SUFFICES ASSUME q >= k + 1
               PROVE  FALSE
    BY <1>1
  <2>1. b * q >= b * (k + 1)
    BY <1>1
  <2> QED
    BY <1>1, <2>1
<1>3. q >= 0
  <2> SUFFICES ASSUME q <= 0 - 1
               PROVE  FALSE
    BY <1>1
  <2>1. b * q <= b * (0 - 1)
    BY <1>1
  <2> QED
    BY <1>1, <2>1
<1> QED
  BY <1>1, <1>2, <1>3 DEF q

\* Every score is in its range.
LEMMA PageScoresInRange ==
  ASSUME NEW a, NEW p, NEW lost
  PROVE  TechnicalScore(a, p, lost) \in 0..100 /\ ContentScore(a) \in 0..100
<1>1. SeoScore(a) - TechnicalFees(a, p, lost) \in Int
  <2>1. SeoScore(a) \in Int
    BY DEF SeoScore
  <2> QED
    BY <2>1, TechnicalPenalty
<1>2. 100 - ContentFees(a) \in Int
  BY ContentPenalty
<1> QED
  BY <1>1, <1>2, TechnicalScoreIs, ContentScoreIs

LEMMA BenchmarkInRange ==
  ASSUME NEW structural \in 0..100 \union {Unavailable}, NEW extraction \in 0..100 \union {Unavailable}
  PROVE  BenchmarkScore(structural, extraction) \in 0..100
<1> DEFINE read == {structural, extraction} \ {Unavailable}
<1>1. CASE structural = Unavailable /\ extraction = Unavailable
  BY <1>1 DEF BenchmarkScore
<1>2. CASE structural = Unavailable /\ extraction # Unavailable
  <2>1. read = {extraction, extraction} /\ read # {}
    BY <1>2
  <2>2. Max(read) = extraction
    BY <2>1, MaxMinOfTwo, <1>2
  <2> QED
    BY <1>2, <2>1, <2>2 DEF BenchmarkScore
<1>3. CASE structural # Unavailable /\ extraction = Unavailable
  <2>1. read = {structural, structural} /\ read # {}
    BY <1>3
  <2>2. Max(read) = structural
    BY <2>1, MaxMinOfTwo, <1>3
  <2> QED
    BY <1>3, <2>1, <2>2 DEF BenchmarkScore
<1>4. CASE structural # Unavailable /\ extraction # Unavailable
  <2>1. structural \in 0..100 /\ extraction \in 0..100 /\ read # {}
    BY <1>4
  <2>2. BenchmarkScore(structural, extraction) = (2 * (structural + extraction) + 2) \div (2 * 2)
    BY <1>4, <2>1 DEF BenchmarkScore, RoundDiv
  <2> QED
    BY <2>1, <2>2
<1> QED
  BY <1>1, <1>2, <1>3, <1>4

LEMMA OwnSiteInRange ==
  ASSUME NEW p
  PROVE  StructuralScore(p) \in 0..100 /\ ExtractionScore(p) \in 0..100
<1> DEFINE d == Delivered(p)
           s == 100 - (IF d.title = "none" THEN 15 ELSE 0)
                    - (IF d.description = "none" THEN 10 ELSE 0)
                    - (IF d.h1 = 0 THEN 15 ELSE IF d.h1 > 1 THEN 5 ELSE 0)
                    - (IF "canonical" \in d.merits THEN 0 ELSE 5)
                    - (IF "viewport" \in d.merits THEN 0 ELSE 5)
                    - (IF "robotsMeta" \in d.merits THEN 0 ELSE 3)
                    - (IF "sitemapRef" \in d.merits THEN 0 ELSE 2)
           e == 100 - (IF TextLength(d) < 500 THEN 30 ELSE IF TextLength(d) < 1000 THEN 15 ELSE 0)
                    - (IF d.h2 = 0 THEN 10 ELSE 0)
                    - (IF "paragraphs" \in d.merits THEN 0 ELSE 10)
                    - (IF "schema" \in d.merits THEN 0 ELSE 10)
                    - (IF "faq" \in d.merits THEN 0 ELSE 5)
<1>1. s \in Int /\ e \in Int
  <2> HIDE DEF d
  <2> QED
    OBVIOUS
<1>2. StructuralScore(p) = Clamp(s) /\ ExtractionScore(p) = Clamp(e)
  BY DEF StructuralScore, ExtractionScore
<1> HIDE DEF s, e
<1> QED
  BY <1>1, <1>2, Clamped

\* A score; that of the citation audit is kept in hundredths.
Score == 0..100
Hundredths == 0..10000

LEMMA CitationInRange ==
  ASSUME NEW n \in Nat \ {0}, NEW m \in 0..n, NEW c \in 0..n
  PROVE  CitationScore(m, c, n) \in Hundredths
<1> DEFINE a == 2 * (100 * (60 * m + 40 * c)) + n
<1>1. a \in Nat /\ a <= 20001 * n
  OBVIOUS
<1>2. 2 * n \in Nat \ {0} /\ a < (2 * n) * (10000 + 1)
  BY <1>1
<1>3. CitationScore(m, c, n) = a \div (2 * n)
  BY DEF CitationScore, RoundDiv
<1> HIDE DEF a
<1> QED
  BY <1>1, <1>2, <1>3, QuotientAtMost DEF Hundredths

LEMMA AioInRange ==
  ASSUME NEW c \in 0..100, NEW z \in Hundredths
  PROVE  AioReadiness(c, z) \in 0..100
<1> DEFINE a == 2 * (100 * c + z) + 200
<1>1. a \in Nat /\ a <= 40200
  BY DEF Hundredths
<1>2. a < 400 * (100 + 1)
  BY <1>1
<1>3. AioReadiness(c, z) = a \div 400
  BY DEF AioReadiness, RoundDiv
<1> HIDE DEF a
<1> QED
  BY <1>1, <1>2, <1>3, QuotientAtMost

\* The report has four categories, or five.
LEMMA CategoriesAre ==
  ASSUME NEW t \in Score, NEW c \in Score, NEW z \in Hundredths,
         NEW k \in Score \union {Unavailable}, NEW n \in {4, 5}, n = 4 <=> k = Unavailable
  PROVE  Categories(t, c, z, k) \in [1..n -> Int] /\ Len(Categories(t, c, z, k)) = n
<1> DEFINE four == <<100 * t, 100 * c, 100 * AioReadiness(c, z), z>>
           rest == IF k = Unavailable THEN <<>> ELSE <<100 * k>>
<1>1. AioReadiness(c, z) \in Int /\ z \in Int
  <2>1. AioReadiness(c, z) \in 0..100
    BY AioInRange DEF Score
  <2> QED
    BY <2>1 DEF Hundredths
<1>2. four \in Seq(Int) /\ Len(four) = 4
  BY <1>1 DEF Score
<1>3. k # Unavailable => 100 * k \in Int
  BY DEF Score
<1>4. rest \in Seq(Int) /\ Len(rest) = n - 4
  BY <1>3
<1>5. Categories(t, c, z, k) = four \o rest
  BY DEF Categories
<1> HIDE DEF four, rest
<1>6. four \o rest \in Seq(Int) /\ Len(four \o rest) = Len(four) + Len(rest)
  BY <1>2, <1>4, ConcatProperties
<1>7. Len(four) + Len(rest) = n
  BY <1>2, <1>4
<1> DEFINE all == four \o rest
<1> HIDE DEF all
<1>8. all \in Seq(Int) /\ Len(all) = n
  BY <1>6, <1>7 DEF all
<1>9. all \in [1..Len(all) -> Int]
  BY <1>8, LenProperties
<1> QED
  BY <1>5, <1>8, <1>9 DEF all

\* The topics of findings.
LEMMA TopicOfOne ==
  ASSUME NEW condition, NEW topic, NEW severity, NEW t
  PROVE  t \in TopicsOf(When(condition, topic, severity)) <=> condition /\ t = topic
<1>1. CASE condition
  BY <1>1 DEF When, TopicsOf
<1>2. CASE ~condition
  BY <1>2 DEF When, TopicsOf
<1> QED
  BY <1>1, <1>2

\* What the technical audit finds.
LEMMA TechnicalTopics ==
  ASSUME NEW a, NEW p, NEW lost, NEW t
  PROVE  /\ t \in TopicsOf(TechnicalFindings(a, p, lost)) => t \in Topics
         /\ t = "no title" => (t \in TopicsOf(TechnicalFindings(a, p, lost)) <=> a.title = "none")
         /\ t = "no description" => (t \in TopicsOf(TechnicalFindings(a, p, lost)) <=> a.description = "none")
         /\ t = "no h1" => (t \in TopicsOf(TechnicalFindings(a, p, lost)) <=> a.h1 = 0)
         /\ t = "few words" => (t \in TopicsOf(TechnicalFindings(a, p, lost)) <=> a.words < 300)
<1> DEFINE
      C1 == "https" \notin a.merits
      C2 == "direct" \notin a.merits
      C3 == a.title = "none"
      C4 == a.title = "odd"
      C5 == a.description = "none"
      C6 == a.description = "odd"
      C7 == a.h1 = 0
      C8 == a.h1 > 1
      C9 == "alts" \notin a.merits
      C10 == a.words < 300
      C11 == "robots" \notin p.merits
      C12 == "sitemap" \notin p.merits
      C13 == BrokenLinksFound(p, a, lost)
      W1 == When(C1, "https", "high")
      W2 == When(C2, "redirect", "low")
      W3 == When(C3, "no title", "high")
      W4 == When(C4, "title length", "medium")
      W5 == When(C5, "no description", "high")
      W6 == When(C6, "description length", "low")
      W7 == When(C7, "no h1", "high")
      W8 == When(C8, "multiple h1", "medium")
      W9 == When(C9, "alt texts", "medium")
      W10 == When(C10, "few words", "medium")
      W11 == When(C11, "robots.txt", "medium")
      W12 == When(C12, "sitemap.xml", "medium")
      W13 == When(C13, "broken links", "high")
<1>1. TechnicalFindings(a, p, lost) =
        W1 \union W2 \union W3 \union W4 \union W5 \union W6 \union W7
         \union W8 \union W9 \union W10 \union W11 \union W12 \union W13
  BY DEF TechnicalFindings, OnPageFindings, DepthFindings, ProbeFindings
<1>2. t \in TopicsOf(W1) <=> C1 /\ t = "https"
  <2> HIDE DEF C1
  <2> QED
    BY TopicOfOne
<1>3. t \in TopicsOf(W2) <=> C2 /\ t = "redirect"
  <2> HIDE DEF C2
  <2> QED
    BY TopicOfOne
<1>4. t \in TopicsOf(W3) <=> C3 /\ t = "no title"
  <2> HIDE DEF C3
  <2> QED
    BY TopicOfOne
<1>5. t \in TopicsOf(W4) <=> C4 /\ t = "title length"
  <2> HIDE DEF C4
  <2> QED
    BY TopicOfOne
<1>6. t \in TopicsOf(W5) <=> C5 /\ t = "no description"
  <2> HIDE DEF C5
  <2> QED
    BY TopicOfOne
<1>7. t \in TopicsOf(W6) <=> C6 /\ t = "description length"
  <2> HIDE DEF C6
  <2> QED
    BY TopicOfOne
<1>8. t \in TopicsOf(W7) <=> C7 /\ t = "no h1"
  <2> HIDE DEF C7
  <2> QED
    BY TopicOfOne
<1>9. t \in TopicsOf(W8) <=> C8 /\ t = "multiple h1"
  <2> HIDE DEF C8
  <2> QED
    BY TopicOfOne
<1>10. t \in TopicsOf(W9) <=> C9 /\ t = "alt texts"
  <2> HIDE DEF C9
  <2> QED
    BY TopicOfOne
<1>11. t \in TopicsOf(W10) <=> C10 /\ t = "few words"
  <2> HIDE DEF C10
  <2> QED
    BY TopicOfOne
<1>12. t \in TopicsOf(W11) <=> C11 /\ t = "robots.txt"
  <2> HIDE DEF C11
  <2> QED
    BY TopicOfOne
<1>13. t \in TopicsOf(W12) <=> C12 /\ t = "sitemap.xml"
  <2> HIDE DEF C12
  <2> QED
    BY TopicOfOne
<1>14. t \in TopicsOf(W13) <=> C13 /\ t = "broken links"
  <2> HIDE DEF C13
  <2> QED
    BY TopicOfOne
<1> HIDE DEF W1, W2, W3, W4, W5, W6, W7, W8, W9, W10, W11, W12, W13
<1>15. t \in TopicsOf(TechnicalFindings(a, p, lost)) <=>
         \/ t \in TopicsOf(W1)
         \/ t \in TopicsOf(W2)
         \/ t \in TopicsOf(W3)
         \/ t \in TopicsOf(W4)
         \/ t \in TopicsOf(W5)
         \/ t \in TopicsOf(W6)
         \/ t \in TopicsOf(W7)
         \/ t \in TopicsOf(W8)
         \/ t \in TopicsOf(W9)
         \/ t \in TopicsOf(W10)
         \/ t \in TopicsOf(W11)
         \/ t \in TopicsOf(W12)
         \/ t \in TopicsOf(W13)
  BY <1>1 DEF TopicsOf
<1> DEFINE found == t \in TopicsOf(TechnicalFindings(a, p, lost))
<1> HIDE DEF C1, C2, C3, C4, C5, C6, C7, C8, C9, C10, C11, C12, C13, found
<1>16. found <=>
         \/ C1 /\ t = "https"
         \/ C2 /\ t = "redirect"
         \/ C3 /\ t = "no title"
         \/ C4 /\ t = "title length"
         \/ C5 /\ t = "no description"
         \/ C6 /\ t = "description length"
         \/ C7 /\ t = "no h1"
         \/ C8 /\ t = "multiple h1"
         \/ C9 /\ t = "alt texts"
         \/ C10 /\ t = "few words"
         \/ C11 /\ t = "robots.txt"
         \/ C12 /\ t = "sitemap.xml"
         \/ C13 /\ t = "broken links"
  BY <1>2, <1>3, <1>4, <1>5, <1>6, <1>7, <1>8, <1>9, <1>10, <1>11, <1>12,
     <1>13, <1>14, <1>15 DEF found
<1>17. found => t \in Topics
  BY <1>16 DEF Topics
<1>18. t = "no title" => (found <=> C3)
  BY <1>16
<1>19. t = "no description" => (found <=> C5)
  BY <1>16
<1>20. t = "no h1" => (found <=> C7)
  BY <1>16
<1>21. t = "few words" => (found <=> C10)
  BY <1>16
<1> QED
  BY <1>17, <1>18, <1>19, <1>20, <1>21 DEF found, C3, C5, C7, C10

\* And the content audit.
LEMMA ContentTopics ==
  ASSUME NEW a, NEW t
  PROVE  /\ t \in TopicsOf(ContentAuditFindings(a)) => t \in Topics
         /\ t = "no title" => (t \in TopicsOf(ContentAuditFindings(a)) <=> a.title = "none")
         /\ t = "no description" => (t \in TopicsOf(ContentAuditFindings(a)) <=> a.description = "none")
         /\ t = "no h1" => (t \in TopicsOf(ContentAuditFindings(a)) <=> a.h1 = 0)
         /\ t = "few words" => (t \in TopicsOf(ContentAuditFindings(a)) <=> a.words < 300)
<1> DEFINE
      C1 == a.words < 300
      C2 == a.words < 150
      C3 == a.h1 = 0
      C4 == a.h2 = 0
      C5 == a.h2 > 2 /\ a.h3 = 0
      C6 == a.title = "none"
      C7 == a.description = "none"
      C8 == a.title = "none" /\ Headings(a) = 0
      C9 == Headings(a) < 3
      C10 == a.links # "many"
      W1 == When(C1, "few words", "medium")
      W2 == When(C2, "very few words", "high")
      W3 == When(C3, "no h1", "high")
      W4 == When(C4, "no h2", "medium")
      W5 == When(C5, "no h3", "low")
      W6 == When(C6, "no title", "high")
      W7 == When(C7, "no description", "medium")
      W8 == When(C8, "no topic", "high")
      W9 == When(C9, "few headings", "medium")
      W10 == When(C10, "few links", "low")
<1>1. ContentAuditFindings(a) =
        W1 \union W2 \union W3 \union W4 \union W5 \union W6 \union W7
         \union W8 \union W9 \union W10
  BY DEF ContentAuditFindings, ContentFindings, EntityFindings
<1>2. t \in TopicsOf(W1) <=> C1 /\ t = "few words"
  <2> HIDE DEF C1
  <2> QED
    BY TopicOfOne
<1>3. t \in TopicsOf(W2) <=> C2 /\ t = "very few words"
  <2> HIDE DEF C2
  <2> QED
    BY TopicOfOne
<1>4. t \in TopicsOf(W3) <=> C3 /\ t = "no h1"
  <2> HIDE DEF C3
  <2> QED
    BY TopicOfOne
<1>5. t \in TopicsOf(W4) <=> C4 /\ t = "no h2"
  <2> HIDE DEF C4
  <2> QED
    BY TopicOfOne
<1>6. t \in TopicsOf(W5) <=> C5 /\ t = "no h3"
  <2> HIDE DEF C5
  <2> QED
    BY TopicOfOne
<1>7. t \in TopicsOf(W6) <=> C6 /\ t = "no title"
  <2> HIDE DEF C6
  <2> QED
    BY TopicOfOne
<1>8. t \in TopicsOf(W7) <=> C7 /\ t = "no description"
  <2> HIDE DEF C7
  <2> QED
    BY TopicOfOne
<1>9. t \in TopicsOf(W8) <=> C8 /\ t = "no topic"
  <2> HIDE DEF C8
  <2> QED
    BY TopicOfOne
<1>10. t \in TopicsOf(W9) <=> C9 /\ t = "few headings"
  <2> HIDE DEF C9
  <2> QED
    BY TopicOfOne
<1>11. t \in TopicsOf(W10) <=> C10 /\ t = "few links"
  <2> HIDE DEF C10
  <2> QED
    BY TopicOfOne
<1> HIDE DEF W1, W2, W3, W4, W5, W6, W7, W8, W9, W10
<1>12. t \in TopicsOf(ContentAuditFindings(a)) <=>
         \/ t \in TopicsOf(W1)
         \/ t \in TopicsOf(W2)
         \/ t \in TopicsOf(W3)
         \/ t \in TopicsOf(W4)
         \/ t \in TopicsOf(W5)
         \/ t \in TopicsOf(W6)
         \/ t \in TopicsOf(W7)
         \/ t \in TopicsOf(W8)
         \/ t \in TopicsOf(W9)
         \/ t \in TopicsOf(W10)
  BY <1>1 DEF TopicsOf
<1> DEFINE found == t \in TopicsOf(ContentAuditFindings(a))
<1> HIDE DEF C1, C2, C3, C4, C5, C6, C7, C8, C9, C10, found
<1>13. found <=>
         \/ C1 /\ t = "few words"
         \/ C2 /\ t = "very few words"
         \/ C3 /\ t = "no h1"
         \/ C4 /\ t = "no h2"
         \/ C5 /\ t = "no h3"
         \/ C6 /\ t = "no title"
         \/ C7 /\ t = "no description"
         \/ C8 /\ t = "no topic"
         \/ C9 /\ t = "few headings"
         \/ C10 /\ t = "few links"
  BY <1>2, <1>3, <1>4, <1>5, <1>6, <1>7, <1>8, <1>9, <1>10, <1>11, <1>12 DEF found
<1>14. found => t \in Topics
  BY <1>13 DEF Topics
<1>15. t = "no title" => (found <=> C6)
  BY <1>13
<1>16. t = "no description" => (found <=> C7)
  BY <1>13
<1>17. t = "no h1" => (found <=> C3)
  BY <1>13
<1>18. t = "few words" => (found <=> C1)
  BY <1>13
<1> QED
  BY <1>14, <1>15, <1>16, <1>17, <1>18 DEF found, C6, C7, C3, C1

\* The topics that both audits have are about the same.
LEMMA CommonTopicsAgree ==
  ASSUME NEW a, NEW p, NEW lost
  PROVE  TopicsOf(TechnicalFindings(a, p, lost)) \intersect CommonTopics
           = TopicsOf(ContentAuditFindings(a)) \intersect CommonTopics
<1> SUFFICES ASSUME NEW t \in CommonTopics
             PROVE  t \in TopicsOf(TechnicalFindings(a, p, lost)) <=> t \in TopicsOf(ContentAuditFindings(a))
  OBVIOUS
<1>1. CASE t = "no title"
  BY <1>1, TechnicalTopics, ContentTopics
<1>2. CASE t = "no description"
  BY <1>2, TechnicalTopics, ContentTopics
<1>3. CASE t = "no h1"
  BY <1>3, TechnicalTopics, ContentTopics
<1>4. CASE t = "few words"
  BY <1>4, TechnicalTopics, ContentTopics
<1> QED
  BY <1>1, <1>2, <1>3, <1>4 DEF CommonTopics

LEMMA TopicsAreTopics ==
  ASSUME NEW a, NEW p, NEW lost
  PROVE  /\ TopicsOf(TechnicalFindings(a, p, lost)) \in SUBSET Topics
         /\ TopicsOf(ContentAuditFindings(a)) \in SUBSET Topics
         /\ TopicsOf({}) \in SUBSET Topics
<1>1. \A t \in TopicsOf(TechnicalFindings(a, p, lost)) : t \in Topics
  BY TechnicalTopics
<1>2. \A t \in TopicsOf(ContentAuditFindings(a)) : t \in Topics
  BY ContentTopics
<1>3. TopicsOf({}) = {}
  BY DEF TopicsOf
<1> QED
  BY <1>1, <1>2, <1>3

-----------------------------------------------------------------------------
(* The agents at work.                                                     *)

Work == [limited : BOOLEAN, lost : BOOLEAN, seen : SUBSET {1, 2}, by : Analyzers,
         query : 1..Queries + 1, model : 1..Models + 1, attempt : 1..MaxAttempts, mentions : Nat, citations : Nat,
         structural : Score \union {Unavailable}, extraction : Score \union {Unavailable}]

\* What an agent saves of a step that the limiter refused no call of.
Result(score, findings, by, seen, lost) ==
  [score |-> score, topics |-> TopicsOf(findings), by |-> by, seen |-> seen,
   limited |-> FALSE, lost |-> lost]

Technical(v, w, by, lost) ==
  Result(TechnicalScore(Analysis(pages[v], by), pages[w], lost),
         TechnicalFindings(Analysis(pages[v], by), pages[w], lost), by, {v, w}, lost)

Content(v, by) ==
  Result(ContentScore(Analysis(pages[v], by)),
         ContentAuditFindings(Analysis(pages[v], by)), by, {v}, FALSE)

\* Where the pipeline may be, and what it has at hand there.
PlaceFits ==
  /\ place \in Points /\ step \in 1..Len(Steps) + 1
  /\ place = "done" <=> step > Len(Steps)
  /\ place = "probes" => step = 1 /\ \E v \in {1, 2} : work.seen = {v}
  /\ place \in {"extraction", "serp"} => competitors /\ step = 4
  /\ place # "waiting" => ~work.limited

WorkFits == work \in Work /\ work.mentions < work.query /\ work.citations < work.query

\* The results of the steps that are done are those of their agents.
ResultsFit ==
  /\ DOMAIN results = {"technical", "content", "citation", "benchmark"}
  /\ \A agent \in DOMAIN results :
       results[agent] \in {NoResult} \union {r \in Scored : ~r.limited}
  /\ step > 1 => \E v, w \in {1, 2}, by \in Analyzers, lost \in BOOLEAN :
                   results["technical"] = Technical(v, w, by, lost)
  /\ step > 2 => \E v \in {1, 2}, by \in Analyzers : results["content"] = Content(v, by)
  /\ step > 3 => results["citation"].score \in Hundredths
  /\ step > 4 /\ competitors => results["benchmark"].score \in Score

ReportFits ==
  report # NoResult =>
    /\ place = "done"
    /\ report = [categories |-> CategoriesOf, overall |-> OverallScore(CategoriesOf),
                 priorities |-> Priorities(CategoriesOf)]

AuditInv ==
  /\ pages \in Page \X Page /\ competitors \in BOOLEAN /\ version \in {1, 2}
  /\ setbacks \in 0..MaxSetbacks
  /\ PlaceFits /\ WorkFits /\ ResultsFit /\ ReportFits

LEMMA ScoredIs ==
  Scored = [score : Hundredths, topics : SUBSET Topics, by : Analyzers, seen : SUBSET {1, 2},
            limited : BOOLEAN, lost : BOOLEAN]
  BY DEF Scored, Hundredths

\* The steps of an audit, with and without competitors.
LEMMA StepsAre ==
  ASSUME competitors \in BOOLEAN
  PROVE  /\ Len(Steps) = IF competitors THEN 5 ELSE 4
         /\ Steps[1] = "technical" /\ Steps[2] = "content" /\ Steps[3] = "citation"
         /\ Steps[4] = IF competitors THEN "benchmark" ELSE "aggregate"
         /\ competitors => Steps[5] = "aggregate"
  BY DEF Steps

\* An agent is at work at its own step.
LEMMA AgentsStep ==
  ASSUME AuditInv, NEW agent, NEW point, At(agent, point)
  PROVE  /\ place = point /\ step \in 1..Len(Steps) /\ Len(Steps) \in {4, 5}
         /\ agent = "technical" => step = 1
         /\ agent = "content" => step = 2
         /\ agent = "citation" => step = 3
         /\ agent = "benchmark" => competitors /\ step = 4
         /\ agent = "aggregate" => step = Len(Steps)
<1>1. competitors \in BOOLEAN /\ step \in 1..Len(Steps) + 1
  BY DEF AuditInv, PlaceFits
<1>2. /\ Len(Steps) = IF competitors THEN 5 ELSE 4
      /\ Steps[1] = "technical" /\ Steps[2] = "content" /\ Steps[3] = "citation"
      /\ Steps[4] = IF competitors THEN "benchmark" ELSE "aggregate"
      /\ competitors => Steps[5] = "aggregate"
  BY <1>1, StepsAre
<1>3. step <= Len(Steps) /\ Steps[step] = agent /\ place = point
  BY DEF At
<1>4. step \in 1..5 /\ (step = 5 => competitors)
  BY <1>1, <1>2, <1>3
<1> QED
  BY <1>1, <1>2, <1>3, <1>4

\* Within a step, what was saved stays.
LEMMA WithinStep ==
  ASSUME AuditInv, UNCHANGED <<audit, step, results, report>>, place # "done", place' # "done",
         version' \in {1, 2}, setbacks' \in 0..MaxSetbacks, PlaceFits', WorkFits'
  PROVE  AuditInv'
<1>1. UNCHANGED <<pages, competitors>>
  BY DEF audit
<1>2. ResultsFit'
  BY <1>1 DEF AuditInv, ResultsFit, Technical, Content, Result
<1>3. ReportFits'
  BY DEF AuditInv, ReportFits
<1> QED
  BY <1>1, <1>2, <1>3 DEF AuditInv

LEMMA StepsStay ==
  ASSUME UNCHANGED audit
  PROVE  Steps' = Steps
  BY DEF Steps, audit

LEMMA ContinueKeeps ==
  ASSUME AuditInv, NEW point \in {"start", "probes", "extraction", "serp"},
         NEW memory \in Work, ~memory.limited,
         memory.mentions < memory.query, memory.citations < memory.query,
         step <= Len(Steps),
         point = "probes" => step = 1 /\ \E v \in {1, 2} : memory.seen = {v},
         point \in {"extraction", "serp"} => competitors /\ step = 4,
         Continue(point, memory)
  PROVE  AuditInv'
<1>1. place' = point /\ work' = memory /\ UNCHANGED <<audit, version, step, results, report, setbacks>>
  BY DEF Continue
<1>2. Steps' = Steps /\ competitors' = competitors
  BY <1>1, StepsStay DEF audit
<1>3. place # "done" /\ place' # "done"
  <2>1. step \in 1..Len(Steps) + 1 /\ (place = "done" <=> step > Len(Steps))
    BY DEF AuditInv, PlaceFits
  <2>2. Len(Steps) \in Int
    BY StepsAre DEF AuditInv
  <2> QED
    BY <1>1, <2>1, <2>2
<1>4. PlaceFits'
  <2>1. step \in 1..Len(Steps) + 1 /\ (place = "done" <=> step > Len(Steps))
    BY DEF AuditInv, PlaceFits
  <2>2. point \in Points /\ point # "done" /\ point # "waiting"
    BY DEF Points
  <2> QED
    BY <1>1, <1>2, <1>3, <2>1, <2>2 DEF PlaceFits
<1>5. WorkFits'
  BY <1>1 DEF WorkFits, Work
<1> QED
  BY <1>1, <1>3, <1>4, <1>5, WithinStep DEF AuditInv

LEMMA IdleIsWork ==
  /\ Idle \in Work /\ ~Idle.limited /\ Idle.lost = FALSE
  /\ Idle.mentions < Idle.query /\ Idle.citations < Idle.query
  BY SiteAssumption DEF Idle, Work, Analyzers, Score, Unavailable

\* Between steps: what is saved is what the agent should have saved.
LEMMA SaveKeeps ==
  ASSUME AuditInv, NEW agent, step \in 1..Len(Steps), Steps[step] = agent,
         agent \in {"technical", "content", "citation", "benchmark"},
         NEW memory \in Work, ~memory.limited, NEW score \in Hundredths, NEW findings,
         TopicsOf(findings) \subseteq Topics,
         NEW r, r = Result(score, findings, memory.by, memory.seen, memory.lost),
         agent = "technical" => \E v, w \in {1, 2}, by \in Analyzers, lost \in BOOLEAN :
                                   r = Technical(v, w, by, lost),
         agent = "content" => \E v \in {1, 2}, by \in Analyzers : r = Content(v, by),
         agent = "benchmark" => score \in Score,
         Save(memory, score, findings)
  PROVE  AuditInv'
<1>1. /\ results' = [results EXCEPT ![agent] = r]
      /\ place' = "start" /\ step' = step + 1 /\ work' = Idle
      /\ UNCHANGED <<pages, competitors, audit, version, report, setbacks>>
  <2>1. memory.limited = FALSE
    BY DEF Work
  <2>2. results' = [results EXCEPT ![agent] = r]
    BY <2>1 DEF Save, Result
  <2> QED
    BY <2>2 DEF Save, audit
<1>2. Steps' = Steps
  BY <1>1, StepsStay
<1>3. /\ Len(Steps) = IF competitors THEN 5 ELSE 4
      /\ Steps[1] = "technical" /\ Steps[2] = "content" /\ Steps[3] = "citation"
      /\ Steps[4] = IF competitors THEN "benchmark" ELSE "aggregate"
      /\ competitors => Steps[5] = "aggregate"
  BY StepsAre DEF AuditInv
<1>4. /\ step \in 1..4 /\ step < Len(Steps)
      /\ step = 1 <=> agent = "technical"
      /\ step = 2 <=> agent = "content"
      /\ step = 3 <=> agent = "citation"
      /\ step = 4 <=> agent = "benchmark"
      /\ step = 4 => competitors
  BY <1>3
<1>5. PlaceFits'
  BY <1>1, <1>2, <1>3, <1>4, IdleIsWork DEF PlaceFits, Points
<1>6. WorkFits'
  BY <1>1, IdleIsWork DEF WorkFits, Work
<1>7. r \in Scored /\ ~r.limited /\ r.score = score
  <2>1. memory.by \in Analyzers /\ memory.seen \in SUBSET {1, 2} /\ memory.lost \in BOOLEAN
    BY DEF Work
  <2> QED
    BY <2>1, ScoredIs DEF Result
<1>8. ResultsFit'
  <2>1. ResultsFit
    BY DEF AuditInv
  <2>2. DOMAIN results' = DOMAIN results /\ DOMAIN results = {"technical", "content", "citation", "benchmark"}
    BY <1>1, <2>1 DEF ResultsFit
  <2>3. results'[agent] = r /\ \A other \in DOMAIN results \ {agent} : results'[other] = results[other]
    BY <1>1, <2>2
  <2>4. \A any \in DOMAIN results' :
          results'[any] \in {NoResult} \union {x \in Scored : ~x.limited}
    BY <1>7, <2>1, <2>2, <2>3 DEF ResultsFit
  <2>5. \A v, w, by, lost : /\ Technical(v, w, by, lost)' = Technical(v, w, by, lost)
                           /\ Content(v, by)' = Content(v, by)
    BY <1>1 DEF Technical, Content, Result
  <2>6. \E v, w \in {1, 2}, by \in Analyzers, lost \in BOOLEAN :
          results'["technical"] = Technical(v, w, by, lost)
    BY <1>4, <2>1, <2>2, <2>3 DEF ResultsFit
  <2>7. step > 1 => \E v \in {1, 2}, by \in Analyzers : results'["content"] = Content(v, by)
    BY <1>4, <2>1, <2>2, <2>3 DEF ResultsFit
  <2>8. step > 2 => results'["citation"].score \in Hundredths
    BY <1>4, <1>7, <2>1, <2>2, <2>3 DEF ResultsFit
  <2>9. step > 3 => results'["benchmark"].score \in Score
    BY <1>4, <1>7, <2>1, <2>2, <2>3 DEF ResultsFit
  <2>10. step' > 1 /\ (step' > 2 => step > 1) /\ (step' > 3 => step > 2) /\ (step' > 4 => step > 3)
    BY <1>1, <1>4
  <2> QED
    BY <2>2, <2>4, <2>5, <2>6, <2>7, <2>8, <2>9, <2>10 DEF ResultsFit
<1>9. ReportFits'
  <2>1. place # "done"
    BY <1>4, <1>3 DEF AuditInv, PlaceFits
  <2> QED
    BY <1>1, <2>1 DEF AuditInv, ReportFits
<1> QED
  BY <1>1, <1>5, <1>6, <1>8, <1>9 DEF AuditInv

LEMMA AtWork ==
  ASSUME AuditInv, step \in 1..Len(Steps)
  PROVE  place # "done"
<1>1. Len(Steps) \in Int
  BY StepsAre DEF AuditInv
<1> QED
  BY <1>1 DEF AuditInv, PlaceFits

\* A refused step is begun anew.
LEMMA RefuseKeeps ==
  ASSUME AuditInv, step \in 1..Len(Steps), Refuse
  PROVE  AuditInv'
<1>1. /\ place' = "waiting" /\ setbacks' = setbacks + 1 /\ setbacks < MaxSetbacks
      /\ work' = [work EXCEPT !.limited = TRUE]
      /\ UNCHANGED <<audit, competitors, version, step, results, report>>
  BY DEF Refuse, audit
<1>2. Steps' = Steps /\ place # "done"
  BY <1>1, StepsStay, AtWork
<1>3. PlaceFits'
  BY <1>1, <1>2 DEF AuditInv, PlaceFits, Points
<1>4. WorkFits'
  BY <1>1 DEF AuditInv, WorkFits, Work
<1>5. setbacks' \in 0..MaxSetbacks
  BY <1>1, SiteAssumption DEF AuditInv
<1> QED
  BY <1>1, <1>2, <1>3, <1>4, <1>5, WithinStep DEF AuditInv

LEMMA ResumeKeeps ==
  ASSUME AuditInv, Resume
  PROVE  AuditInv'
<1>1. /\ place = "waiting" /\ place' = "start" /\ work' = Idle
      /\ UNCHANGED <<audit, competitors, version, step, results, report, setbacks>>
  BY DEF Resume, audit
<1>2. Steps' = Steps
  BY <1>1, StepsStay
<1>3. PlaceFits'
  BY <1>1, <1>2, IdleIsWork DEF AuditInv, PlaceFits, Points
<1>4. WorkFits'
  BY <1>1, IdleIsWork DEF WorkFits
<1> QED
  BY <1>1, <1>3, <1>4, WithinStep DEF AuditInv

LEMMA StepFailsKeeps ==
  ASSUME AuditInv, StepFails
  PROVE  AuditInv'
<1>1. /\ place # "done" /\ place' \in {"start", "failed"} /\ work' = Idle
      /\ UNCHANGED <<audit, competitors, version, step, results, report>>
  BY DEF StepFails, audit
<1>2. setbacks' \in 0..MaxSetbacks
  BY SiteAssumption DEF StepFails, AuditInv
<1>3. Steps' = Steps
  BY <1>1, StepsStay
<1>4. PlaceFits'
  BY <1>1, <1>3, IdleIsWork DEF AuditInv, PlaceFits, Points
<1>5. WorkFits'
  BY <1>1, IdleIsWork DEF WorkFits
<1> QED
  BY <1>1, <1>2, <1>4, <1>5, WithinStep DEF AuditInv

LEMMA ChangeSiteKeeps ==
  ASSUME AuditInv, ChangeSite
  PROVE  AuditInv'
<1>1. /\ place # "done" /\ version' = 2
      /\ UNCHANGED <<audit, competitors, place, step, work, results, report, setbacks>>
  BY DEF ChangeSite, audit
<1>2. Steps' = Steps
  BY <1>1, StepsStay
<1>3. PlaceFits'
  BY <1>1, <1>2 DEF AuditInv, PlaceFits
<1>4. WorkFits'
  BY <1>1 DEF AuditInv, WorkFits
<1> QED
  BY <1>1, <1>3, <1>4, WithinStep DEF AuditInv

\* A page that was analysed as it is now.
LEMMA AnalysisOf ==
  ASSUME AuditInv, NEW memory \in Analyses
  PROVE  /\ memory \in Work /\ ~memory.limited /\ memory.lost = FALSE
         /\ memory.mentions < memory.query /\ memory.citations < memory.query
         /\ memory.seen = {version} /\ memory.by \in Analyzers
<1>1. PICK by \in Analyzers : memory = [Idle EXCEPT !.seen = {version}, !.by = by]
  BY DEF Analyses, Analyzed
<1>2. {version} \in SUBSET {1, 2}
  BY DEF AuditInv
<1> QED
  BY <1>1, <1>2, IdleIsWork DEF Work, Idle

LEMMA AnalyzePageKeeps ==
  ASSUME AuditInv, AnalyzePage
  PROVE  AuditInv'
<1>1. step = 1 /\ step \in 1..Len(Steps) /\ Len(Steps) \in {4, 5}
  BY AgentsStep DEF AnalyzePage
<1>2. CASE Refuse
  BY <1>1, <1>2, RefuseKeeps
<1>3. ASSUME NEW memory \in Analyses, Continue("probes", memory)
      PROVE  AuditInv'
  <2>1. /\ memory \in Work /\ ~memory.limited
        /\ memory.mentions < memory.query /\ memory.citations < memory.query
        /\ \E v \in {1, 2} : memory.seen = {v}
    BY <1>3, AnalysisOf DEF AuditInv
  <2> QED
    BY <1>1, <1>3, <2>1, ContinueKeeps
<1> QED
  BY <1>2, <1>3 DEF AnalyzePage

LEMMA ScoresAreHundredths ==
  Score \subseteq Hundredths
  BY DEF Score, Hundredths

LEMMA ProbeSiteKeeps ==
  ASSUME AuditInv, ProbeSite
  PROVE  AuditInv'
<1>1. /\ place = "probes" /\ step = 1 /\ step \in 1..Len(Steps) /\ Len(Steps) \in {4, 5}
      /\ Steps[step] = "technical"
  BY AgentsStep DEF ProbeSite, At
<1>2. PICK v \in {1, 2} : work.seen = {v}
  BY <1>1 DEF AuditInv, PlaceFits
<1>l. PICK lost \in BOOLEAN :
        Save([work EXCEPT !.seen = @ \union {version}, !.lost = lost],
             TechnicalScore(AnalyzedPage, page, lost), TechnicalFindings(AnalyzedPage, page, lost))
  BY DEF ProbeSite
<1> DEFINE w == version
           by == work.by
           a == Analysis(pages[v], by)
           memory == [work EXCEPT !.seen = @ \union {w}, !.lost = lost]
           score == TechnicalScore(a, pages[w], lost)
           findings == TechnicalFindings(a, pages[w], lost)
<1>3. AnalyzedPage = a
  <2>1. (CHOOSE x \in work.seen : TRUE) = v
    BY <1>2
  <2> QED
    BY <2>1 DEF AnalyzedPage
<1>4. w \in {1, 2} /\ work \in Work /\ by \in Analyzers /\ ~work.limited
  BY <1>1 DEF AuditInv, PlaceFits, WorkFits, Work
<1>5. /\ memory \in Work /\ ~memory.limited /\ memory.by = by /\ memory.seen = {v, w} /\ memory.lost = lost
      /\ memory.mentions < memory.query /\ memory.citations < memory.query
  BY <1>2, <1>4 DEF AuditInv, WorkFits, Work
<1>6. score \in Hundredths /\ TopicsOf(findings) \subseteq Topics
  BY PageScoresInRange, ScoresAreHundredths, TopicsAreTopics DEF Score
<1>7. Save(memory, score, findings)
  BY <1>l, <1>3 DEF page
<1>8. Result(score, findings, by, {v, w}, lost) = Technical(v, w, by, lost)
  BY DEF Technical
<1> HIDE DEF a, memory, score, findings, by, w
<1> QED
  BY <1>1, <1>4, <1>5, <1>6, <1>7, <1>8, SaveKeeps

LEMMA AuditContentKeeps ==
  ASSUME AuditInv, AuditContent
  PROVE  AuditInv'
<1>1. /\ step = 2 /\ step \in 1..Len(Steps) /\ Steps[step] = "content"
  BY AgentsStep DEF AuditContent, At
<1>2. CASE Refuse
  BY <1>1, <1>2, RefuseKeeps
<1>3. ASSUME NEW memory \in Analyses,
             Save(memory, ContentScore(Analysis(page, memory.by)),
                  ContentAuditFindings(Analysis(page, memory.by)))
      PROVE  AuditInv'
  <2> DEFINE v == version
             by == memory.by
             score == ContentScore(Analysis(pages[v], by))
             findings == ContentAuditFindings(Analysis(pages[v], by))
  <2>1. memory \in Work /\ ~memory.limited /\ memory.lost = FALSE /\ memory.seen = {v} /\ by \in Analyzers
    BY <1>3, AnalysisOf
  <2>2. v \in {1, 2}
    BY DEF AuditInv
  <2>3. score \in Hundredths /\ TopicsOf(findings) \subseteq Topics
    BY PageScoresInRange, ScoresAreHundredths, TopicsAreTopics DEF Score
  <2>4. Save(memory, score, findings)
    BY <1>3 DEF page
  <2>5. Result(score, findings, by, {v}, FALSE) = Content(v, by)
    BY DEF Content
  <2> HIDE DEF score, findings, v
  <2> QED
    BY <1>1, <2>1, <2>2, <2>3, <2>4, <2>5, SaveKeeps
<1> QED
  BY <1>2, <1>3 DEF AuditContent

LEMMA NoTopics ==
  TopicsOf({}) \subseteq Topics
  BY DEF TopicsOf

\* The citation audit counts on.
LEMMA CitationKeeps ==
  ASSUME AuditInv, CitationStep
  PROVE  AuditInv'
<1> DEFINE Counts(m) == /\ m \in Work /\ ~m.limited
                        /\ m.mentions < m.query /\ m.citations < m.query
<1>1. CASE NoModelAnswers
  BY <1>1, StepFailsKeeps DEF NoModelAnswers
<1>2. ASSUME At("citation", "start")
      PROVE  /\ step = 3 /\ step \in 1..Len(Steps) /\ Steps[step] = "citation"
             /\ work \in Work /\ ~work.limited
             /\ work.mentions < work.query /\ work.citations < work.query
             /\ work.query \in 1..Queries + 1 /\ work.model \in 1..Models + 1
             /\ work.attempt \in 1..MaxAttempts /\ work.mentions \in Nat /\ work.citations \in Nat
  <2>1. step = 3 /\ step \in 1..Len(Steps) /\ Steps[step] = "citation" /\ place = "start"
    BY <1>2, AgentsStep DEF At
  <2> QED
    BY <2>1 DEF AuditInv, PlaceFits, WorkFits, Work
<1>3. CASE ModelIsLimited
  BY <1>2, <1>3, RefuseKeeps DEF ModelIsLimited, Asking
<1>4. ASSUME NEW memory, Counts(memory), At("citation", "start"), Continue("start", memory)
      PROVE  AuditInv'
  <2>1. step <= Len(Steps)
    BY <1>4 DEF At
  <2> QED
    BY <1>4, <2>1, ContinueKeeps
<1>5. Queries \in Nat \ {0} /\ Models \in Nat \ {0} /\ MaxAttempts \in Nat \ {0}
  BY SiteAssumption
<1>6. CASE ModelAnswers
  <2>1. At("citation", "start") /\ work.query <= Queries
    BY <1>6 DEF ModelAnswers, Asking
  <2>2. PICK mention \in {0, 1}, citation \in {0, 1} :
          Continue("start", [work EXCEPT !.query = @ + 1, !.model = 1, !.attempt = 1,
                                         !.mentions = @ + mention, !.citations = @ + citation])
    BY <1>6 DEF ModelAnswers
  <2> DEFINE memory == [work EXCEPT !.query = @ + 1, !.model = 1, !.attempt = 1,
                                    !.mentions = @ + mention, !.citations = @ + citation]
  <2> DEFINE q == work.query + 1
             x == work.mentions + mention
             y == work.citations + citation
  <2>3. /\ q \in 1..Queries + 1 /\ x \in Nat /\ y \in Nat /\ x < q /\ y < q
        /\ 1 \in 1..Models + 1 /\ 1 \in 1..MaxAttempts
    <3>1. /\ work.query \in Nat /\ work.query <= Queries /\ work.query >= 1
          /\ work.mentions \in Nat /\ work.citations \in Nat
          /\ work.mentions < work.query /\ work.citations < work.query
      BY <1>2, <1>5, <2>1
    <3>2. mention \in 0..1 /\ citation \in 0..1
      OBVIOUS
    <3> QED
      BY <1>5, <3>1, <3>2
  <2>4. memory = [work EXCEPT !.query = q, !.model = 1, !.attempt = 1,
                              !.mentions = x, !.citations = y]
    OBVIOUS
  <2> HIDE DEF memory, q, x, y
  <2>5. Counts(memory)
    BY <1>2, <2>1, <2>3, <2>4 DEF Work
  <2> QED
    BY <1>4, <2>1, <2>2, <2>5 DEF memory
<1>7. CASE ModelFails
  <2>1. At("citation", "start") /\ work.model <= Models
    BY <1>7 DEF ModelFails, Asking
  <2>2. CASE work.attempt < MaxAttempts
    <3> DEFINE n == work.attempt + 1
               memory == [work EXCEPT !.attempt = n]
    <3>1. Continue("start", memory)
      BY <1>7, <2>2 DEF ModelFails
    <3>2. n \in 1..MaxAttempts
      BY <1>2, <1>5, <2>1, <2>2
    <3> HIDE DEF n
    <3>3. Counts(memory)
      BY <1>2, <2>1, <3>2 DEF Work
    <3> HIDE DEF memory
    <3> QED
      BY <1>4, <2>1, <3>1, <3>3
  <2>3. CASE ~(work.attempt < MaxAttempts)
    <3> DEFINE n == work.model + 1
               memory == [work EXCEPT !.model = n, !.attempt = 1]
    <3>1. Continue("start", memory)
      BY <1>7, <2>3 DEF ModelFails
    <3>2. n \in 1..Models + 1 /\ 1 \in 1..MaxAttempts
      BY <1>2, <1>5, <2>1
    <3> HIDE DEF n
    <3>3. Counts(memory)
      BY <1>2, <2>1, <3>2 DEF Work
    <3> HIDE DEF memory
    <3> QED
      BY <1>4, <2>1, <3>1, <3>3
  <2> QED
    BY <2>2, <2>3
<1>8. CASE ModelRefusesRequest
  <2> DEFINE n == work.model + 1
             memory == [work EXCEPT !.model = n, !.attempt = 1]
  <2>1. At("citation", "start") /\ work.model <= Models /\ Continue("start", memory)
    BY <1>8 DEF ModelRefusesRequest, Asking
  <2>2. n \in 1..Models + 1 /\ 1 \in 1..MaxAttempts
    BY <1>2, <1>5, <2>1
  <2> HIDE DEF n
  <2>3. Counts(memory)
    BY <1>2, <2>1, <2>2 DEF Work
  <2> HIDE DEF memory
  <2> QED
    BY <1>4, <2>1, <2>3
<1>9. CASE SaveCitations
  <2> DEFINE score == CitationScore(work.mentions, work.citations, Queries)
  <2>1. At("citation", "start") /\ work.query > Queries /\ Save(work, score, {})
    BY <1>9 DEF SaveCitations
  <2>2. Queries \in Nat \ {0} /\ work.mentions \in 0..Queries /\ work.citations \in 0..Queries
    BY <1>2, <1>5, <2>1
  <2>3. score \in Hundredths
    BY <2>2, CitationInRange
  <2> DEFINE r == Result(score, {}, work.by, work.seen, work.lost)
             a == "citation"
  <2> HIDE DEF score, r
  <2> QED
    BY <1>2, <2>1, <2>3, NoTopics, SaveKeeps DEF r
<1> QED
  BY <1>1, <1>3, <1>6, <1>7, <1>8, <1>9 DEF CitationStep

\* So does the benchmark.
LEMMA BenchmarkKeeps ==
  ASSUME AuditInv, BenchmarkStep
  PROVE  AuditInv'
<1>1. ASSUME NEW point, At("benchmark", point)
      PROVE  /\ competitors /\ step = 4 /\ step \in 1..Len(Steps) /\ Len(Steps) \in {4, 5}
             /\ Steps[step] = "benchmark" /\ place = point
  BY <1>1, AgentsStep DEF At
<1>2. ASSUME NEW point \in {"start", "extraction", "serp"}, place = point
      PROVE  /\ work \in Work /\ ~work.limited
             /\ work.mentions < work.query /\ work.citations < work.query
  BY <1>2 DEF AuditInv, PlaceFits, WorkFits
<1>3. StructuralScore(page) \in Score /\ ExtractionScore(page) \in Score
  BY OwnSiteInRange DEF Score
<1>4. CASE FetchStructure
  <2>1. PICK score \in {StructuralScore(page), Unavailable} :
          Continue("extraction", [work EXCEPT !.structural = score])
    BY <1>4 DEF FetchStructure
  <2> DEFINE memory == [work EXCEPT !.structural = score]
  <2>2. competitors /\ step = 4 /\ step <= Len(Steps) /\ place = "start"
    BY <1>1, <1>4 DEF FetchStructure
  <2>3. /\ memory \in Work /\ ~memory.limited
        /\ memory.mentions < memory.query /\ memory.citations < memory.query
    BY <1>2, <1>3, <2>2 DEF Work
  <2> HIDE DEF memory
  <2> QED
    BY <2>1, <2>2, <2>3, ContinueKeeps DEF memory
<1>5. CASE FetchContent
  <2>1. PICK score \in {ExtractionScore(page), Unavailable} :
          Continue("serp", [work EXCEPT !.extraction = score])
    BY <1>5 DEF FetchContent
  <2> DEFINE memory == [work EXCEPT !.extraction = score]
  <2>2. competitors /\ step = 4 /\ step <= Len(Steps) /\ place = "extraction"
    BY <1>1, <1>5 DEF FetchContent
  <2>3. /\ memory \in Work /\ ~memory.limited
        /\ memory.mentions < memory.query /\ memory.citations < memory.query
    BY <1>2, <1>3, <2>2 DEF Work
  <2> HIDE DEF memory
  <2> QED
    BY <2>1, <2>2, <2>3, ContinueKeeps DEF memory
<1>6. CASE LookUpIndex
  <2> DEFINE score == BenchmarkScore(work.structural, work.extraction)
             r == Result(score, {}, work.by, work.seen, work.lost)
  <2>1. step \in 1..Len(Steps) /\ Steps[step] = "benchmark" /\ place = "serp"
    BY <1>1, <1>6 DEF LookUpIndex
  <2>2. /\ work \in Work /\ ~work.limited
        /\ work.mentions < work.query /\ work.citations < work.query
    BY <1>2, <2>1
  <2>3. score \in Score
    BY <2>2, BenchmarkInRange DEF Work, Score
  <2>4. CASE Refuse
    BY <2>1, <2>4, RefuseKeeps
  <2>5. CASE Save(work, score, {})
    <3> HIDE DEF score, r
    <3> QED
      BY <2>1, <2>2, <2>3, <2>5, NoTopics, ScoresAreHundredths, SaveKeeps DEF r
  <2> QED
    BY <1>6, <2>4, <2>5 DEF LookUpIndex
<1> QED
  BY <1>4, <1>5, <1>6 DEF BenchmarkStep

LEMMA AggregateKeeps ==
  ASSUME AuditInv, Aggregate
  PROVE  AuditInv'
<1>1. /\ step = Len(Steps) /\ Len(Steps) \in {4, 5} /\ place = "start"
      /\ place' = "done" /\ step' = step + 1
      /\ UNCHANGED <<audit, pages, competitors, version, work, results, setbacks>>
  BY AgentsStep DEF Aggregate, audit
<1>2. Steps' = Steps
  BY <1>1, StepsStay
<1>3. PlaceFits'
  BY <1>1, <1>2 DEF AuditInv, PlaceFits, Points
<1>4. WorkFits'
  BY <1>1 DEF AuditInv, WorkFits
<1>5. ResultsFit'
  <2>1. (step = 5 /\ competitors) \/ (step = 4 /\ ~competitors)
    <3>1. Len(Steps) = IF competitors THEN 5 ELSE 4
      BY StepsAre DEF AuditInv
    <3>2. step = Len(Steps)
      BY <1>1
    <3> QED
      BY <3>1, <3>2
  <2>2. step > 3 /\ (competitors => step > 4)
    BY <2>1
  <2>3. \A v, w, by, lost : /\ Technical(v, w, by, lost)' = Technical(v, w, by, lost)
                           /\ Content(v, by)' = Content(v, by)
    BY <1>1 DEF Technical, Content, Result
  <2>4. ResultsFit
    BY DEF AuditInv
  <2> QED
    BY <1>1, <2>1, <2>2, <2>3, <2>4 DEF ResultsFit
<1>6. ReportFits'
  <2>1. CategoriesOf' = CategoriesOf
    BY <1>1 DEF CategoriesOf
  <2> QED
    BY <1>1, <2>1 DEF Aggregate, ReportFits
<1> QED
  BY <1>1, <1>3, <1>4, <1>5, <1>6 DEF AuditInv

-----------------------------------------------------------------------------
(* The invariant, and what follows from it.                                *)

LEMMA AuditBegins ==
  ASSUME SiteInit
  PROVE  AuditInv
<1>1. /\ pages \in Page \X Page /\ competitors \in BOOLEAN /\ version \in {1, 2} /\ setbacks \in 0..MaxSetbacks
      /\ place = "start" /\ step = 1 /\ work = Idle /\ report = NoResult
  BY SiteAssumption DEF SiteInit
<1>2. Len(Steps) = 5 \/ Len(Steps) = 4
  BY <1>1, StepsAre
<1>3. PlaceFits
  <2>1. step \in 1..Len(Steps) + 1 /\ ~(step > Len(Steps))
    <3>1. step = 1
      BY <1>1
    <3>2. CASE Len(Steps) = 5
      BY <3>1, <3>2
    <3>3. CASE Len(Steps) = 4
      BY <3>1, <3>3
    <3> QED
      BY <1>2, <3>2, <3>3
  <2>2. place \in Points /\ place # "done" /\ place # "waiting" /\ ~work.limited
    BY <1>1, IdleIsWork DEF Points
  <2> QED
    BY <1>1, <2>1, <2>2 DEF PlaceFits
<1>4. WorkFits
  BY <1>1, IdleIsWork DEF WorkFits
<1>5. ResultsFit
  BY <1>1 DEF SiteInit, ResultsFit
<1> QED
  BY <1>1, <1>3, <1>4, <1>5 DEF AuditInv, ReportFits

LEMMA AuditGoesOn ==
  ASSUME AuditInv, [SiteNext]_siteVars
  PROVE  AuditInv'
<1>1. CASE PageStep
  BY <1>1, AnalyzePageKeeps, ProbeSiteKeeps, AuditContentKeeps DEF PageStep
<1>2. CASE UNCHANGED siteVars
  <2>1. /\ UNCHANGED <<pages, competitors, version, place, step, work, results, report, setbacks>>
        /\ UNCHANGED audit
    BY <1>2 DEF siteVars, audit
  <2>2. Steps' = Steps
    BY <2>1, StepsStay
  <2>3. PlaceFits'
    BY <2>1, <2>2 DEF AuditInv, PlaceFits
  <2>4. WorkFits'
    BY <2>1 DEF AuditInv, WorkFits
  <2>5. ResultsFit'
    BY <2>1 DEF AuditInv, ResultsFit, Technical, Content, Result
  <2>6. ReportFits'
    BY <2>1 DEF AuditInv, ReportFits, CategoriesOf
  <2> QED
    BY <2>1, <2>3, <2>4, <2>5, <2>6 DEF AuditInv
<1> QED
  BY <1>1, <1>2, CitationKeeps, BenchmarkKeeps, AggregateKeeps, ResumeKeeps, StepFailsKeeps,
     ChangeSiteKeeps DEF SiteNext

LEMMA AuditInvariant ==
  SiteSpec => []AuditInv
<1>1. SiteInit => AuditInv
  BY AuditBegins
<1>2. AuditInv /\ [SiteNext]_siteVars => AuditInv'
  BY AuditGoesOn
<1> QED
  BY <1>1, <1>2, PTL DEF SiteSpec

\* A report is made of all that its agents saved.
LEMMA ReportedResults ==
  ASSUME AuditInv, report # NoResult
  PROVE  /\ \E v, w \in {1, 2}, by \in Analyzers, lost \in BOOLEAN :
              results["technical"] = Technical(v, w, by, lost)
         /\ \E v \in {1, 2}, by \in Analyzers : results["content"] = Content(v, by)
         /\ results["citation"].score \in Hundredths
         /\ competitors => results["benchmark"].score \in Score
         /\ \A v \in {1, 2} : pages[v] \in Page
<1>1. Len(Steps) = IF competitors THEN 5 ELSE 4
  BY StepsAre DEF AuditInv
<1>2. place = "done" /\ step \in 1..Len(Steps) + 1 /\ step > Len(Steps)
  BY DEF AuditInv, PlaceFits, ReportFits
<1>3. step > 3 /\ step > 2 /\ step > 1 /\ (competitors => step > 4)
  BY <1>1, <1>2
<1>4. ResultsFit
  BY DEF AuditInv
<1>5. \E v, w \in {1, 2}, by \in Analyzers, lost \in BOOLEAN :
        results["technical"] = Technical(v, w, by, lost)
  BY <1>3, <1>4 DEF ResultsFit
<1>6. \E v \in {1, 2}, by \in Analyzers : results["content"] = Content(v, by)
  BY <1>3, <1>4 DEF ResultsFit
<1>7. results["citation"].score \in Hundredths
  BY <1>3, <1>4 DEF ResultsFit
<1>8. competitors => results["benchmark"].score \in Score
  BY <1>3, <1>4 DEF ResultsFit
<1>9. \A v \in {1, 2} : pages[v] \in Page
  BY DEF AuditInv
<1> QED
  BY <1>5, <1>6, <1>7, <1>8, <1>9

LEMMA ReportedCategories ==
  ASSUME AuditInv, report # NoResult
  PROVE  \E n \in {4, 5} : CategoriesOf \in [1..n -> Int] /\ Len(CategoriesOf) = n
<1>1. PICK v \in {1, 2}, w \in {1, 2}, by \in Analyzers, lost \in BOOLEAN :
        results["technical"] = Technical(v, w, by, lost)
  BY ReportedResults
<1>2. PICK u \in {1, 2}, by2 \in Analyzers : results["content"] = Content(u, by2)
  BY ReportedResults
<1> DEFINE t == results["technical"].score
           c == results["content"].score
           z == results["citation"].score
           k == IF competitors THEN results["benchmark"].score ELSE Unavailable
           n == IF k = Unavailable THEN 4 ELSE 5
<1>3. t \in Score
  BY <1>1, PageScoresInRange DEF Technical, Result, Score
<1>4. c \in Score
  BY <1>2, PageScoresInRange DEF Content, Result, Score
<1>5. z \in Hundredths
  BY ReportedResults
<1>6. k \in Score \union {Unavailable}
  BY ReportedResults
<1>7. CategoriesOf = Categories(t, c, z, k)
  BY DEF CategoriesOf
<1>n. n \in {4, 5} /\ (n = 4 <=> k = Unavailable)
  OBVIOUS
<1> HIDE DEF t, c, z, k, n
<1>8. Categories(t, c, z, k) \in [1..n -> Int] /\ Len(Categories(t, c, z, k)) = n
  BY <1>3, <1>4, <1>5, <1>6, <1>n, CategoriesAre
<1> QED
  BY <1>7, <1>8, <1>n

\* In a completed audit, a site that was only improved scores no less in the technical
\* audit, read by the same analyzer, if every link answered, nor in the content audit unless its headings are
\* recounted (technical-audit-agent.ts, content-entity-audit-agent.ts): for all pages and
\* changes of them, not only the neighbours of a few.
THEOREM ImprovementsHelp ==
  SiteSpec => []ImprovementsDoNotCost
<1>1. AuditInv => ImprovementsDoNotCost
  <2> SUFFICES ASSUME AuditInv, report # NoResult, Improves(pages[1], pages[2])
               PROVE  /\ (results["technical"].seen = {2} /\ ~results["technical"].lost) =>
                           results["technical"].score >=
                             TechnicalScore(Analysis(pages[1], results["technical"].by), pages[1],
                                            results["technical"].lost)
                      /\ (results["content"].seen = {2} /\ ~HeadingsAreRecounted(pages[1], pages[2])) =>
                           results["content"].score >= ContentScore(Analysis(pages[1], results["content"].by))
    BY DEF ImprovementsDoNotCost
  <2>1. PICK v \in {1, 2}, w \in {1, 2}, by \in Analyzers, lost \in BOOLEAN :
          results["technical"] = Technical(v, w, by, lost)
    BY ReportedResults
  <2>2. PICK u \in {1, 2}, by2 \in Analyzers : results["content"] = Content(u, by2)
    BY ReportedResults
  <2>3. pages[1] \in Page /\ pages[2] \in Page
    BY ReportedResults
  <2>4. ASSUME results["technical"].seen = {2}, ~results["technical"].lost
        PROVE  results["technical"].score >=
                 TechnicalScore(Analysis(pages[1], results["technical"].by), pages[1],
                                            results["technical"].lost)
    <3>1. v = 2 /\ w = 2 /\ ~lost
      BY <2>1, <2>4 DEF Technical, Result
    <3>2. /\ results["technical"].by = by
          /\ results["technical"].score = TechnicalScore(Analysis(pages[2], by), pages[2], lost)
          /\ results["technical"].lost = lost
      BY <2>1, <3>1 DEF Technical, Result
    <3>3. TechnicalScore(Analysis(pages[2], by), pages[2], lost)
            >= TechnicalScore(Analysis(pages[1], by), pages[1], lost)
      BY <2>3, <3>1, TechnicalImproves
    <3> QED
      BY <3>2, <3>3
  <2>5. ASSUME results["content"].seen = {2}, ~HeadingsAreRecounted(pages[1], pages[2])
        PROVE  results["content"].score >= ContentScore(Analysis(pages[1], results["content"].by))
    <3>1. u = 2
      BY <2>2, <2>5 DEF Content, Result
    <3>2. /\ results["content"].by = by2
          /\ results["content"].score = ContentScore(Analysis(pages[2], by2))
      BY <2>2, <3>1 DEF Content, Result
    <3> QED
      BY <2>3, <2>5, <3>2, ContentImproves
  <2> QED
    BY <2>4, <2>5
<1> QED
  BY <1>1, AuditInvariant, PTL

\* In a completed audit the technical and the content audit do not contradict each other
\* about a page that both saw, read by the same analyzer: they take the title, the
\* description, the H1 and the number of words alike (technical-audit-agent.ts,
\* content-entity-audit-agent.ts), whatever page it is.
THEOREM AuditsAgree ==
  SiteSpec => []AgentsAgree
<1>1. AuditInv => AgentsAgree
  <2> SUFFICES ASSUME AuditInv, report # NoResult,
                      results["technical"].by = results["content"].by,
                      results["technical"].seen = results["content"].seen
               PROVE  results["technical"].topics \intersect CommonTopics
                        = results["content"].topics \intersect CommonTopics
    BY DEF AgentsAgree
  <2>1. PICK v \in {1, 2}, w \in {1, 2}, by \in Analyzers, lost \in BOOLEAN :
          results["technical"] = Technical(v, w, by, lost)
    BY ReportedResults
  <2>2. PICK u \in {1, 2}, by2 \in Analyzers : results["content"] = Content(u, by2)
    BY ReportedResults
  <2>3. by = by2 /\ {v, w} = {u}
    BY <2>1, <2>2 DEF Technical, Content, Result
  <2>4. v = u /\ w = u
    BY <2>3
  <2> DEFINE a == Analysis(pages[u], by)
             p == pages[u]
  <2>5. results["technical"].topics = TopicsOf(TechnicalFindings(a, p, lost))
    BY <2>1, <2>4 DEF Technical, Result
  <2>6. results["content"].topics = TopicsOf(ContentAuditFindings(a))
    BY <2>2, <2>3 DEF Content, Result
  <2> HIDE DEF a, p
  <2> QED
    BY <2>5, <2>6, CommonTopicsAgree
<1> QED
  BY <1>1, AuditInvariant, PTL

\* "So it doesn't unfairly drag the overall score down" (audit-aggregator-agent.ts:356):
\* the overall score is between the worst and the best of the categories that were audited,
\* up to its rounding, and the three priorities are the weakest of them, the weakest first,
\* whatever the scores are.
THEOREM OverallStaysFair ==
  SiteSpec => []OverallIsFair
<1>1. AuditInv => OverallIsFair
  <2> SUFFICES ASSUME AuditInv, report # NoResult
               PROVE  OverallIsFair
    BY DEF OverallIsFair
  <2> DEFINE c == CategoriesOf
  <2>1. PICK n \in {4, 5} : c \in [1..n -> Int] /\ Len(c) = n
    BY ReportedCategories
  <2>2. /\ report.categories = c /\ report.overall = OverallScore(c)
        /\ report.priorities = Priorities(c)
    BY DEF AuditInv, ReportFits
  <2> HIDE DEF c
  <2>3. PICK a \in 1..n, b \in 1..n, d \in 1..n :
          /\ Priorities(c) = [k \in 1..3 |-> IF k = 1 THEN a ELSE IF k = 2 THEN b ELSE d]
          /\ c[a] <= c[b] /\ c[b] <= c[d]
          /\ \A j \in (1..n) \ {a, b, d} : c[d] <= c[j]
    BY <2>1, PrioritiesAreWeakest
  <2>4. report.priorities[1] = a /\ report.priorities[2] = b /\ report.priorities[3] = d
    BY <2>2, <2>3
  <2>5. {a, b, d} \subseteq Range(report.priorities)
    BY <2>2, <2>3 DEF Range
  <2>6. \A i \in 1..2 : c[report.priorities[i]] <= c[report.priorities[i + 1]]
    BY <2>3, <2>4
  <2>7. \A other \in DOMAIN c \ Range(report.priorities) : c[report.priorities[3]] <= c[other]
    BY <2>1, <2>3, <2>4, <2>5
  <2>8. /\ 100 * OverallScore(c) >= Min(Range(c)) - 50
        /\ 100 * OverallScore(c) <= Max(Range(c)) + 50
    BY <2>1, OverallBetween
  <2> QED
    BY <2>2, <2>6, <2>7, <2>8 DEF OverallIsFair
<1> QED
  BY <1>1, AuditInvariant, PTL

\* "Do not bake 'unavailable' into the saved benchmark" (competitor-benchmark-agent.ts:446):
\* no agent saves a result of a step in which the tenant's rate limit refused one of its
\* calls, however often it does.
THEOREM NoRefusalIsSaved ==
  SiteSpec => []RateLimitsAreNotBakedIn
<1>1. AuditInv => RateLimitsAreNotBakedIn
  <2> SUFFICES ASSUME AuditInv
               PROVE  RateLimitsAreNotBakedIn
    OBVIOUS
  <2>1. SiteTypeOK
    BY DEF AuditInv, SiteTypeOK, PlaceFits, WorkFits, Work, ResultsFit
  <2> QED
    BY <2>1 DEF AuditInv, ResultsFit, RateLimitsAreNotBakedIn, Saved
<1> QED
  BY <1>1, AuditInvariant, PTL
=============================================================================
