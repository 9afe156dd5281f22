---------------------------- MODULE JobLifecycle ----------------------------
(***************************************************************************)
(* What the job queue promises to the code that enqueues jobs and to the   *)
(* handlers that run them, without rows, clocks, statements or timeouts:   *)
(* a job is worked on by at most one invocation at a time, is started at   *)
(* most MaxAttempts times not counting the starts handed back, is taken    *)
(* from a dead invocation only, and once over stays over, unless its       *)
(* worker has not heard of its success.                                    *)
(***************************************************************************)
EXTENDS Integers, FiniteSets

CONSTANTS Jobs, Runners, MaxAttempts

VARIABLES
  phase,   \* "absent", "queued", "running", "succeeded" or "failed"
  crew,    \* the invocations working on the job
  used     \* the attempts the job has used

vars == <<phase, crew, used>>

Init ==
  /\ phase = [j \in Jobs |-> "absent"]
  /\ crew = [j \in Jobs |-> {}]
  /\ used = [j \in Jobs |-> 0]

Submit(j) ==
  /\ phase[j] = "absent"
  /\ phase' = [phase EXCEPT ![j] = "queued"]
  /\ UNCHANGED <<crew, used>>

Start(j, r) ==
  /\ phase[j] = "queued"
  /\ used[j] < MaxAttempts
  /\ crew[j] = {}
  /\ \A i \in Jobs : r \notin crew[i]
  /\ phase' = [phase EXCEPT ![j] = "running"]
  /\ crew' = [crew EXCEPT ![j] = {r}]
  /\ used' = [used EXCEPT ![j] = @ + 1]

InHand(j, r) == crew[j] = {r} /\ phase[j] \in {"running", "succeeded"}

\* The worker ends the job, for better or worse.
End(j, r) ==
  /\ InHand(j, r)
  /\ \E outcome \in {"succeeded", "failed"} : phase' = [phase EXCEPT ![j] = outcome]
  /\ crew' = [crew EXCEPT ![j] = {}]
  /\ UNCHANGED used

\* The job has succeeded, but its worker does not hear of it and goes on.
EndUnheard(j, r) ==
  /\ InHand(j, r)
  /\ phase' = [phase EXCEPT ![j] = "succeeded"]
  /\ UNCHANGED <<crew, used>>

\* The worker puts the job back, having used up the attempt or not.
HandBack(j, r) ==
  /\ InHand(j, r)
  /\ phase' = [phase EXCEPT ![j] = "queued"]
  /\ crew' = [crew EXCEPT ![j] = {}]
  /\ \/ used[j] < MaxAttempts /\ UNCHANGED used
     \/ used' = [used EXCEPT ![j] = @ - 1]

\* The worker dies.
Abandon(j, r) ==
  /\ crew[j] = {r}
  /\ crew' = [crew EXCEPT ![j] = {}]
  /\ UNCHANGED <<phase, used>>

\* Abandoned jobs are picked up: retried, or failed with no attempt left.
Rescue(S) ==
  /\ \A j \in S : phase[j] = "running" /\ crew[j] = {}
  /\ phase' = [j \in Jobs |->
       IF j \notin S THEN phase[j]
       ELSE IF used[j] >= MaxAttempts THEN "failed" ELSE "queued"]
  /\ UNCHANGED <<crew, used>>

Next ==
  \/ \E j \in Jobs : Submit(j)
  \/ \E j \in Jobs, r \in Runners :
       Start(j, r) \/ End(j, r) \/ EndUnheard(j, r) \/ HandBack(j, r) \/ Abandon(j, r)
  \/ \E S \in SUBSET Jobs : Rescue(S)

Spec == Init /\ [][Next]_vars
=============================================================================
