--------------------------- MODULE ContentApproval ---------------------------
(***************************************************************************)
(* What the content workflow promises to the people who approve: a draft   *)
(* is written or a fix made only for a plan that was approved, only an     *)
(* approved draft goes out, and nothing that was written, approved or      *)
(* published is taken back.                                                *)
(***************************************************************************)
EXTENDS Naturals, FiniteSets

CONSTANTS
  Plans,   \* the plans there may be
  Tasks    \* the drafts and fixes there may be

VARIABLES
  proposed,      \* the plans there are
  agreed,        \* the plans that were approved
  source,        \* the plan of each draft and fix there is
  cleared,       \* those that were approved
  touched,       \* the plans of which something on the site was changed
  out            \* the drafts the site's readers may have seen

vars == <<proposed, agreed, source, cleared, touched, out>>

Written == DOMAIN source

Init ==
  /\ proposed = {}
  /\ agreed = {}
  /\ source = <<>>
  /\ cleared = {}
  /\ touched = {}
  /\ out = {}

Propose(p) ==
  /\ proposed' = proposed \union {p}
  /\ UNCHANGED <<agreed, source, cleared, touched, out>>

Agree(p) ==
  /\ p \in proposed
  /\ agreed' = agreed \union {p}
  /\ UNCHANGED <<proposed, source, cleared, touched, out>>

Write(t, p) ==
  /\ t \notin Written
  /\ p \in agreed
  /\ source' = [x \in Written \union {t} |-> IF x = t THEN p ELSE source[x]]
  /\ UNCHANGED <<proposed, agreed, cleared, touched, out>>

Touch(p) ==
  /\ p \in agreed
  /\ touched' = touched \union {p}
  /\ UNCHANGED <<proposed, agreed, source, cleared, out>>

Clear(t) ==
  /\ t \in Written
  /\ cleared' = cleared \union {t}
  /\ UNCHANGED <<proposed, agreed, source, touched, out>>

PutOut(t) ==
  /\ t \in cleared
  /\ out' = out \union {t}
  /\ UNCHANGED <<proposed, agreed, source, cleared, touched>>

Next ==
  \/ \E p \in Plans : Propose(p) \/ Agree(p) \/ Touch(p)
  \/ \E t \in Tasks : Clear(t) \/ PutOut(t) \/ \E p \in Plans : Write(t, p)

Spec == Init /\ [][Next]_vars
==============================================================================
