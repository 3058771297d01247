--------------------------- MODULE ReviewOutcome ---------------------------
(***************************************************************************)
(* What a review lineage promises its receipts and gates: it is open while *)
(* its candidate tree may be fixed, closes once, and what it approved or   *)
(* escalated is the candidate tree of that moment and no later one.        *)
(***************************************************************************)
CONSTANTS Tree

VARIABLES
  outcome,   \* "open", "approved" or "escalated"
  tree       \* the candidate tree; the final one once closed

review == <<outcome, tree>>

OpenInit == outcome = "open" /\ tree \in Tree

Fix ==
  /\ outcome = "open"
  /\ tree' \in Tree
  /\ UNCHANGED outcome

Close ==
  /\ outcome = "open"
  /\ outcome' \in {"approved", "escalated"}
  /\ UNCHANGED tree

LifeSpec == OpenInit /\ [][Fix \/ Close]_review

=============================================================================
