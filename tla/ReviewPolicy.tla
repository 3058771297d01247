---------------------------- MODULE ReviewPolicy ----------------------------
(***************************************************************************)
(* The reducers of lib/review-policy-ordinary.ts and                       *)
(* lib/review-policy-judgment-day.ts: the life of one graph-v1 lineage     *)
(* from discovery to its terminal state.  A reducer that throws changes    *)
(* nothing, so only the requests it accepts are steps.                     *)
(*                                                                         *)
(* Reviewers, refuters, validators and judges answer per finding, leave    *)
(* findings out, or name findings they were not asked about or were asked  *)
(* about once already ("stray").                                           *)
(***************************************************************************)
EXTENDS Naturals

CONSTANTS Finding, Tree

VARIABLES
  mode, lenses, budget,  \* immutable bindings of the lineage
  phase, counters,
  ledger,                \* frozen_ledger: the evidence class of each row
  resolution,            \* what controller and refuter made of each finding
  active,                \* active_finding_ids
  fixed,                 \* fix_record.fixed_ids
  validator, judgeA, judgeB,  \* the last verdict of each on each finding
  reasons,               \* escalation_reasons: "none" or "some"
  tree, finalTree,       \* current_candidate_tree, final_candidate_tree
  terminal               \* terminal_state

bindings == <<mode, lenses, budget>>
verdicts == <<validator, judgeA, judgeB>>
vars == <<bindings, phase, counters, ledger, resolution, active, fixed,
          verdicts, reasons, tree, finalTree, terminal>>

Counter == {"review_batches", "review_actors", "refuter_batches", "fix_batches",
            "validator_runs", "final_verifications", "judgment_rounds", "judge_runs"}

\* REVIEW_PHASE without "validation-complete", which nothing enters.
Phase == {"started", "discovery-complete", "refutation-complete", "fix-complete",
          "judgment-complete", "final-verification", "terminal"}

\* Whether a list has elements.
Some == {"none", "some"}

SevereClass == {"deterministic", "inferential-severe"}
Class == SevereClass \cup {"absent", "info"}

\* A row as a reviewer returns it: its severity and its evidence class.
Row == {<<"absent", "info">>} \cup ({"severe", "mild"} \X (SevereClass \cup {"info"}))

\* createFrozenLedger; rows with the same id are refused.
Frozen(row) ==
  IF row[1] = "absent" THEN "absent"
  ELSE IF row[1] = "mild" THEN "info"
  ELSE IF row[2] = "info" THEN "inferential-severe"
  ELSE row[2]

\* severeRows, severeIds
Severe == {f \in Finding : ledger[f] \in SevereClass}

\* zeroCounters
zeroCounters == [c \in Counter |-> 0]

\* assertOrdinaryBudget: the budgets its reducers accept.
OrdinaryBudget(n, refuters, fixes, validators) ==
  [zeroCounters EXCEPT !["review_batches"] = 1, !["review_actors"] = n,
     !["refuter_batches"] = refuters, !["fix_batches"] = fixes,
     !["validator_runs"] = validators, !["final_verifications"] = 1]

\* assertJudgmentDayMode: the only one its reducers accept.
JudgmentDayBudget ==
  [zeroCounters EXCEPT !["review_batches"] = 1, !["review_actors"] = 2,
     !["fix_batches"] = 2, !["final_verifications"] = 1,
     !["judgment_rounds"] = 2, !["judge_runs"] = 6]

\* createReviewState, with a budget the reducers of its mode accept.
Init ==
  /\ \/ /\ mode = "ordinary"
        /\ lenses \in {0, 1, 4}
        /\ \E r, x, v \in 0 .. 1 : budget = OrdinaryBudget(lenses, r, x, v)
     \/ mode = "judgment-day" /\ lenses = 0 /\ budget = JudgmentDayBudget
  /\ phase = "started"
  /\ counters = zeroCounters
  /\ ledger = [f \in Finding |-> "absent"]
  /\ resolution = [f \in Finding |-> "none"]
  /\ active = {} /\ fixed = {}
  /\ validator = [f \in Finding |-> "none"]
  /\ judgeA = [f \in Finding |-> "none"] /\ judgeB = [f \in Finding |-> "none"]
  /\ reasons = "none"
  /\ tree \in Tree /\ finalTree = "none"
  /\ terminal = "none"

-----------------------------------------------------------------------------
\* increment for each counter of a step; it throws beyond the budget.
Spend(amount) ==
  /\ \A c \in DOMAIN amount : counters[c] + amount[c] <= budget[c]
  /\ counters' = [c \in Counter |->
                    IF c \in DOMAIN amount THEN counters[c] + amount[c] ELSE counters[c]]

\* assertOrdinaryMode, assertJudgmentDayMode and the phase check.
In(m, p) == mode = m /\ terminal = "none" /\ phase = p

\* appendReasons, when something is to be said.
Escalate(some) == reasons' = IF some THEN "some" ELSE reasons

-----------------------------------------------------------------------------
(* Ordinary reviews                                                        *)

recordOrdinaryDiscovery(rows) ==
  /\ In("ordinary", "started")
  /\ lenses = 0 => \A f \in Finding : rows[f][1] = "absent"
  /\ ledger' = [f \in Finding |-> Frozen(rows[f])]
  /\ Spend([review_batches |-> 1, review_actors |-> lenses])
  /\ phase' = "discovery-complete"
  /\ UNCHANGED <<bindings, resolution, active, fixed, verdicts, reasons,
                 tree, finalTree, terminal>>

\* validateResolutionList: a severe finding without a valid answer, and one the
\* refuter itself calls inconclusive, is inconclusive.
Resolved(answer) ==
  IF answer \in {"corroborated", "refuted"} THEN answer ELSE "inconclusive"

\* answers is what the controller says of deterministic findings and the refuter,
\* if one ran, of inferential ones.
resolveOrdinaryEvidence(answers, refuter, stray) ==
  LET inferential == {f \in Finding : ledger[f] = "inferential-severe"}
      corroborated == {f \in Severe : Resolved(answers[f]) = "corroborated"}
      clean == stray = "none" /\ \A f \in Severe : Resolved(answers[f]) # "inconclusive"
      fixable == clean /\ corroborated # {} /\ budget["fix_batches"] # 0
  IN
  /\ In("ordinary", "discovery-complete")
  /\ refuter = "undefined" => \A f \in inferential : answers[f] = "none"
  /\ IF inferential # {} /\ refuter = "given"
       THEN Spend([refuter_batches |-> 1]) ELSE UNCHANGED counters
  /\ resolution' = [f \in Finding |-> IF f \in Severe THEN Resolved(answers[f]) ELSE "none"]
  /\ Escalate(~clean \/ (corroborated # {} /\ ~fixable))
  /\ phase' = IF fixable THEN "refutation-complete" ELSE "final-verification"
  /\ UNCHANGED <<bindings, ledger, active, fixed, verdicts, tree, finalTree, terminal>>

\* corroboratedFindingIds
Corroborated == {f \in Severe : resolution[f] = "corroborated"}

\* The batch names every corroborated finding and stays inside genesis_paths.
applyOrdinaryFix(t) ==
  /\ In("ordinary", "refutation-complete")
  /\ Spend([fix_batches |-> 1])
  /\ tree' = t
  /\ fixed' = Corroborated
  /\ phase' = "fix-complete"
  /\ UNCHANGED <<bindings, ledger, resolution, active, verdicts, reasons, finalTree, terminal>>

declineOrdinaryFix ==
  /\ In("ordinary", "refutation-complete")
  /\ Escalate(TRUE)
  /\ phase' = "final-verification"
  /\ UNCHANGED <<bindings, counters, ledger, resolution, active, fixed, verdicts,
                 tree, finalTree, terminal>>

\* The fault of a validator whose omissions are not noticed.
recordOrdinaryValidation_Fault(results, stray, regressed) ==
  /\ In("ordinary", "fix-complete")
  /\ Spend([validator_runs |-> 1])
  /\ validator' = [f \in Finding |-> IF f \in fixed THEN results[f] ELSE validator[f]]
  /\ Escalate(stray = "some" \/ regressed = "some" \/ \E f \in fixed : results[f] = "regression")
  /\ phase' = "final-verification"
  /\ UNCHANGED <<bindings, ledger, resolution, active, fixed, judgeA, judgeB,
                 tree, finalTree, terminal>>

\* Acceptance tests and correction regressions passed, or it throws; regressed
\* says whether there are original-criterion regressions.
recordOrdinaryValidation(results, stray, regressed) ==
  /\ In("ordinary", "fix-complete")
  /\ Spend([validator_runs |-> 1])
  /\ validator' = [f \in Finding |-> IF f \in fixed THEN results[f] ELSE validator[f]]
  /\ Escalate(stray = "some" \/ regressed = "some" \/ \E f \in fixed : results[f] # "verified")
  /\ phase' = "final-verification"
  /\ UNCHANGED <<bindings, ledger, resolution, active, fixed, judgeA, judgeB,
                 tree, finalTree, terminal>>

-----------------------------------------------------------------------------
(* Judgment Day                                                            *)

recordJudgmentDayDiscovery(rows) ==
  /\ In("judgment-day", "started")
  /\ ledger' = [f \in Finding |-> Frozen(rows[f])]
  /\ active' = {f \in Finding : Frozen(rows[f]) \in SevereClass}
  /\ Spend([review_batches |-> 1, review_actors |-> 2, judge_runs |-> 2])
  /\ phase' = IF active' = {} THEN "final-verification" ELSE "judgment-complete"
  /\ UNCHANGED <<bindings, resolution, fixed, verdicts, reasons, tree, finalTree, terminal>>

applyJudgmentDayFix(t) ==
  /\ In("judgment-day", "judgment-complete")
  /\ Spend([fix_batches |-> 1])
  /\ tree' = t
  /\ fixed' = active
  /\ phase' = "fix-complete"
  /\ UNCHANGED <<bindings, ledger, resolution, active, verdicts, reasons, finalTree, terminal>>

\* The fault of a third round: the reducer waits for the budget to say no.
recordJudgmentDayRejudgment_Fault(a, b, stray) ==
  /\ In("judgment-day", "fix-complete")
  /\ Spend([judgment_rounds |-> 1, judge_runs |-> 2])
  /\ judgeA' = [f \in Finding |-> IF f \in active THEN a[f] ELSE judgeA[f]]
  /\ judgeB' = [f \in Finding |-> IF f \in active THEN b[f] ELSE judgeB[f]]
  /\ active' = {f \in active : ~(a[f] = "verified" /\ b[f] = "verified")}
  /\ Escalate(stray = "some" \/ \E f \in active : a[f] = "none" \/ b[f] = "none")
  /\ phase' = IF active' # {} THEN "judgment-complete" ELSE "final-verification"
  /\ UNCHANGED <<bindings, ledger, resolution, fixed, validator, tree, finalTree, terminal>>

\* collectJudgeResults for both judges; an answer that is missing or not one of
\* the three outcomes is "none", corroborated and regression are "survives".
recordJudgmentDayRejudgment(a, b, stray) ==
  LET exhausted == active' # {} /\ counters'["judgment_rounds"] >= 2 IN
  /\ In("judgment-day", "fix-complete")
  /\ Spend([judgment_rounds |-> 1, judge_runs |-> 2])
  /\ judgeA' = [f \in Finding |-> IF f \in active THEN a[f] ELSE judgeA[f]]
  /\ judgeB' = [f \in Finding |-> IF f \in active THEN b[f] ELSE judgeB[f]]
  /\ active' = {f \in active : ~(a[f] = "verified" /\ b[f] = "verified")}
  /\ Escalate(stray = "some" \/ exhausted \/ \E f \in active : a[f] = "none" \/ b[f] = "none")
  /\ phase' = IF active' # {} /\ ~exhausted THEN "judgment-complete" ELSE "final-verification"
  /\ UNCHANGED <<bindings, ledger, resolution, fixed, validator, tree, finalTree, terminal>>

-----------------------------------------------------------------------------
\* The fault of a final tree that is not the candidate under review.
FinalVerification_Fault(m, passed) ==
  /\ In(m, "final-verification")
  /\ Spend([final_verifications |-> 1])
  /\ finalTree' \in Tree
  /\ terminal' = IF passed = "yes" /\ reasons = "none" THEN "approved" ELSE "escalated"
  /\ phase' = "terminal"
  /\ Escalate(passed = "no")
  /\ UNCHANGED <<bindings, ledger, resolution, active, fixed, verdicts, tree>>

\* The last step of either mode, alike.
FinalVerification(m, passed) ==
  /\ In(m, "final-verification")
  /\ Spend([final_verifications |-> 1])
  /\ Escalate(passed = "no")
  /\ finalTree' = tree
  /\ terminal' = IF passed = "yes" /\ reasons = "none" THEN "approved" ELSE "escalated"
  /\ phase' = "terminal"
  /\ UNCHANGED <<bindings, ledger, resolution, active, fixed, verdicts, tree>>

recordOrdinaryFinalVerification(passed) == FinalVerification("ordinary", passed)

recordJudgmentDayFinalVerification(passed) == FinalVerification("judgment-day", passed)

\* reduceReviewState, with every input: answers to the findings asked about, and
\* stray ones.
Next ==
  \/ \E rows \in [Finding -> Row] :
       recordOrdinaryDiscovery(rows) \/ recordJudgmentDayDiscovery(rows)
  \/ \E answers \in [Severe -> {"none", "corroborated", "refuted", "other"}],
        refuter \in {"undefined", "given"}, stray \in Some :
       resolveOrdinaryEvidence(answers, refuter, stray)
  \/ \E t \in Tree : applyOrdinaryFix(t) \/ applyJudgmentDayFix(t)
  \/ declineOrdinaryFix
  \/ \E results \in [fixed -> {"none", "verified", "regression"}],
        stray, regressed \in Some :
       recordOrdinaryValidation(results, stray, regressed)
  \/ \E a, b \in [active -> {"none", "verified", "survives"}], stray \in Some :
       recordJudgmentDayRejudgment(a, b, stray)
  \/ \E passed \in {"yes", "no"} :
       recordOrdinaryFinalVerification(passed) \/ recordJudgmentDayFinalVerification(passed)

Spec == Init /\ [][Next]_vars

\* Whoever drives the review goes on submitting requests that are accepted.
FairSpec == Spec /\ WF_vars(Next)

-----------------------------------------------------------------------------
Verdict == {"none", "verified", "regression", "survives"}

WithinBudget ==
  /\ budget \in [Counter -> Nat]
  /\ counters \in [Counter -> Nat]
  /\ \A c \in Counter : counters[c] <= budget[c]

TypeOK ==
  /\ mode \in {"ordinary", "judgment-day"} /\ lenses \in {0, 1, 4}
  /\ phase \in Phase
  /\ WithinBudget
  /\ ledger \in [Finding -> Class]
  /\ resolution \in [Finding -> {"none", "corroborated", "refuted", "inconclusive"}]
  /\ active \subseteq Severe /\ fixed \subseteq Severe
  /\ validator \in [Finding -> Verdict]
  /\ judgeA \in [Finding -> Verdict] /\ judgeB \in [Finding -> Verdict]
  /\ reasons \in Some
  /\ tree \in Tree
  /\ terminal \in {"none", "approved", "escalated"}
  /\ finalTree \in IF terminal = "none" THEN {"none"} ELSE Tree
  /\ terminal = "none" <=> phase # "terminal"

\* How a severe finding may leave a review that approves: refuted, or fixed and
\* verified by everybody who was asked about it last.
Cleared(f) ==
  IF mode = "ordinary"
    THEN resolution[f] = "refuted"
         \/ (resolution[f] = "corroborated" /\ f \in fixed /\ validator[f] = "verified")
    ELSE judgeA[f] = "verified" /\ judgeB[f] = "verified"

\* An approved review has cleared every severe finding of its frozen ledger: no
\* omitted, contradictory, invalid or stray answer of any actor in any round is
\* lost on the way to final verification.
ApprovedIsClean == terminal = "approved" => \A f \in Severe : Cleared(f)

\* A review whose fix can be validated within its budget ends, with at most one
\* fix in ordinary mode and two rounds in Judgment Day.
ReviewEnds ==
  budget["fix_batches"] <= budget["validator_runs"] \/ mode = "judgment-day"
    ~> terminal # "none"

\* The reducers implement the life of a lineage that receipts rely on.
Outcome == INSTANCE ReviewOutcome WITH
  outcome <- IF terminal = "none" THEN "open" ELSE terminal,
  tree <- IF terminal = "none" THEN tree ELSE finalTree

OutcomeSpec == Outcome!LifeSpec

=============================================================================
