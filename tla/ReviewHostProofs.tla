--------------------------- MODULE ReviewHostProofs ---------------------------
(***************************************************************************)
(* Proofs about the review as its host runs it: the policies that decide   *)
(* its outcome (ReviewPolicy), the consent it starts with (ReviewConsent), *)
(* the answers of the provider it is told of (ReviewContract), the         *)
(* registry of the views it reviews (CandidateRegistry), and what its       *)
(* captures (ReviewCapture) and its maintenance operations                 *)
(* (ReviewMaintenance) report of the provider's state, for any sets of     *)
(* findings, trees, sessions, bindings, lineages, contents, identities,    *)
(* hosts and operators and any bounds.                                     *)
(***************************************************************************)
EXTENDS ReviewPolicy, ReviewConsent, ReviewContract,
        ReviewMaintenance, TLAPS

-----------------------------------------------------------------------------
(* The policies.                                                           *)

\* What each phase of an ordinary review knows of the severe findings.
OrdinaryKnows ==
  /\ mode = "ordinary" /\ phase = "refutation-complete" =>
       \A f \in Severe : resolution[f] \in {"corroborated", "refuted"}
  /\ mode = "ordinary" /\ phase = "fix-complete" =>
       \A f \in Severe : \/ resolution[f] = "refuted"
                         \/ resolution[f] = "corroborated" /\ f \in fixed

\* What each phase of Judgment Day knows of them.
JudgesKnow ==
  mode = "judgment-day" /\ phase \in {"judgment-complete", "fix-complete"} =>
    \A f \in Severe : f \in active \/ Cleared(f)

\* Without a reason to escalate, final verification has nothing open.
NothingOpen ==
  phase = "final-verification" /\ reasons = "none" => \A f \in Severe : Cleared(f)

\* Before discovery nothing is active or fixed.
Fresh == phase = "started" => active = {} /\ fixed = {}

PolicyInv == TypeOK /\ Fresh /\ OrdinaryKnows /\ JudgesKnow /\ NothingOpen /\ ApprovedIsClean

-----------------------------------------------------------------------------
\* A step that increments counters of the budget keeps them within it.
LEMMA SpendWithinBudget ==
  ASSUME WithinBudget, UNCHANGED bindings, NEW amount,
         DOMAIN amount \subseteq Counter,
         \A c \in DOMAIN amount : amount[c] \in Nat,
         Spend(amount)
  PROVE  WithinBudget'
<1>1. budget' = budget
  BY DEF bindings
<1>2. counters' \in [Counter -> Nat]
  BY DEF WithinBudget, Spend
<1>3. \A c \in Counter : counters'[c] <= budget[c]
  BY DEF WithinBudget, Spend
<1> QED
  BY <1>1, <1>2, <1>3 DEF WithinBudget

\* A frozen row has one of the four classes.
LEMMA FrozenClass ==
  ASSUME NEW row \in Row
  PROVE  Frozen(row) \in Class
BY DEF Row, Frozen, Class, SevereClass

\* The initial budgets hold numbers, and nothing is spent.
LEMMA InitWithinBudget == Init => WithinBudget
<1> SUFFICES ASSUME Init PROVE WithinBudget
  OBVIOUS
<1>1. \A n, r, x, v \in Nat : OrdinaryBudget(n, r, x, v) \in [Counter -> Nat]
  BY DEF OrdinaryBudget, zeroCounters
<1>2. JudgmentDayBudget \in [Counter -> Nat]
  BY DEF JudgmentDayBudget, zeroCounters
<1>3. budget \in [Counter -> Nat]
  <2>1. CASE \E r, x, v \in 0 .. 1 : budget = OrdinaryBudget(lenses, r, x, v)
    <3>1. lenses \in Nat
      BY DEF Init
    <3>2. PICK r, x, v \in 0 .. 1 : budget = OrdinaryBudget(lenses, r, x, v)
      BY <2>1
    <3>3. r \in Nat /\ x \in Nat /\ v \in Nat
      OBVIOUS
    <3> QED
      BY <1>1, <3>1, <3>2, <3>3
  <2> QED
    BY <1>2, <2>1 DEF Init
<1> QED
  BY <1>3 DEF Init, WithinBudget, zeroCounters

\* A lineage starts in the invariant.
LEMMA InitIInv == Init => PolicyInv
<1> SUFFICES ASSUME Init PROVE PolicyInv
  OBVIOUS
<1>1. TypeOK
  BY InitWithinBudget DEF Init, TypeOK, Phase, Class, Severe, SevereClass, Verdict, Some
<1> QED
  BY <1>1 DEF Init, PolicyInv, Fresh, OrdinaryKnows, JudgesKnow, NothingOpen, ApprovedIsClean

-----------------------------------------------------------------------------
\* Discovery, in either mode, freezes the ledger and makes its severe rows active.
LEMMA DiscoveryKeeps ==
  ASSUME PolicyInv, NEW rows \in [Finding -> Row],
         recordOrdinaryDiscovery(rows) \/ recordJudgmentDayDiscovery(rows)
  PROVE  PolicyInv'
<1>0. \A f \in Finding : Frozen(rows[f]) \in Class
  BY FrozenClass
<1>a. TypeOK /\ Fresh
  BY DEF PolicyInv
<1>1. CASE recordOrdinaryDiscovery(rows)
  <2>1. WithinBudget'
    BY <1>a, <1>1, SpendWithinBudget DEF recordOrdinaryDiscovery, TypeOK, Counter
  <2>2. active = {} /\ fixed = {}
    BY <1>a, <1>1 DEF recordOrdinaryDiscovery, In, Fresh
  <2>3. TypeOK'
    BY <1>0, <1>a, <1>1, <2>1, <2>2
    DEF recordOrdinaryDiscovery, In, TypeOK, bindings, verdicts, Severe, Phase
  <2> QED
    BY <1>1, <2>2, <2>3
    DEF recordOrdinaryDiscovery, In, PolicyInv, Fresh, OrdinaryKnows, JudgesKnow, NothingOpen,
        ApprovedIsClean
<1>2. CASE recordJudgmentDayDiscovery(rows)
  <2>1. WithinBudget'
    BY <1>a, <1>2, SpendWithinBudget DEF recordJudgmentDayDiscovery, TypeOK, Counter
  <2>2. fixed = {}
    BY <1>a, <1>2 DEF recordJudgmentDayDiscovery, In, Fresh
  <2>3. active' = Severe'
    BY <1>2 DEF recordJudgmentDayDiscovery, Severe
  <2>4. TypeOK'
    BY <1>0, <1>a, <1>2, <2>1, <2>2, <2>3
    DEF recordJudgmentDayDiscovery, In, TypeOK, bindings, verdicts, Phase
  <2> QED
    BY <1>2, <2>3, <2>4
    DEF recordJudgmentDayDiscovery, In, PolicyInv, Fresh, OrdinaryKnows, JudgesKnow, NothingOpen,
        ApprovedIsClean, bindings
<1> QED
  BY <1>1, <1>2

\* The evidence step: what it hands to the fix is resolved, what it hands to final
\* verification without a reason is refuted.
LEMMA EvidenceKeeps ==
  ASSUME PolicyInv, NEW answers, NEW refuter, NEW stray \in Some,
         resolveOrdinaryEvidence(answers, refuter, stray)
  PROVE  PolicyInv'
<1> DEFINE corroborated == {f \in Severe : Resolved(answers[f]) = "corroborated"}
           clean == stray = "none" /\ \A f \in Severe : Resolved(answers[f]) # "inconclusive"
           fixable == clean /\ corroborated # {} /\ budget["fix_batches"] # 0
<1>a. TypeOK /\ mode = "ordinary" /\ terminal = "none"
  BY DEF PolicyInv, resolveOrdinaryEvidence, In
<1>b. Severe' = Severe
  BY DEF resolveOrdinaryEvidence, Severe
<1>c. \A x : Resolved(x) \in {"corroborated", "refuted", "inconclusive"}
  BY DEF Resolved
<1>d. /\ resolution' = [f \in Finding |-> IF f \in Severe THEN Resolved(answers[f]) ELSE "none"]
      /\ phase' = IF fixable THEN "refutation-complete" ELSE "final-verification"
      /\ reasons' = IF ~clean \/ (corroborated # {} /\ ~fixable) THEN "some" ELSE reasons
      /\ mode' = mode /\ terminal' = terminal
  BY DEF resolveOrdinaryEvidence, Escalate, bindings
<1>e. Severe \subseteq Finding
  BY DEF Severe
<1> HIDE DEF corroborated, clean, fixable
<1>1. WithinBudget'
  <2>1. CASE UNCHANGED counters
    BY <1>a, <2>1 DEF resolveOrdinaryEvidence, TypeOK, WithinBudget, bindings
  <2>2. CASE Spend([refuter_batches |-> 1])
    BY <1>a, <2>2, SpendWithinBudget DEF resolveOrdinaryEvidence, TypeOK, Counter
  <2> QED
    BY <2>1, <2>2 DEF resolveOrdinaryEvidence
<1>2. TypeOK'
  BY <1>a, <1>b, <1>c, <1>d, <1>1
  DEF resolveOrdinaryEvidence, TypeOK, bindings, verdicts, Phase, Some
<1>3. fixable => \A f \in Severe : resolution'[f] \in {"corroborated", "refuted"}
  BY <1>c, <1>d, <1>e DEF fixable, clean
<1>4. clean /\ corroborated = {} => \A f \in Severe : resolution'[f] = "refuted"
  BY <1>c, <1>d, <1>e DEF clean, corroborated
<1>5. NothingOpen'
  BY <1>a, <1>b, <1>d, <1>4 DEF NothingOpen, Cleared, fixable
<1>6. OrdinaryKnows'
  BY <1>b, <1>d, <1>3 DEF OrdinaryKnows
<1> QED
  BY <1>a, <1>d, <1>2, <1>5, <1>6 DEF PolicyInv, Fresh, JudgesKnow, ApprovedIsClean

\* A fix, declined or applied, in either mode.
LEMMA FixKeeps ==
  ASSUME PolicyInv, NEW t \in Tree,
         applyOrdinaryFix(t) \/ applyJudgmentDayFix(t) \/ declineOrdinaryFix
  PROVE  PolicyInv'
<1>a. TypeOK /\ OrdinaryKnows /\ JudgesKnow
  BY DEF PolicyInv
<1>1. CASE applyOrdinaryFix(t)
  <2>1. WithinBudget'
    BY <1>a, <1>1, SpendWithinBudget DEF applyOrdinaryFix, TypeOK, Counter
  <2>2. Severe' = Severe
    BY <1>1 DEF applyOrdinaryFix, Severe
  <2>3. TypeOK'
    BY <1>a, <1>1, <2>1, <2>2
    DEF applyOrdinaryFix, In, TypeOK, Corroborated, bindings, verdicts, Phase
  <2>4. OrdinaryKnows'
    BY <1>a, <1>1, <2>2 DEF applyOrdinaryFix, In, OrdinaryKnows, Corroborated
  <2> QED
    BY <1>1, <2>3, <2>4
    DEF applyOrdinaryFix, In, PolicyInv, Fresh, JudgesKnow, NothingOpen, ApprovedIsClean, bindings
<1>2. CASE applyJudgmentDayFix(t)
  <2>1. WithinBudget'
    BY <1>a, <1>2, SpendWithinBudget DEF applyJudgmentDayFix, TypeOK, Counter
  <2>2. Severe' = Severe
    BY <1>2 DEF applyJudgmentDayFix, Severe
  <2>3. TypeOK'
    BY <1>a, <1>2, <2>1, <2>2 DEF applyJudgmentDayFix, In, TypeOK, bindings, verdicts, Phase
  <2>4. JudgesKnow'
    BY <1>a, <1>2, <2>2
    DEF applyJudgmentDayFix, In, JudgesKnow, Cleared, bindings, verdicts
  <2> QED
    BY <1>2, <2>3, <2>4
    DEF applyJudgmentDayFix, In, PolicyInv, Fresh, OrdinaryKnows, NothingOpen, ApprovedIsClean, bindings
<1>3. CASE declineOrdinaryFix
  <2>1. Severe' = Severe
    BY <1>3 DEF declineOrdinaryFix, Severe
  <2>2. TypeOK'
    BY <1>a, <1>3, <2>1
    DEF declineOrdinaryFix, In, Escalate, TypeOK, WithinBudget, bindings, verdicts, Phase, Some
  <2> QED
    BY <1>3, <2>2
    DEF declineOrdinaryFix, In, Escalate, PolicyInv, Fresh, OrdinaryKnows, JudgesKnow, NothingOpen,
        ApprovedIsClean, bindings
<1> QED
  BY <1>1, <1>2, <1>3

\* Validation gives no reason only if it verified the whole fix.
LEMMA ValidationKeeps ==
  ASSUME PolicyInv, NEW results \in [fixed -> {"none", "verified", "regression"}],
         NEW stray \in Some, NEW regressed \in Some,
         recordOrdinaryValidation(results, stray, regressed)
  PROVE  PolicyInv'
<1>a. TypeOK /\ OrdinaryKnows
  BY DEF PolicyInv
<1>1. WithinBudget'
  BY <1>a, SpendWithinBudget DEF recordOrdinaryValidation, TypeOK, Counter
<1>2. Severe' = Severe /\ Severe \subseteq Finding
  BY DEF recordOrdinaryValidation, Severe
<1>3. TypeOK'
  BY <1>a, <1>1, <1>2
  DEF recordOrdinaryValidation, In, Escalate, TypeOK, bindings, verdicts, Phase, Some, Verdict
<1>4. NothingOpen'
  BY <1>a, <1>2
  DEF recordOrdinaryValidation, In, Escalate, NothingOpen, OrdinaryKnows, Cleared, bindings, Some
<1> QED
  BY <1>3, <1>4
  DEF recordOrdinaryValidation, In, PolicyInv, Fresh, OrdinaryKnows, JudgesKnow, ApprovedIsClean,
      bindings

\* A round of judgment leaves active what both judges did not verify.
LEMMA RejudgmentKeeps ==
  ASSUME PolicyInv, NEW a \in [active -> {"none", "verified", "survives"}],
         NEW b \in [active -> {"none", "verified", "survives"}], NEW stray \in Some,
         recordJudgmentDayRejudgment(a, b, stray)
  PROVE  PolicyInv'
<1>a. TypeOK /\ JudgesKnow
  BY DEF PolicyInv
<1>b. /\ mode = "judgment-day" /\ mode' = mode
      /\ phase = "fix-complete" /\ terminal = "none" /\ terminal' = "none"
  BY DEF recordJudgmentDayRejudgment, In, bindings
<1>1. WithinBudget'
  BY <1>a, SpendWithinBudget DEF recordJudgmentDayRejudgment, TypeOK, Counter
<1>2. Severe' = Severe /\ Severe \subseteq Finding
  BY DEF recordJudgmentDayRejudgment, Severe
<1>3. TypeOK'
  <2>1. judgeA' \in [Finding -> Verdict] /\ judgeB' \in [Finding -> Verdict]
    BY <1>a, <1>2 DEF recordJudgmentDayRejudgment, TypeOK, Verdict
  <2>2. active' \subseteq Severe /\ reasons' \in Some
    BY <1>a DEF recordJudgmentDayRejudgment, TypeOK, Escalate, Some
  <2>3. phase' \in {"judgment-complete", "final-verification"}
    BY DEF recordJudgmentDayRejudgment
  <2> QED
    BY <1>a, <1>b, <1>1, <1>2, <2>1, <2>2, <2>3
    DEF recordJudgmentDayRejudgment, TypeOK, bindings, Phase
<1>4. \A f \in Severe : f \in active' \/ Cleared(f)'
  BY <1>a, <1>b, <1>2 DEF recordJudgmentDayRejudgment, JudgesKnow, Cleared, TypeOK
<1>5. phase' = "final-verification" /\ reasons' = "none" => active' = {}
  BY DEF recordJudgmentDayRejudgment, Escalate
<1> QED
  BY <1>b, <1>2, <1>3, <1>4, <1>5
  DEF recordJudgmentDayRejudgment, PolicyInv, Fresh, OrdinaryKnows, JudgesKnow, NothingOpen,
      ApprovedIsClean

\* Final verification approves only without a reason.
LEMMA FinalVerificationKeeps ==
  ASSUME PolicyInv, NEW m, NEW passed, FinalVerification(m, passed)
  PROVE  PolicyInv'
<1>a. TypeOK /\ NothingOpen
  BY DEF PolicyInv
<1>1. WithinBudget'
  BY <1>a, SpendWithinBudget DEF FinalVerification, TypeOK, Counter
<1>2. Severe' = Severe
  BY DEF FinalVerification, Severe
<1>3. TypeOK'
  BY <1>a, <1>1, <1>2
  DEF FinalVerification, In, Escalate, TypeOK, bindings, verdicts, Phase, Some
<1>4. ApprovedIsClean'
  BY <1>a, <1>2
  DEF FinalVerification, In, NothingOpen, ApprovedIsClean, Cleared, bindings, verdicts
<1> QED
  BY <1>3, <1>4
  DEF FinalVerification, PolicyInv, Fresh, OrdinaryKnows, JudgesKnow, NothingOpen

\* Every reducer keeps the invariant.
LEMMA NextKeeps == PolicyInv /\ [Next]_vars => PolicyInv'
<1> SUFFICES ASSUME PolicyInv, [Next]_vars PROVE PolicyInv'
  OBVIOUS
<1>1. CASE UNCHANGED vars
  BY <1>1
  DEF PolicyInv, TypeOK, WithinBudget, Fresh, OrdinaryKnows, JudgesKnow, NothingOpen,
      ApprovedIsClean, Cleared, Severe, vars, bindings, verdicts
<1>2. ASSUME NEW rows \in [Finding -> Row],
             recordOrdinaryDiscovery(rows) \/ recordJudgmentDayDiscovery(rows)
      PROVE  PolicyInv'
  BY <1>2, DiscoveryKeeps
<1>3. ASSUME NEW answers, NEW refuter, NEW stray \in Some,
             resolveOrdinaryEvidence(answers, refuter, stray)
      PROVE  PolicyInv'
  BY <1>3, EvidenceKeeps
<1>4. ASSUME NEW t \in Tree, applyOrdinaryFix(t) \/ applyJudgmentDayFix(t)
      PROVE  PolicyInv'
  BY <1>4, FixKeeps
<1>5. CASE declineOrdinaryFix
  <2>1. tree \in Tree
    BY DEF PolicyInv, TypeOK
  <2> QED
    BY <1>5, <2>1, FixKeeps
<1>6. ASSUME NEW results \in [fixed -> {"none", "verified", "regression"}],
             NEW stray \in Some, NEW regressed \in Some,
             recordOrdinaryValidation(results, stray, regressed)
      PROVE  PolicyInv'
  BY <1>6, ValidationKeeps
<1>7. ASSUME NEW a \in [active -> {"none", "verified", "survives"}],
             NEW b \in [active -> {"none", "verified", "survives"}], NEW stray \in Some,
             recordJudgmentDayRejudgment(a, b, stray)
      PROVE  PolicyInv'
  BY <1>7, RejudgmentKeeps
<1>8. ASSUME NEW passed \in {"yes", "no"},
             recordOrdinaryFinalVerification(passed) \/ recordJudgmentDayFinalVerification(passed)
      PROVE  PolicyInv'
  BY <1>8, FinalVerificationKeeps
  DEF recordOrdinaryFinalVerification, recordJudgmentDayFinalVerification
<1> QED
  BY <1>1, <1>2, <1>3, <1>4, <1>5, <1>6, <1>7, <1>8 DEF Next

-----------------------------------------------------------------------------
\* The reducers keep every field within its type and every counter within the
\* immutable budget, in both modes.
THEOREM PolicyTypeCorrect == Spec => []TypeOK
<1>1. PolicyInv => TypeOK
  BY DEF PolicyInv
<1> QED
  BY InitIInv, NextKeeps, <1>1, PTL DEF Spec

\* A review of any number of findings approves only when each severe one was
\* refuted, or fixed and verified by everybody asked about it last.
THEOREM PolicyApprovesClean == Spec => []ApprovedIsClean
<1>1. PolicyInv => ApprovedIsClean
  BY DEF PolicyInv
<1> QED
  BY InitIInv, NextKeeps, <1>1, PTL DEF Spec

\* The reducers close a lineage once, on the tree under review.
THEOREM PolicyRefinesOutcome == Spec => OutcomeSpec
<1>1. Init => Outcome!OpenInit
  BY DEF Init, Outcome!OpenInit
<1>2. PolicyInv /\ [Next]_vars => [Outcome!Fix \/ Outcome!Close]_Outcome!review
  <2> SUFFICES ASSUME PolicyInv, [Next]_vars
               PROVE  Outcome!Fix \/ Outcome!Close \/ UNCHANGED Outcome!review
    OBVIOUS
  <2>a. TypeOK
    BY DEF PolicyInv
  <2>1. CASE terminal' = terminal /\ finalTree' = finalTree /\ tree' = tree
    BY <2>1 DEF Outcome!review
  <2>2. ASSUME NEW t \in Tree, applyOrdinaryFix(t) \/ applyJudgmentDayFix(t)
        PROVE  Outcome!Fix
    BY <2>2 DEF applyOrdinaryFix, applyJudgmentDayFix, In, Outcome!Fix
  <2>3. ASSUME NEW passed \in {"yes", "no"},
               recordOrdinaryFinalVerification(passed) \/ recordJudgmentDayFinalVerification(passed)
        PROVE  Outcome!Close
    BY <2>3, <2>a
    DEF recordOrdinaryFinalVerification, recordJudgmentDayFinalVerification, FinalVerification,
        In, Outcome!Close
  <2>4. CASE UNCHANGED vars
    BY <2>1, <2>4 DEF vars
  <2> QED
    BY <2>1, <2>2, <2>3, <2>4
    DEF Next, recordOrdinaryDiscovery, recordJudgmentDayDiscovery, resolveOrdinaryEvidence,
        declineOrdinaryFix, recordOrdinaryValidation, recordJudgmentDayRejudgment
<1> QED
  BY InitIInv, NextKeeps, <1>1, <1>2, PTL DEF Spec, OutcomeSpec, Outcome!LifeSpec

-----------------------------------------------------------------------------
(* Consent.                                                                *)

AnswerKind == {"none", "standing", "granted", "declined", "session"}

\* A call between the dialog and the provider's answer, whose reply adds
\* fields that no later step reads the shape of.
AskedCall == [step : {"dialog", "confirm"}, binding : Binding, epoch : Nat, kind : AnswerKind]
TakenCall == [step : {"gate", "answer"}, binding : Binding, kind : AnswerKind, epoch : Nat]
Consulting == {"dialog", "confirm", "gate", "answer", "answered"}

\* Where call c of session s may be: a launched selection is the target's,
\* and a session-wide choice still under way is one of the present epoch
\* only while the user stands by it.
SoundCall(s, c) ==
  /\ c.step = "native" => c.selection \in {None, c.target}
  /\ c.step \in {"dialog", "confirm"} => c \in AskedCall
  /\ c.step \in {"gate", "answer"} => c \in TakenCall
  /\ c.step \in Consulting =>
       /\ c.epoch \in Nat /\ c.epoch <= permission[s].epoch
       /\ c.kind = "session" /\ c.epoch = permission[s].epoch => s \in chosen

PermissionRecord == [epoch : Nat, granted : BOOLEAN]

ConsentInv ==
  /\ DOMAIN call = Session
  /\ permission \in [Session -> PermissionRecord]
  /\ \A s \in Session : SoundCall(s, call[s])
  /\ PermissionWasChosen

\* A session without a call has chosen and launched nothing.
LEMMA QuietIsSound == ASSUME NEW s PROVE SoundCall(s, Quiet)
  BY DEF SoundCall, Quiet, Consulting

\* A step of one session that leaves the permissions alone keeps the
\* invariant if the call it moves to is sound.
LEMMA CallStep ==
  ASSUME ConsentInv, NEW s \in Session, NEW c, Goto(s, c), SoundCall(s, c),
         UNCHANGED permissionVars
  PROVE  ConsentInv'
  <1>1. /\ DOMAIN call' = Session
        /\ \A u \in Session : call'[u] = IF u = s THEN c ELSE call[u]
    BY DEF ConsentInv, Goto
  <1>2. \A u \in Session : SoundCall(u, call[u])' <=> SoundCall(u, call'[u])
    BY DEF SoundCall, permissionVars
  <1> QED
    BY <1>1, <1>2 DEF ConsentInv, PermissionWasChosen, permissionVars

\* A step that moves no call and no permission keeps it.
LEMMA OtherStep ==
  ASSUME ConsentInv, UNCHANGED <<call, permissionVars>>
  PROVE  ConsentInv'
  BY DEF ConsentInv, PermissionWasChosen, permissionVars, SoundCall

\* A call that returns keeps it.
LEMMA ReturnStep ==
  ASSUME ConsentInv, NEW s \in Session, NEW says, NEW created, Return(s, says, created),
         UNCHANGED permissionVars
  PROVE  ConsentInv'
  BY QuietIsSound, CallStep DEF Return

\* A call that presents a binding is stopped, or waits at the gate with it.
LEMMA TakeStep ==
  ASSUME ConsentInv, NEW s \in Session, NEW b, NEW kind, NEW epoch, TakeAnswer(s, b, kind, epoch),
         SoundCall(s, [step |-> "gate", binding |-> b, kind |-> kind, epoch |-> epoch]),
         UNCHANGED permissionVars
  PROVE  ConsentInv'
  BY CallStep, ReturnStep DEF TakeAnswer

\* A revocation moves the epoch on, so that no choice under way is of the
\* new epoch.
LEMMA RevokedStep ==
  ASSUME ConsentInv, NEW s \in Session, call' = call, chosen' = chosen \ {s},
         permission' = [permission EXCEPT ![s] = [epoch |-> @.epoch + 1, granted |-> FALSE]]
  PROVE  ConsentInv'
  <1>1. /\ permission' \in [Session -> PermissionRecord]
        /\ permission'[s].epoch = permission[s].epoch + 1 /\ permission'[s].granted = FALSE
        /\ \A u \in Session : u # s => permission'[u] = permission[u]
    BY DEF ConsentInv, PermissionRecord
  <1>2. permission[s].epoch \in Nat
    BY DEF ConsentInv, PermissionRecord
  <1>3. SoundCall(s, call[s])'
    BY <1>1, <1>2 DEF ConsentInv, SoundCall
  <1>4. \A u \in Session : u # s => SoundCall(u, call[u])'
    BY <1>1 DEF ConsentInv, SoundCall
  <1> QED
    BY <1>1, <1>3, <1>4 DEF ConsentInv, PermissionWasChosen

\* A session has the standing permission only if its user allowed it after the
\* last revocation, and a START sends a selection of the candidate it starts,
\* for any sessions, bindings, contents and calls, whatever the awaits of START
\* and answer-consent let happen (gentle-ai.ts).
THEOREM ReviewsStartAsChosen == ConsentSpec => []ConsentIsChosen
<1>1. ConsentInit => ConsentInv
  <2> SUFFICES ASSUME ConsentInit PROVE ConsentInv
    OBVIOUS
  <2>1. permission \in [Session -> PermissionRecord]
    BY DEF ConsentInit, PermissionRecord
  <2>2. \A s \in Session : SoundCall(s, call[s])
    BY QuietIsSound DEF ConsentInit
  <2> QED
    BY <2>1, <2>2 DEF ConsentInit, ConsentInv, PermissionWasChosen
<1>2. ConsentInv /\ [ConsentNext]_consentAllVars => ConsentInv'
  <2> SUFFICES ASSUME ConsentInv, [ConsentNext]_consentAllVars PROVE ConsentInv'
    OBVIOUS
  <2>1. CASE UNCHANGED consentAllVars
    BY <2>1, OtherStep DEF consentAllVars
  <2>2. CASE EditCandidate
    BY <2>2, OtherStep DEF EditCandidate
  <2>3. ASSUME NEW b \in Binding, Elapse(b) \/ ExpiryTimer(b) PROVE ConsentInv'
    BY <2>3, OtherStep DEF Elapse, ExpiryTimer
  <2>4. ASSUME NEW s \in Session, Inspect(s) PROVE ConsentInv'
    BY <2>4, OtherStep DEF Inspect
  <2>5. ASSUME NEW s \in Session, StartReview(s) PROVE ConsentInv'
    <3> DEFINE c == [step |-> "status", selection |-> retained[s]]
    <3>1. SoundCall(s, c)
      BY DEF SoundCall, Consulting
    <3> QED
      BY <2>5, <3>1, CallStep DEF StartReview
  <2>6. ASSUME NEW s \in Session, StatusAnswered(s) PROVE ConsentInv'
    <3> DEFINE c == [step |-> "target", selection |-> call[s].selection, target |-> content,
                     offered |-> content \notin authority]
    <3>1. SoundCall(s, c)
      BY DEF SoundCall, Consulting
    <3> QED
      BY <2>6, <3>1, CallStep, ReturnStep DEF StatusAnswered
  <2>7. ASSUME NEW s \in Session, StartMismatch(s) \/ StartNotOffered(s) PROVE ConsentInv'
    BY <2>7, ReturnStep DEF StartMismatch, StartNotOffered
  <2>8. ASSUME NEW s \in Session, StartLaunch(s) PROVE ConsentInv'
    <3>1. ASSUME NEW t
          PROVE  SoundCall(s, [step |-> "native", selection |-> call[s].selection,
                               target |-> call[s].target, token |-> t])
      BY <2>8 DEF StartLaunch, SameCandidate, SoundCall, Consulting
    <3>2. (\E t : Goto(s, [step |-> "native", selection |-> call[s].selection,
                           target |-> call[s].target, token |-> t]))
          \/ Return(s, "none", FALSE)
      BY <2>8 DEF StartLaunch
    <3>3. UNCHANGED permissionVars
      BY <2>8 DEF StartLaunch
    <3> QED
      BY <3>1, <3>2, <3>3, CallStep, ReturnStep
  <2>9. ASSUME NEW s \in Session, ProviderStarts(s) PROVE ConsentInv'
    <3>1. PICK reply, effect :
            Goto(s, [step |-> "started", target |-> call[s].target, token |-> call[s].token,
                     reply |-> reply, effect |-> effect])
      BY <2>9 DEF ProviderStarts
    <3>2. SoundCall(s, [step |-> "started", target |-> call[s].target, token |-> call[s].token,
                        reply |-> reply, effect |-> effect])
      BY DEF SoundCall, Consulting
    <3> QED
      BY <2>9, <3>1, <3>2, CallStep DEF ProviderStarts
  <2>10. ASSUME NEW s \in Session, StartCompleted(s) \/ StartFailed(s) PROVE ConsentInv'
    BY <2>10, ReturnStep DEF StartCompleted, StartFailed
  <2>11. ASSUME NEW s \in Session, StartNeedsConsent(s) PROVE ConsentInv'
    <3> DEFINE ask(b) == [step |-> IF permission[s].granted THEN "confirm" ELSE "dialog",
                          binding |-> b, epoch |-> permission[s].epoch,
                          kind |-> IF permission[s].granted THEN "standing" ELSE "none"]
    <3>1. \E b \in Binding : Goto(s, ask(b))
      BY <2>11 DEF StartNeedsConsent, LiveOn, LiveOf
    <3>2. permission[s].epoch \in Nat
      BY DEF ConsentInv, PermissionRecord
    <3>3. ASSUME NEW b \in Binding PROVE SoundCall(s, ask(b))
      BY <3>2 DEF SoundCall, AskedCall, Consulting, AnswerKind
    <3> HIDE DEF ask
    <3> QED
      BY <2>11, <3>1, <3>3, CallStep DEF StartNeedsConsent
  <2>12. ASSUME NEW s \in Session, UserChooses(s) PROVE ConsentInv'
    <3>1. CASE Return(s, "none", FALSE) /\ UNCHANGED chosen
      BY <2>12, <3>1, ReturnStep DEF UserChooses, permissionVars
    <3>2. ASSUME NEW kind \in {"granted", "declined", "session"},
                 Goto(s, [call[s] EXCEPT !.step = "confirm", !.kind = kind]),
                 chosen' = IF kind = "session" THEN chosen \cup {s} ELSE chosen
          PROVE  ConsentInv'
      <4> DEFINE c == [call[s] EXCEPT !.step = "confirm", !.kind = kind]
      <4>1. call[s] \in AskedCall /\ call[s].step = "dialog" /\ call[s].epoch <= permission[s].epoch
        BY <2>12 DEF UserChooses, At, ConsentInv, SoundCall, Consulting
      <4>2. c \in AskedCall /\ c.step = "confirm" /\ c.kind = kind /\ c.epoch = call[s].epoch
        BY <4>1 DEF AskedCall, AnswerKind
      <4>3. /\ DOMAIN call' = Session
            /\ \A u \in Session : call'[u] = IF u = s THEN c ELSE call[u]
        BY <3>2 DEF ConsentInv, Goto
      <4>4. permission' = permission /\ chosen \subseteq chosen' /\ (kind = "session" => s \in chosen')
        BY <2>12, <3>2 DEF UserChooses
      <4> HIDE DEF c
      <4>5. SoundCall(s, call[s])'
        BY <4>1, <4>2, <4>3, <4>4 DEF SoundCall, Consulting, AskedCall
      <4>6. \A u \in Session : u # s => SoundCall(u, call[u])'
        BY <4>3, <4>4 DEF ConsentInv, SoundCall
      <4> QED
        <5>1. \A u \in Session : SoundCall(u, call[u])'
          BY <4>5, <4>6
        <5> QED
          BY <4>3, <4>4, <5>1 DEF ConsentInv, PermissionWasChosen
    <3> QED
      BY <2>12, <3>1, <3>2 DEF UserChooses
  <2>13. ASSUME NEW s \in Session, Revoke(s) \/ SessionShutdown(s) PROVE ConsentInv'
    BY <2>13, RevokedStep DEF Revoke, SessionShutdown
  <2>14. ASSUME NEW s \in Session, AnswerConsent(s) PROVE ConsentInv'
    <3>1. PICK b \in Binding, kind \in {"granted", "declined"} :
            TakeAnswer(s, b, kind, permission[s].epoch)
      BY <2>14 DEF AnswerConsent
    <3>2. permission[s].epoch \in Nat
      BY DEF ConsentInv, PermissionRecord
    <3>3. SoundCall(s, [step |-> "gate", binding |-> b, kind |-> kind, epoch |-> permission[s].epoch])
      BY <3>2 DEF SoundCall, TakenCall, Consulting, AnswerKind
    <3> QED
      BY <2>14, <3>1, <3>3, TakeStep DEF AnswerConsent
  <2>15. ASSUME NEW s \in Session, Confirmed(s) PROVE ConsentInv'
    <3>1. CASE Return(s, "none", FALSE)
      BY <2>15, <3>1, ReturnStep DEF Confirmed
    <3>2. CASE TakeAnswer(s, call[s].binding, call[s].kind, call[s].epoch)
      <4>1. SoundCall(s, [step |-> "gate", binding |-> call[s].binding, kind |-> call[s].kind,
                          epoch |-> call[s].epoch])
        BY <2>15 DEF Confirmed, At, ConsentInv, SoundCall, AskedCall, TakenCall, Consulting
      <4> QED
        BY <2>15, <3>2, <4>1, TakeStep DEF Confirmed
    <3> QED
      BY <2>15, <3>1, <3>2 DEF Confirmed
  <2>16. ASSUME NEW s \in Session, AnswerGate(s) PROVE ConsentInv'
    <3>1. CASE Return(s, "none", FALSE)
      BY <2>16, <3>1, ReturnStep DEF AnswerGate
    <3>2. CASE Goto(s, [call[s] EXCEPT !.step = "answer"])
      <4> DEFINE c == [call[s] EXCEPT !.step = "answer"]
      <4>1. call[s] \in TakenCall /\ call[s].step = "gate" /\ SoundCall(s, call[s])
        BY <2>16 DEF AnswerGate, At, ConsentInv, SoundCall
      <4>2. /\ c \in TakenCall /\ c.step = "answer" /\ c.kind = call[s].kind
            /\ c.epoch = call[s].epoch
        BY <4>1 DEF TakenCall
      <4> HIDE DEF c
      <4>3. SoundCall(s, c)
        BY <4>1, <4>2 DEF SoundCall, Consulting
      <4> QED
        BY <2>16, <3>2, <4>3, CallStep DEF AnswerGate, c
    <3> QED
      BY <2>16, <3>1, <3>2 DEF AnswerGate
  <2>17. ASSUME NEW s \in Session, ProviderAnswers(s) PROVE ConsentInv'
    <3>1. PICK b, reply, effect, x :
            Goto(s, [step |-> "answered", binding |-> b, kind |-> call[s].kind,
                     epoch |-> call[s].epoch, reply |-> reply, effect |-> effect, target |-> x])
      BY <2>17 DEF ProviderAnswers
    <3>2. SoundCall(s, [step |-> "answered", binding |-> b, kind |-> call[s].kind,
                        epoch |-> call[s].epoch, reply |-> reply, effect |-> effect, target |-> x])
      BY <2>17 DEF ProviderAnswers, At, ConsentInv, SoundCall, TakenCall, Consulting
    <3> QED
      BY <2>17, <3>1, <3>2, CallStep DEF ProviderAnswers
  <2>18. ASSUME NEW s \in Session, AnswerCompleted(s) PROVE ConsentInv'
    <3>1. /\ \/ permission' = permission
             \/ call[s].kind = "session" /\ permission' = Grant(s, call[s].epoch)
          /\ \E says : Return(s, says, call[s].effect)
      BY <2>18 DEF AnswerCompleted
    <3>2. UNCHANGED chosen
      BY <2>18 DEF AnswerCompleted
    <3>3. CASE permission' = permission
      BY <3>1, <3>2, <3>3, ReturnStep DEF permissionVars
    <3>4. CASE call[s].kind = "session" /\ permission' = Grant(s, call[s].epoch)
      <4>1. /\ permission' \in [Session -> PermissionRecord]
            /\ \A u \in Session : permission'[u].epoch = permission[u].epoch
            /\ \A u \in Session : permission'[u].granted =>
                  permission[u].granted \/ (u = s /\ permission[s].epoch = call[s].epoch)
        BY <3>4 DEF ConsentInv, PermissionRecord, Grant
      <4>2. /\ DOMAIN call' = Session
            /\ \A u \in Session : call'[u] = IF u = s THEN Quiet ELSE call[u]
        BY <3>1 DEF ConsentInv, Return, Goto
      <4>3. permission[s].epoch = call[s].epoch => s \in chosen
        BY <2>18, <3>4 DEF AnswerCompleted, At, ConsentInv, SoundCall, Consulting
      <4>4. \A u \in Session : SoundCall(u, call[u])'
        <5> TAKE u \in Session
        <5>1. SoundCall(u, call'[u])
          BY <4>2, QuietIsSound DEF ConsentInv
        <5> QED
          BY <5>1, <4>1, <3>2 DEF SoundCall
      <4> QED
        BY <4>1, <4>2, <4>3, <4>4, <3>2 DEF ConsentInv, PermissionWasChosen
    <3> QED
      BY <3>1, <3>3, <3>4
  <2>19. ASSUME NEW s \in Session, AnswerEnded(s) PROVE ConsentInv'
    BY <2>19, ReturnStep DEF AnswerEnded
  <2> QED
    BY <2>1, <2>2, <2>3, <2>4, <2>5, <2>6, <2>7, <2>8, <2>9, <2>10, <2>11, <2>12, <2>13,
       <2>14, <2>15, <2>16, <2>17, <2>18, <2>19 DEF ConsentNext
<1>3. ConsentInv => ConsentIsChosen
  BY DEF ConsentInv, ConsentIsChosen, SelectionOfCandidate, SoundCall, At
<1> QED
  BY <1>1, <1>2, <1>3, PTL DEF ConsentSpec

-----------------------------------------------------------------------------
(* The contract.                                                           *)

\* What a decoded offer guarantees until it is used.
OfferSound ==
  /\ offer.kind = "execute" => offer.vector \in Vector /\ ExecuteDecodes(offer.vector)
  /\ offer.kind = "collect" => offer.requested = RequestFields
  /\ offer.kind = "stop" => \A slot \in offer.slots : WithdrawDecodes(slot)

\* A consent question under way is about the observed target.
AskedSound ==
  dialogue \in {"asked", "granting", "declining"} => asked.target = seen.target /\ asked.target \in Identity

\* Nothing is held before an answer that ends the exchange, except by the
\* two operations that take a second call.
HeldSound ==
  /\ dialogue \notin {"burning", "repairing", "told"} => held = NothingHeld
  /\ dialogue = "burning" => \E v \in Vector : held = [kind |-> "burning", vector |-> v]

ContractInv == ExecutableIsBound /\ OfferSound /\ AskedSound /\ HeldSound

\* While nothing is held, only the offer has to be sound.
LEMMA NothingIsBound ==
  ASSUME held' = NothingHeld, OfferSound'
  PROVE  ExecutableIsBound'
  BY DEF NothingHeld, OfferSound, ExecutableIsBound, StartedIsObserved, BurnIsOfApproved

\* A START answer that decodes names the target of a review it starts, and
\* a granted one names the target in any case.
LEMMA NamedTarget ==
  ASSUME NEW body \in StartBody, StartDecodes(body),
         StartsReview(body) \/ AnsweredTarget(body) # Absent
  PROVE  AnsweredTarget(body) = body.target
  BY DEF StartDecodes, StartNamesTarget, AnsweredTarget

\* A START answer is kept when it names the target that was observed or asked.
LEMMA StartKeeps ==
  ASSUME ContractInv, ReceiveStart
  PROVE  ContractInv'
  <1>1. PICK body \in StartBody :
          /\ StartDecodes(body)
          /\ asked.lineage \in {Absent, body.lineage}
          /\ AnsweredTarget(body) \in IF dialogue = "granting" THEN {asked.target} ELSE {Absent, seen.target}
          /\ frozen' = body.target
          /\ \/ /\ StartTransition(body) = {}
                /\ held' = [kind |-> "started", reviewing |-> StartsReview(body), granted |-> dialogue = "granting",
                            lineage |-> body.lineage, next |-> {}]
             \/ \E v \in StartTransition(body) :
                   held' = [kind |-> "started", reviewing |-> TRUE, granted |-> dialogue = "granting",
                            lineage |-> body.lineage, next |-> {v}]
    BY DEF ReceiveStart
  <1>2. dialogue' = "told" /\ UNCHANGED <<seen, offer, asked>> /\ dialogue \in {"starting", "granting"}
    BY DEF ReceiveStart
  <1>3. body.target \in Identity /\ body.target # Absent
    BY ContractAssumption DEF StartBody
  <1>4. StartsReview(body) => frozen' = seen.target
    BY <1>1, <1>2, <1>3, NamedTarget DEF ContractInv, AskedSound
  <1>5. dialogue = "granting" => frozen' = asked.target
    <2> SUFFICES ASSUME dialogue = "granting" PROVE frozen' = asked.target
      OBVIOUS
    <2>1. AnsweredTarget(body) = asked.target /\ asked.target \in Identity
      BY <1>1 DEF ContractInv, AskedSound
    <2> QED
      BY <2>1, <1>1, NamedTarget, ContractAssumption
  <1>6. \A v \in StartTransition(body) :
          StartsReview(body) /\ v.args.lineage = body.lineage /\ v.binding.target = body.target
    BY DEF StartTransition, StartContinues
  <1>7. StartedIsObserved' /\ held'.kind = "started"
    <2>1. CASE held' = [kind |-> "started", reviewing |-> StartsReview(body), granted |-> dialogue = "granting",
                        lineage |-> body.lineage, next |-> {}]
      BY <2>1, <1>1, <1>2, <1>4, <1>5 DEF StartedIsObserved
    <2>2. ASSUME NEW v \in StartTransition(body),
                 held' = [kind |-> "started", reviewing |-> TRUE, granted |-> dialogue = "granting",
                          lineage |-> body.lineage, next |-> {v}]
          PROVE  StartedIsObserved' /\ held'.kind = "started"
      BY <2>2, <1>1, <1>2, <1>4, <1>5, <1>6 DEF StartedIsObserved
    <2> QED
      BY <1>1, <2>1, <2>2
  <1>8. OfferSound'
    BY <1>2 DEF ContractInv, OfferSound
  <1> QED
    BY <1>2, <1>7, <1>8 DEF ContractInv, ExecutableIsBound, BurnIsOfApproved, OfferSound, AskedSound, HeldSound

\* A closure is kept with a continuation or a burn of its own lineage.
LEMMA ClosureKeeps ==
  ASSUME ContractInv, ReceiveClosure
  PROVE  ContractInv'
  <1>1. PICK body \in ClosureBody :
          /\ body.lineage = seen.lineage
          /\ \/ held' = [kind |-> "closure", closure |-> body, continue |-> {}, burn |-> {}, unreadable |-> FALSE]
             \/ \E v \in Vector :
                   /\ ContinuationBound(body, v) /\ v.binding.target = seen.target
                   /\ held' = [kind |-> "closure", closure |-> body, continue |-> {v}, burn |-> {}, unreadable |-> FALSE]
             \/ \E v \in Vector :
                   /\ ClosureAcknowledgement(body, v)
                   /\ held' = [kind |-> "closure", closure |-> body, continue |-> {},
                               burn |-> IF AcknowledgementShape(v) THEN {v} ELSE {}, unreadable |-> ~AcknowledgementShape(v)]
    BY DEF ReceiveClosure
  <1>2. dialogue' = "told" /\ offer' = NoOffer /\ UNCHANGED <<seen, asked, frozen>>
    BY DEF ReceiveClosure
  <1> DEFINE Holds ==
        /\ held'.kind = "closure" /\ held'.closure = body
        /\ \A v \in held'.continue : v.args.lineage = seen.lineage /\ v.binding.target = seen.target
        /\ \A v \in held'.burn : /\ body.state = "approved"
                                 /\ v.args.lineage = seen.lineage /\ v.args.revision = body.revision
  <1>3. Holds
    <2>1. CASE held' = [kind |-> "closure", closure |-> body, continue |-> {}, burn |-> {}, unreadable |-> FALSE]
      BY <2>1
    <2>2. ASSUME NEW v \in Vector, ContinuationBound(body, v), v.binding.target = seen.target,
                 held' = [kind |-> "closure", closure |-> body, continue |-> {v}, burn |-> {}, unreadable |-> FALSE]
          PROVE  Holds
      BY <2>2, <1>1 DEF ContinuationBound
    <2>3. ASSUME NEW v \in Vector, ClosureAcknowledgement(body, v),
                 held' = [kind |-> "closure", closure |-> body, continue |-> {},
                          burn |-> IF AcknowledgementShape(v) THEN {v} ELSE {}, unreadable |-> ~AcknowledgementShape(v)]
          PROVE  Holds
      BY <2>3, <1>1 DEF ClosureAcknowledgement, AcknowledgementBound
    <2> QED
      BY <1>1, <2>1, <2>2, <2>3
  <1> QED
    BY <1>2, <1>3 DEF NoOffer, ContractInv, ExecutableIsBound, StartedIsObserved, BurnIsOfApproved,
       OfferSound, AskedSound, HeldSound

\* Every invocation the host holds is of the candidate and the authority it was
\* told about, for any identities the provider may render (the bindings of
\* review-integration-v2.ts and native-review-cli.ts).
THEOREM InvocationsAreBound == ContractSpec => []ExecutableIsBound
<1> USE DEF NothingHeld, NoOffer
<1>1. ContractInit => ContractInv
  BY DEF ContractInit, ContractInv, ExecutableIsBound, StartedIsObserved, BurnIsOfApproved, OfferSound, AskedSound, HeldSound
<1>2. ContractInv /\ [ContractNext]_contractVars => ContractInv'
  <2> SUFFICES ASSUME ContractInv, [ContractNext]_contractVars PROVE ContractInv'
    OBVIOUS
  <2>1. CASE UNCHANGED contractVars
    BY <2>1 DEF contractVars, ContractInv, ExecutableIsBound, StartedIsObserved, BurnIsOfApproved,
       OfferSound, AskedSound, HeldSound
  <2>2. CASE ReceiveStatus
    <3>1. held' = NothingHeld /\ dialogue' = "status" /\ offer'.kind = "awaited"
      BY <2>2 DEF ReceiveStatus, ContractInv, HeldSound
    <3>2. OfferSound' /\ AskedSound' /\ HeldSound'
      BY <3>1 DEF OfferSound, AskedSound, HeldSound
    <3> QED
      BY <3>1, <3>2, NothingIsBound DEF ContractInv
  <2>3. CASE ReceiveTransition
    <3>1. held' = NothingHeld /\ dialogue' = "known"
      BY <2>3 DEF ReceiveTransition, ContractInv, HeldSound
    <3>2. OfferSound'
      <4>1. CASE \E v \in Vector : ExecuteDecodes(v) /\ offer' = [kind |-> "execute", vector |-> v]
        BY <4>1 DEF OfferSound
      <4>2. CASE \E input \in CollectInput :
              /\ CollectDecodes(input, offer.version)
              /\ offer' = [kind |-> "collect", op |-> input.op,
                           requested |-> IF input.request THEN input.agrees ELSE RequestFields]
        BY <4>2 DEF OfferSound, CollectDecodes
      <4>3. CASE offer' = [kind |-> "stop", slots |-> {}]
        BY <4>3 DEF OfferSound
      <4>4. CASE \E slot \in WithdrawSlot : WithdrawDecodes(slot) /\ offer' = [kind |-> "stop", slots |-> {slot}]
        BY <4>4 DEF OfferSound
      <4> QED
        BY <2>3, <4>1, <4>2, <4>3, <4>4 DEF ReceiveTransition
    <3>3. AskedSound' /\ HeldSound'
      BY <3>1 DEF AskedSound, HeldSound
    <3> QED
      BY <3>1, <3>2, <3>3, NothingIsBound DEF ContractInv
  <2>4. CASE RunStart
    <3>1. held' = NothingHeld /\ dialogue' = "starting" /\ offer' = NoOffer
      BY <2>4 DEF RunStart, ContractInv, HeldSound
    <3>2. OfferSound' /\ AskedSound' /\ HeldSound'
      BY <3>1 DEF OfferSound, AskedSound, HeldSound
    <3> QED
      BY <3>1, <3>2, NothingIsBound DEF ContractInv
  <2>5. CASE ReceiveConsent
    <3>1. held' = NothingHeld /\ dialogue' = "asked"
      BY <2>5 DEF ReceiveConsent, ContractInv, HeldSound
    <3>2. OfferSound'
      BY <2>5 DEF ReceiveConsent, ContractInv, OfferSound
    <3>3. AskedSound' /\ HeldSound'
      BY <2>5, <3>1 DEF ReceiveConsent, AskedSound, HeldSound
    <3> QED
      BY <3>1, <3>2, <3>3, NothingIsBound DEF ContractInv
  <2>6. CASE SendAnswer
    <3>1. held' = NothingHeld /\ dialogue' \in {"granting", "declining"}
      BY <2>6 DEF SendAnswer, ContractInv, HeldSound
    <3>2. OfferSound'
      BY <2>6 DEF SendAnswer, ContractInv, OfferSound
    <3>3. AskedSound' /\ HeldSound'
      BY <2>6, <3>1 DEF SendAnswer, ContractInv, AskedSound, HeldSound
    <3> QED
      BY <3>1, <3>2, <3>3, NothingIsBound DEF ContractInv
  <2>7. CASE ReceiveStart
    BY <2>7, StartKeeps
  <2>8. CASE ReceiveDeclined
    BY <2>8 DEF ReceiveDeclined, ContractInv, ExecutableIsBound, StartedIsObserved, BurnIsOfApproved,
       OfferSound, AskedSound, HeldSound
  <2>9. CASE ReceiveClosure
    BY <2>9, ClosureKeeps
  <2>10. CASE ReceiveArtifact
    BY <2>10 DEF ReceiveArtifact, ContractInv, ExecutableIsBound, StartedIsObserved, BurnIsOfApproved,
       OfferSound, AskedSound, HeldSound
  <2>11. CASE RunAcknowledgement
    <3>1. offer.vector \in Vector /\ AcknowledgementBound(offer.vector)
      BY <2>11 DEF RunAcknowledgement, ContractInv, OfferSound, ExecuteDecodes
    <3>2. offer.vector.args = [target |-> seen.target, lineage |-> seen.lineage, revision |-> seen.revision]
      BY <2>11, <3>1 DEF RunAcknowledgement, Vector, AcknowledgementBound
    <3> QED
      BY <2>11, <3>1, <3>2 DEF RunAcknowledgement, ContractInv, ExecutableIsBound, StartedIsObserved,
         BurnIsOfApproved, OfferSound, AskedSound, HeldSound
  <2>12. CASE ReceiveAcknowledged
    <3>1. PICK v \in Vector : held = [kind |-> "burning", vector |-> v]
      BY <2>12 DEF ReceiveAcknowledged, ContractInv, HeldSound
    <3>2. held' = [kind |-> "burned", vector |-> v]
      BY <2>12, <3>1 DEF ReceiveAcknowledged
    <3> QED
      BY <2>12, <3>1, <3>2 DEF ReceiveAcknowledged, ContractInv, ExecutableIsBound, StartedIsObserved,
         BurnIsOfApproved, OfferSound, AskedSound, HeldSound
  <2>13. CASE HoldWithdrawal
    <3>1. PICK slot \in offer.slots : held' = [kind |-> "withdraw", slot |-> slot]
      BY <2>13 DEF HoldWithdrawal
    <3>2. slot.args = slot.binding
      BY <2>13, <3>1 DEF HoldWithdrawal, ContractInv, OfferSound, WithdrawDecodes
    <3>3. dialogue' = "told" /\ offer' = NoOffer
      BY <2>13 DEF HoldWithdrawal
    <3>4. held'.kind = "withdraw" /\ held'.slot.args = held'.slot.binding
      BY <3>1, <3>2
    <3> QED
      BY <3>3, <3>4 DEF ContractInv, ExecutableIsBound, StartedIsObserved,
         BurnIsOfApproved, OfferSound, AskedSound, HeldSound
  <2>14. CASE RunRepair \/ ReceiveRepair \/ ReceiveFailure
    <3>1. /\ held'.kind \in {"repair", "assessed", "repaired", "failed"}
          /\ dialogue' \in {"repairing", "told"}
          /\ offer' = NoOffer \/ offer' = offer
      BY <2>14 DEF RunRepair, ReceiveRepair, ReceiveFailure
    <3>2. OfferSound'
      BY <3>1 DEF ContractInv, OfferSound
    <3> QED
      BY <3>1, <3>2 DEF ContractInv, ExecutableIsBound, StartedIsObserved, BurnIsOfApproved,
         OfferSound, AskedSound, HeldSound
  <2>15. CASE NextExchange
    <3>1. held' = NothingHeld /\ dialogue' = "idle" /\ offer' = NoOffer
      BY <2>15 DEF NextExchange
    <3>2. OfferSound' /\ AskedSound' /\ HeldSound'
      BY <3>1 DEF OfferSound, AskedSound, HeldSound
    <3> QED
      BY <3>1, <3>2, NothingIsBound DEF ContractInv
  <2> QED
    BY <2>1, <2>2, <2>3, <2>4, <2>5, <2>6, <2>7, <2>8, <2>9, <2>10, <2>11, <2>12, <2>13, <2>14,
       <2>15 DEF ContractNext
<1>3. ContractInv => ExecutableIsBound
  BY DEF ContractInv
<1> QED
  BY <1>1, <1>2, <1>3, PTL DEF ContractSpec

-----------------------------------------------------------------------------
(* The registry.                                                           *)

Registry ==
  [records : [Token -> ViewRecord \cup {None}],
   lineages : [Lineage -> Token \cup {None}],
   projections : [Lineage -> Candidate \cup {None}],
   replays : [ReplayKey -> Token \cup {None}],
   current : CurrentBinding \cup {None}]

\* A lineage is bound to a view that is bound to it.
LineagesAreHeld(g) ==
  \A l \in Lineage : g.lineages[l] # None =>
    g.records[g.lineages[l]] # None /\ g.records[g.lineages[l]].lineage = l

CurrentIsLineages(g) ==
  g.current # None => g.lineages[g.current.lineage] = g.current.token

Bound(g) == g \in Registry /\ LineagesAreHeld(g) /\ CurrentIsLineages(g)

ViewsInv == Bound(reg) /\ live \in Candidate

\* An exposed view is unbound.
LEMMA ViewIsRecord ==
  ASSUME NEW shown \in Candidate
  PROVE  ExposedView(shown) \in ViewRecord /\ ExposedView(shown) # None /\ ExposedView(shown).lineage = None /\ ExposedView(shown).tree = shown
<1>1. ExposedView(shown) \in ViewRecord
  BY DEF ExposedView, ViewRecord
<1> QED
  BY <1>1, RegistryAssumption DEF ExposedView

\* The fields of a registry, by type.
LEMMA RegistryFields ==
  ASSUME NEW g \in Registry
  PROVE  /\ g.records \in [Token -> ViewRecord \cup {None}]
         /\ g.lineages \in [Lineage -> Token \cup {None}]
         /\ g.projections \in [Lineage -> Candidate \cup {None}]
         /\ g.replays \in [ReplayKey -> Token \cup {None}]
         /\ g.current \in CurrentBinding \cup {None}
         /\ \A t \in Token : g.records[t] # None =>
              /\ g.records[t].tree \in Candidate /\ g.records[t].lineage \in Lineage \cup {None}
              /\ g.records[t].lenses \in BOOLEAN
         /\ g.current # None => g.current.lineage \in Lineage /\ g.current.token \in Token
<1>1. /\ g.records \in [Token -> ViewRecord \cup {None}]
      /\ g.lineages \in [Lineage -> Token \cup {None}]
      /\ g.projections \in [Lineage -> Candidate \cup {None}]
      /\ g.replays \in [ReplayKey -> Token \cup {None}]
      /\ g.current \in CurrentBinding \cup {None}
  BY DEF Registry
<1>2. ASSUME NEW t \in Token, g.records[t] # None
      PROVE  /\ g.records[t].tree \in Candidate /\ g.records[t].lineage \in Lineage \cup {None}
             /\ g.records[t].lenses \in BOOLEAN
  <2>1. g.records[t] \in ViewRecord
    BY <1>1, <1>2
  <2> QED
    BY <2>1 DEF ViewRecord
<1>3. g.current # None => g.current.lineage \in Lineage /\ g.current.token \in Token
  BY <1>1 DEF CurrentBinding
<1> QED
  BY <1>1, <1>2, <1>3

\* Every method of the registry makes the next one of parts of it.
LEMMA RegistryOfParts ==
  ASSUME NEW g \in Registry,
         NEW recs \in [Token -> ViewRecord \cup {None}], NEW lins \in [Lineage -> Token \cup {None}],
         NEW projs \in [Lineage -> Candidate \cup {None}], NEW reps \in [ReplayKey -> Token \cup {None}],
         NEW cur \in CurrentBinding \cup {None}
  PROVE  [g EXCEPT !.records = recs, !.lineages = lins, !.projections = projs, !.replays = reps, !.current = cur]
         \in Registry
BY DEF Registry

\* Forgetting a view drops its replay keys.
LEMMA DropReplaysType ==
  ASSUME NEW g \in Registry, NEW t
  PROVE  DropReplays(g, t) \in [ReplayKey -> Token \cup {None}]
BY RegistryFields DEF DropReplays

\* forget() drops a view with its lineage and the binding through it.
LEMMA ForgetKeeps ==
  ASSUME NEW g \in Registry, LineagesAreHeld(g), NEW t \in Token, g.records[t] # None
  PROVE  /\ Forget(g, t) \in Registry /\ LineagesAreHeld(Forget(g, t))
         /\ CurrentIsLineages(g) => CurrentIsLineages(Forget(g, t))
         /\ Forget(g, t).records = [g.records EXCEPT ![t] = None]
         /\ \A m \in Lineage : Forget(g, t).lineages[m] = IF g.lineages[m] = t THEN None ELSE g.lineages[m]
         /\ Forget(g, t).current = IF g.current # None /\ g.current.token = t THEN None ELSE g.current
         /\ Forget(g, t).projections = g.projections
<1> DEFINE f == Forget(g, t)
           l == g.records[t].lineage
           recs == [g.records EXCEPT ![t] = None]
           lins == [m \in Lineage |-> IF m = l /\ g.lineages[m] = t THEN None ELSE g.lineages[m]]
           cur == IF g.current # None /\ g.current.token = t THEN None ELSE g.current
           reps == DropReplays(g, t)
<1>0. g \in Registry /\ LineagesAreHeld(g)
  OBVIOUS
<1>1. f = [g EXCEPT !.records = recs, !.lineages = lins, !.current = cur, !.replays = reps]
  BY <1>0 DEF Forget, Registry
<1>2. recs \in [Token -> ViewRecord \cup {None}] /\ lins \in [Lineage -> Token \cup {None}] /\ cur \in CurrentBinding \cup {None}
  BY <1>0, RegistryFields
<1>3. reps \in [ReplayKey -> Token \cup {None}]
  BY <1>0, DropReplaysType
<1>4. \A m \in Lineage : lins[m] = IF g.lineages[m] = t THEN None ELSE g.lineages[m]
  BY <1>0 DEF LineagesAreHeld
<1>5. recs[t] = None /\ \A u \in Token \ {t} : recs[u] = g.records[u]
  BY <1>0, RegistryFields
<1>6. cur = IF g.current # None /\ g.current.token = t THEN None ELSE g.current
  OBVIOUS
<1> HIDE DEF recs, lins, cur, reps
<1>7. f \in Registry /\ f.records = recs /\ f.lineages = lins /\ f.current = cur /\ f.projections = g.projections
  BY <1>0, <1>1, <1>2, <1>3 DEF Registry
<1> HIDE DEF f
<1>8. LineagesAreHeld(f)
  BY <1>0, <1>4, <1>5, <1>7, RegistryFields, RegistryAssumption DEF LineagesAreHeld
<1>9. CurrentIsLineages(g) => CurrentIsLineages(f)
  BY <1>0, <1>4, <1>6, <1>7, RegistryFields DEF CurrentIsLineages
<1> QED
  BY <1>4, <1>6, <1>7, <1>8, <1>9 DEF f, recs

\* bindRecord() binds a view and its lineage to each other.
LEMMA BindRecordKeeps ==
  ASSUME NEW g \in Registry, LineagesAreHeld(g), NEW t \in Token, NEW l \in Lineage,
         NEW picked \in BOOLEAN, NEW safe, BindRecord(g, t, l, picked, safe).ok
  PROVE  LET n == BindRecord(g, t, l, picked, safe).reg
         IN  /\ n \in Registry /\ LineagesAreHeld(n)
             /\ n.lineages = [g.lineages EXCEPT ![l] = t]
             /\ n.current = g.current
             /\ \A u \in Token \ {t} : n.records[u] = g.records[u]
<1> DEFINE r == BindRecord(g, t, l, picked, safe)
           rejected == g.records[t] = None \/ g.records[t].lineage # None \/ g.lineages[l] # None \/ ~safe
           rec == [g.records[t] EXCEPT !.lineage = l, !.lenses = picked]
           recs == [g.records EXCEPT ![t] = rec]
           lins == [g.lineages EXCEPT ![l] = t]
           projs == [g.projections EXCEPT ![l] = g.records[t].tree]
           reps == DropReplays(g, t)
           n == [g EXCEPT !.records = recs, !.lineages = lins, !.projections = projs, !.replays = reps]
<1>f. /\ g.records \in [Token -> ViewRecord \cup {None}] /\ g.lineages \in [Lineage -> Token \cup {None}]
      /\ g.projections \in [Lineage -> Candidate \cup {None}]
  BY RegistryFields
<1>1. ~rejected
  BY DEF BindRecord, Throws
<1>2. CASE ~rejected
  <2>1. g.records[t] \in ViewRecord /\ g.records[t].tree \in Candidate /\ g.lineages[l] = None
    BY <1>2, <1>f DEF ViewRecord
  <2>2. r = [reg |-> n, ok |-> TRUE]
    BY <1>2, <1>f DEF BindRecord, Done, Registry
  <2>3. rec \in ViewRecord /\ rec.lineage = l
    BY <2>1 DEF ViewRecord
  <2>4. /\ recs \in [Token -> ViewRecord \cup {None}] /\ lins \in [Lineage -> Token \cup {None}]
        /\ projs \in [Lineage -> Candidate \cup {None}] /\ reps \in [ReplayKey -> Token \cup {None}]
    BY <1>f, <2>1, <2>3, DropReplaysType
  <2>5. recs[t] = rec /\ (\A u \in Token \ {t} : recs[u] = g.records[u]) /\ rec # None
    BY <1>f, <2>3, RegistryAssumption
  <2>6. lins[l] = t /\ \A m \in Lineage \ {l} : lins[m] = g.lineages[m]
    BY <1>f
  <2>7. \A m \in Lineage : g.lineages[m] # t
    BY <1>2, RegistryAssumption DEF LineagesAreHeld
  <2> HIDE DEF rec, recs, projs, reps
  <2>8. n \in Registry /\ n.records = recs /\ n.lineages = lins /\ n.current = g.current
    BY <2>4 DEF Registry
  <2> HIDE DEF n
  <2>9. LineagesAreHeld(n)
    BY <1>f, <2>3, <2>5, <2>6, <2>7, <2>8 DEF LineagesAreHeld
  <2> QED
    BY <2>2, <2>5, <2>8, <2>9
<1> QED
  BY <1>1, <1>2

\* A lineage that is bound may become the current one.
LEMMA MakeCurrentKeeps ==
  ASSUME NEW g \in Registry, LineagesAreHeld(g), NEW l \in Lineage, NEW t \in Token, g.lineages[l] = t
  PROVE  Bound(MakeCurrent(g, l, t))
<1> DEFINE c == [lineage |-> l, token |-> t]
           n == [g EXCEPT !.current = c]
<1>1. c \in CurrentBinding /\ c.lineage = l /\ c.token = t
  BY DEF CurrentBinding
<1> HIDE DEF c
<1>2. n \in Registry /\ n.records = g.records /\ n.lineages = g.lineages /\ n.current = c
  BY <1>1 DEF Registry
<1>3. MakeCurrent(g, l, t) = n
  BY DEF MakeCurrent, c
<1> HIDE DEF n
<1> QED
  BY <1>1, <1>2, <1>3 DEF Bound, LineagesAreHeld, CurrentIsLineages

\* A fresh view changes no binding.
LEMMA AddViewKeeps ==
  ASSUME NEW g \in Registry, LineagesAreHeld(g), NEW t \in Unused(g), NEW shown \in Candidate
  PROVE  LET n == [g EXCEPT !.records[t] = ExposedView(shown)]
         IN  /\ n \in Registry /\ LineagesAreHeld(n)
             /\ n.records[t] = ExposedView(shown) /\ \A u \in Token \ {t} : n.records[u] = g.records[u]
             /\ n.lineages = g.lineages /\ n.current = g.current /\ n.projections = g.projections
             /\ n.replays = g.replays
<1> DEFINE recs == [g.records EXCEPT ![t] = ExposedView(shown)]
           n == [g EXCEPT !.records = recs]
<1>0. t \in Token /\ g.records[t] = None
  BY DEF Unused, Held
<1>1. recs \in [Token -> ViewRecord \cup {None}] /\ recs[t] = ExposedView(shown) /\ \A u \in Token \ {t} : recs[u] = g.records[u]
  BY <1>0, ViewIsRecord, RegistryFields
<1>2. [g EXCEPT !.records[t] = ExposedView(shown)] = n
  OBVIOUS
<1> HIDE DEF recs
<1>3. n \in Registry /\ n.records = recs /\ n.lineages = g.lineages /\ n.current = g.current
      /\ n.projections = g.projections /\ n.replays = g.replays
  BY <1>1 DEF Registry
<1> HIDE DEF n
<1>4. LineagesAreHeld(n)
  BY <1>0, <1>1, <1>3, RegistryFields DEF LineagesAreHeld
<1> QED
  BY <1>1, <1>2, <1>3, <1>4

\* A projection binds nothing.
LEMMA ProjectionKeeps ==
  ASSUME NEW g \in Registry, LineagesAreHeld(g), NEW l \in Lineage, NEW x \in Candidate \cup {None}
  PROVE  LET n == [g EXCEPT !.projections[l] = x]
         IN  /\ n \in Registry /\ LineagesAreHeld(n)
             /\ n.records = g.records /\ n.lineages = g.lineages /\ n.current = g.current
             /\ n.replays = g.replays
<1> DEFINE projs == [g.projections EXCEPT ![l] = x]
           n == [g EXCEPT !.projections = projs]
<1>1. projs \in [Lineage -> Candidate \cup {None}]
  BY RegistryFields
<1>2. [g EXCEPT !.projections[l] = x] = n
  OBVIOUS
<1> HIDE DEF projs
<1>3. n \in Registry /\ n.records = g.records /\ n.lineages = g.lineages /\ n.current = g.current /\ n.replays = g.replays
  BY <1>1 DEF Registry
<1> HIDE DEF n
<1> QED
  BY <1>2, <1>3 DEF LineagesAreHeld

\* A replay key binds nothing.
LEMMA ReplayKeeps ==
  ASSUME NEW g \in Registry, LineagesAreHeld(g), NEW k \in ReplayKey, NEW t \in Token
  PROVE  LET n == [g EXCEPT !.replays[k] = t]
         IN  /\ n \in Registry /\ LineagesAreHeld(n)
             /\ n.lineages = g.lineages /\ n.current = g.current
<1> DEFINE reps == [g.replays EXCEPT ![k] = t]
           n == [g EXCEPT !.replays = reps]
<1>1. reps \in [ReplayKey -> Token \cup {None}]
  BY RegistryFields
<1>2. [g EXCEPT !.replays[k] = t] = n
  OBVIOUS
<1> HIDE DEF reps
<1>3. n \in Registry /\ n.records = g.records /\ n.lineages = g.lineages /\ n.current = g.current
  BY <1>1 DEF Registry
<1> HIDE DEF n
<1> QED
  BY <1>2, <1>3 DEF LineagesAreHeld

\* A view keeps its binding when its lenses are made.
LEMMA RelensKeeps ==
  ASSUME NEW g \in Registry, LineagesAreHeld(g), NEW t \in Token, g.records[t] # None
  PROVE  LET n == [g EXCEPT !.records[t].lenses = TRUE]
         IN  /\ n \in Registry /\ LineagesAreHeld(n)
             /\ \A u \in Token : n.records[u] = None <=> g.records[u] = None
             /\ n.lineages = g.lineages /\ n.current = g.current
<1> DEFINE rec == [g.records[t] EXCEPT !.lenses = TRUE]
           recs == [g.records EXCEPT ![t] = rec]
           n == [g EXCEPT !.records = recs]
<1>f. g.records \in [Token -> ViewRecord \cup {None}]
  BY RegistryFields
<1>0. rec \in ViewRecord /\ rec.lineage = g.records[t].lineage
  BY <1>f DEF ViewRecord
<1>1. [g EXCEPT !.records[t].lenses = TRUE] = n
  OBVIOUS
<1> HIDE DEF rec
<1>2. /\ recs \in [Token -> ViewRecord \cup {None}] /\ recs[t] = rec /\ rec # None
      /\ \A u \in Token \ {t} : recs[u] = g.records[u]
  BY <1>f, <1>0, RegistryAssumption
<1> HIDE DEF recs
<1>3. n \in Registry /\ n.records = recs /\ n.lineages = g.lineages /\ n.current = g.current
  BY <1>2 DEF Registry
<1> HIDE DEF n
<1>4. \A u \in Token : n.records[u] = None <=> g.records[u] = None
  BY <1>2, <1>3
<1>5. LineagesAreHeld(n)
  BY <1>f, <1>0, <1>2, <1>3, <1>4, RegistryFields DEF LineagesAreHeld
<1> QED
  BY <1>1, <1>3, <1>4, <1>5

\* cleanup() of any view, or of none, keeps the binding sound.
LEMMA CleanupViewKeeps ==
  ASSUME NEW g, Bound(g), NEW t \in Token \cup {None}, NEW rm
  PROVE  Bound(CleanupView(g, t, rm).reg)
<1>1. CASE t = None \/ g.records[t] = None
  BY <1>1 DEF CleanupView, Done
<1>2. CASE ~(t = None \/ g.records[t] = None)
  BY <1>2, ForgetKeeps DEF CleanupView, Done, Throws, Bound
<1> QED
  BY <1>1, <1>2

\* cleanupTerminal() keeps the binding sound.
LEMMA CleanupTerminalKeeps ==
  ASSUME NEW g, Bound(g), NEW l \in Lineage, NEW state, NEW rm
  PROVE  Bound(CleanupTerminal(g, l, state, rm).reg)
<1> DEFINE c == CleanupView(g, g.lineages[l], rm)
           x == IF state = "escalated" /\ g.lineages[l] # None THEN None ELSE c.reg.projections[l]
<1>1. Bound(c.reg)
  BY CleanupViewKeeps, RegistryFields DEF Bound
<1> HIDE DEF c
<1>2. x \in Candidate \cup {None}
  BY <1>1, RegistryFields DEF Bound
<1>3. CleanupTerminal(g, l, state, rm) \in {c, Done([c.reg EXCEPT !.projections[l] = x])}
  BY DEF CleanupTerminal, c
<1> HIDE DEF x
<1>4. Bound([c.reg EXCEPT !.projections[l] = x])
  BY <1>1, <1>2, ProjectionKeeps DEF Bound, CurrentIsLineages
<1> QED
  BY <1>1, <1>3, <1>4 DEF Done

\* cleanupAll() keeps the binding sound, whatever it could not remove.
LEMMA CleanupAllKeeps ==
  ASSUME NEW g, Bound(g), NEW kept \in SUBSET Held(g)
  PROVE  Bound(CleanupAll(g, kept))
<1> DEFINE recs == [t \in Token |-> IF t \in kept THEN g.records[t] ELSE None]
           lins == [l \in Lineage |-> IF g.lineages[l] \in kept THEN g.lineages[l] ELSE None]
           cur == IF g.current # None /\ g.current.token \in kept THEN g.current ELSE None
           reps == [k \in ReplayKey |-> IF g.replays[k] \in kept THEN g.replays[k] ELSE None]
           n == [g EXCEPT !.records = recs, !.lineages = lins, !.current = cur, !.replays = reps]
<1>0. g \in Registry /\ LineagesAreHeld(g) /\ CurrentIsLineages(g) /\ kept \subseteq Token
  BY DEF Bound, Held
<1>1. CleanupAll(g, kept) = n
  BY <1>0 DEF CleanupAll, Registry
<1>2. recs \in [Token -> ViewRecord \cup {None}] /\ lins \in [Lineage -> Token \cup {None}] /\ cur \in CurrentBinding \cup {None}
  BY <1>0, RegistryFields
<1>3. reps \in [ReplayKey -> Token \cup {None}]
  BY <1>0, RegistryFields
<1>4. /\ \A t \in kept : recs[t] = g.records[t]
      /\ \A l \in Lineage : lins[l] = IF g.lineages[l] \in kept THEN g.lineages[l] ELSE None
      /\ cur # None => cur = g.current /\ g.current # None /\ g.current.token \in kept
  BY <1>0
<1> HIDE DEF recs, lins, cur, reps
<1>5. n \in Registry /\ n.records = recs /\ n.lineages = lins /\ n.current = cur
  BY <1>0, <1>2, <1>3 DEF Registry
<1> HIDE DEF n
<1>6. LineagesAreHeld(n)
  BY <1>0, <1>4, <1>5, RegistryAssumption DEF LineagesAreHeld
<1>7. CurrentIsLineages(n)
  BY <1>0, <1>4, <1>5, RegistryFields DEF CurrentIsLineages
<1> QED
  BY <1>1, <1>5, <1>6, <1>7 DEF Bound

\* A view is exposed under an unused token.
LEMMA FreshViewKeeps ==
  ASSUME NEW g, Bound(g), NEW t \in Unused(g), NEW k \in ReplayKey, NEW shown \in Candidate
  PROVE  Bound([g EXCEPT !.records[t] = ExposedView(shown), !.replays[k] = t])
<1> DEFINE n == [g EXCEPT !.records[t] = ExposedView(shown)]
<1>0. g \in Registry /\ LineagesAreHeld(g) /\ CurrentIsLineages(g) /\ t \in Token
  BY DEF Bound, Unused
<1>1. n \in Registry /\ LineagesAreHeld(n) /\ n.lineages = g.lineages /\ n.current = g.current
  BY <1>0, AddViewKeeps
<1>2. [g EXCEPT !.records[t] = ExposedView(shown), !.replays[k] = t] = [n EXCEPT !.replays[k] = t]
  BY <1>0 DEF Registry
<1> HIDE DEF n
<1>3. Bound([n EXCEPT !.replays[k] = t])
  BY <1>0, <1>1, ReplayKeeps DEF Bound, CurrentIsLineages
<1> QED
  BY <1>2, <1>3

\* Binding a view and making it current.
LEMMA BindAndMakeCurrent ==
  ASSUME NEW g \in Registry, LineagesAreHeld(g), NEW t \in Token, NEW l \in Lineage, NEW picked \in BOOLEAN,
         NEW safe, BindRecord(g, t, l, picked, safe).ok
  PROVE  Bound(MakeCurrent(BindRecord(g, t, l, picked, safe).reg, l, t))
<1> DEFINE b == BindRecord(g, t, l, picked, safe)
<1>1. b.reg \in Registry /\ LineagesAreHeld(b.reg) /\ b.reg.lineages = [g.lineages EXCEPT ![l] = t]
  BY BindRecordKeeps
<1>2. b.reg.lineages[l] = t
  BY <1>1, RegistryFields
<1> HIDE DEF b
<1>3. Bound(MakeCurrent(b.reg, l, t))
  BY <1>1, <1>2, MakeCurrentKeeps
<1> QED
  BY <1>3 DEF b

\* A refused bindRecord() changes nothing.
LEMMA BindRefused ==
  ASSUME NEW g, NEW t, NEW l, NEW picked, NEW safe, ~BindRecord(g, t, l, picked, safe).ok
  PROVE  BindRecord(g, t, l, picked, safe).reg = g
BY DEF BindRecord, Done, Throws

\* bindCurrent() keeps the binding sound.
LEMMA BindCurrentKeeps ==
  ASSUME NEW g, Bound(g), NEW t \in Token, NEW l \in Lineage, NEW safe, NEW rm
  PROVE  Bound(BindCurrent(g, t, l, safe, rm).reg)
<1> DEFINE old == g.lineages[l]
           duplicate == /\ g.records[t] # None /\ old \notin {None, t}
                        /\ g.records[old] # None /\ g.records[old].lineage = l /\ safe
                        /\ g.records[old].tree = g.records[t].tree
           relensed == [g EXCEPT !.records[old].lenses = TRUE]
           bound == BindRecord(g, t, l, TRUE, safe)
<1>0. g \in Registry /\ LineagesAreHeld(g) /\ CurrentIsLineages(g) /\ old \in Token \cup {None}
  BY RegistryFields DEF Bound
<1>b. TRUE \in BOOLEAN
  OBVIOUS
<1>1. CASE duplicate
  <2>1. old \in Token /\ old # t /\ g.records[old] # None /\ g.records[t] # None
    BY <1>0, <1>1
  <2>2. /\ relensed \in Registry /\ LineagesAreHeld(relensed)
        /\ \A u \in Token : relensed.records[u] = None <=> g.records[u] = None
        /\ relensed.lineages = g.lineages /\ relensed.current = g.current
    BY <1>0, <2>1, RelensKeeps
  <2>3. BindCurrent(g, t, l, safe, rm) \in {Done(MakeCurrent(Forget(relensed, t), l, old)), Throws(relensed)}
    BY <1>1 DEF BindCurrent
  <2> HIDE DEF relensed
  <2>4. Bound(relensed)
    BY <1>0, <2>2 DEF Bound, CurrentIsLineages
  <2>5. Bound(MakeCurrent(Forget(relensed, t), l, old))
    <3> DEFINE f == Forget(relensed, t)
    <3>0. relensed.records[t] # None /\ relensed.lineages[l] = old
      BY <2>1, <2>2
    <3>1. f \in Registry /\ LineagesAreHeld(f)
      BY <2>2, <3>0, ForgetKeeps
    <3>2. \A m \in Lineage : f.lineages[m] = IF relensed.lineages[m] = t THEN None ELSE relensed.lineages[m]
      BY <2>2, <3>0, ForgetKeeps
    <3>3. f.lineages[l] = old
      BY <2>1, <3>0, <3>2
    <3> HIDE DEF f
    <3> QED
      BY <2>1, <3>1, <3>3, MakeCurrentKeeps DEF f
  <2> QED
    BY <2>3, <2>4, <2>5 DEF Done, Throws
<1>2. CASE ~duplicate
  <2>1. BindCurrent(g, t, l, safe, rm) = IF bound.ok THEN Done(MakeCurrent(bound.reg, l, t)) ELSE bound
    BY <1>2 DEF BindCurrent
  <2>2. CASE bound.ok
    <3>1. Bound(MakeCurrent(bound.reg, l, t))
      BY <1>0, <1>b, <2>2, BindAndMakeCurrent, Zenon
    <3>2. BindCurrent(g, t, l, safe, rm) = Done(MakeCurrent(bound.reg, l, t))
      BY <2>1, <2>2
    <3> HIDE DEF bound
    <3> QED
      BY <3>1, <3>2 DEF Done
  <2>3. CASE ~bound.ok
    <3>1. bound.reg = g
      BY <1>0, <1>b, <2>3, BindRefused, Zenon
    <3> QED
      BY <2>1, <2>3, <3>1
  <2> QED
    BY <2>2, <2>3
<1> QED
  BY <1>1, <1>2

\* retain() keeps the binding sound.
LEMMA RetainKeeps ==
  ASSUME NEW g, Bound(g), NEW t \in Token, NEW l \in Lineage, NEW safe
  PROVE  Bound(Retain(g, t, l, safe).reg)
<1> DEFINE bound == BindRecord(g, t, l, FALSE, safe)
<1>0. g \in Registry /\ LineagesAreHeld(g) /\ FALSE \in BOOLEAN
  BY DEF Bound
<1>1. CASE bound.ok
  <2>1. Bound(MakeCurrent(bound.reg, l, t))
    BY <1>0, <1>1, BindAndMakeCurrent, Zenon
  <2>2. Retain(g, t, l, safe) = Done(MakeCurrent(bound.reg, l, t))
    BY <1>1 DEF Retain
  <2> HIDE DEF bound
  <2> QED
    BY <2>1, <2>2 DEF Done
<1>2. CASE ~bound.ok
  <2>1. bound.reg = g
    BY <1>2, BindRefused
  <2>2. Retain(g, t, l, safe) = bound
    BY <1>2 DEF Retain
  <2> QED
    BY <2>1, <2>2
<1> QED
  BY <1>1, <1>2

\* completeNativeStart() keeps the binding sound.
LEMMA CompleteStartKeeps ==
  ASSUME NEW g, Bound(g), NEW t \in Token, NEW result, result.lineage \in Lineage,
         NEW shown, NEW safe, NEW rm
  PROVE  Bound(CompleteNativeStart(g, t, result, shown, safe, rm).reg)
<1> DEFINE c == CompleteNativeStart(g, t, result, shown, safe, rm)
           l == result.lineage
<1>1. \/ c = RestoreCurrentFromStart(g, t, l, shown, safe, rm) \/ c = BindCurrent(g, t, l, safe, rm)
      \/ c = Retain(g, t, l, safe) \/ c = CleanupView(g, t, rm)
  BY DEF CompleteNativeStart
<1>2. RestoreCurrentFromStart(g, t, l, shown, safe, rm) \in {Throws(g), BindCurrent(g, t, l, safe, rm)}
  BY DEF RestoreCurrentFromStart
<1>3. Bound(Throws(g).reg) /\ Bound(BindCurrent(g, t, l, safe, rm).reg) /\ Bound(Retain(g, t, l, safe).reg)
  BY BindCurrentKeeps, RetainKeeps DEF Throws
<1>4. Bound(CleanupView(g, t, rm).reg)
  BY CleanupViewKeeps
<1> QED
  BY <1>1, <1>2, <1>3, <1>4

\* A view restored for a lineage that nothing is bound to becomes current.
LEMMA RestoreKeeps ==
  ASSUME NEW g \in Registry, LineagesAreHeld(g), NEW t \in Unused(g), NEW l \in Lineage, NEW shown \in Candidate,
         NEW safe, BindRecord([g EXCEPT !.records[t] = ExposedView(shown)], t, l, TRUE, safe).ok
  PROVE  Bound(MakeCurrent(BindRecord([g EXCEPT !.records[t] = ExposedView(shown)], t, l, TRUE, safe).reg, l, t))
<1> DEFINE n == [g EXCEPT !.records[t] = ExposedView(shown)]
<1>1. n \in Registry /\ LineagesAreHeld(n) /\ t \in Token /\ TRUE \in BOOLEAN
  BY AddViewKeeps DEF Unused
<1> HIDE DEF n
<1>2. BindRecord(n, t, l, TRUE, safe).ok => Bound(MakeCurrent(BindRecord(n, t, l, TRUE, safe).reg, l, t))
  BY <1>1, BindAndMakeCurrent, Zenon
<1> QED
  BY <1>2 DEF n

\* restoreCurrentForDispatchFromNative() keeps the binding sound.
LEMMA RestoreForDispatchKeeps ==
  ASSUME NEW g, Bound(g), NEW t \in Unused(g), NEW l \in Lineage, NEW shown \in Candidate, NEW now \in Candidate,
         NEW found, NEW safe
  PROVE  Bound(RestoreForDispatch(g, t, l, shown, now, found, safe).reg)
<1> DEFINE p == RestoreProjection(g, l, shown, found)
           bound == BindRecord([p.reg EXCEPT !.records[t] = ExposedView(now)], t, l, TRUE, safe)
           r == RestoreForDispatch(g, t, l, shown, now, found, safe)
<1>0. g \in Registry /\ LineagesAreHeld(g)
  BY DEF Bound
<1>1. p.reg \in {g, [g EXCEPT !.projections[l] = shown]}
  BY DEF RestoreProjection, Done, Throws
<1>2. p.reg \in Registry /\ LineagesAreHeld(p.reg) /\ p.reg.records = g.records
  <2> DEFINE n == [g EXCEPT !.projections[l] = shown]
  <2>1. n \in Registry /\ LineagesAreHeld(n) /\ n.records = g.records
    BY <1>0, ProjectionKeeps
  <2> HIDE DEF n
  <2> QED
    BY <1>0, <1>1, <2>1 DEF n
<1>3. t \in Unused(p.reg)
  BY <1>2 DEF Unused, Held
<1>4. r = Throws(g) \/ (bound.ok /\ r = Done(MakeCurrent(bound.reg, l, t)))
  BY DEF RestoreForDispatch
<1> HIDE DEF p
<1>5. bound.ok => Bound(MakeCurrent(bound.reg, l, t))
  BY <1>2, <1>3, RestoreKeeps
<1> HIDE DEF bound
<1> QED
  BY <1>4, <1>5 DEF Done, Throws

\* restoreCurrentFromAuthoritativeReviewingStates() keeps the binding sound.
LEMMA RestoreFromStatesKeeps ==
  ASSUME NEW g, Bound(g), NEW t \in Unused(g), NEW l \in Lineage, NEW shown, NEW now \in Candidate, NEW safe
  PROVE  Bound(RestoreFromStates(g, t, l, shown, now, safe).reg)
<1> DEFINE bound == BindRecord([g EXCEPT !.records[t] = ExposedView(now)], t, l, TRUE, safe)
           r == RestoreFromStates(g, t, l, shown, now, safe)
<1>1. r = Throws(g) \/ (bound.ok /\ r = Done(MakeCurrent(bound.reg, l, t)))
  BY DEF RestoreFromStates
<1>2. bound.ok => Bound(MakeCurrent(bound.reg, l, t))
  BY RestoreKeeps DEF Bound
<1> HIDE DEF bound
<1> QED
  BY <1>1, <1>2 DEF Done, Throws

\* createOrReuse() and createCorrected() keep the binding sound.
LEMMA CreateKeeps ==
  ASSUME NEW g, Bound(g), NEW t \in Unused(g), NEW k \in ReplayKey, NEW l, NEW now \in Candidate, NEW safe
  PROVE  /\ Bound(CreateOrReuse(g, k, t, now, safe).reg)
         /\ Bound(CreateCorrected(g, l, k, t, now, safe).reg)
<1> DEFINE n == [g EXCEPT !.records[t] = ExposedView(now), !.replays[k] = t]
<1>1. Bound(n)
  BY FreshViewKeeps
<1> HIDE DEF n
<1>2. /\ CreateOrReuse(g, k, t, now, safe) \in {Done(g), Throws(g), Done(n)}
      /\ CreateCorrected(g, l, k, t, now, safe) \in {Done(g), Throws(g), Done(n)}
  BY DEF CreateOrReuse, CreateCorrected, n
<1> QED
  BY <1>1, <1>2 DEF Done, Throws

\* promoteCorrected() keeps the binding sound.
LEMMA PromoteKeeps ==
  ASSUME NEW g, Bound(g), NEW t \in Token, NEW l \in Lineage, NEW safe, NEW rm
  PROVE  Bound(PromoteCorrected(g, t, l, safe, rm).reg)
<1> DEFINE old == g.lineages[l]
           rec == [g.records[t] EXCEPT !.lineage = l, !.lenses = FALSE]
           recs == [g.records EXCEPT ![t] = rec]
           lins == [g.lineages EXCEPT ![l] = t]
           projs == [g.projections EXCEPT ![l] = g.records[t].tree]
           reps == DropReplays(g, t)
           n == [g EXCEPT !.records = recs, !.lineages = lins, !.projections = projs, !.replays = reps]
           rejected == \/ g.records[t] = None \/ g.records[t].lineage # None
                       \/ old # None /\ (g.records[old] = None \/ g.records[old].lineage # l)
           r == PromoteCorrected(g, t, l, safe, rm)
<1>0. g \in Registry /\ LineagesAreHeld(g)
  BY DEF Bound
<1>f. /\ g.records \in [Token -> ViewRecord \cup {None}] /\ g.lineages \in [Lineage -> Token \cup {None}]
      /\ g.projections \in [Lineage -> Candidate \cup {None}]
  BY <1>0, RegistryFields
<1>m. [g EXCEPT !.records[t].lineage = l, !.records[t].lenses = FALSE, !.lineages[l] = t,
                !.projections[l] = g.records[t].tree, !.replays = DropReplays(g, t)] = n
  BY <1>0, <1>f DEF Registry
<1>1. \/ r = Throws(g)
      \/ ~rejected /\ (\/ old = None /\ r = Done(MakeCurrent(n, l, t))
                       \/ old # None /\ r = Done(Forget(MakeCurrent(n, l, t), old))
                       \/ r = Throws(MakeCurrent(n, l, t)))
  BY <1>m DEF PromoteCorrected
<1>2. CASE r = Throws(g)
  BY <1>2 DEF Throws
<1>3. ASSUME ~rejected
      PROVE  /\ Bound(MakeCurrent(n, l, t))
             /\ old # None => Bound(Forget(MakeCurrent(n, l, t), old))
  <2>1. g.records[t] \in ViewRecord /\ g.records[t].tree \in Candidate /\ g.records[t].lineage = None
    BY <1>3, <1>f DEF ViewRecord
  <2>2. rec \in ViewRecord /\ rec.lineage = l /\ rec # None
    <3>1. rec \in ViewRecord /\ rec.lineage = l
      BY <2>1 DEF ViewRecord
    <3> HIDE DEF rec
    <3> QED
      BY <3>1, RegistryAssumption
  <2>3. /\ recs \in [Token -> ViewRecord \cup {None}] /\ lins \in [Lineage -> Token \cup {None}]
        /\ projs \in [Lineage -> Candidate \cup {None}] /\ reps \in [ReplayKey -> Token \cup {None}]
    BY <1>0, <1>f, <2>1, <2>2, DropReplaysType
  <2>4. /\ recs[t] = rec /\ \A u \in Token \ {t} : recs[u] = g.records[u]
        /\ lins[l] = t /\ \A m \in Lineage \ {l} : lins[m] = g.lineages[m]
    BY <1>f
  <2>5. \A m \in Lineage : g.lineages[m] # t
    BY <1>0, <2>1, RegistryAssumption DEF LineagesAreHeld
  <2>6. old # None => old \in Token /\ old # t /\ g.records[old] # None
    BY <1>f, <1>3, <2>5
  <2> HIDE DEF rec, recs, lins, projs, reps, old
  <2>7. n \in Registry /\ n.records = recs /\ n.lineages = lins
    BY <1>0, <2>3 DEF Registry
  <2> HIDE DEF n
  <2>8. LineagesAreHeld(n)
    BY <1>0, <1>f, <2>2, <2>4, <2>5, <2>7 DEF LineagesAreHeld
  <2> DEFINE c == MakeCurrent(n, l, t)
  <2>9. Bound(c)
    BY <2>4, <2>7, <2>8, MakeCurrentKeeps
  <2>10. c.records = n.records
    BY <2>7 DEF MakeCurrent, Registry
  <2> HIDE DEF c
  <2>11. ASSUME old # None PROVE Bound(Forget(c, old))
    <3>1. old \in Token /\ c.records[old] # None
      BY <2>4, <2>6, <2>7, <2>10, <2>11
    <3>2. c \in Registry /\ LineagesAreHeld(c) /\ CurrentIsLineages(c)
      BY <2>9 DEF Bound
    <3> QED
      BY <3>1, <3>2, ForgetKeeps DEF Bound
  <2> QED
    BY <2>9, <2>11 DEF c
<1> HIDE DEF n, rejected, old, r
<1> QED
  BY <1>1, <1>2, <1>3 DEF Done, Throws, r

\* restoreForFinalizeFromNative() keeps the binding sound when its new view can
\* be undone.
LEMMA FinalizeKeeps ==
  ASSUME NEW g, Bound(g), NEW t \in Unused(g), NEW l \in Lineage, NEW shown \in Candidate, NEW now \in Candidate,
         NEW found, NEW safe, NEW rmOld, NEW rmNew, rmNew
  PROVE  Bound(RestoreForFinalize(g, t, l, shown, now, found, safe, rmOld, rmNew).reg)
<1> DEFINE old == g.lineages[l]
           lins == [g.lineages EXCEPT ![l] = None]
           projs == [g.projections EXCEPT ![l] = None]
           d == [g EXCEPT !.lineages[l] = None, !.projections[l] = None]
           p == RestoreProjection(d, l, shown, found)
           h == [p.reg EXCEPT !.records[t] = ExposedView(now)]
           b == BindRecord(h, t, l, FALSE, safe)
           stale == old # None /\ g.records[old] # None
           r == RestoreForFinalize(g, t, l, shown, now, found, safe, rmOld, rmNew)
<1>0. g \in Registry /\ LineagesAreHeld(g) /\ CurrentIsLineages(g) /\ t \in Token /\ FALSE \in BOOLEAN
  BY DEF Bound, Unused
<1>f. g.lineages \in [Lineage -> Token \cup {None}] /\ g.projections \in [Lineage -> Candidate \cup {None}]
  BY <1>0, RegistryFields
<1>1. r = Throws(g) \/ (b.ok /\ r = Done(IF stale THEN Forget(b.reg, old) ELSE b.reg))
  BY DEF RestoreForFinalize
<1>2. d \in Registry /\ LineagesAreHeld(d) /\ d.lineages = lins /\ d.records = g.records /\ d.current = g.current
  <2>1. lins \in [Lineage -> Token \cup {None}] /\ projs \in [Lineage -> Candidate \cup {None}]
    BY <1>f
  <2>2. lins[l] = None /\ \A m \in Lineage \ {l} : lins[m] = g.lineages[m]
    BY <1>f
  <2>m. d = [g EXCEPT !.lineages = lins, !.projections = projs]
    BY <1>0 DEF Registry
  <2> HIDE DEF lins, projs, d
  <2>3. d \in Registry /\ d.lineages = lins /\ d.records = g.records /\ d.current = g.current
    BY <1>0, <2>1, <2>m DEF Registry
  <2> QED
    BY <1>0, <2>2, <2>3 DEF LineagesAreHeld
<1>l. lins \in [Lineage -> Token \cup {None}] /\ lins[l] = None /\ \A m \in Lineage \ {l} : lins[m] = g.lineages[m]
  BY <1>f
<1> HIDE DEF d, lins
<1>3. /\ p.reg \in Registry /\ LineagesAreHeld(p.reg)
      /\ p.reg.lineages = lins /\ p.reg.records = g.records /\ p.reg.current = g.current
  <2> DEFINE n == [d EXCEPT !.projections[l] = shown]
  <2>1. p.reg \in {d, n}
    BY DEF RestoreProjection, Done, Throws
  <2>2. /\ n \in Registry /\ LineagesAreHeld(n)
        /\ n.lineages = lins /\ n.records = g.records /\ n.current = g.current
    BY <1>2, ProjectionKeeps
  <2> HIDE DEF n, p
  <2> QED
    BY <1>2, <2>1, <2>2
<1> HIDE DEF p
<1>4. /\ h \in Registry /\ LineagesAreHeld(h) /\ h.lineages = lins /\ h.current = g.current
      /\ \A u \in Token \ {t} : h.records[u] = g.records[u]
  <2>1. t \in Unused(p.reg)
    BY <1>3 DEF Unused, Held
  <2> QED
    BY <1>3, <2>1, AddViewKeeps
<1> HIDE DEF h
<1>5. b.ok => /\ b.reg \in Registry /\ LineagesAreHeld(b.reg)
              /\ b.reg.lineages = [lins EXCEPT ![l] = t] /\ b.reg.current = g.current
              /\ \A u \in Token \ {t} : b.reg.records[u] = h.records[u]
  <2> SUFFICES ASSUME b.ok
               PROVE  /\ b.reg \in Registry /\ LineagesAreHeld(b.reg)
                      /\ b.reg.lineages = [lins EXCEPT ![l] = t] /\ b.reg.current = g.current
                      /\ \A u \in Token \ {t} : b.reg.records[u] = h.records[u]
    OBVIOUS
  <2>1. /\ b.reg \in Registry /\ LineagesAreHeld(b.reg)
        /\ b.reg.lineages = [h.lineages EXCEPT ![l] = t] /\ b.reg.current = h.current
        /\ \A u \in Token \ {t} : b.reg.records[u] = h.records[u]
    <3>1. ASSUME NEW picked \in BOOLEAN, picked = FALSE
          PROVE  BindRecord(h, t, l, picked, safe) = b
      BY <3>1, Zenon
    <3>2. PICK picked \in BOOLEAN : picked = FALSE
      BY Zenon
    <3>3. BindRecord(h, t, l, picked, safe) = b
      BY <3>1, <3>2, Zenon
    <3>4. BindRecord(h, t, l, picked, safe).ok
      BY <3>3
    <3> HIDE DEF b
    <3>5. LET n == BindRecord(h, t, l, picked, safe).reg
          IN  /\ n \in Registry /\ LineagesAreHeld(n)
              /\ n.lineages = [h.lineages EXCEPT ![l] = t]
              /\ n.current = h.current
              /\ \A u \in Token \ {t} : n.records[u] = h.records[u]
      BY <1>0, <1>4, <3>4, BindRecordKeeps
    <3> QED
      BY <3>3, <3>5
  <2> QED
    BY <1>4, <2>1
<1>6. b.ok => /\ b.reg.lineages[l] = t
              /\ \A m \in Lineage \ {l} : b.reg.lineages[m] = g.lineages[m]
  BY <1>5, <1>l
<1> HIDE DEF b
<1>o. old \in Token \cup {None} /\ (g.current # None => g.current.lineage \in Lineage /\ g.current.token \in Token)
  BY <1>0, RegistryFields
<1>7. ASSUME b.ok, ~stale PROVE Bound(b.reg)
  <2>1. old = None
    BY <1>0, <1>7 DEF LineagesAreHeld
  <2>2. g.current # None => g.current.lineage # l
    BY <1>0, <1>o, <2>1, RegistryAssumption DEF CurrentIsLineages
  <2> HIDE DEF stale, old
  <2> QED
    BY <1>0, <1>5, <1>6, <1>7, <1>o, <2>2 DEF Bound, CurrentIsLineages
<1>8. ASSUME b.ok, stale PROVE Bound(Forget(b.reg, old))
  <2> DEFINE f == Forget(b.reg, old)
  <2>1. old \in Token /\ old # t /\ g.records[old] # None
    BY <1>8, <1>o DEF Unused, Held
  <2>2. b.reg.records[old] # None
    BY <1>4, <1>5, <1>8, <2>1
  <2> DEFINE k == b.reg
  <2>k. k \in Registry /\ LineagesAreHeld(k) /\ k.records[old] # None
    BY <1>5, <1>8, <2>2
  <2> HIDE DEF k
  <2>g. /\ Forget(k, old) \in Registry /\ LineagesAreHeld(Forget(k, old))
        /\ \A m \in Lineage : Forget(k, old).lineages[m] = IF k.lineages[m] = old THEN None ELSE k.lineages[m]
        /\ Forget(k, old).current = IF k.current # None /\ k.current.token = old THEN None ELSE k.current
    BY <2>1, <2>k, ForgetKeeps
  <2>3. /\ f \in Registry /\ LineagesAreHeld(f)
        /\ \A m \in Lineage : f.lineages[m] = IF b.reg.lineages[m] = old THEN None ELSE b.reg.lineages[m]
        /\ f.current = IF b.reg.current # None /\ b.reg.current.token = old THEN None ELSE b.reg.current
    BY <2>g DEF k
  <2> HIDE DEF f
  <2>4. g.current # None /\ g.current.token # old => g.current.lineage # l
    BY <1>0 DEF CurrentIsLineages
  <2> HIDE DEF stale, old
  <2>5. CurrentIsLineages(f)
    BY <1>0, <1>5, <1>6, <1>8, <1>o, <2>3, <2>4 DEF CurrentIsLineages
  <2> QED
    BY <2>3, <2>5 DEF Bound, f
<1>9. Bound(r.reg)
  <2> HIDE DEF stale, r
  <2>1. CASE r = Throws(g)
    BY <2>1 DEF Throws
  <2>2. CASE b.ok /\ r = Done(IF stale THEN Forget(b.reg, old) ELSE b.reg)
    BY <1>7, <1>8, <2>2 DEF Done
  <2> QED
    BY <1>1, <2>1, <2>2
<1> QED
  BY <1>9

-----------------------------------------------------------------------------
\* The registry is empty at the start.
LEMMA ViewsInitially == ViewsInit => ViewsInv
<1> DEFINE recs == [t \in Token |-> None]
           lins == [l \in Lineage |-> None]
           reps == [k \in ReplayKey |-> None]
<1>1. EmptyRegistry = [records |-> recs, lineages |-> lins, projections |-> lins, replays |-> reps, current |-> None]
  BY DEF EmptyRegistry
<1>2. EmptyRegistry \in Registry
  BY <1>1 DEF Registry
<1>3. EmptyRegistry.current = None /\ \A l \in Lineage : EmptyRegistry.lineages[l] = None
  BY <1>1
<1> QED
  BY <1>2, <1>3 DEF ViewsInit, ViewsInv, Bound, LineagesAreHeld, CurrentIsLineages

\* Every call of the registry keeps it.
LEMMA ViewsStep ==
  ASSUME ~UndoRefusable
  PROVE  ViewsInv /\ [ViewsNext]_viewsVars => ViewsInv'
<1> SUFFICES ASSUME ViewsInv, [ViewsNext]_viewsVars PROVE ViewsInv'
  OBVIOUS
<1>0. Bound(reg) /\ live \in Candidate /\ \A t \in Unused(reg) : t \in Token
  BY DEF ViewsInv, Unused
<1>c. ASSUME NEW r, NEW n, Call(r, n), Bound(r.reg) PROVE ViewsInv'
  BY <1>0, <1>c DEF Call, ViewsInv
<1>1. CASE Edit
  BY <1>0, <1>1 DEF Edit, ViewsInv
<1>2. CASE Shutdown
  BY <1>0, <1>2, <1>c, CleanupAllKeeps DEF Shutdown, Done
<1>3. ASSUME NEW l \in Lineage, Terminal(l) PROVE ViewsInv'
  BY <1>0, <1>3, <1>c, CleanupTerminalKeeps DEF Terminal
<1>4. ASSUME NEW t \in Token, Start(t) PROVE ViewsInv'
  BY <1>0, <1>4, <1>c, CreateKeeps DEF Start
<1>5. ASSUME NEW t \in Token, Complete(t) PROVE ViewsInv'
  <2>1. PICK l \in Lineage, picked \in BOOLEAN, safe \in BOOLEAN, rm \in BOOLEAN, action \in {"created", "resumed", "closed"} :
          Call(CompleteNativeStart(reg, t, [lineage |-> l, lenses |-> picked, action |-> action], live, safe, rm), Cost(rm))
    BY <1>5 DEF Complete
  <2> DEFINE result == [lineage |-> l, lenses |-> picked, action |-> action]
  <2>2. result.lineage \in Lineage
    OBVIOUS
  <2> HIDE DEF result
  <2>3. Bound(CompleteNativeStart(reg, t, result, live, safe, rm).reg)
    BY <1>0, <2>2, CompleteStartKeeps
  <2> QED
    BY <1>c, <2>1, <2>3 DEF result
<1>6. ASSUME NEW t \in Token, Hydrate(t) PROVE ViewsInv'
  BY <1>0, <1>6, <1>c, RestoreForDispatchKeeps DEF Hydrate
<1>7. ASSUME NEW t \in Token, Finalize(t) PROVE ViewsInv'
  BY <1>0, <1>7, <1>c, FinalizeKeeps DEF Finalize
<1>8. ASSUME NEW t \in Token, Reviewing(t) PROVE ViewsInv'
  BY <1>0, <1>8, <1>c, RestoreFromStatesKeeps DEF Reviewing
<1>9. ASSUME NEW t \in Token, Correct(t) PROVE ViewsInv'
  BY <1>0, <1>9, <1>c, CreateKeeps DEF Correct
<1>10. ASSUME NEW t \in Token, Promote(t) PROVE ViewsInv'
  BY <1>0, <1>10, <1>c, PromoteKeeps DEF Promote
<1>11. ASSUME NEW t \in Token, Discard(t) PROVE ViewsInv'
  BY <1>0, <1>11, <1>c, CleanupViewKeeps DEF Discard
<1>12. CASE UNCHANGED viewsVars
  BY <1>0, <1>12 DEF viewsVars, ViewsInv
<1> QED
  BY <1>1, <1>2, <1>3, <1>4, <1>5, <1>6, <1>7, <1>8, <1>9, <1>10, <1>11, <1>12 DEF ViewsNext

\* The binding a reviewer would be dispatched through names a held view that
\* is bound to the same lineage in both directions, for any tokens, lineages
\* and contents, when a view that was just made can be removed again
\* (CandidateViewRegistry of review-candidate-view.ts).
THEOREM BindingNeverDangles ==
  ASSUME ~UndoRefusable
  PROVE  ViewsSpec => []CurrentIsBound
<1>1. ViewsInv => CurrentIsBound
  <2> SUFFICES ASSUME ViewsInv, reg.current # None
               PROVE  LET t == reg.current.token
                      IN /\ reg.records[t] # None /\ reg.records[t].lineage = reg.current.lineage
                         /\ reg.lineages[reg.current.lineage] = t
    BY DEF CurrentIsBound
  <2>1. reg \in Registry /\ LineagesAreHeld(reg) /\ CurrentIsLineages(reg)
    BY DEF ViewsInv, Bound
  <2>2. reg.current.lineage \in Lineage /\ reg.current.token \in Token
    BY <2>1, RegistryFields
  <2> QED
    BY <2>1, <2>2, RegistryAssumption DEF LineagesAreHeld, CurrentIsLineages
<1> QED
  BY ViewsInitially, ViewsStep, <1>1, PTL DEF ViewsSpec

-----------------------------------------------------------------------------
(* Captures of reviewer results.                                           *)

\* The first n slots of a plan.
Firsts(plan, n) == {plan[i] : i \in 1..n}

\* A capture operation with these fields.
Of(pc, group, plan, got, at, reply, took, marked) ==
    [pc |-> pc, group |-> group, plan |-> plan, got |-> got, at |-> at,
     reply |-> reply, took |-> took, marked |-> marked]

\* A capture operation has just these fields, and its slots are counted from one.
IsCapture(c) ==
    /\ c = Of(c.pc, c.group, c.plan, c.got, c.at, c.reply, c.took, c.marked)
    /\ c.at \in Nat \ {0}
    /\ ~c.group => c.at = 1

\* What the provider may have taken, by the answer to the submission under way.
Submitted(c) ==
    CASE c.reply \in {NoReply, "refused"}       -> c.took = Firsts(c.plan, c.at - 1)
      [] c.reply \in {"closure", "accepted"}    -> c.took = Firsts(c.plan, c.at)
      [] OTHER -> c.took = Firsts(c.plan, c.at - 1) \/ c.took = Firsts(c.plan, c.at)

\* What an operation did to the provider before it says so, by where it is.
Progress(c) ==
    /\ c.pc \in {"idle", "review", "check", "submit", "reconcile", "conclude", "declare"}
    /\ c.pc = "idle" => c = Idle
    /\ c.pc \in {"review", "check"} => c.reply = NoReply
    /\ c.pc = "review" => c.took = {} /\ c.at = 1
    /\ c.pc \in {"check", "conclude"} => c.group /\ c.took = Firsts(c.plan, c.at - 1)
    /\ c.pc = "conclude" => c.at > 1
    /\ c.pc = "submit" => /\ Submitted(c)
                          /\ c.reply \in {NoReply, "refused", "closure", "accepted", "unreadable"}
    /\ c.pc = "reconcile" => c.took = Firsts(c.plan, c.at - 1) \/ c.took = Firsts(c.plan, c.at)
    /\ c.pc = "declare" => /\ c.took = {} /\ c.at = 1
                           /\ c.reply \in {NoReply, "refused", "no_verb"} => c.marked = {}
    /\ c.pc \notin {"idle", "declare"} => c.marked = {}

\* A report is true of what it recorded.
Truthful(r) ==
    CASE r.mutation = "none" -> r.took = {} /\ r.marked = {}
      [] r.mutation = "captured" -> r.took = Firsts(r.plan, 1)
      [] r.mutation \in {"partial", "completed", "closed"} -> r.took = Firsts(r.plan, r.n)
      [] r.mutation \in {"unknown", "partial_unknown"} ->
             r.took = Firsts(r.plan, r.n) \/ r.took = Firsts(r.plan, r.n + 1)
      [] OTHER -> TRUE

CaptureInv ==
    /\ DOMAIN cap = Host /\ DOMAIN report = Host
    /\ cap = [h \in Host |-> cap[h]] /\ report = [h \in Host |-> report[h]]
    /\ \A h \in Host : IsCapture(cap[h]) /\ Progress(cap[h]) /\ Truthful(report[h])

-----------------------------------------------------------------------------
\* The fields of an operation.
LEMMA FieldsOf ==
  ASSUME NEW pc, NEW group, NEW plan, NEW got, NEW at, NEW reply, NEW took, NEW marked, NEW c,
         c = Of(pc, group, plan, got, at, reply, took, marked)
  PROVE  /\ c.pc = pc /\ c.group = group /\ c.plan = plan /\ c.got = got /\ c.at = at
         /\ c.reply = reply /\ c.took = took /\ c.marked = marked
         /\ c = Of(c.pc, c.group, c.plan, c.got, c.at, c.reply, c.took, c.marked)
BY DEF Of

\* One field is assigned.
LEMMA AssignedOne ==
  ASSUME NEW c, c = Of(c.pc, c.group, c.plan, c.got, c.at, c.reply, c.took, c.marked), NEW x
  PROVE  /\ [c EXCEPT !.pc = x] = Of(x, c.group, c.plan, c.got, c.at, c.reply, c.took, c.marked)
         /\ [c EXCEPT !.group = x] = Of(c.pc, x, c.plan, c.got, c.at, c.reply, c.took, c.marked)
         /\ [c EXCEPT !.plan = x] = Of(c.pc, c.group, x, c.got, c.at, c.reply, c.took, c.marked)
         /\ [c EXCEPT !.got = x] = Of(c.pc, c.group, c.plan, x, c.at, c.reply, c.took, c.marked)
         /\ [c EXCEPT !.at = x] = Of(c.pc, c.group, c.plan, c.got, x, c.reply, c.took, c.marked)
         /\ [c EXCEPT !.reply = x] = Of(c.pc, c.group, c.plan, c.got, c.at, x, c.took, c.marked)
         /\ [c EXCEPT !.took = x] = Of(c.pc, c.group, c.plan, c.got, c.at, c.reply, x, c.marked)
         /\ [c EXCEPT !.marked = x] = Of(c.pc, c.group, c.plan, c.got, c.at, c.reply, c.took, x)
<1>1. [c EXCEPT !.pc = x] = Of(x, c.group, c.plan, c.got, c.at, c.reply, c.took, c.marked)
  BY DEF Of
<1>2. [c EXCEPT !.group = x] = Of(c.pc, x, c.plan, c.got, c.at, c.reply, c.took, c.marked)
  BY DEF Of
<1>3. [c EXCEPT !.plan = x] = Of(c.pc, c.group, x, c.got, c.at, c.reply, c.took, c.marked)
  BY DEF Of
<1>4. [c EXCEPT !.got = x] = Of(c.pc, c.group, c.plan, x, c.at, c.reply, c.took, c.marked)
  BY DEF Of
<1>5. [c EXCEPT !.at = x] = Of(c.pc, c.group, c.plan, c.got, x, c.reply, c.took, c.marked)
  BY DEF Of
<1>6. [c EXCEPT !.reply = x] = Of(c.pc, c.group, c.plan, c.got, c.at, x, c.took, c.marked)
  BY DEF Of
<1>7. [c EXCEPT !.took = x] = Of(c.pc, c.group, c.plan, c.got, c.at, c.reply, x, c.marked)
  BY DEF Of
<1>8. [c EXCEPT !.marked = x] = Of(c.pc, c.group, c.plan, c.got, c.at, c.reply, c.took, x)
  BY DEF Of
<1> QED
  BY <1>1, <1>2, <1>3, <1>4, <1>5, <1>6, <1>7, <1>8

\* So are several.
LEMMA AssignedReplyTook ==
  ASSUME NEW c, c = Of(c.pc, c.group, c.plan, c.got, c.at, c.reply, c.took, c.marked), NEW reply, NEW took
  PROVE  [c EXCEPT !.reply = reply, !.took = took] = Of(c.pc, c.group, c.plan, c.got, c.at, reply, took, c.marked)
<1> DEFINE d1 == [c EXCEPT !.reply = reply]
<1> DEFINE d2 == [d1 EXCEPT !.took = took]
<1>0. [c EXCEPT !.reply = reply, !.took = took] = d2
  BY Zenon
<1>1a. d1 = Of(c.pc, c.group, c.plan, c.got, c.at, reply, c.took, c.marked)
  BY AssignedOne, Zenon
<1> HIDE DEF d1
<1>1b. /\ d1.pc = c.pc /\ d1.group = c.group /\ d1.plan = c.plan /\ d1.got = c.got
        /\ d1.at = c.at /\ d1.reply = reply /\ d1.took = c.took /\ d1.marked = c.marked
  BY <1>1a DEF Of
<1>1c. d1 = Of(c.pc, c.group, c.plan, c.got, c.at, reply, c.took, c.marked)
  BY <1>1a, <1>1b
<1>1d. d1 = Of(d1.pc, d1.group, d1.plan, d1.got, d1.at, d1.reply, d1.took, d1.marked)
  BY <1>1a, <1>1b
<1>2a. d2 = Of(d1.pc, d1.group, d1.plan, d1.got, d1.at, d1.reply, took, d1.marked)
  BY <1>1d, AssignedOne, Zenon
<1> HIDE DEF d2
<1>2b. /\ d2.pc = d1.pc /\ d2.group = d1.group /\ d2.plan = d1.plan /\ d2.got = d1.got
        /\ d2.at = d1.at /\ d2.reply = d1.reply /\ d2.took = took /\ d2.marked = d1.marked
  BY <1>2a DEF Of
<1>2c. d2 = Of(c.pc, c.group, c.plan, c.got, c.at, reply, took, c.marked)
  BY <1>2a, <1>1b, <1>2b
<1>2d. d2 = Of(d2.pc, d2.group, d2.plan, d2.got, d2.at, d2.reply, d2.took, d2.marked)
  BY <1>2a, <1>2b
<1> QED
  BY <1>0, <1>2c

\* So are several.
LEMMA AssignedReplyMarked ==
  ASSUME NEW c, c = Of(c.pc, c.group, c.plan, c.got, c.at, c.reply, c.took, c.marked), NEW reply, NEW marked
  PROVE  [c EXCEPT !.reply = reply, !.marked = marked] = Of(c.pc, c.group, c.plan, c.got, c.at, reply, c.took, marked)
<1> DEFINE d1 == [c EXCEPT !.reply = reply]
<1> DEFINE d2 == [d1 EXCEPT !.marked = marked]
<1>0. [c EXCEPT !.reply = reply, !.marked = marked] = d2
  BY Zenon
<1>1a. d1 = Of(c.pc, c.group, c.plan, c.got, c.at, reply, c.took, c.marked)
  BY AssignedOne, Zenon
<1> HIDE DEF d1
<1>1b. /\ d1.pc = c.pc /\ d1.group = c.group /\ d1.plan = c.plan /\ d1.got = c.got
        /\ d1.at = c.at /\ d1.reply = reply /\ d1.took = c.took /\ d1.marked = c.marked
  BY <1>1a DEF Of
<1>1c. d1 = Of(c.pc, c.group, c.plan, c.got, c.at, reply, c.took, c.marked)
  BY <1>1a, <1>1b
<1>1d. d1 = Of(d1.pc, d1.group, d1.plan, d1.got, d1.at, d1.reply, d1.took, d1.marked)
  BY <1>1a, <1>1b
<1>2a. d2 = Of(d1.pc, d1.group, d1.plan, d1.got, d1.at, d1.reply, d1.took, marked)
  BY <1>1d, AssignedOne, Zenon
<1> HIDE DEF d2
<1>2b. /\ d2.pc = d1.pc /\ d2.group = d1.group /\ d2.plan = d1.plan /\ d2.got = d1.got
        /\ d2.at = d1.at /\ d2.reply = d1.reply /\ d2.took = d1.took /\ d2.marked = marked
  BY <1>2a DEF Of
<1>2c. d2 = Of(c.pc, c.group, c.plan, c.got, c.at, reply, c.took, marked)
  BY <1>2a, <1>1b, <1>2b
<1>2d. d2 = Of(d2.pc, d2.group, d2.plan, d2.got, d2.at, d2.reply, d2.took, d2.marked)
  BY <1>2a, <1>2b
<1> QED
  BY <1>0, <1>2c

\* The idle operation, and the one an admitted capture starts with.
LEMMA AssignedIdle ==
  ASSUME NEW pc, NEW group, NEW plan, NEW got
  PROVE  /\ Idle = Of("idle", FALSE, <<>>, <<>>, 1, NoReply, {}, {})
         /\ [Idle EXCEPT !.pc = pc, !.group = group, !.plan = plan, !.got = got]
               = Of(pc, group, plan, got, 1, NoReply, {}, {})
<1>1. Idle = Of("idle", FALSE, <<>>, <<>>, 1, NoReply, {}, {})
  BY DEF Idle, Of
<1>2. /\ Idle.at = 1 /\ Idle.reply = NoReply /\ Idle.took = {} /\ Idle.marked = {}
      /\ Idle = Of(Idle.pc, Idle.group, Idle.plan, Idle.got, Idle.at, Idle.reply, Idle.took, Idle.marked)
  <2>1. PICK idle, no, none : idle = Idle /\ no = FALSE /\ none = <<>>
    OBVIOUS
  <2>2. idle = Of("idle", no, none, none, 1, NoReply, {}, {})
    BY <1>1, <2>1, Zenon
  <2>3. /\ idle.at = 1 /\ idle.reply = NoReply /\ idle.took = {} /\ idle.marked = {}
        /\ idle = Of(idle.pc, idle.group, idle.plan, idle.got, idle.at, idle.reply, idle.took, idle.marked)
    BY <2>2, FieldsOf
  <2> QED
    BY <2>1, <2>3, Zenon
<1>3. [Idle EXCEPT !.pc = pc, !.group = group, !.plan = plan, !.got = got]
        = Of(pc, group, plan, got, Idle.at, Idle.reply, Idle.took, Idle.marked)
  <2>1. PICK c : c = Idle
    OBVIOUS
  <2>2. c = Of(c.pc, c.group, c.plan, c.got, c.at, c.reply, c.took, c.marked)
    BY <1>2, <2>1, Zenon
  <2>3. [c EXCEPT !.pc = pc, !.group = group, !.plan = plan, !.got = got]
          = Of(pc, group, plan, got, c.at, c.reply, c.took, c.marked)
    <3> DEFINE d1 == [c EXCEPT !.pc = pc]
    <3> DEFINE d2 == [d1 EXCEPT !.group = group]
    <3> DEFINE d3 == [d2 EXCEPT !.plan = plan]
    <3> DEFINE d4 == [d3 EXCEPT !.got = got]
    <3>0. [c EXCEPT !.pc = pc, !.group = group, !.plan = plan, !.got = got] = d4
      BY Zenon
    <3>1a. d1 = Of(pc, c.group, c.plan, c.got, c.at, c.reply, c.took, c.marked)
      BY <2>2, AssignedOne, Zenon
    <3> HIDE DEF d1
    <3>1b. /\ d1.pc = pc /\ d1.group = c.group /\ d1.plan = c.plan /\ d1.got = c.got
            /\ d1.at = c.at /\ d1.reply = c.reply /\ d1.took = c.took /\ d1.marked = c.marked
      BY <3>1a DEF Of
    <3>1c. d1 = Of(pc, c.group, c.plan, c.got, c.at, c.reply, c.took, c.marked)
      BY <3>1a, <3>1b
    <3>1d. d1 = Of(d1.pc, d1.group, d1.plan, d1.got, d1.at, d1.reply, d1.took, d1.marked)
      BY <3>1a, <3>1b
    <3>2a. d2 = Of(d1.pc, group, d1.plan, d1.got, d1.at, d1.reply, d1.took, d1.marked)
      BY <3>1d, AssignedOne, Zenon
    <3> HIDE DEF d2
    <3>2b. /\ d2.pc = d1.pc /\ d2.group = group /\ d2.plan = d1.plan /\ d2.got = d1.got
            /\ d2.at = d1.at /\ d2.reply = d1.reply /\ d2.took = d1.took /\ d2.marked = d1.marked
      BY <3>2a DEF Of
    <3>2c. d2 = Of(pc, group, c.plan, c.got, c.at, c.reply, c.took, c.marked)
      BY <3>2a, <3>1b, <3>2b
    <3>2d. d2 = Of(d2.pc, d2.group, d2.plan, d2.got, d2.at, d2.reply, d2.took, d2.marked)
      BY <3>2a, <3>2b
    <3>3a. d3 = Of(d2.pc, d2.group, plan, d2.got, d2.at, d2.reply, d2.took, d2.marked)
      BY <3>2d, AssignedOne, Zenon
    <3> HIDE DEF d3
    <3>3b. /\ d3.pc = d2.pc /\ d3.group = d2.group /\ d3.plan = plan /\ d3.got = d2.got
            /\ d3.at = d2.at /\ d3.reply = d2.reply /\ d3.took = d2.took /\ d3.marked = d2.marked
      BY <3>3a DEF Of
    <3>3c. d3 = Of(pc, group, plan, c.got, c.at, c.reply, c.took, c.marked)
      BY <3>3a, <3>1b, <3>2b, <3>3b
    <3>3d. d3 = Of(d3.pc, d3.group, d3.plan, d3.got, d3.at, d3.reply, d3.took, d3.marked)
      BY <3>3a, <3>3b
    <3>4a. d4 = Of(d3.pc, d3.group, d3.plan, got, d3.at, d3.reply, d3.took, d3.marked)
      BY <3>3d, AssignedOne, Zenon
    <3> HIDE DEF d4
    <3>4b. /\ d4.pc = d3.pc /\ d4.group = d3.group /\ d4.plan = d3.plan /\ d4.got = got
            /\ d4.at = d3.at /\ d4.reply = d3.reply /\ d4.took = d3.took /\ d4.marked = d3.marked
      BY <3>4a DEF Of
    <3>4c. d4 = Of(pc, group, plan, got, c.at, c.reply, c.took, c.marked)
      BY <3>4a, <3>1b, <3>2b, <3>3b, <3>4b
    <3>4d. d4 = Of(d4.pc, d4.group, d4.plan, d4.got, d4.at, d4.reply, d4.took, d4.marked)
      BY <3>4a, <3>4b
    <3> QED
      BY <3>0, <3>4c
  <2> QED
    BY <2>1, <2>3, Zenon
<1> QED
  BY <1>1, <1>2, <1>3, Zenon

\* No slot comes first of none.
LEMMA FirstsOfNone == ASSUME NEW plan PROVE Firsts(plan, 0) = {}
BY DEF Firsts

\* One more slot.
LEMMA FirstsGrow ==
  ASSUME NEW plan, NEW n \in Nat \ {0}
  PROVE  Firsts(plan, n) = Firsts(plan, n - 1) \cup {plan[n]}
<1>1. 1..n = (1..(n - 1)) \cup {n}
  OBVIOUS
<1>2. ASSUME NEW x \in Firsts(plan, n) PROVE x \in Firsts(plan, n - 1) \cup {plan[n]}
  BY <1>1 DEF Firsts
<1>3. ASSUME NEW x \in Firsts(plan, n - 1) \cup {plan[n]} PROVE x \in Firsts(plan, n)
  BY <1>1 DEF Firsts
<1> QED
  BY <1>2, <1>3

\* What each kind of report must say.
LEMMA TruthBySaying ==
  ASSUME NEW r
  PROVE  /\ r.mutation = "none" => (Truthful(r) <=> r.took = {} /\ r.marked = {})
         /\ r.mutation = "captured" => (Truthful(r) <=> r.took = Firsts(r.plan, 1))
         /\ r.mutation \in {"partial", "completed", "closed"} => (Truthful(r) <=> r.took = Firsts(r.plan, r.n))
         /\ r.mutation \in {"unknown", "partial_unknown"} =>
              (Truthful(r) <=> r.took = Firsts(r.plan, r.n) \/ r.took = Firsts(r.plan, r.n + 1))
         /\ r.mutation \in {"nothing", "committed"} => Truthful(r)
<1>1. ASSUME r.mutation = "none" PROVE Truthful(r) <=> r.took = {} /\ r.marked = {}
  BY <1>1 DEF Truthful
<1>2. ASSUME r.mutation = "captured" PROVE Truthful(r) <=> r.took = Firsts(r.plan, 1)
  BY <1>2 DEF Truthful
<1>3. ASSUME r.mutation \in {"partial", "completed", "closed"} PROVE Truthful(r) <=> r.took = Firsts(r.plan, r.n)
  BY <1>3 DEF Truthful
<1>4. ASSUME r.mutation \in {"unknown", "partial_unknown"}
      PROVE  Truthful(r) <=> r.took = Firsts(r.plan, r.n) \/ r.took = Firsts(r.plan, r.n + 1)
  BY <1>4 DEF Truthful
<1>5. ASSUME r.mutation \in {"nothing", "committed"} PROVE Truthful(r)
  BY <1>5 DEF Truthful
<1> QED
  BY <1>1, <1>2, <1>3, <1>4, <1>5

\* What the provider took, for each answer.
LEMMA TakenByReply ==
  ASSUME NEW c
  PROVE  /\ c.reply \in {NoReply, "refused"} => (Submitted(c) <=> c.took = Firsts(c.plan, c.at - 1))
         /\ c.reply \in {"closure", "accepted"} => (Submitted(c) <=> c.took = Firsts(c.plan, c.at))
         /\ c.reply = "unreadable" =>
              (Submitted(c) <=> c.took = Firsts(c.plan, c.at - 1) \/ c.took = Firsts(c.plan, c.at))
<1>1. ASSUME c.reply \in {NoReply, "refused"} PROVE Submitted(c) <=> c.took = Firsts(c.plan, c.at - 1)
  BY <1>1 DEF Submitted, NoReply
<1>2. ASSUME c.reply \in {"closure", "accepted"} PROVE Submitted(c) <=> c.took = Firsts(c.plan, c.at)
  BY <1>2 DEF Submitted, NoReply
<1>3. ASSUME c.reply = "unreadable"
      PROVE  Submitted(c) <=> c.took = Firsts(c.plan, c.at - 1) \/ c.took = Firsts(c.plan, c.at)
  BY <1>3 DEF Submitted, NoReply
<1> QED
  BY <1>1, <1>2, <1>3

\* An idle host has taken nothing.
LEMMA IdleIsSound == IsCapture(Idle) /\ Progress(Idle)
<1>1. Idle = Of("idle", FALSE, <<>>, <<>>, 1, NoReply, {}, {})
  BY AssignedIdle, Zenon
<1>2. /\ Idle.pc = "idle" /\ Idle.at = 1
      /\ Idle = Of(Idle.pc, Idle.group, Idle.plan, Idle.got, Idle.at, Idle.reply, Idle.took, Idle.marked)
  <2>1. PICK idle, no, none : idle = Idle /\ no = FALSE /\ none = <<>>
    OBVIOUS
  <2>2. idle = Of("idle", no, none, none, 1, NoReply, {}, {})
    BY <1>1, <2>1, Zenon
  <2>3. /\ idle.pc = "idle" /\ idle.at = 1
        /\ idle = Of(idle.pc, idle.group, idle.plan, idle.got, idle.at, idle.reply, idle.took, idle.marked)
    BY <2>2, FieldsOf
  <2> QED
    BY <2>1, <2>3, Zenon
<1>3. IsCapture(Idle)
  BY <1>2 DEF IsCapture
<1> QED
  BY <1>2, <1>3 DEF Progress

\* A step of one operation that reports nothing.
LEMMA OperationStep ==
  ASSUME CaptureInv, NEW h \in Host, NEW c, IsCapture(c), Progress(c),
         cap' = [cap EXCEPT ![h] = c], report' = report
  PROVE  CaptureInv'
<1>1. DOMAIN cap' = Host /\ cap'[h] = c /\ \A k \in Host \ {h} : cap'[k] = cap[k]
  BY DEF CaptureInv
<1>2. cap' = [k \in Host |-> cap'[k]]
  BY DEF CaptureInv
<1>3. \A k \in Host : IsCapture(cap'[k]) /\ Progress(cap'[k])
  BY <1>1 DEF CaptureInv
<1> QED
  BY <1>1, <1>2, <1>3 DEF CaptureInv

\* The record of the report that ends an operation.
Ending(c, said) ==
    [mutation |-> said.mutation, n |-> said.n, took |-> c.took, marked |-> c.marked, plan |-> c.plan]

\* A step that ends an operation with a true report.
LEMMA OperationEnds ==
  ASSUME CaptureInv, NEW h \in Host, NEW said, End(h, said), Truthful(Ending(cap[h], said))
  PROVE  CaptureInv'
<1>1. cap' = [cap EXCEPT ![h] = Idle] /\ report' = [report EXCEPT ![h] = Ending(cap[h], said)]
  BY DEF End, Ending
<1>2. DOMAIN cap' = Host /\ cap'[h] = Idle /\ \A k \in Host \ {h} : cap'[k] = cap[k]
  BY <1>1 DEF CaptureInv
<1>3. cap' = [k \in Host |-> cap'[k]]
  BY <1>1 DEF CaptureInv
<1>4. DOMAIN report' = Host /\ report'[h] = Ending(cap[h], said) /\ \A k \in Host \ {h} : report'[k] = report[k]
  BY <1>1 DEF CaptureInv
<1>5. report' = [k \in Host |-> report'[k]]
  BY <1>1 DEF CaptureInv
<1>6. \A k \in Host : IsCapture(cap'[k]) /\ Progress(cap'[k])
  BY <1>2, IdleIsSound DEF CaptureInv
<1>7. \A k \in Host : Truthful(report'[k])
  BY <1>4 DEF CaptureInv
<1> QED
  BY <1>2, <1>3, <1>4, <1>5, <1>6, <1>7 DEF CaptureInv

\* The fields of a report.
LEMMA EndingFields ==
  ASSUME NEW c, NEW mutation, NEW n
  PROVE  LET r == Ending(c, Says(mutation, n))
         IN /\ r.mutation = mutation /\ r.n = n /\ r.took = c.took
            /\ r.marked = c.marked /\ r.plan = c.plan
BY DEF Ending, Says
\* An operation that took and declared nothing may say so.
LEMMA NothingDone ==
  ASSUME CaptureInv, NEW h \in Host, cap[h].took = {}, cap[h].marked = {}, End(h, Says("none", 0))
  PROVE  CaptureInv'
<1>1. Truthful(Ending(cap[h], Says("none", 0)))
  BY TruthBySaying, EndingFields
<1> QED
  BY <1>1, OperationEnds

\* An admitted capture has taken nothing yet.
LEMMA EnterKeeps ==
  ASSUME CaptureInv, NEW h \in Host, NEW plan, NEW group \in BOOLEAN, Enter(h, plan, group)
  PROVE  CaptureInv'
<1> DEFINE pc == IF IsRelaySlot(plan[1]) THEN "review" ELSE "submit"
<1> DEFINE got == [i \in DOMAIN plan |-> "running"]
<1> DEFINE c == [Idle EXCEPT !.pc = pc, !.group = group, !.plan = plan, !.got = got]
<1>1. cap' = [cap EXCEPT ![h] = c]
  BY DEF Enter
<1>2. pc \in {"review", "submit"}
  OBVIOUS
<1> HIDE DEF pc, got
<1>3. c = Of(pc, group, plan, got, 1, NoReply, {}, {})
  BY AssignedIdle, Zenon
<1> HIDE DEF c
<1>4. /\ c.pc = pc /\ c.group = group /\ c.plan = plan /\ c.got = got /\ c.at = 1
      /\ c.reply = NoReply /\ c.took = {} /\ c.marked = {}
      /\ c = Of(c.pc, c.group, c.plan, c.got, c.at, c.reply, c.took, c.marked)
  BY <1>3, FieldsOf
<1>5. IsCapture(c)
  BY <1>4 DEF IsCapture
<1>6. Submitted(c)
  BY <1>4, TakenByReply, FirstsOfNone
<1>7. Progress(c)
  BY <1>2, <1>4, <1>6 DEF Progress
<1>8. report' = [report EXCEPT ![h] = Silent]
  BY DEF Enter
<1>9. Truthful(Silent)
  BY TruthBySaying DEF Silent
<1>10. DOMAIN cap' = Host /\ cap'[h] = c /\ \A k \in Host \ {h} : cap'[k] = cap[k]
  BY <1>1 DEF CaptureInv
<1>11. cap' = [k \in Host |-> cap'[k]]
  BY <1>1 DEF CaptureInv
<1>12. DOMAIN report' = Host /\ report'[h] = Silent /\ \A k \in Host \ {h} : report'[k] = report[k]
  BY <1>8 DEF CaptureInv
<1>13. report' = [k \in Host |-> report'[k]]
  BY <1>8 DEF CaptureInv
<1>14. \A k \in Host : IsCapture(cap'[k]) /\ Progress(cap'[k])
  BY <1>5, <1>7, <1>10 DEF CaptureInv
<1>15. \A k \in Host : Truthful(report'[k])
  BY <1>9, <1>12 DEF CaptureInv
<1> QED
  BY <1>10, <1>11, <1>12, <1>13, <1>14, <1>15 DEF CaptureInv

\* A host that is at rest has taken and declared nothing.
LEMMA RestingTookNothing ==
  ASSUME CaptureInv, NEW h \in Host, cap[h].pc = "idle"
  PROVE  cap[h].took = {} /\ cap[h].marked = {}
BY DEF CaptureInv, Progress, Idle

\* A capture starts, or is turned away.
LEMMA StartsKeep ==
  ASSUME CaptureInv, NEW h \in Host, CaptureGroup(h) \/ \E s \in Slot : Capture(h, s)
  PROVE  CaptureInv'
<1>1. ASSUME NEW s \in Slot, Capture(h, s) PROVE CaptureInv'
  <2>1. cap[h].took = {} /\ cap[h].marked = {}
    BY <1>1, RestingTookNothing DEF Capture
  <2>2. End(h, Says("none", 0)) \/ Enter(h, <<s>>, FALSE)
    BY <1>1 DEF Capture, NegotiateStatus
  <2> QED
    BY <2>1, <2>2, NothingDone, EnterKeeps
<1>2. CASE CaptureGroup(h)
  <2>1. cap[h].took = {} /\ cap[h].marked = {}
    BY <1>2, RestingTookNothing DEF CaptureGroup
  <2> DEFINE plan == SetToSortSeq(routes[h], <)
  <2>2. End(h, Says("none", 0)) \/ Enter(h, plan, TRUE)
    BY <1>2 DEF CaptureGroup, NegotiateStatus
  <2> HIDE DEF plan
  <2> QED
    BY <2>1, <2>2, NothingDone, EnterKeeps
<1> QED
  BY <1>1, <1>2

\* Reviewers settle one by one, then together.
LEMMA ReviewersKeep ==
  ASSUME CaptureInv, NEW h \in Host, ReviewersSettle(h) \/ \E i \in 1..Lenses : PrepareSlot(h, i)
  PROVE  CaptureInv'
<1>1. PICK c : c = cap[h]
  OBVIOUS
<1>2. IsCapture(c) /\ Progress(c) /\ c.pc = "review"
  BY <1>1 DEF CaptureInv, ReviewersSettle, PrepareSlot
<1>3. c = Of(c.pc, c.group, c.plan, c.got, c.at, c.reply, c.took, c.marked)
  BY <1>2 DEF IsCapture
<1>4. c.at = 1 /\ c.reply = NoReply /\ c.took = {} /\ c.marked = {}
  BY <1>2 DEF Progress
<1>5. ASSUME NEW i \in 1..Lenses, PrepareSlot(h, i) PROVE CaptureInv'
  <2>c. PICK why \in SlotEnds(h) : cap' = [cap EXCEPT ![h].got[i] = RelayFailure(why)]
    BY <1>5, Zenon DEF PrepareSlot
  <2> DEFINE got == [cap[h].got EXCEPT ![i] = RelayFailure(why)]
  <2>1. cap' = [cap EXCEPT ![h] = [c EXCEPT !.got = got]] /\ report' = report
    BY <1>1, <1>5, <2>c, Zenon DEF PrepareSlot
  <2> HIDE DEF got
  <2> DEFINE d == [c EXCEPT !.got = got]
  <2>2. d = Of(c.pc, c.group, c.plan, got, c.at, c.reply, c.took, c.marked)
    BY <1>3, AssignedOne, Zenon
  <2> HIDE DEF d
  <2>a. /\ d.pc = c.pc /\ d.group = c.group /\ d.plan = c.plan /\ d.got = got /\ d.at = c.at
        /\ d.reply = c.reply /\ d.took = c.took /\ d.marked = c.marked
        /\ d = Of(d.pc, d.group, d.plan, d.got, d.at, d.reply, d.took, d.marked)
    BY <2>2, FieldsOf
  <2>3. IsCapture(d)
    BY <1>2, <2>a DEF IsCapture
  <2>4. Progress(d)
    BY <1>2, <1>4, <2>a DEF Progress
  <2>5. cap' = [cap EXCEPT ![h] = d]
    BY <2>1 DEF d
  <2> QED
    BY <2>1, <2>3, <2>4, <2>5, OperationStep
<1>6. CASE ReviewersSettle(h)
  <2>1. \/ /\ cap' = [cap EXCEPT ![h].pc = IF cap[h].group THEN "check" ELSE "submit"]
           /\ report' = report
        \/ /\ ~cap[h].group
           /\ cap' = [cap EXCEPT ![h].pc = "declare"]
           /\ report' = report
        \/ End(h, Says("none", 0))
    BY <1>6 DEF ReviewersSettle
  <2>2. ASSUME NEW pc \in {"check", "submit", "declare"}, cap' = [cap EXCEPT ![h] = [c EXCEPT !.pc = pc]], report' = report,
               pc = "check" => c.group
        PROVE  CaptureInv'
    <3> DEFINE d == [c EXCEPT !.pc = pc]
    <3>1. d = Of(pc, c.group, c.plan, c.got, c.at, c.reply, c.took, c.marked)
      BY <1>3, AssignedOne, Zenon
    <3>2. cap' = [cap EXCEPT ![h] = d]
      BY <2>2
    <3> HIDE DEF d
    <3>a. /\ d.pc = pc /\ d.group = c.group /\ d.plan = c.plan /\ d.got = c.got /\ d.at = c.at
          /\ d.reply = c.reply /\ d.took = c.took /\ d.marked = c.marked
          /\ d = Of(d.pc, d.group, d.plan, d.got, d.at, d.reply, d.took, d.marked)
      BY <3>1, FieldsOf
    <3>3. d.at = 1 /\ d.reply = NoReply /\ d.took = {} /\ d.marked = {}
      BY <1>4, <3>a
    <3>4. IsCapture(d)
      BY <1>2, <3>a DEF IsCapture
    <3>5. Submitted(d)
      BY <3>3, TakenByReply, FirstsOfNone
    <3>6. d.took = Firsts(d.plan, d.at - 1)
      BY <3>3, FirstsOfNone
    <3>7. Progress(d)
      BY <2>2, <3>3, <3>a, <3>5, <3>6 DEF Progress
    <3> QED
      BY <2>2, <3>2, <3>4, <3>7, OperationStep
  <2> QED
    BY <1>1, <1>4, <2>1, <2>2, NothingDone
<1> QED
  BY <1>5, <1>6
\* What a host knows of an operation in progress.
LEMMA InProgress ==
  ASSUME CaptureInv, NEW h \in Host, NEW c, c = cap[h]
  PROVE  /\ IsCapture(c) /\ Progress(c)
         /\ c = Of(c.pc, c.group, c.plan, c.got, c.at, c.reply, c.took, c.marked)
BY DEF CaptureInv, IsCapture

\* The progress of a group is told truly, when at most an uncertain
\* submission is not counted.
LEMMA ProgressIsTrue ==
  ASSUME CaptureInv, NEW h \in Host, NEW n \in Nat, NEW uncertain \in BOOLEAN,
         \/ cap[h].took = Firsts(cap[h].plan, n)
         \/ uncertain /\ cap[h].took = Firsts(cap[h].plan, n + 1),
         cap[h].marked = {},
         End(h, GroupProgress(h, n, uncertain))
  PROVE  CaptureInv'
<1> DEFINE mutation == IF n = 0 THEN IF uncertain THEN "unknown" ELSE "none"
                       ELSE IF uncertain THEN "partial_unknown"
                            ELSE IF n = Len(cap[h].plan) THEN "completed" ELSE "partial"
<1> DEFINE r == Ending(cap[h], Says(mutation, n))
<1>1. GroupProgress(h, n, uncertain) = Says(mutation, n)
  BY DEF GroupProgress
<1>2. /\ mutation \in {"unknown", "none", "partial_unknown", "completed", "partial"}
      /\ mutation = "none" => n = 0 /\ ~uncertain
      /\ mutation \in {"completed", "partial"} => ~uncertain
  OBVIOUS
<1> HIDE DEF mutation
<1>3. r.mutation = mutation /\ r.n = n /\ r.took = cap[h].took /\ r.marked = cap[h].marked /\ r.plan = cap[h].plan
  BY EndingFields
<1> HIDE DEF r
<1>4. Firsts(cap[h].plan, 0) = {}
  BY FirstsOfNone
<1>5. Truthful(r)
  BY <1>2, <1>3, <1>4, TruthBySaying
<1> QED
  BY <1>1, <1>5, OperationEnds DEF r

\* A fresh STATUS lets a group go on, or ends it.
LEMMA SuffixKeeps ==
  ASSUME CaptureInv, NEW h \in Host, CheckSuffix(h)
  PROVE  CaptureInv'
<1>1. PICK c : c = cap[h]
  OBVIOUS
<1>2. IsCapture(c) /\ Progress(c) /\ c = Of(c.pc, c.group, c.plan, c.got, c.at, c.reply, c.took, c.marked)
  BY <1>1, InProgress
<1>3. c.pc = "check"
  BY <1>1 DEF CheckSuffix
<1>4. c.group /\ c.took = Firsts(c.plan, c.at - 1) /\ c.marked = {} /\ c.reply = NoReply /\ c.at \in Nat \ {0}
  BY <1>2, <1>3 DEF Progress, IsCapture
<1>5. \/ End(h, GroupProgress(h, cap[h].at - 1, FALSE))
      \/ cap' = [cap EXCEPT ![h].pc = "submit"] /\ report' = report
  BY DEF CheckSuffix, NegotiateStatus
<1>6. CASE End(h, GroupProgress(h, cap[h].at - 1, FALSE))
  <2>1. c.at - 1 \in Nat
    BY <1>4
  <2> QED
    BY <1>1, <1>4, <1>6, <2>1, ProgressIsTrue
<1>7. CASE cap' = [cap EXCEPT ![h].pc = "submit"] /\ report' = report
  <2> DEFINE d == [c EXCEPT !.pc = "submit"]
  <2>1. cap' = [cap EXCEPT ![h] = d]
    BY <1>1, <1>7, Zenon
  <2>2. d = Of("submit", c.group, c.plan, c.got, c.at, c.reply, c.took, c.marked)
    BY <1>2, AssignedOne, Zenon
  <2> HIDE DEF d
  <2>3. /\ d.pc = "submit" /\ d.group = c.group /\ d.plan = c.plan /\ d.got = c.got /\ d.at = c.at
        /\ d.reply = c.reply /\ d.took = c.took /\ d.marked = c.marked
        /\ d = Of(d.pc, d.group, d.plan, d.got, d.at, d.reply, d.took, d.marked)
    BY <2>2, FieldsOf
  <2>4. IsCapture(d)
    BY <1>2, <2>3 DEF IsCapture
  <2>5. Submitted(d)
    BY <1>4, <2>3, TakenByReply
  <2>6. Progress(d)
    BY <1>4, <2>3, <2>5 DEF Progress
  <2> QED
    BY <1>7, <2>1, <2>4, <2>6, OperationStep
<1> QED
  BY <1>5, <1>6, <1>7

\* A submission takes the slot it is for, or nothing, and is answered accordingly.
LEMMA SubmitKeeps ==
  ASSUME CaptureInv, ~Malformed, NEW h \in Host, Submit(h)
  PROVE  CaptureInv'
<1>1. PICK c : c = cap[h]
  OBVIOUS
<1>2. IsCapture(c) /\ Progress(c) /\ c = Of(c.pc, c.group, c.plan, c.got, c.at, c.reply, c.took, c.marked)
  BY <1>1, InProgress
<1>3. c.pc = "submit" /\ c.reply = NoReply
  BY <1>1 DEF Submit
<1>4. c.took = Firsts(c.plan, c.at - 1) /\ c.marked = {} /\ c.at \in Nat \ {0}
  BY <1>2, <1>3, TakenByReply DEF Progress, IsCapture
<1> DEFINE s == cap[h].plan[cap[h].at]
<1>5. PICK admits \in BOOLEAN :
        /\ admits => s \in Offered
        /\ \E answer \in Answers(s, admits) :
              cap' = [cap EXCEPT ![h] = [@ EXCEPT !.reply = ProcessReply(h, answer),
                                                  !.took = cap[h].took \cup (IF admits THEN {s} ELSE {})]]
  BY Zenon DEF Submit
<1>6. PICK answer \in Answers(s, admits) :
        cap' = [cap EXCEPT ![h] = [@ EXCEPT !.reply = ProcessReply(h, answer),
                                            !.took = cap[h].took \cup (IF admits THEN {s} ELSE {})]]
  BY <1>5, Zenon
<1> DEFINE reply == ProcessReply(h, answer)
<1> DEFINE took == c.took \cup (IF admits THEN {s} ELSE {})
<1> DEFINE d == [c EXCEPT !.reply = reply, !.took = took]
<1>7. cap' = [cap EXCEPT ![h] = d]
  BY <1>1, <1>6, Zenon
<1>8. report' = report
  BY DEF Submit
<1>9. took = Firsts(c.plan, IF admits THEN c.at ELSE c.at - 1)
  <2>1. s = c.plan[c.at]
    BY <1>1
  <2>2. Firsts(c.plan, c.at) = Firsts(c.plan, c.at - 1) \cup {c.plan[c.at]}
    BY <1>4, FirstsGrow
  <2> HIDE DEF s
  <2> QED
    BY <1>4, <2>1, <2>2
<1>10. /\ reply \in {"unreadable", "refused", "closure", "accepted"}
       /\ admits => reply # "refused"
       /\ ~admits => reply \in {"unreadable", "refused"}
  BY <1>6 DEF Answers, ProcessReply
<1>11. d = Of(c.pc, c.group, c.plan, c.got, c.at, reply, took, c.marked)
  BY <1>2, AssignedReplyTook
<1> HIDE DEF reply, took, d
<1>12. /\ d.pc = c.pc /\ d.group = c.group /\ d.plan = c.plan /\ d.got = c.got /\ d.at = c.at
       /\ d.reply = reply /\ d.took = took /\ d.marked = c.marked
       /\ d = Of(d.pc, d.group, d.plan, d.got, d.at, d.reply, d.took, d.marked)
  BY <1>11, FieldsOf
<1>13. IsCapture(d)
  BY <1>2, <1>12 DEF IsCapture
<1>14. Submitted(d)
  <2>1. CASE admits
    BY <1>9, <1>10, <1>12, <2>1, TakenByReply
  <2>2. CASE ~admits
    BY <1>9, <1>10, <1>12, <2>2, TakenByReply
  <2> QED
    BY <2>1, <2>2
<1>15. Progress(d)
  BY <1>3, <1>4, <1>10, <1>12, <1>14 DEF Progress
<1> QED
  BY <1>7, <1>8, <1>13, <1>15, OperationStep
\* The closing answer and the accepted result tell of what was taken.
LEMMA AcceptanceKeeps ==
  ASSUME CaptureInv, NEW h \in Host, ClosureArrives(h) \/ ResultAccepted(h)
  PROVE  CaptureInv'
<1>1. PICK c : c = cap[h]
  OBVIOUS
<1>2. IsCapture(c) /\ Progress(c) /\ c = Of(c.pc, c.group, c.plan, c.got, c.at, c.reply, c.took, c.marked)
  BY <1>1, InProgress
<1>3. c.pc = "submit" /\ c.reply \in {"closure", "accepted"}
  BY <1>1 DEF ClosureArrives, ResultAccepted
<1>4. c.took = Firsts(c.plan, c.at) /\ c.marked = {} /\ c.at \in Nat \ {0} /\ (~c.group => c.at = 1)
  BY <1>2, <1>3, TakenByReply DEF Progress, IsCapture
<1>5. ASSUME NEW mutation \in {"closed", "captured"}, NEW n, c.took = Firsts(c.plan, n), mutation = "captured" => n = 1,
             End(h, Says(mutation, n))
      PROVE  CaptureInv'
  <2> DEFINE r == Ending(cap[h], Says(mutation, n))
  <2>1. r.mutation = mutation /\ r.n = n /\ r.took = c.took /\ r.plan = c.plan
    BY <1>1, EndingFields
  <2> HIDE DEF r
  <2>2. Truthful(r)
    BY <1>5, <2>1, TruthBySaying
  <2> QED
    BY <1>5, <2>2, OperationEnds DEF r
<1>6. CASE ClosureArrives(h)
  BY <1>1, <1>4, <1>5, <1>6 DEF ClosureArrives
<1>7. CASE ResultAccepted(h)
  <2>1. CASE ~c.group
    BY <1>1, <1>4, <1>5, <1>7, <2>1 DEF ResultAccepted
  <2>2. CASE c.group
    <3> DEFINE pc == IF c.at = Len(c.plan) THEN "conclude" ELSE "check"
    <3> DEFINE reply == NoReply
    <3> DEFINE at == c.at + 1
    <3> DEFINE d == [c EXCEPT !.reply = reply, !.at = at, !.pc = pc]
    <3>1. cap' = [cap EXCEPT ![h] = d] /\ report' = report
      <4>1. cap' = [cap EXCEPT ![h] = [@ EXCEPT !.reply = NoReply, !.at = cap[h].at + 1,
                       !.pc = IF cap[h].at = Len(cap[h].plan) THEN "conclude" ELSE "check"]]
            /\ report' = report
        BY <1>1, <1>7, <2>2 DEF ResultAccepted
      <4> QED
        BY <1>1, <4>1, Zenon
    <3>2. pc \in {"conclude", "check"} /\ at \in Nat /\ at > 1 /\ at - 1 = c.at /\ reply = NoReply
      BY <1>4
    <3> HIDE DEF pc, at, reply
    <3>3. d = Of(pc, c.group, c.plan, c.got, at, reply, c.took, c.marked)
      <4> DEFINE d1 == [c EXCEPT !.reply = reply]
      <4> DEFINE d2 == [d1 EXCEPT !.at = at]
      <4> DEFINE d3 == [d2 EXCEPT !.pc = pc]
      <4>0. [c EXCEPT !.reply = reply, !.at = at, !.pc = pc] = d3
        BY Zenon
      <4>1a. d1 = Of(c.pc, c.group, c.plan, c.got, c.at, reply, c.took, c.marked)
        BY <1>2, AssignedOne, Zenon
      <4> HIDE DEF d1
      <4>1b. /\ d1.pc = c.pc /\ d1.group = c.group /\ d1.plan = c.plan /\ d1.got = c.got
              /\ d1.at = c.at /\ d1.reply = reply /\ d1.took = c.took /\ d1.marked = c.marked
        BY <4>1a DEF Of
      <4>1c. d1 = Of(c.pc, c.group, c.plan, c.got, c.at, reply, c.took, c.marked)
        BY <4>1a, <4>1b
      <4>1d. d1 = Of(d1.pc, d1.group, d1.plan, d1.got, d1.at, d1.reply, d1.took, d1.marked)
        BY <4>1a, <4>1b
      <4>2a. d2 = Of(d1.pc, d1.group, d1.plan, d1.got, at, d1.reply, d1.took, d1.marked)
        BY <4>1d, AssignedOne, Zenon
      <4> HIDE DEF d2
      <4>2b. /\ d2.pc = d1.pc /\ d2.group = d1.group /\ d2.plan = d1.plan /\ d2.got = d1.got
              /\ d2.at = at /\ d2.reply = d1.reply /\ d2.took = d1.took /\ d2.marked = d1.marked
        BY <4>2a DEF Of
      <4>2c. d2 = Of(c.pc, c.group, c.plan, c.got, at, reply, c.took, c.marked)
        BY <4>2a, <4>1b, <4>2b
      <4>2d. d2 = Of(d2.pc, d2.group, d2.plan, d2.got, d2.at, d2.reply, d2.took, d2.marked)
        BY <4>2a, <4>2b
      <4>3a. d3 = Of(pc, d2.group, d2.plan, d2.got, d2.at, d2.reply, d2.took, d2.marked)
        BY <4>2d, AssignedOne, Zenon
      <4> HIDE DEF d3
      <4>3b. /\ d3.pc = pc /\ d3.group = d2.group /\ d3.plan = d2.plan /\ d3.got = d2.got
              /\ d3.at = d2.at /\ d3.reply = d2.reply /\ d3.took = d2.took /\ d3.marked = d2.marked
        BY <4>3a DEF Of
      <4>3c. d3 = Of(pc, c.group, c.plan, c.got, at, reply, c.took, c.marked)
        BY <4>3a, <4>1b, <4>2b, <4>3b
      <4>3d. d3 = Of(d3.pc, d3.group, d3.plan, d3.got, d3.at, d3.reply, d3.took, d3.marked)
        BY <4>3a, <4>3b
      <4> QED
        BY <4>0, <4>3c
    <3> HIDE DEF d
    <3>4. /\ d.pc = pc /\ d.group = c.group /\ d.plan = c.plan /\ d.got = c.got /\ d.at = at
          /\ d.reply = reply /\ d.took = c.took /\ d.marked = c.marked
          /\ d = Of(d.pc, d.group, d.plan, d.got, d.at, d.reply, d.took, d.marked)
      BY <3>3, FieldsOf
    <3>5. IsCapture(d)
      BY <2>2, <3>2, <3>4 DEF IsCapture
    <3>6. Progress(d)
      BY <1>4, <2>2, <3>2, <3>4 DEF Progress
    <3> QED
      BY <3>1, <3>5, <3>6, OperationStep
  <2> QED
    BY <2>1, <2>2
<1> QED
  BY <1>6, <1>7

\* A failed submission is told at once only when the refusal was read.
LEMMA FailureKeeps ==
  ASSUME CaptureInv, NEW h \in Host, SubmissionFails(h)
  PROVE  CaptureInv'
<1>1. PICK c : c = cap[h]
  OBVIOUS
<1>2. IsCapture(c) /\ Progress(c) /\ c = Of(c.pc, c.group, c.plan, c.got, c.at, c.reply, c.took, c.marked)
  BY <1>1, InProgress
<1>3. c.pc = "submit" /\ c.reply \in {"refused", "unreadable"}
  <2>1. c.pc = "submit" /\ c.reply \in {"refused", "unreadable", "malformed"}
    BY <1>1 DEF SubmissionFails
  <2> QED
    BY <1>2, <2>1 DEF Progress, NoReply
<1>4. /\ c.marked = {} /\ c.at \in Nat \ {0} /\ c.at - 1 \in Nat /\ (~c.group => c.at = 1)
      /\ c.reply = "refused" => c.took = Firsts(c.plan, c.at - 1)
      /\ c.took = Firsts(c.plan, c.at - 1) \/ c.took = Firsts(c.plan, c.at)
  BY <1>2, <1>3, TakenByReply DEF Progress, IsCapture
<1>5. CASE c.reply = "refused"
  <2>1. End(h, IF cap[h].group THEN GroupProgress(h, cap[h].at - 1, FALSE) ELSE Says("none", 0))
    <3>1. ~NeedsStatus(cap[h].reply)
      BY <1>1, <1>5 DEF NeedsStatus, MutationOutcome
    <3>2. (cap[h].reply = "malformed") = FALSE
      BY <1>1, <1>5
    <3> QED
      BY <3>1, <3>2 DEF SubmissionFails
  <2>2. CASE c.group
    BY <1>1, <1>4, <1>5, <2>1, <2>2, ProgressIsTrue
  <2>3. CASE ~c.group
    BY <1>1, <1>4, <1>5, <2>1, <2>3, NothingDone, FirstsOfNone
  <2> QED
    BY <2>2, <2>3
<1>6. CASE c.reply = "unreadable"
  <2> DEFINE d == [c EXCEPT !.pc = "reconcile"]
  <2>1. cap' = [cap EXCEPT ![h] = d] /\ report' = report
    <3>1. NeedsStatus(cap[h].reply)
      BY <1>1, <1>6 DEF NeedsStatus, MutationOutcome
    <3>2. cap' = [cap EXCEPT ![h].pc = "reconcile"] /\ report' = report
      BY <3>1 DEF SubmissionFails
    <3> QED
      BY <1>1, <3>2, Zenon
  <2>2. d = Of("reconcile", c.group, c.plan, c.got, c.at, c.reply, c.took, c.marked)
    BY <1>2, AssignedOne, Zenon
  <2> HIDE DEF d
  <2>3. /\ d.pc = "reconcile" /\ d.group = c.group /\ d.plan = c.plan /\ d.got = c.got /\ d.at = c.at
        /\ d.reply = c.reply /\ d.took = c.took /\ d.marked = c.marked
        /\ d = Of(d.pc, d.group, d.plan, d.got, d.at, d.reply, d.took, d.marked)
    BY <2>2, FieldsOf
  <2>4. IsCapture(d)
    BY <1>2, <2>3 DEF IsCapture
  <2>5. Progress(d)
    BY <1>4, <2>3 DEF Progress
  <2> QED
    BY <2>1, <2>4, <2>5, OperationStep
<1> QED
  BY <1>3, <1>5, <1>6

\* The STATUS after an unknown outcome, or after a whole group.
LEMMA ReconcileKeeps ==
  ASSUME CaptureInv, NEW h \in Host, Reconcile(h)
  PROVE  CaptureInv'
<1>1. PICK c : c = cap[h]
  OBVIOUS
<1>2. IsCapture(c) /\ Progress(c)
  BY <1>1, InProgress
<1>3. c.at - 1 \in Nat /\ c.at \in Nat \ {0} /\ (~c.group => c.at = 1)
  BY <1>2 DEF IsCapture
<1>4. CASE c.pc = "conclude"
  <2>1. c.took = Firsts(c.plan, c.at - 1) /\ c.marked = {}
    BY <1>2, <1>4 DEF Progress
  <2>2. End(h, GroupProgress(h, cap[h].at - 1, FALSE))
    BY <1>1, <1>4 DEF Reconcile
  <2> QED
    BY <1>1, <1>3, <2>1, <2>2, ProgressIsTrue
<1>5. CASE c.pc = "reconcile"
  <2>1. (c.took = Firsts(c.plan, c.at - 1) \/ c.took = Firsts(c.plan, c.at)) /\ c.marked = {}
    BY <1>2, <1>5 DEF Progress
  <2>2. CASE c.group
    <3>1. End(h, GroupProgress(h, cap[h].at - 1, TRUE))
      BY <1>1, <1>5, <2>2 DEF Reconcile
    <3>2. cap[h].at - 1 \in Nat /\ (cap[h].at - 1) + 1 = cap[h].at
      BY <1>1, <1>3
    <3> QED
      BY <1>1, <2>1, <3>1, <3>2, ProgressIsTrue
  <2>3. CASE ~c.group
    <3>1. End(h, Says("unknown", 0))
      BY <1>1, <1>5, <2>3 DEF Reconcile
    <3> DEFINE r == Ending(cap[h], Says("unknown", 0))
    <3>2. r.mutation = "unknown" /\ r.n = 0 /\ r.took = c.took /\ r.plan = c.plan
      BY <1>1, EndingFields
    <3> HIDE DEF r
    <3>3. c.took = Firsts(c.plan, 0) \/ c.took = Firsts(c.plan, 0 + 1)
      BY <1>3, <2>1, <2>3
    <3>4. Truthful(r)
      BY <3>2, <3>3, TruthBySaying
    <3> QED
      BY <3>1, <3>4, OperationEnds DEF r
  <2> QED
    BY <2>2, <2>3
<1> QED
  BY <1>1, <1>4, <1>5 DEF Reconcile
\* The declaration of a lens that timed out, and its answer.
LEMMA DeclarationKeeps ==
  ASSUME CaptureInv, NEW h \in Host, Declare(h) \/ DeclarationSettles(h)
  PROVE  CaptureInv'
<1>1. PICK c : c = cap[h]
  OBVIOUS
<1>2. IsCapture(c) /\ Progress(c) /\ c = Of(c.pc, c.group, c.plan, c.got, c.at, c.reply, c.took, c.marked)
  BY <1>1, InProgress
<1>3. c.pc = "declare"
  BY <1>1 DEF Declare, DeclarationSettles
<1>4. c.took = {} /\ c.at = 1 /\ (c.reply \in {NoReply, "refused", "no_verb"} => c.marked = {})
  BY <1>2, <1>3 DEF Progress
<1>5. CASE Declare(h)
  <2> DEFINE s == cap[h].plan[1]
  <2>1. PICK records \in BOOLEAN :
          \E answer \in IF records THEN {"recorded", "unreadable"} ELSE {"refused", "unreadable", "no_verb"} :
              cap' = [cap EXCEPT ![h] = [@ EXCEPT !.reply = ProcessReply(h, answer),
                                                  !.marked = IF records THEN {s} ELSE {}]]
    BY <1>5, Zenon DEF Declare
  <2>2. PICK answer \in IF records THEN {"recorded", "unreadable"} ELSE {"refused", "unreadable", "no_verb"} :
              cap' = [cap EXCEPT ![h] = [@ EXCEPT !.reply = ProcessReply(h, answer),
                                                  !.marked = IF records THEN {s} ELSE {}]]
    BY <2>1, Zenon
  <2> DEFINE reply == ProcessReply(h, answer)
  <2> DEFINE marked == IF records THEN {s} ELSE {}
  <2> DEFINE d == [c EXCEPT !.reply = reply, !.marked = marked]
  <2>3. cap' = [cap EXCEPT ![h] = d]
    BY <1>1, <2>2, Zenon
  <2>4. report' = report
    BY <1>5 DEF Declare
  <2>5. reply \in {NoReply, "refused", "no_verb"} => marked = {}
    BY <2>2 DEF ProcessReply, NoReply
  <2> HIDE DEF reply, marked
  <2>6. d = Of(c.pc, c.group, c.plan, c.got, c.at, reply, c.took, marked)
    BY <1>2, AssignedReplyMarked
  <2> HIDE DEF d
  <2>7. /\ d.pc = c.pc /\ d.group = c.group /\ d.plan = c.plan /\ d.got = c.got /\ d.at = c.at
        /\ d.reply = reply /\ d.took = c.took /\ d.marked = marked
        /\ d = Of(d.pc, d.group, d.plan, d.got, d.at, d.reply, d.took, d.marked)
    BY <2>6, FieldsOf
  <2>8. IsCapture(d)
    BY <1>2, <2>7 DEF IsCapture
  <2>9. Progress(d)
    BY <1>3, <1>4, <2>5, <2>7 DEF Progress
  <2> QED
    BY <2>3, <2>4, <2>8, <2>9, OperationStep
<1>6. CASE DeclarationSettles(h)
  <2>1. \/ End(h, Says("committed", 0))
        \/ End(h, Says("unknown", 0))
        \/ cap[h].reply \in {"refused", "no_verb"} /\ End(h, Says("none", 0))
    BY <1>6 DEF DeclarationSettles
  <2>2. CASE End(h, Says("committed", 0))
    BY <2>2, TruthBySaying, EndingFields, OperationEnds
  <2>3. CASE End(h, Says("unknown", 0))
    <3> DEFINE r == Ending(cap[h], Says("unknown", 0))
    <3>1. r.mutation = "unknown" /\ r.n = 0 /\ r.took = c.took /\ r.plan = c.plan
      BY <1>1, EndingFields
    <3> HIDE DEF r
    <3>2. c.took = Firsts(c.plan, 0)
      BY <1>4, FirstsOfNone
    <3>3. Truthful(r)
      BY <3>1, <3>2, TruthBySaying
    <3> QED
      BY <2>3, <3>3, OperationEnds DEF r
  <2>4. CASE cap[h].reply \in {"refused", "no_verb"} /\ End(h, Says("none", 0))
    BY <1>1, <1>4, <2>4, NothingDone
  <2> QED
    BY <2>1, <2>2, <2>3, <2>4
<1> QED
  BY <1>5, <1>6

\* At the start every host rests and nothing was said.
LEMMA CapturesInitially == CaptureInit => CaptureInv
<1> SUFFICES ASSUME CaptureInit PROVE CaptureInv
  OBVIOUS
<1>1. cap = [h \in Host |-> Idle] /\ report = [h \in Host |-> Silent]
  BY DEF CaptureInit
<1>2. Truthful(Silent)
  BY TruthBySaying DEF Silent
<1>3. \A h \in Host : IsCapture(cap[h]) /\ Progress(cap[h]) /\ Truthful(report[h])
  BY <1>1, <1>2, IdleIsSound
<1>4. DOMAIN cap = Host /\ DOMAIN report = Host
  BY <1>1
<1>5. cap = [h \in Host |-> cap[h]] /\ report = [h \in Host |-> report[h]]
  BY <1>1
<1> QED
  BY <1>3, <1>4, <1>5 DEF CaptureInv

\* Every step keeps the invariant, when the provider's answers can be parsed.
LEMMA CapturesStep ==
  ASSUME ~Malformed
  PROVE  CaptureInv /\ [CaptureNext]_captureVars => CaptureInv'
<1> SUFFICES ASSUME CaptureInv, [CaptureNext]_captureVars PROVE CaptureInv'
  OBVIOUS
<1>1. ASSUME UNCHANGED <<cap, report>> PROVE CaptureInv'
  BY <1>1 DEF CaptureInv
<1>2. ASSUME NEW h \in Host, AskStatus(h) \/ Abort(h) PROVE CaptureInv'
  <2>1. UNCHANGED <<cap, report>>
    BY <1>2 DEF AskStatus, Abort
  <2> QED
    BY <1>1, <2>1
<1>3. ASSUME NEW h \in Host, CaptureGroup(h) PROVE CaptureInv'
  BY <1>3, StartsKeep
<1>4. ASSUME NEW h \in Host, NEW s \in Slot, Capture(h, s) PROVE CaptureInv'
  BY <1>4, StartsKeep
<1>5. ASSUME NEW s \in Slot, Withdraw(s) PROVE CaptureInv'
  <2>1. UNCHANGED <<cap, report>>
    BY <1>5 DEF Withdraw
  <2> QED
    BY <1>1, <2>1
<1>6. ASSUME NEW h \in Host, HostMoves(h) PROVE CaptureInv'
  <2>1. ASSUME ReviewersSettle(h) \/ \E i \in 1..Lenses : PrepareSlot(h, i) PROVE CaptureInv'
    BY <2>1, ReviewersKeep
  <2>2. ASSUME CheckSuffix(h) PROVE CaptureInv'
    BY <2>2, SuffixKeeps
  <2>3. ASSUME Submit(h) PROVE CaptureInv'
    BY <2>3, SubmitKeeps
  <2>4. ASSUME ClosureArrives(h) \/ ResultAccepted(h) PROVE CaptureInv'
    BY <2>4, AcceptanceKeeps
  <2>5. ASSUME SubmissionFails(h) PROVE CaptureInv'
    BY <2>5, FailureKeeps
  <2>6. ASSUME Reconcile(h) PROVE CaptureInv'
    BY <2>6, ReconcileKeeps
  <2>7. ASSUME Declare(h) \/ DeclarationSettles(h) PROVE CaptureInv'
    BY <2>7, DeclarationKeeps
  <2> QED
    BY <1>6, <2>1, <2>2, <2>3, <2>4, <2>5, <2>6, <2>7 DEF HostMoves
<1>7. CASE UNCHANGED captureVars
  BY <1>1, <1>7 DEF captureVars
<1> QED
  BY <1>2, <1>3, <1>4, <1>5, <1>6, <1>7 DEF CaptureNext

\* What a capture reports to its caller is what it did to the provider, for
\* any hosts and number of lenses and whatever is aborted, killed or captured
\* meanwhile, as long as an admitted submission answers what can be parsed
\* (gentle_review_capture and gentle_review_capture_group of gentle-ai.ts).
THEOREM CaptureReportsAreTrue ==
  ASSUME ~Malformed
  PROVE  CaptureSpec => []ReportIsTrue
<1>1. CaptureInv => ReportIsTrue
  <2> SUFFICES ASSUME CaptureInv, NEW h \in Host
               PROVE  LET r == report[h]
                          Prefix(n) == {r.plan[i] : i \in 1 .. n}
                      IN CASE r.mutation = "none" -> r.took = {} /\ r.marked = {}
                           [] r.mutation = "captured" -> r.took = Prefix(1)
                           [] r.mutation \in {"partial", "completed", "closed"} -> r.took = Prefix(r.n)
                           [] r.mutation \in {"unknown", "partial_unknown"} ->
                                  r.took = Prefix(r.n) \/ r.took = Prefix(r.n + 1)
                           [] OTHER -> TRUE
    BY DEF ReportIsTrue
  <2>1. Truthful(report[h])
    BY DEF CaptureInv
  <2> QED
    BY <2>1 DEF Truthful, Firsts
<1>2. CaptureInv /\ [CaptureNext]_captureVars => CaptureInv'
  BY CapturesStep
<1> QED
  BY CapturesInitially, <1>1, <1>2, PTL DEF CaptureSpec

-----------------------------------------------------------------------------
(* The maintenance operations.                                             *)

\* A host that waits for a command has an operation, and the command is its.
Working ==
  \A h \in Admin :
    /\ admin[h].at # "idle" => admin[h].op \in Operation
    /\ admin[h].at \in {"call", "reconcile"} => command[h].op \in Operation

\* The cancelled commands belong to operations that said "unknown".
StraysOK ==
  /\ strays \subseteq [by : Admin, op : Operation, revision : 0..MaxRevision, target : Target, said : {"none", "unknown"}]
  /\ \A s \in strays : s.said = "unknown"

MaintenanceInv == MaintenanceTypeOK /\ Working /\ MaintenanceReportIsTrue

\* Records of an operation and of its command.
AdminRecord == [op : Operation \cup {"none"}, at : {"idle", "status", "confirm", "recheck", "call", "reconcile"},
                revision : 0..MaxRevision, target : Target]
CommandRecord == [op : Operation \cup {"none"}, revision : 0..MaxRevision, target : Target, committed : BOOLEAN]

\* Some target exists, so the records of a host at rest are well formed.
LEMMA RestIsTyped ==
  /\ Resting \in AdminRecord /\ Resting.at = "idle"
  /\ NoCommand \in CommandRecord
<1>1. (CHOOSE t \in Target : TRUE) \in Target
  BY MaintenanceAssumption
<1>2. 0 \in 0..MaxRevision
  BY MaintenanceAssumption
<1> QED
  BY <1>1, <1>2 DEF Resting, NoCommand, AdminRecord, CommandRecord

\* They still do when none is added.
LEMMA StraysStay ==
  ASSUME MaintenanceInv, strays' = strays
  PROVE  StraysOK'
BY DEF MaintenanceInv, MaintenanceTypeOK, MaintenanceReportIsTrue, StraysOK

\* A report leaves the invariant when its outcome agrees with the command.
LEMMA ReportsKeeps ==
  ASSUME MaintenanceInv, NEW h \in Admin, NEW outcome \in {"none", "unknown", "committed"}, NEW own \in BOOLEAN,
         outcome = "committed" => own, outcome = "none" => ~own,
         Reports(h, outcome, own),
         lineage' = lineage, adminOps' \in 0..MaxAdminOps, StraysOK'
  PROVE  MaintenanceInv'
<1> DEFINE said == [outcome |-> outcome, committed |-> own]
<1>1. adminSaid' = [adminSaid EXCEPT ![h] = said] /\ said \in [outcome : {"none", "unknown", "committed"}, committed : BOOLEAN]
  BY DEF Reports
<1>2. said.outcome = outcome /\ said.committed = own
  OBVIOUS
<1> HIDE DEF said
<1>3. adminSaid' \in [Admin -> [outcome : {"none", "unknown", "committed"}, committed : BOOLEAN]]
  BY <1>1 DEF MaintenanceInv, MaintenanceTypeOK
<1>4. admin' = [admin EXCEPT ![h] = Resting] /\ command' = [command EXCEPT ![h] = NoCommand]
  BY DEF Reports
<1>5. admin \in [Admin -> AdminRecord] /\ command \in [Admin -> CommandRecord]
  BY DEF MaintenanceInv, MaintenanceTypeOK, AdminRecord, CommandRecord
<1>6. admin' \in [Admin -> AdminRecord] /\ command' \in [Admin -> CommandRecord]
  BY <1>4, <1>5, RestIsTyped
<1>7. MaintenanceTypeOK'
  BY <1>3, <1>6 DEF MaintenanceInv, MaintenanceTypeOK, StraysOK, AdminRecord, CommandRecord
<1>8. Working'
  <2> SUFFICES ASSUME NEW k \in Admin
               PROVE  /\ admin'[k].at # "idle" => admin'[k].op \in Operation
                      /\ admin'[k].at \in {"call", "reconcile"} => command'[k].op \in Operation
    BY DEF Working
  <2>1. CASE k = h
    BY <2>1, <1>4, <1>5, RestIsTyped
  <2>2. CASE k # h
    BY <2>2, <1>4, <1>5 DEF MaintenanceInv, Working
  <2> QED
    BY <2>1, <2>2
<1>9. MaintenanceReportIsTrue'
  <2>1. \A k \in Admin : /\ adminSaid'[k].outcome = "committed" => adminSaid'[k].committed
                         /\ adminSaid'[k].outcome = "none" => ~adminSaid'[k].committed
    <3> SUFFICES ASSUME NEW k \in Admin
                 PROVE  /\ adminSaid'[k].outcome = "committed" => adminSaid'[k].committed
                        /\ adminSaid'[k].outcome = "none" => ~adminSaid'[k].committed
      OBVIOUS
    <3>1. CASE k = h
      <4>1. adminSaid'[k] = said
        BY <3>1, <1>1 DEF MaintenanceInv, MaintenanceTypeOK
      <4> QED
        BY <4>1, <1>2
    <3>2. CASE k # h
      <4>1. adminSaid'[k] = adminSaid[k]
        BY <3>2, <1>1 DEF MaintenanceInv, MaintenanceTypeOK
      <4> QED
        BY <4>1 DEF MaintenanceInv, MaintenanceReportIsTrue
    <3> QED
      BY <3>1, <3>2
  <2> QED
    BY <2>1 DEF StraysOK, MaintenanceReportIsTrue
<1> QED
  BY <1>7, <1>8, <1>9 DEF MaintenanceInv

\* So does a step of the operation of one host that reports nothing.
LEMMA OperationMoves ==
  ASSUME MaintenanceInv, NEW h \in Admin, NEW a \in AdminRecord, NEW c \in CommandRecord,
         a.at # "idle" => a.op \in Operation,
         a.at \in {"call", "reconcile"} => c.op \in Operation,
         admin' = [admin EXCEPT ![h] = a], command' = [command EXCEPT ![h] = c],
         UNCHANGED <<lineage, adminSaid>>, adminOps' \in 0..MaxAdminOps, StraysOK'
  PROVE  MaintenanceInv'
<1>1. admin \in [Admin -> AdminRecord] /\ command \in [Admin -> CommandRecord]
  BY DEF MaintenanceInv, MaintenanceTypeOK, AdminRecord, CommandRecord
<1>2. admin' \in [Admin -> AdminRecord] /\ command' \in [Admin -> CommandRecord]
  BY <1>1
<1>3. MaintenanceTypeOK'
  BY <1>2 DEF MaintenanceInv, MaintenanceTypeOK, StraysOK, AdminRecord, CommandRecord
<1>4. Working'
  <2> SUFFICES ASSUME NEW k \in Admin
               PROVE  /\ admin'[k].at # "idle" => admin'[k].op \in Operation
                      /\ admin'[k].at \in {"call", "reconcile"} => command'[k].op \in Operation
    BY DEF Working
  <2>1. CASE k = h
    <3>1. admin'[k] = a /\ command'[k] = c
      BY <2>1, <1>1
    <3> QED
      BY <3>1
  <2>2. CASE k # h
    <3>1. admin'[k] = admin[k] /\ command'[k] = command[k]
      BY <2>2, <1>1
    <3> QED
      BY <3>1 DEF MaintenanceInv, Working
  <2> QED
    BY <2>1, <2>2
<1>5. MaintenanceReportIsTrue'
  BY DEF MaintenanceInv, MaintenanceReportIsTrue, StraysOK
<1> QED
  BY <1>3, <1>4, <1>5 DEF MaintenanceInv
\* The command of an operation is started with what was authorized.
LEMMA LaunchesKeeps ==
  ASSUME MaintenanceInv, NEW h \in Admin, NEW op \in Operation, NEW revision \in 0..MaxRevision, NEW target \in Target,
         Launches(h, op, revision, target),
         lineage' = lineage, strays' = strays, adminOps' \in 0..MaxAdminOps
  PROVE  MaintenanceInv'
<1> DEFINE a == [op |-> op, at |-> "call", revision |-> revision, target |-> target]
<1> DEFINE c == [op |-> op, revision |-> revision, target |-> target, committed |-> FALSE]
<1>1. admin' = [admin EXCEPT ![h] = a] /\ command' = [command EXCEPT ![h] = c] /\ adminSaid' = adminSaid
  BY DEF Launches
<1>2. a \in AdminRecord /\ c \in CommandRecord /\ a.op \in Operation /\ c.op \in Operation
  <2>1. a \in AdminRecord
    BY DEF AdminRecord
  <2>2. c \in CommandRecord
    BY DEF CommandRecord
  <2> QED
    BY <2>1, <2>2
<1> HIDE DEF a, c
<1> QED
  BY <1>1, <1>2, OperationMoves, StraysStay

\* What a process result says of the mutation, for the results there are.
LEMMA ResultsSpeak ==
  /\ MutationOf("ok") = "committed" /\ MutationOf("envelope-committed") = "committed"
  /\ MutationOf("not-launched") = "none" /\ MutationOf("envelope-none") = "none"
  /\ \A result \in Opaque \cup {"cancelled", "unstartable", "envelope-unknown"} : MutationOf(result) = "unknown"
<1>1. MutationOf("ok") = "committed" /\ MutationOf("envelope-committed") = "committed"
  BY DEF MutationOf, Opaque
<1>2. MutationOf("not-launched") = "none" /\ MutationOf("envelope-none") = "none"
  BY DEF MutationOf, Opaque
<1>3. ASSUME NEW result \in Opaque \cup {"cancelled", "unstartable", "envelope-unknown"}
      PROVE  MutationOf(result) = "unknown"
  <2>1. result \notin {"ok", "envelope-committed"} /\ result \notin {"not-launched", "envelope-none"}
    BY <1>3 DEF Opaque
  <2> QED
    BY <1>3, <2>1 DEF MutationOf
<1> QED
  BY <1>1, <1>2, <1>3

\* The host answers with what the result says; only a result that can tell says more than "unknown".
LEMMA AnsweredKeeps ==
  ASSUME MaintenanceInv, NEW h \in Admin, admin[h].at = "call", NEW result, NEW own \in BOOLEAN,
         Answered(h, result, own),
         MutationOf(result) \in {"none", "unknown", "committed"},
         MutationOf(result) = "committed" => own, MutationOf(result) = "none" => ~own,
         lineage' = lineage, strays' = strays, adminOps' \in 0..MaxAdminOps
  PROVE  MaintenanceInv'
<1>1. CASE Negotiated(command[h].op) /\ MutationOf(result) = "unknown"
  <2> DEFINE a == [admin[h] EXCEPT !.at = "reconcile"]
  <2> DEFINE c == [command[h] EXCEPT !.committed = own]
  <2>1. admin' = [admin EXCEPT ![h] = a] /\ command' = [command EXCEPT ![h] = c] /\ adminSaid' = adminSaid
    BY <1>1 DEF Answered
  <2>2. admin[h] \in AdminRecord /\ command[h] \in CommandRecord
    BY DEF MaintenanceInv, MaintenanceTypeOK, AdminRecord, CommandRecord
  <2>3. a \in AdminRecord /\ c \in CommandRecord /\ a.op = admin[h].op /\ c.op = command[h].op
    BY <2>2 DEF AdminRecord, CommandRecord
  <2>4. admin[h].op \in Operation /\ command[h].op \in Operation
    BY DEF MaintenanceInv, Working
  <2> HIDE DEF a, c
  <2> QED
    BY <2>1, <2>3, <2>4, OperationMoves, StraysStay
<1>2. CASE ~(Negotiated(command[h].op) /\ MutationOf(result) = "unknown")
  <2>1. Reports(h, MutationOf(result), own)
    BY <1>2 DEF Answered
  <2> QED
    BY <2>1, ReportsKeeps, StraysStay
<1> QED
  BY <1>1, <1>2

\* Every way the process of a command can exit tells the truth about it.
LEMMA ExitsAreTrue ==
  ASSUME NEW op, NEW committed \in BOOLEAN, NEW result \in ExitResults(op, committed)
  PROVE  /\ MutationOf(result) \in {"none", "unknown", "committed"}
         /\ MutationOf(result) = "committed" => committed
         /\ MutationOf(result) = "none" => ~committed
<1>1. CASE result \in Opaque
  BY <1>1, ResultsSpeak
<1>2. CASE result = "ok" /\ committed
  BY <1>2, ResultsSpeak
<1>3. CASE result \in Envelope(committed)
  <2>1. CASE result = "envelope-unknown"
    BY <2>1, ResultsSpeak
  <2>2. CASE result = "envelope-committed" /\ committed
    BY <2>2, ResultsSpeak
  <2>3. CASE result = "envelope-none" /\ ~committed
    BY <2>3, ResultsSpeak
  <2> QED
    BY <1>3, <2>1, <2>2, <2>3 DEF Envelope
<1> QED
  BY <1>1, <1>2, <1>3 DEF ExitResults

\* An accepted command moves only the authority.
LEMMA AuthorityKeeps ==
  ASSUME MaintenanceInv, lineage' \in [state : LineageState, revision : 0..MaxRevision, target : Target],
         strays' \subseteq strays, UNCHANGED <<admin, command, adminSaid, adminOps>>
  PROVE  MaintenanceInv'
<1>1. MaintenanceTypeOK'
  BY DEF MaintenanceInv, MaintenanceTypeOK
<1>2. Working'
  BY DEF MaintenanceInv, Working
<1>3. MaintenanceReportIsTrue'
  BY DEF MaintenanceInv, MaintenanceReportIsTrue
<1> QED
  BY <1>1, <1>2, <1>3 DEF MaintenanceInv

\* The authority stays in range.
LEMMA AppliedIsTyped ==
  ASSUME MaintenanceInv, NEW op, Applied(op)
  PROVE  lineage' \in [state : LineageState, revision : 0..MaxRevision, target : Target]
<1>1. lineage \in [state : LineageState, revision : 0..MaxRevision, target : Target]
  BY DEF MaintenanceInv, MaintenanceTypeOK
<1> DEFINE s == IF op = "acknowledge-approved" THEN "burned" ELSE "open"
<1>2. s \in LineageState
  BY DEF LineageState
<1>3. lineage' = [lineage EXCEPT !.revision = @ + 1, !.state = s] /\ lineage.revision < MaxRevision
  BY DEF Applied
<1>4. lineage.revision + 1 \in 0..MaxRevision
  BY <1>1, <1>3, MaintenanceAssumption
<1> HIDE DEF s
<1> QED
  BY <1>1, <1>2, <1>3, <1>4
\* A started operation without a command is noted with what its caller named.
LEMMA BeginKeeps ==
  ASSUME MaintenanceInv, NEW h \in Admin, NEW op \in Operation, NEW revision \in 0..MaxRevision,
         BeginOperation(h, op, revision)
  PROVE  MaintenanceInv'
<1>1. adminOps' \in 0..MaxAdminOps /\ lineage' = lineage /\ strays' = strays
  BY MaintenanceAssumption DEF BeginOperation, MaintenanceInv, MaintenanceTypeOK
<1>2. lineage.revision \in 0..MaxRevision /\ lineage.target \in Target
  BY DEF MaintenanceInv, MaintenanceTypeOK
<1>3. CASE FirstStep(op) = "call"
  <2>1. Launches(h, op, lineage.revision, lineage.target)
    BY <1>3 DEF BeginOperation
  <2> QED
    BY <1>1, <1>2, <2>1, LaunchesKeeps
<1>4. CASE FirstStep(op) # "call"
  <2> DEFINE a == RequestOf(op, revision, FirstStep(op))
  <2>1. admin' = [admin EXCEPT ![h] = a] /\ command' = command /\ adminSaid' = adminSaid
    BY <1>4 DEF BeginOperation
  <2>2. FirstStep(op) \in {"confirm", "status"}
    <3>1. CASE op \in Maintenance \cup {"reset"}
      BY <3>1 DEF FirstStep, Maintenance
    <3>2. CASE op = "recover-lock"
      BY <3>2, <1>4 DEF FirstStep, Maintenance
    <3>3. CASE op \notin Maintenance \cup {"reset"} /\ op # "recover-lock"
      BY <3>3 DEF FirstStep
    <3> QED
      BY <3>1, <3>2, <3>3
  <2>3. a \in AdminRecord /\ a.op = op /\ a.at \in {"confirm", "status"}
    BY <1>2, <2>2 DEF RequestOf, AdminRecord
  <2>4. command[h] \in CommandRecord /\ command' = [command EXCEPT ![h] = command[h]]
    BY <2>1 DEF MaintenanceInv, MaintenanceTypeOK, CommandRecord
  <2> HIDE DEF a
  <2> QED
    BY <1>1, <2>1, <2>3, <2>4, OperationMoves, StraysStay
<1> QED
  BY <1>3, <1>4

\* A step of a host that only changes where its operation is.
LEMMA WaitsKeeps ==
  ASSUME MaintenanceInv, NEW h \in Admin, NEW a \in AdminRecord, a.op \in Operation,
         a.at \notin {"call", "reconcile"}, admin' = [admin EXCEPT ![h] = a],
         UNCHANGED <<command, lineage, strays, adminSaid, adminOps>>
  PROVE  MaintenanceInv'
<1>1. command[h] \in CommandRecord /\ command' = [command EXCEPT ![h] = command[h]]
  BY DEF MaintenanceInv, MaintenanceTypeOK, CommandRecord
<1>2. adminOps' \in 0..MaxAdminOps
  BY DEF MaintenanceInv, MaintenanceTypeOK
<1> QED
  BY <1>1, <1>2, OperationMoves, StraysStay

\* Where an operation is before its command: every one of these steps reports or waits.
LEMMA AskingKeeps ==
  ASSUME MaintenanceInv, NEW h \in Admin,
         \/ RefuseRequest(h) \/ StatusFails(h) \/ RecoverStatus(h) \/ AliasInventory(h) \/ RepairStatus(h)
         \/ AcknowledgeStatus(h) \/ (\E approved \in BOOLEAN : Confirm(h, approved)) \/ RecoverRecheck(h)
  PROVE  MaintenanceInv'
<1>1. admin[h] \in AdminRecord /\ (admin[h].at # "idle" => admin[h].op \in Operation)
  BY DEF MaintenanceInv, MaintenanceTypeOK, AdminRecord, Working
<1>2. lineage.revision \in 0..MaxRevision /\ lineage.target \in Target /\ adminOps \in 0..MaxAdminOps
  BY DEF MaintenanceInv, MaintenanceTypeOK
<1>3. ASSUME Reports(h, "none", FALSE), UNCHANGED <<lineage, strays>>, adminOps' \in 0..MaxAdminOps
      PROVE  MaintenanceInv'
  BY <1>3, ReportsKeeps, StraysStay
<1>4. CASE RefuseRequest(h)
  <2>1. adminOps' \in 0..MaxAdminOps
    BY <1>2, <1>4, MaintenanceAssumption DEF RefuseRequest
  <2> QED
    BY <1>3, <1>4, <2>1 DEF RefuseRequest
<1>5. CASE StatusFails(h)
  BY <1>2, <1>3, <1>5 DEF StatusFails
<1>6. CASE RecoverStatus(h)
  <2> DEFINE a == [admin[h] EXCEPT !.at = "confirm", !.target = lineage.target]
  <2>1. a \in AdminRecord /\ a.op = admin[h].op /\ a.at = "confirm" /\ admin[h].op \in Operation
    BY <1>1, <1>2, <1>6 DEF AdminRecord, RecoverStatus
  <2>2. \/ Reports(h, "none", FALSE)
        \/ admin' = [admin EXCEPT ![h] = a] /\ UNCHANGED <<command, adminSaid>>
    BY <1>6 DEF RecoverStatus
  <2>3. UNCHANGED <<lineage, strays, adminOps>>
    BY <1>6 DEF RecoverStatus
  <2> HIDE DEF a
  <2> QED
    BY <1>2, <1>3, <2>1, <2>2, <2>3, WaitsKeeps
<1>7. CASE AliasInventory(h)
  <2> DEFINE a == [admin[h] EXCEPT !.at = "confirm", !.revision = lineage.revision]
  <2>1. a \in AdminRecord /\ a.op = admin[h].op /\ a.at = "confirm" /\ admin[h].op \in Operation
    BY <1>1, <1>2, <1>7 DEF AdminRecord, AliasInventory
  <2>2. \/ Reports(h, "none", FALSE)
        \/ admin' = [admin EXCEPT ![h] = a] /\ UNCHANGED <<command, adminSaid>>
    BY <1>7 DEF AliasInventory
  <2>3. UNCHANGED <<lineage, strays, adminOps>>
    BY <1>7 DEF AliasInventory
  <2> HIDE DEF a
  <2> QED
    BY <1>2, <1>3, <2>1, <2>2, <2>3, WaitsKeeps
<1>8. CASE RepairStatus(h)
  <2>1. \/ Reports(h, "none", FALSE)
        \/ Reports(h, "committed", TRUE)
    BY <1>8 DEF RepairStatus
  <2>2. UNCHANGED <<lineage, strays, adminOps>>
    BY <1>8 DEF RepairStatus
  <2> QED
    BY <1>2, <1>3, <2>1, <2>2, ReportsKeeps, StraysStay
<1>9. CASE AcknowledgeStatus(h)
  <2>1. \/ Reports(h, "none", FALSE)
        \/ Launches(h, "acknowledge-approved", lineage.revision, lineage.target)
    BY <1>9 DEF AcknowledgeStatus
  <2>2. UNCHANGED <<lineage, strays, adminOps>> /\ "acknowledge-approved" \in Operation
    BY <1>9 DEF AcknowledgeStatus, Operation
  <2> QED
    BY <1>2, <1>3, <2>1, <2>2, LaunchesKeeps
<1>10. ASSUME NEW approved \in BOOLEAN, Confirm(h, approved) PROVE MaintenanceInv'
  <2> DEFINE a == [admin[h] EXCEPT !.at = "recheck"]
  <2>1. admin[h].op \in Operation /\ admin[h].revision \in 0..MaxRevision /\ admin[h].target \in Target
    BY <1>1, <1>10 DEF AdminRecord, Confirm
  <2>2. a \in AdminRecord /\ a.op = admin[h].op /\ a.at = "recheck"
    BY <1>1 DEF AdminRecord
  <2>3. \/ Reports(h, "none", FALSE)
        \/ admin' = [admin EXCEPT ![h] = a] /\ UNCHANGED <<command, adminSaid>>
        \/ Launches(h, admin[h].op, admin[h].revision, admin[h].target)
    BY <1>10 DEF Confirm
  <2>4. UNCHANGED <<lineage, strays, adminOps>>
    BY <1>10 DEF Confirm
  <2> HIDE DEF a
  <2> QED
    BY <1>2, <1>3, <2>1, <2>2, <2>3, <2>4, WaitsKeeps, LaunchesKeeps
<1>11. CASE RecoverRecheck(h)
  <2>1. admin[h].revision \in 0..MaxRevision /\ admin[h].target \in Target /\ "recover" \in Operation
    BY <1>1 DEF AdminRecord, Operation
  <2>2. \/ Reports(h, "none", FALSE)
        \/ Launches(h, "recover", admin[h].revision, admin[h].target)
    BY <1>11 DEF RecoverRecheck
  <2>3. UNCHANGED <<lineage, strays, adminOps>>
    BY <1>11 DEF RecoverRecheck
  <2> QED
    BY <1>2, <1>3, <2>1, <2>2, <2>3, LaunchesKeeps
<1> QED
  BY <1>4, <1>5, <1>6, <1>7, <1>8, <1>9, <1>10, <1>11
\* The process of a command, and what may outlive it.
LEMMA CommandKeeps ==
  ASSUME MaintenanceInv, NEW h \in Admin,
         \/ NotLaunched(h) \/ CommandCommits(h) \/ CommandExits(h) \/ CancelCommand(h) \/ ReconcileFailure(h)
  PROVE  MaintenanceInv'
<1>1. command[h] \in CommandRecord /\ command[h].committed \in BOOLEAN /\ adminOps \in 0..MaxAdminOps
  BY DEF MaintenanceInv, MaintenanceTypeOK, CommandRecord
<1>2. CASE NotLaunched(h)
  <2>1. PICK result \in {"not-launched", "unstartable"} : Answered(h, result, FALSE)
    BY <1>2 DEF NotLaunched
  <2>2. admin[h].at = "call" /\ UNCHANGED <<lineage, strays, adminOps>>
    BY <1>2 DEF NotLaunched
  <2>3. MutationOf(result) \in {"none", "unknown"}
    BY <2>1, ResultsSpeak
  <2> QED
    BY <1>1, <2>1, <2>2, <2>3, AnsweredKeeps
<1>3. CASE CommandCommits(h)
  <2> DEFINE c == [command[h] EXCEPT !.committed = TRUE]
  <2>1. admin[h].at = "call" /\ UNCHANGED <<admin, strays, adminSaid, adminOps>> /\ command' = [command EXCEPT ![h] = c]
    BY <1>3 DEF CommandCommits
  <2>2. lineage' \in [state : LineageState, revision : 0..MaxRevision, target : Target]
    BY <1>3, AppliedIsTyped DEF CommandCommits
  <2>3. c \in CommandRecord /\ c.op = command[h].op
    BY <1>1 DEF CommandRecord
  <2> HIDE DEF c
  <2>4. command \in [Admin -> CommandRecord]
    BY DEF MaintenanceInv, MaintenanceTypeOK, CommandRecord
  <2>5. command' \in [Admin -> CommandRecord] /\ \A k \in Admin : command'[k].op = command[k].op
    BY <2>1, <2>3, <2>4
  <2>6. MaintenanceTypeOK'
    BY <2>1, <2>2, <2>5 DEF MaintenanceInv, MaintenanceTypeOK, CommandRecord
  <2>7. Working'
    BY <2>1, <2>5 DEF MaintenanceInv, Working
  <2>8. MaintenanceReportIsTrue'
    BY <2>1 DEF MaintenanceInv, MaintenanceReportIsTrue
  <2> QED
    BY <2>6, <2>7, <2>8 DEF MaintenanceInv
<1>4. CASE CommandExits(h)
  <2>1. PICK result \in ExitResults(command[h].op, command[h].committed) : Answered(h, result, command[h].committed)
    BY <1>4 DEF CommandExits
  <2>2. admin[h].at = "call" /\ UNCHANGED <<lineage, strays, adminOps>>
    BY <1>4 DEF CommandExits
  <2>3. /\ MutationOf(result) \in {"none", "unknown", "committed"}
        /\ MutationOf(result) = "committed" => command[h].committed
        /\ MutationOf(result) = "none" => ~command[h].committed
    BY <1>1, ExitsAreTrue
  <2> QED
    BY <1>1, <2>1, <2>2, <2>3, AnsweredKeeps
<1>5. CASE CancelCommand(h)
  <2> DEFINE own == command[h].committed
  <2> DEFINE stray == [by |-> h, op |-> command[h].op, revision |-> command[h].revision,
                       target |-> command[h].target, said |-> MutationOf("cancelled")]
  <2>1. /\ admin[h].at = "call" /\ Answered(h, "cancelled", own) /\ UNCHANGED <<lineage, adminOps>>
        /\ strays' = strays \/ strays' = strays \cup {stray}
    BY <1>5 DEF CancelCommand
  <2>2. MutationOf("cancelled") = "unknown"
    BY ResultsSpeak
  <2>3. command[h].op \in Operation
    BY <2>1 DEF MaintenanceInv, Working
  <2>4. stray \in [by : Admin, op : Operation, revision : 0..MaxRevision, target : Target, said : {"none", "unknown"}]
        /\ stray.said = "unknown"
    BY <1>1, <2>2, <2>3 DEF CommandRecord
  <2> HIDE DEF stray
  <2>5. StraysOK'
    BY <2>1, <2>4 DEF MaintenanceInv, MaintenanceTypeOK, MaintenanceReportIsTrue, StraysOK
  <2>6. CASE Negotiated(command[h].op)
    <3> DEFINE a == [admin[h] EXCEPT !.at = "reconcile"]
    <3> DEFINE c == [command[h] EXCEPT !.committed = own]
    <3>1. admin' = [admin EXCEPT ![h] = a] /\ command' = [command EXCEPT ![h] = c] /\ adminSaid' = adminSaid
      BY <2>1, <2>2, <2>6 DEF Answered
    <3>2. admin[h] \in AdminRecord /\ admin[h].op \in Operation
      BY <2>1 DEF MaintenanceInv, MaintenanceTypeOK, AdminRecord, Working
    <3>3. a \in AdminRecord /\ c \in CommandRecord /\ a.op = admin[h].op /\ c.op = command[h].op
      BY <1>1, <3>2 DEF AdminRecord, CommandRecord
    <3> HIDE DEF a, c
    <3> QED
      BY <1>1, <2>1, <2>3, <2>5, <3>1, <3>2, <3>3, OperationMoves
  <2>7. CASE ~Negotiated(command[h].op)
    <3>1. Reports(h, "unknown", own)
      BY <2>1, <2>2, <2>7 DEF Answered
    <3> QED
      BY <1>1, <2>1, <2>5, <3>1, ReportsKeeps
  <2> QED
    BY <2>6, <2>7
<1>6. CASE ReconcileFailure(h)
  <2>1. Reports(h, "unknown", command[h].committed) /\ UNCHANGED <<lineage, strays, adminOps>>
    BY <1>6 DEF ReconcileFailure
  <2> QED
    BY <1>1, <2>1, ReportsKeeps, StraysStay
<1> QED
  BY <1>2, <1>3, <1>4, <1>5, <1>6

\* At the start every host rests and nothing was said.
LEMMA MaintenanceInitially == MaintenanceInit => MaintenanceInv
<1> SUFFICES ASSUME MaintenanceInit PROVE MaintenanceInv
  OBVIOUS
<1>1. (CHOOSE t \in Target : TRUE) \in Target /\ 0 \in 0..MaxRevision /\ 0 \in 0..MaxAdminOps
  BY MaintenanceAssumption
<1>2. lineage \in [state : LineageState, revision : 0..MaxRevision, target : Target]
  BY <1>1 DEF MaintenanceInit
<1>3. admin \in [Admin -> AdminRecord] /\ command \in [Admin -> CommandRecord]
  BY RestIsTyped DEF MaintenanceInit
<1>4. adminSaid \in [Admin -> [outcome : {"none", "unknown", "committed"}, committed : BOOLEAN]]
  BY DEF MaintenanceInit, NothingSaid
<1>5. strays = {} /\ adminOps \in 0..MaxAdminOps
  BY <1>1 DEF MaintenanceInit
<1>6. MaintenanceTypeOK
  BY <1>2, <1>3, <1>4, <1>5 DEF MaintenanceTypeOK, AdminRecord, CommandRecord
<1>7. Working
  BY RestIsTyped DEF MaintenanceInit, Working
<1>8. MaintenanceReportIsTrue
  BY DEF MaintenanceInit, MaintenanceReportIsTrue, NothingSaid
<1> QED
  BY <1>6, <1>7, <1>8 DEF MaintenanceInv

\* Every step of the specification keeps the invariant.
LEMMA MaintenanceStep == MaintenanceInv /\ [MaintenanceNext]_maintenanceVars => MaintenanceInv'
<1> SUFFICES ASSUME MaintenanceInv, [MaintenanceNext]_maintenanceVars PROVE MaintenanceInv'
  OBVIOUS
<1>1. CASE AuthorityMoves
  <2>1. lineage \in [state : LineageState, revision : 0..MaxRevision, target : Target]
    BY DEF MaintenanceInv, MaintenanceTypeOK
  <2>2. lineage' \in [state : LineageState, revision : 0..MaxRevision, target : Target]
    <3>1. ASSUME lineage.revision < MaxRevision, NEW s \in {"recover", "approved", "open"},
                 lineage' = [lineage EXCEPT !.revision = @ + 1, !.state = s]
          PROVE  lineage' \in [state : LineageState, revision : 0..MaxRevision, target : Target]
      <4>1. lineage.revision + 1 \in 0..MaxRevision /\ s \in LineageState
        BY <2>1, <3>1, MaintenanceAssumption DEF LineageState
      <4> QED
        BY <2>1, <3>1, <4>1
    <3>2. ASSUME NEW t \in Target, lineage' = [lineage EXCEPT !.target = t]
          PROVE  lineage' \in [state : LineageState, revision : 0..MaxRevision, target : Target]
      BY <2>1, <3>2
    <3> QED
      BY <1>1, <3>1, <3>2 DEF AuthorityMoves
  <2> QED
    BY <1>1, <2>2, AuthorityKeeps DEF AuthorityMoves
<1>2. ASSUME NEW s \in strays, StrayEnds(s) PROVE MaintenanceInv'
  <2>1. lineage' \in [state : LineageState, revision : 0..MaxRevision, target : Target]
    <3>1. CASE lineage' = lineage
      BY <3>1 DEF MaintenanceInv, MaintenanceTypeOK
    <3>2. CASE Applied(s.op)
      BY <3>2, AppliedIsTyped
    <3> QED
      BY <1>2, <3>1, <3>2 DEF StrayEnds
  <2> QED
    BY <1>2, <2>1, AuthorityKeeps DEF StrayEnds
<1>3. ASSUME NEW h \in Admin, NEW op \in Operation, NEW r \in 0..MaxRevision, BeginOperation(h, op, r)
      PROVE  MaintenanceInv'
  BY <1>3, BeginKeeps
<1>4. ASSUME NEW h \in Admin,
             \/ RefuseRequest(h) \/ StatusFails(h) \/ RecoverStatus(h) \/ AliasInventory(h) \/ RepairStatus(h)
             \/ AcknowledgeStatus(h) \/ (\E approved \in BOOLEAN : Confirm(h, approved)) \/ RecoverRecheck(h)
      PROVE  MaintenanceInv'
  BY <1>4, AskingKeeps
<1>5. ASSUME NEW h \in Admin,
             \/ NotLaunched(h) \/ CommandCommits(h) \/ CommandExits(h) \/ CancelCommand(h) \/ ReconcileFailure(h)
      PROVE  MaintenanceInv'
  BY <1>5, CommandKeeps
<1>6. CASE UNCHANGED maintenanceVars
  <2>1. UNCHANGED <<lineage, admin, command, strays, adminSaid, adminOps>>
    BY <1>6 DEF maintenanceVars
  <2>2. lineage' \in [state : LineageState, revision : 0..MaxRevision, target : Target]
    BY <2>1 DEF MaintenanceInv, MaintenanceTypeOK
  <2> QED
    BY <2>1, <2>2, AuthorityKeeps
<1> QED
  BY <1>1, <1>2, <1>3, <1>4, <1>5, <1>6 DEF MaintenanceNext

\* A maintenance operation reports "committed" only of a command that did
\* commit and "none" only of one that did not and never will, for any hosts,
\* targets and interleavings of cancelled commands
\* (native-review-cli.ts:1017-1153, gentle-ai.ts).
THEOREM MaintenanceReportsAreTrue == MaintenanceSpec => []MaintenanceReportIsTrue
<1>1. MaintenanceInv => MaintenanceReportIsTrue
  BY DEF MaintenanceInv
<1> QED
  BY MaintenanceInitially, MaintenanceStep, <1>1, PTL DEF MaintenanceSpec

\* Both kinds of report are true in every state of the two tools
\* (review-host-relay.ts, native-review-cli.ts).
THEOREM ReportsStayTrue ==
  ASSUME ~Malformed
  PROVE  CaptureSpec /\ MaintenanceSpec => []ReportsAreTrue
<1>1. CaptureSpec => []ReportIsTrue
  BY CaptureReportsAreTrue
<1>2. MaintenanceSpec => []MaintenanceReportIsTrue
  BY MaintenanceReportsAreTrue
<1>3. ReportIsTrue /\ MaintenanceReportIsTrue => ReportsAreTrue
  BY DEF ReportsAreTrue
<1> QED
  BY <1>1, <1>2, <1>3, PTL

===============================================================================
