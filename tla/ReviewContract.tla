--------------------------- MODULE ReviewContract ---------------------------
(***************************************************************************)
(* The negotiated review contract: how the host decodes what the native    *)
(* provider answers (lib/review-integration-v2.ts) and how its client      *)
(* (NativeReviewCliV216 in lib/native-review-cli.ts) chains the answers of *)
(* one candidate: STATUS, then START and its consent question, a capture   *)
(* and its closure, an acknowledgement, or a repair.                       *)
(*                                                                         *)
(* The provider is another program of another version, and the candidate   *)
(* may change between two calls, so an answer is any combination of the    *)
(* fields below; the one thing taken from the provider is that a START     *)
(* answer naming a target names the one it froze.  Hashes, trees, texts    *)
(* and lists of findings are left out: an identity is a model value.  An   *)
(* answer that does not decode is an error that changes nothing here.      *)
(***************************************************************************)
EXTENDS Naturals, FiniteSets

CONSTANTS Identity, \* the target, lineage and revision identities
          Absent    \* the value of an optional field that is missing

ASSUME ContractAssumption == Identity # {} /\ Absent \notin Identity

VARIABLES dialogue, \* where the calls for the candidate are
          seen,     \* what the decoded STATUS said
          offer,    \* its decoded next_transition
          asked,    \* the decoded consent question
          frozen,   \* the target the provider really froze in START
          held      \* what the last decoded answer lets the host report or run

contractVars == <<dialogue, seen, offer, asked, frozen, held>>

OptIdentity == Identity \cup {Absent}

NoSeen == [target |-> Absent, lineage |-> Absent, revision |-> Absent, approved |-> FALSE]

NoOffer == [kind |-> "none"]

NoQuestion == [target |-> Absent, lineage |-> Absent]

NothingHeld == [kind |-> "none"]

ContractInit ==
  /\ dialogue = "idle" /\ seen = NoSeen /\ offer = NoOffer
  /\ asked = NoQuestion /\ frozen = Absent /\ held = NothingHeld

---------------------------------------------------------------------------
(* STATUS                                                                  *)

\* The authority a STATUS describes.
StatusAuthority == [version : {"compact-v2", "legacy-v1"}, lineage : Identity, revision : Identity, approved : BOOLEAN]

\* The schema gates of a STATUS: what may accompany which authority, action and transition.
StatusDecodes(body) ==
  /\ body.current <=> body.authority # {}
  /\ ~body.current => ~body.frozen /\ ~body.authorityTarget
  /\ \A a \in body.authority :
        /\ a.version = "compact-v2" => body.frozen
        /\ a.version = "legacy-v1" => ~body.frozen /\ ~body.authorityTarget /\ body.receipt # "other"
  /\ body.receipt # "none" => body.version >= 5
  /\ body.recover <=> body.disposition

\* The accepted STATUS schemas that differ in what their transition may carry: v3, v5, v6 to v8, v9.
StatusVersion == {3, 5, 6, 9}

StatusBody ==
  [version : StatusVersion, target : Identity, current : BOOLEAN, authority : {{}} \cup {{a} : a \in StatusAuthority},
   frozen : BOOLEAN, authorityTarget : BOOLEAN, receipt : {"none", "present", "other"},
   recover : BOOLEAN, disposition : BOOLEAN]

\* targetStatus: the host learns the target, and the authority when the STATUS is about the current target.
ReceiveStatus ==
  /\ dialogue = "idle"
  /\ \E body \in StatusBody :
        /\ StatusDecodes(body)
        /\ offer' = [kind |-> "awaited", version |-> body.version]
        /\ seen' = [target   |-> body.target,
                    lineage  |-> IF body.authority = {} THEN Absent ELSE (CHOOSE a \in body.authority : TRUE).lineage,
                    revision |-> IF body.authority = {} THEN Absent ELSE (CHOOSE a \in body.authority : TRUE).revision,
                    approved |-> \E a \in body.authority : a.approved]
  /\ dialogue' = "status"
  /\ UNCHANGED <<asked, frozen, held>>

---------------------------------------------------------------------------
(* next_transition                                                         *)

\* A rendered invocation: the identities among its arguments, those of its binding, whether every token renders
\* its argument exactly, and whether its one precondition is the approved state.
Vector ==
  [op : {"start", "status", "recover", "repair", "acknowledge-approved", "dispose-result"},
   args : [target : OptIdentity, lineage : OptIdentity, revision : OptIdentity], exact : BOOLEAN, approvedOnly : BOOLEAN,
   binding : [target : Identity, lineage : OptIdentity, revision : OptIdentity]]

\* The closed shape of an acknowledgement: five exact arguments in order, one precondition, a full binding.
AcknowledgementShape(v) ==
  /\ v.op = "acknowledge-approved" /\ v.exact /\ v.approvedOnly
  /\ Absent \notin {v.args.target, v.args.lineage, v.args.revision, v.binding.lineage, v.binding.revision}

\* What an acknowledgement names twice, as arguments and as a binding, agrees.
AcknowledgementBound(v) ==
  /\ v.args.lineage = v.binding.lineage
  /\ v.args.target = v.binding.target
  /\ v.args.revision = v.binding.revision

\* An execute transition: the operation is one this client implements, and an acknowledgement is its exact burn.
ExecuteDecodes(v) ==
  /\ v.op \in {"start", "recover", "repair", "acknowledge-approved"}
  /\ v.op = "acknowledge-approved" => AcknowledgementShape(v) /\ AcknowledgementBound(v)

RoleCaptures == {"capture-refuter", "capture-validation"}

CaptureOperation == RoleCaptures \cup {"capture-result", "capture-correction-plan", "run-provider-role", "select-untracked"}

\* The identities a targeted validation request names besides its arguments.
RequestFields == {"lineage", "expected-revision", "target", "request-hash"}

\* One collect input: what it carries besides its capture operation and its arguments.
CollectInput ==
  [op : CaptureOperation, named : BOOLEAN, known : BOOLEAN, task : BOOLEAN, subject : BOOLEAN, submission : BOOLEAN,
   mode : {"materialize", "execute", "plain"}, request : BOOLEAN, agrees : SUBSET RequestFields]

\* The operations whose collect input may carry a submission in a status of a version.
SubmissionOperations(version) ==
  {"capture-result"} \cup (IF version >= 5 THEN {"capture-correction-plan"} ELSE {})
                     \cup (IF version >= 6 THEN {"select-untracked"} ELSE {})

\* The submission of a role capture is the host-mediated form of v9: materialize, and never execute.
RoleSubmission(input, version) == version >= 9 /\ input.mode = "materialize"

\* What a collect input carries fits its operation and the version; `named` and `known` say that its name and its
\* schema are the operation's own.
CollectDecodes(input, version) ==
  LET targeted == version >= 5 /\ input.named /\ input.op = "capture-validation"
  IN  /\ input.known \/ input.op \notin RoleCaptures \cup {"capture-result", "select-untracked"}
      /\ input.named \/ input.op # "select-untracked"
      /\ input.known \/ input.op # "capture-correction-plan" \/ version < 5
      /\ input.task <=> version >= 5 /\ input.op = "run-provider-role"
      /\ input.request <=> targeted
      /\ input.request => input.agrees = RequestFields
      /\ input.subject <=> input.op = "capture-result"
      /\ input.submission => \/ input.op \in RoleCaptures /\ RoleSubmission(input, version)
                             \/ input.op \in SubmissionOperations(version)
      /\ version >= 5 /\ input.op = "capture-correction-plan" => input.submission
      /\ version >= 6 /\ input.op = "select-untracked" => input.submission

\* A slot declared unachievable, with the command that withdraws it.
WithdrawSlot == [args : [target : Identity, lineage : OptIdentity, revision : OptIdentity], once : BOOLEAN, exact : BOOLEAN,
                 binding : [target : Identity, lineage : OptIdentity, revision : OptIdentity], subject : BOOLEAN]

\* The withdraw command renders its binding: every identity once and equal, the subject hash, the exact tokens.
WithdrawDecodes(slot) == slot.once /\ slot.exact /\ slot.subject /\ slot.args = slot.binding

\* The reasons of a transition that decide what else it may carry.
Reason == {"managed_assets_outdated", "unachievable_lens_slot", "correction_plan_required", "other"}

\* The fields of a stop that are tied to its reason.
StopDecodes(reason, version, extra) ==
  /\ "continuation" \in extra => reason = "managed_assets_outdated"
  /\ "slots" \in extra => reason = "unachievable_lens_slot"
  /\ "correction_request" \in extra <=> version >= 5 /\ reason = "correction_plan_required"

\* The STATUS continues with its transition: an invocation to run, inputs to collect, or a stop.
ReceiveTransition ==
  /\ dialogue = "status"
  /\ \/ \E v \in Vector : ExecuteDecodes(v) /\ offer' = [kind |-> "execute", vector |-> v]
     \/ \E input \in CollectInput :
           /\ CollectDecodes(input, offer.version)
           /\ offer' = [kind |-> "collect", op |-> input.op, requested |-> IF input.request THEN input.agrees ELSE RequestFields]
     \/ \E reason \in Reason, extra \in SUBSET {"continuation", "slots", "correction_request"} :
           /\ StopDecodes(reason, offer.version, extra)
           /\ \/ "slots" \notin extra /\ offer' = [kind |-> "stop", slots |-> {}]
              \/ /\ "slots" \in extra
                 /\ \E slot \in WithdrawSlot : WithdrawDecodes(slot) /\ offer' = [kind |-> "stop", slots |-> {slot}]
  /\ dialogue' = "known"
  /\ UNCHANGED <<seen, asked, frozen, held>>

---------------------------------------------------------------------------
(* START and consent                                                       *)

\* start(): the rendered START runs when its binding is of the observed target, and of the lineage the caller
\* wants if both name one, and every token is there.
RunStart ==
  /\ dialogue = "known" /\ offer.kind = "execute" /\ offer.vector.op = "start"
  /\ offer.vector.binding.target = seen.target /\ offer.vector.exact
  /\ \E wanted \in OptIdentity :
        /\ Absent \in {wanted, offer.vector.binding.lineage} \/ wanted = offer.vector.binding.lineage
        /\ asked' = [asked EXCEPT !.lineage = wanted]
  /\ dialogue' = "starting" /\ offer' = NoOffer
  /\ UNCHANGED <<seen, frozen, held>>

\* One choice of a consent question: the values its invocation gives each option.
Invocation == [targets : SUBSET Identity, here : BOOLEAN, projection : BOOLEAN, agent : BOOLEAN, answer : BOOLEAN, lineage : OptIdentity]

\* The decoder requires the target in each invocation; a v3 question also that each names this agent once.
ConsentDecodes(target, choice, version) == target \in choice.targets /\ choice.answer /\ (version = 3 => choice.agent)

\* The provider asks for consent instead of starting; the question must be about the observed target.
ReceiveConsent ==
  /\ dialogue = "starting"
  /\ \E target \in Identity, choice \in Invocation, version \in {2, 3} :
        /\ ConsentDecodes(target, choice, version)
        /\ target = seen.target
        /\ asked' = [target |-> target, lineage |-> choice.lineage, choice |-> choice]
  /\ dialogue' = "asked"
  /\ UNCHANGED <<seen, offer, frozen, held>>

\* answerConsent(): the chosen invocation runs only when each option names once what the question named.
SendAnswer ==
  /\ dialogue = "asked"
  /\ asked.choice.targets = {asked.target} /\ asked.choice.here /\ asked.choice.projection
  /\ asked' = [target |-> asked.target, lineage |-> asked.lineage]
  /\ dialogue' \in {"granting", "declining"}
  /\ UNCHANGED <<seen, offer, frozen, held>>

\* A START answer: the schema, what it did, the target it froze and where it names it.
StartBody ==
  [version : {3, 4}, action : {"created", "resumed", "closed", "blocked"}, reviewing : BOOLEAN, approved : BOOLEAN,
   target : Identity, names : SUBSET {"overlay", "context"}, lineage : Identity, lenses : BOOLEAN, trees : BOOLEAN,
   manifest : BOOLEAN]

StartsReview(body) == body.action \in {"created", "resumed"} /\ body.reviewing

\* A mutant of the rule below: the answer of a new or resumed review need not name its target.
StartNamesTarget_Fault(body) == ~StartsReview(body) => "context" \notin body.names

\* A new or resumed review carries its repository context, and no other does; in v4 the overlay identity stands in.
StartNamesTarget(body) ==
  /\ StartsReview(body) /\ ~(body.version = 4 /\ "overlay" \in body.names) => "context" \in body.names
  /\ ~StartsReview(body) => "context" \notin body.names

\* start/v3, and start/v4 on the same surface.
StartDecodes(body) ==
  /\ ~(body.reviewing /\ body.approved)
  /\ "overlay" \in body.names => body.trees
  /\ body.manifest => body.trees
  /\ body.lenses => body.manifest
  /\ StartNamesTarget(body)

\* The continuation of a start/v4 review: the STATUS of the frozen START, on every identity it names.
StartContinues(body, v) ==
  /\ v.op = "status" /\ v.exact
  /\ v.binding.target = body.target
  /\ v.binding.lineage \in {Absent, body.lineage}
  /\ v.args.target \in {Absent, body.target}
  /\ v.args.lineage = body.lineage

\* The transition a START answer binds: none in v3, a STATUS for a v4 review.  (A v4 answer that starts no review
\* may carry any decodable transition, which nothing ties to the START; it is not kept here.)
StartTransition(body) ==
  IF body.version = 4 /\ StartsReview(body) THEN {v \in Vector : StartContinues(body, v) /\ v.approvedOnly}
  ELSE {}

\* The target a START answer names, or none.
AnsweredTarget(body) == IF body.names = {} THEN Absent ELSE body.target

\* The provider started a review: the client compares the lineage and the target with what it observed or asked,
\* strictly after a consent and, without one, only where the answer names a target.
ReceiveStart ==
  /\ dialogue \in {"starting", "granting"}
  /\ \E body \in StartBody :
        /\ StartDecodes(body)
        /\ asked.lineage \in {Absent, body.lineage}
        /\ AnsweredTarget(body) \in IF dialogue = "granting" THEN {asked.target} ELSE {Absent, seen.target}
        /\ frozen' = body.target
        /\ \/ /\ StartTransition(body) = {} /\ ~(body.version = 4 /\ StartsReview(body))
              /\ held' = [kind |-> "started", reviewing |-> StartsReview(body), granted |-> dialogue = "granting",
                          lineage |-> body.lineage, next |-> {}]
           \/ \E v \in StartTransition(body) :
                 held' = [kind |-> "started", reviewing |-> TRUE, granted |-> dialogue = "granting",
                          lineage |-> body.lineage, next |-> {v}]
  /\ dialogue' = "told"
  /\ UNCHANGED <<seen, offer, asked>>

\* The provider recorded the refusal: no lineage, no lens, no state, and the target and projection of the question.
ReceiveDeclined ==
  /\ dialogue = "declining"
  /\ \E target \in Identity, authority \in BOOLEAN :
        target = asked.target /\ ~authority /\ held' = [kind |-> "declined"]
  /\ dialogue' = "told"
  /\ UNCHANGED <<seen, offer, asked, frozen>>

---------------------------------------------------------------------------
(* Captures, closures and acknowledgements                                 *)

\* A last-event closure: the capture it closes, the state it leaves and the invocations it carries.
ClosureBody ==
  [op : {"capture-result", "capture-correction-plan", "capture-refuter", "capture-validation"},
   state : {"approved", "correction_required", "escalated"}, lineage : Identity, revision : Identity,
   plan : BOOLEAN, advisory : BOOLEAN]

\* Which closures carry the fields of a correction plan, and which may carry findings.
ClosureDecodes(body) ==
  /\ body.plan <=> body.op = "capture-correction-plan"
  /\ body.plan => body.state = "correction_required"
  /\ body.advisory => body.state = "approved"

\* A correction that a result or a refuter found continues with a STATUS, and only that one does.
ClosureContinues(body) == body.state = "correction_required" /\ body.op \in {"capture-result", "capture-refuter"}

\* The STATUS continuation is of the closure's lineage and store revision.
ContinuationBound(body, v) ==
  /\ v.op = "status" /\ v.exact
  /\ v.binding.lineage = body.lineage /\ v.binding.revision = body.revision /\ v.args.lineage = body.lineage

\* An acknowledgement in a closure: one that does not decode becomes a flag, one that does must be bound to it.
ClosureAcknowledgement(body, v) ==
  /\ body.state = "approved"
  /\ AcknowledgementShape(v) => /\ AcknowledgementBound(v)
                                /\ v.binding.lineage = body.lineage /\ v.binding.revision = body.revision

\* A capture ran and its answer closes the review: the closure is of the capture asked for and of the lineage of
\* the slot, as is the target of its continuation.
ReceiveClosure ==
  /\ dialogue = "known" /\ offer.kind = "collect" /\ seen.lineage # Absent
  /\ \E body \in ClosureBody :
        /\ ClosureDecodes(body)
        /\ body.op = offer.op /\ body.lineage = seen.lineage
        /\ \/ /\ ~ClosureContinues(body)
              /\ held' = [kind |-> "closure", closure |-> body, continue |-> {}, burn |-> {}, unreadable |-> FALSE]
           \/ /\ ClosureContinues(body)
              /\ \E v \in Vector :
                    /\ ContinuationBound(body, v) /\ v.binding.target = seen.target
                    /\ held' = [kind |-> "closure", closure |-> body, continue |-> {v}, burn |-> {}, unreadable |-> FALSE]
           \/ /\ ~body.plan
              /\ \E v \in Vector :
                    /\ ClosureAcknowledgement(body, v)
                    /\ held' = [kind |-> "closure", closure |-> body, continue |-> {},
                                burn |-> IF AcknowledgementShape(v) THEN {v} ELSE {}, unreadable |-> ~AcknowledgementShape(v)]
  /\ dialogue' = "told" /\ offer' = NoOffer
  /\ UNCHANGED <<seen, asked, frozen>>

\* A capture that closes nothing answers with the artifact of its slot.
ReceiveArtifact ==
  /\ dialogue = "known" /\ offer.kind = "collect" /\ offer.op # "select-untracked"
  /\ \/ \E path, reference \in BOOLEAN : offer.op = "capture-result" /\ path # reference
     \/ offer.op \in RoleCaptures
  /\ held' = [kind |-> "artifact"]
  /\ dialogue' = "told" /\ offer' = NoOffer
  /\ UNCHANGED <<seen, asked, frozen>>

\* ACKNOWLEDGE_APPROVED: the STATUS is of an approved authority and its burn names that target, lineage and revision.
RunAcknowledgement ==
  /\ dialogue = "known" /\ offer.kind = "execute" /\ offer.vector.op = "acknowledge-approved"
  /\ seen.approved
  /\ offer.vector.binding = [target |-> seen.target, lineage |-> seen.lineage, revision |-> seen.revision]
  /\ held' = [kind |-> "burning", vector |-> offer.vector]
  /\ dialogue' = "burning" /\ offer' = NoOffer
  /\ UNCHANGED <<seen, asked, frozen>>

\* The burn is silent (older providers) or names exactly the lineage, target and revision it consumed.
ReceiveAcknowledged ==
  /\ dialogue = "burning"
  /\ \E silent \in BOOLEAN, named \in [target : Identity, lineage : Identity, revision : Identity] :
        silent \/ named = held.vector.binding
  /\ held' = [held EXCEPT !.kind = "burned"]
  /\ dialogue' = "told"
  /\ UNCHANGED <<seen, offer, asked, frozen>>

\* The host keeps the withdraw command of a slot that stopped the review.
HoldWithdrawal ==
  /\ dialogue = "known" /\ offer.kind = "stop" /\ offer.slots # {}
  /\ held' = [kind |-> "withdraw", slot |-> CHOOSE slot \in offer.slots : TRUE]
  /\ dialogue' = "told" /\ offer' = NoOffer
  /\ UNCHANGED <<seen, asked, frozen>>

---------------------------------------------------------------------------
(* Repair and failures                                                     *)

\* The repair of a legacy alias: what an assessment says and what the answer carries with it.
RepairBody == [mode : {"preflight", "execute"}, eligible : BOOLEAN, counts : BOOLEAN, inputs : BOOLEAN, execution : BOOLEAN,
               lineage : Identity, revision : Identity]

\* An eligible preflight carries the provider's inputs, an execution its record, and neither carries the other's.
RepairDecodes(body) ==
  /\ body.eligible => body.counts
  /\ body.execution <=> body.mode = "execute"
  /\ body.inputs <=> body.mode = "preflight" /\ body.eligible

\* repair(): the preflight ends the operation, or the execution runs with exactly the inputs it published.
RunRepair ==
  /\ dialogue = "known" /\ offer.kind = "execute" /\ offer.vector.op = "repair"
  /\ \E body \in RepairBody :
        /\ RepairDecodes(body) /\ body.mode = "preflight"
        /\ IF body.inputs
           THEN dialogue' = "repairing" /\ held' = [kind |-> "repair", lineage |-> body.lineage, revision |-> body.revision]
           ELSE dialogue' = "told" /\ held' = [kind |-> "assessed"]
  /\ offer' = NoOffer
  /\ UNCHANGED <<seen, asked, frozen>>

ReceiveRepair ==
  /\ dialogue = "repairing"
  /\ \E body \in RepairBody :
        RepairDecodes(body) /\ held' = [kind |-> IF body.mode = "execute" THEN "repaired" ELSE "assessed",
                                        lineage |-> held.lineage, revision |-> held.revision]
  /\ dialogue' = "told"
  /\ UNCHANGED <<seen, offer, asked, frozen>>

\* A failure envelope: what its optional fields require of each other.
FailureDecodes(progress, lineage, digest, repair, continuation, outdated, scope, binding) ==
  /\ progress => lineage /\ digest /\ repair
  /\ digest /\ repair => progress
  /\ continuation => outdated
  /\ ~(scope /\ binding)

\* A command that fails answers with an envelope; the host reports it and starts again from STATUS.
ReceiveFailure ==
  /\ dialogue \in {"starting", "granting", "declining", "burning", "repairing"}
  /\ \E p, l, d, c, s, b \in BOOLEAN, outdated \in BOOLEAN : FailureDecodes(p, l, d, dialogue = "repairing", c, outdated, s, b)
  /\ dialogue' = "told" /\ held' = [kind |-> "failed"]
  /\ UNCHANGED <<seen, offer, asked, frozen>>

\* The host asks for a new STATUS; nothing of the last exchange is used any more.
NextExchange ==
  /\ dialogue \in {"known", "asked", "told"}
  /\ dialogue' = "idle" /\ seen' = NoSeen /\ offer' = NoOffer /\ asked' = NoQuestion /\ frozen' = Absent /\ held' = NothingHeld

ContractNext ==
  \/ ReceiveStatus \/ ReceiveTransition \/ RunStart \/ ReceiveConsent \/ SendAnswer \/ ReceiveStart \/ ReceiveDeclined
  \/ ReceiveClosure \/ ReceiveArtifact \/ RunAcknowledgement \/ ReceiveAcknowledged \/ HoldWithdrawal
  \/ RunRepair \/ ReceiveRepair \/ ReceiveFailure \/ NextExchange

ContractSpec == ContractInit /\ [][ContractNext]_contractVars

---------------------------------------------------------------------------

\* A review the host reports as running, or that a consent granted, froze the target the host observed or asked about.
StartedIsObserved ==
  held.kind = "started" =>
    /\ held.reviewing => frozen = seen.target
    /\ held.granted => frozen = asked.target
    /\ asked.lineage \in {Absent, held.lineage}
    /\ \A v \in held.next : v.args.lineage = held.lineage /\ v.binding.target = frozen

\* The burn the host runs or holds names, in the arguments that reach the provider, the approved authority it is for.
BurnIsOfApproved ==
  /\ held.kind \in {"burning", "burned"} =>
        /\ seen.approved
        /\ held.vector.args = [target |-> seen.target, lineage |-> seen.lineage, revision |-> seen.revision]
  /\ held.kind = "closure" =>
        \A v \in held.burn :
           /\ held.closure.state = "approved"
           /\ v.args.lineage = seen.lineage /\ v.args.revision = held.closure.revision

\* Whatever the provider renders, every invocation the host holds is of the candidate and the authority it was told
\* about: a running review, a burn, the STATUS after a closure, a validation, the withdrawal of a slot (the START, consent, closure
\* and acknowledgement bindings of review-integration-v2.ts and native-review-cli.ts, taken together).
ExecutableIsBound ==
  /\ StartedIsObserved
  /\ BurnIsOfApproved
  /\ held.kind = "closure" => \A v \in held.continue : v.args.lineage = seen.lineage /\ v.binding.target = seen.target
  /\ offer.kind = "collect" => offer.requested = RequestFields
  /\ held.kind = "withdraw" => held.slot.args = held.slot.binding
=============================================================================
