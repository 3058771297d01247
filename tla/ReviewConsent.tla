---------------------------- MODULE ReviewConsent ----------------------------
(***************************************************************************)
(* Starting a native review (extensions/gentle-ai.ts): the START and       *)
(* answer-consent operations of gentle_review_control, the process-wide    *)
(* registry of pending consent bindings with its expiry timers, the host's *)
(* consent dialog with the standing session permission, and the candidate  *)
(* views these retain.  The calls of one session are sequential; the       *)
(* sessions of a process, its timers and the provider (the gentle-ai       *)
(* binary) interleave at every await.  The provider is modelled from how   *)
(* the controller uses it: one lineage per candidate content.              *)
(***************************************************************************)
EXTENDS CandidateRegistry

CONSTANTS
  Session,  \* Pi sessions of this process over one repository
  Binding,  \* ids of consent bindings; each is drawn at most once
  MaxEdits, \* changes of the candidate content
  MaxCalls  \* tool calls of all sessions together

ASSUME ConsentAssumption == Lineage = Candidate /\ ReplayKey = Candidate

VARIABLES
  up,         \* session -> it was not shut down
  calls,      \* tool calls begun so far
  call,       \* session -> the tool call it runs and the await it is at
  views,      \* session -> its candidate-view registry
  drawn,      \* tokens of the views made so far
  pending,    \* binding -> its entry in the pending-consent registry
  permission, \* session -> [epoch, granted]: the standing permission
  retained,   \* session -> the content the untracked selection kept by
              \* INSPECT was resolved for, or None
  content,    \* the candidate content of the worktree now
  authority,  \* the contents for which the provider has a lineage
  answered,   \* binding -> how often the provider was given its answer
  chosen,     \* sessions whose user allowed reviews since the last revocation
  edits,      \* changes of the content so far
  honest      \* the last call did not report "no lineage" after making one

consentVars == <<pending, answered>>
permissionVars == <<permission, chosen>>
consentAllVars ==
  <<up, calls, call, views, drawn, consentVars, permissionVars, retained, content, edits, authority, honest>>

Quiet == [step |-> "idle"]
Unbound == [state |-> "unused"]

ConsentInit ==
  /\ up = [s \in Session |-> TRUE] /\ call = [s \in Session |-> Quiet]
  /\ views = [s \in Session |-> EmptyRegistry] /\ drawn = {}
  /\ pending = [b \in Binding |-> Unbound] /\ answered = [b \in Binding |-> 0]
  /\ permission = [s \in Session |-> [epoch |-> 0, granted |-> FALSE]] /\ chosen = {}
  /\ retained = [s \in Session |-> None] /\ content \in Candidate /\ authority = {}
  /\ edits = 0 /\ calls = 0 /\ honest = TRUE

At(s, step) == call[s].step = step
Goto(s, c) == call' = [call EXCEPT ![s] = c]

\* A running session makes its next call.
Begin(s) == up[s] /\ At(s, "idle") /\ calls < MaxCalls /\ calls' = calls + 1

\* A call returns to its caller; created says whether the provider made a
\* lineage for it.
Return(s, says, created) == Goto(s, Quiet) /\ honest' = ~(says = "none" /\ created)

\* The bindings of a session that are registered, and those with its view t.
LiveOf(s) == {b \in Binding : pending[b].state = "live" /\ pending[b].session = s}
LiveOn(s, t) == {b \in LiveOf(s) : pending[b].token = t}
Ends(bs, state) == [b \in Binding |-> IF b \in bs THEN [pending[b] EXCEPT !.state = state] ELSE pending[b]]

\* cleanupCandidate() of the bindings bs, all of session s.
DropViews(s, bs) ==
  LET gone == {pending[b].token : b \in bs}
  IN CleanupAll(views[s], Held(views[s]) \ gone)

-----------------------------------------------------------------------------
(* START.                                                                  *)

\* INSPECT with an untracked selection keeps it for the next plain START.
Inspect(s) ==
  /\ Begin(s) /\ retained[s] # content
  /\ retained' = [retained EXCEPT ![s] = content]
  /\ UNCHANGED <<up, call, views, drawn, consentVars, permissionVars, content, edits, authority, honest>>

\* The input is valid; the kept selection is read before the first await.
StartReview(s) ==
  /\ Begin(s)
  /\ Goto(s, [step |-> "status", selection |-> retained[s]])
  /\ UNCHANGED <<up, views, drawn, consentVars, permissionVars, retained, content, edits, authority, honest>>

\* The mode gate and STATUS answer; the gate may refuse, the status fail.
StatusAnswered(s) ==
  /\ At(s, "status")
  /\ \/ /\ Goto(s, [step |-> "target", selection |-> call[s].selection, target |-> content,
                    offered |-> content \notin authority])
        /\ UNCHANGED honest
     \/ Return(s, "none", FALSE)
  /\ UNCHANGED <<up, calls, views, drawn, consentVars, permissionVars, retained, content, edits, authority>>

\* sameNativePreLineageCandidate(): the kept selection was resolved for the
\* candidate that STATUS names.
SameCandidate(selection, target) == selection \in {None, target}

\* A selection for other content is dropped, and START is blocked.
StartMismatch(s) ==
  /\ At(s, "target") /\ ~SameCandidate(call[s].selection, call[s].target)
  /\ retained' = [retained EXCEPT ![s] = None]
  /\ Return(s, "none", FALSE)
  /\ UNCHANGED <<up, calls, views, drawn, consentVars, permissionVars, content, edits, authority>>

\* The provider offers something other than a start of a new lineage.
StartNotOffered(s) ==
  /\ At(s, "target") /\ SameCandidate(call[s].selection, call[s].target)
  /\ ~call[s].offered
  /\ Return(s, "none", FALSE)
  /\ UNCHANGED <<up, calls, views, drawn, consentVars, permissionVars, retained, content, edits, authority>>

\* Expired bindings are pruned with their views; the view of this candidate
\* is made or reused, compared with the target, and START is launched.  A
\* view that does not match is removed again.
StartLaunch(s) ==
  /\ At(s, "target") /\ SameCandidate(call[s].selection, call[s].target)
  /\ call[s].offered
  /\ LET x == call[s].target
         due == {b \in LiveOf(s) : pending[b].due}
         pruned == DropViews(s, due)
     IN /\ pending' = Ends(due, "expired")
        /\ \E t \in (Token \ drawn) \cup ({pruned.replays[x]} \ {None}) :
             LET made == CreateOrReuse(pruned, x, t, content, TRUE).reg
                 used == ReusedToken(pruned, x, t)
             IN /\ drawn' = drawn \cup {used}
                /\ IF made.records[used].tree = x
                   THEN /\ views' = [views EXCEPT ![s] = made]
                        /\ Goto(s, [step |-> "native", selection |-> call[s].selection,
                                    target |-> x, token |-> used])
                        /\ UNCHANGED honest
                   ELSE /\ views' = [views EXCEPT ![s] = CleanupView(made, used, TRUE).reg]
                        /\ Return(s, "none", FALSE)
  /\ UNCHANGED <<up, calls, answered, permissionVars, retained, content, edits, authority>>

\* The provider answers START: it asks for consent, creates or resumes the
\* lineage, or refuses; or the process is lost before or after its effect.
ProviderStarts(s) ==
  /\ At(s, "native")
  /\ LET x == call[s].target IN
     \E reply \in {"consent", "created", "resumed", "refused", "lost"}, effect \in BOOLEAN :
       /\ reply = "consent" => x \notin authority
       /\ reply = "created" <=> effect /\ reply # "lost"
       /\ effect => x \notin authority
       /\ reply = "resumed" => x \in authority
       /\ authority' = IF effect THEN authority \cup {x} ELSE authority
       /\ Goto(s, [step |-> "started", target |-> x, token |-> call[s].token,
                  reply |-> reply, effect |-> effect])
  /\ UNCHANGED <<up, calls, views, drawn, consentVars, permissionVars, retained, content, edits, honest>>

\* The result of a START that the provider completed.
Result(c, lenses) ==
  [lineage |-> c.target, lenses |-> lenses, action |-> c.reply]

\* START succeeded: the view is bound to the lineage; a failure of the
\* binding is reported as an unknown outcome and reconciled through STATUS.
StartCompleted(s) ==
  /\ At(s, "started") /\ call[s].reply \in {"created", "resumed"}
  /\ \E lenses \in BOOLEAN :
       LET done == CompleteNativeStart(views[s], call[s].token, Result(call[s], lenses),
                                       content, TRUE, TRUE)
       IN /\ views' = [views EXCEPT ![s] = done.reg]
          /\ Return(s, IF done.ok THEN "created" ELSE "unknown", call[s].effect)
  /\ retained' = [retained EXCEPT ![s] = None]
  /\ UNCHANGED <<up, calls, drawn, consentVars, permissionVars, content, edits, authority>>

\* A proven refusal removes the view; a lost process keeps it.
StartFailed(s) ==
  /\ At(s, "started") /\ call[s].reply \in {"refused", "lost"}
  /\ views' = [views EXCEPT ![s] =
       IF call[s].reply = "refused" THEN CleanupView(@, call[s].token, TRUE).reg ELSE @]
  /\ Return(s, IF call[s].reply = "refused" THEN "none" ELSE "unknown", call[s].effect)
  /\ UNCHANGED <<up, calls, drawn, consentVars, permissionVars, retained, content, edits, authority>>

\* The provider asks for consent: the live binding of this very view and
\* envelope is offered again, or the others on the view are discarded and a
\* fresh one is registered with its timer.  The dialog follows unless the
\* standing permission answers it.
StartNeedsConsent(s) ==
  /\ At(s, "started") /\ call[s].reply = "consent"
  /\ LET t == call[s].token
         same == {b \in LiveOn(s, t) : ~pending[b].due}
         ask(b) == [step |-> IF permission[s].granted THEN "confirm" ELSE "dialog",
                    binding |-> b, epoch |-> permission[s].epoch,
                    kind |-> IF permission[s].granted THEN "standing" ELSE "none"]
     IN \/ /\ \E b \in same : Goto(s, ask(b))
           /\ UNCHANGED pending
        \/ \E b \in {c \in Binding : pending[c] = Unbound} :
             /\ pending' = [Ends(LiveOn(s, t), "discarded") EXCEPT ![b] =
                  [state |-> "live", session |-> s, token |-> t, target |-> call[s].target,
                   due |-> FALSE]]
             /\ Goto(s, ask(b))
  /\ UNCHANGED <<up, calls, views, drawn, answered, permissionVars, retained, content, edits, authority, honest>>

-----------------------------------------------------------------------------
(* The dialog and the standing permission.                                 *)

\* presentReviewConsentUi(): the user grants or declines this review, allows
\* all reviews of the session, or leaves the binding for later.
UserChooses(s) ==
  /\ up[s] /\ At(s, "dialog")
  /\ \/ /\ \E kind \in {"granted", "declined", "session"} :
             /\ Goto(s, [call[s] EXCEPT !.step = "confirm", !.kind = kind])
             /\ chosen' = IF kind = "session" THEN chosen \cup {s} ELSE chosen
        /\ UNCHANGED honest
     \/ Return(s, "none", FALSE) /\ UNCHANGED chosen
  /\ UNCHANGED <<up, calls, views, drawn, consentVars, permission, retained, content, edits, authority>>

\* A command or an unrelated session_start revokes the permission.
Revoke(s) ==
  /\ up[s] /\ permission[s].epoch = 0
  /\ permission' = [permission EXCEPT ![s] = [epoch |-> @.epoch + 1, granted |-> FALSE]]
  /\ chosen' = chosen \ {s}
  /\ UNCHANGED <<up, calls, call, views, drawn, consentVars, retained, content, edits, authority, honest>>

\* grantReviewSessionPermission(): refused when a revocation came between.
Grant_AnyEpoch(s, epoch) == [permission EXCEPT ![s].granted = TRUE]

Grant(s, epoch) ==
  [permission EXCEPT ![s].granted = IF permission[s].epoch = epoch THEN TRUE ELSE @]

-----------------------------------------------------------------------------
(* answer-consent.                                                         *)

Gone(b) == views[pending[b].session].records[pending[b].token] = None

\* The synchronous beginning: a binding that is not live, or whose time is
\* over, is stale; a view that is gone fails the verification; otherwise the
\* binding is consumed before the first await.
TakeAnswer(s, b, kind, epoch) ==
  \/ /\ pending[b].state # "live"
     /\ Return(s, "none", FALSE)
     /\ UNCHANGED <<views, pending>>
  \/ /\ pending[b].state = "live" /\ pending[b].due
     /\ pending' = Ends({b}, "expired")
     /\ views' = [views EXCEPT ![pending[b].session] = DropViews(pending[b].session, {b})]
     /\ Return(s, "none", FALSE)
  \/ /\ pending[b].state = "live" /\ ~pending[b].due /\ Gone(b)
     /\ Return(s, "none", FALSE)
     /\ UNCHANGED <<views, pending>>
  \/ /\ pending[b].state = "live" /\ ~pending[b].due /\ ~Gone(b)
     /\ pending' = Ends({b}, "consumed")
     /\ Goto(s, [step |-> "gate", binding |-> b, kind |-> kind, epoch |-> epoch])
     /\ UNCHANGED <<views, honest>>

\* Any session may present a binding, its own or another's.
AnswerConsent(s) ==
  /\ Begin(s)
  /\ \E b \in Binding, kind \in {"granted", "declined"} :
       pending[b] # Unbound /\ TakeAnswer(s, b, kind, permission[s].epoch)
  /\ UNCHANGED <<up, drawn, answered, permissionVars, retained, content, edits, authority>>

\* The identity is captured again after the dialog; a revocation since then
\* leaves the binding unanswered.
Confirmed(s) ==
  /\ At(s, "confirm")
  /\ IF permission[s].epoch = call[s].epoch
     THEN TakeAnswer(s, call[s].binding, call[s].kind, call[s].epoch)
     ELSE Return(s, "none", FALSE) /\ UNCHANGED <<views, pending>>
  /\ UNCHANGED <<up, calls, drawn, answered, permissionVars, retained, content, edits, authority>>

\* The mode gate: refused or failed, the view goes with the binding.
AnswerGate(s) ==
  /\ At(s, "gate")
  /\ LET b == call[s].binding
         owner == pending[b].session
     IN \/ Goto(s, [call[s] EXCEPT !.step = "answer"]) /\ UNCHANGED <<views, honest>>
        \/ /\ views' = [views EXCEPT ![owner] = DropViews(owner, {b})]
           /\ Return(s, "none", FALSE)
  /\ UNCHANGED <<up, calls, drawn, consentVars, permissionVars, retained, content, edits, authority>>

\* The provider takes the answer.
ProviderAnswers(s) ==
  /\ At(s, "answer")
  /\ LET b == call[s].binding
         x == pending[b].target
     IN /\ answered' = [answered EXCEPT ![b] = @ + 1]
        /\ \E reply \in {"created", "resumed", "declined", "refused", "lost"}, effect \in BOOLEAN :
             /\ call[s].kind = "declined" => reply \notin {"created", "resumed"} /\ ~effect
             /\ call[s].kind # "declined" => reply # "declined"
             /\ reply = "created" <=> effect /\ reply # "lost"
             /\ effect => x \notin authority
             /\ reply = "resumed" => x \in authority
             /\ authority' = IF effect THEN authority \cup {x} ELSE authority
             /\ Goto(s, [step |-> "answered", binding |-> b, kind |-> call[s].kind,
                         epoch |-> call[s].epoch, reply |-> reply, effect |-> effect, target |-> x])
  /\ UNCHANGED <<up, calls, views, drawn, pending, permissionVars, retained, content, edits, honest>>

\* The lineage exists: its view is bound in the registry of the session that
\* made it, and a session-wide answer becomes the standing permission.  A
\* failure of the binding carries no outcome of its own, and is reported as
\* "no mutation".
AnswerCompleted(s) ==
  /\ At(s, "answered") /\ call[s].reply \in {"created", "resumed"}
  /\ LET b == call[s].binding
         owner == pending[b].session
     IN \E lenses \in BOOLEAN :
          LET done == CompleteNativeStart(views[owner], pending[b].token, Result(call[s], lenses),
                                          content, ~Gone(b), TRUE)
          IN /\ views' = [views EXCEPT ![owner] = done.reg]
             /\ permission' = IF done.ok /\ call[s].kind = "session"
                              THEN Grant(s, call[s].epoch) ELSE permission
             /\ Return(s, IF done.ok THEN "created" ELSE "none", call[s].effect)
  /\ retained' = [retained EXCEPT ![s] = None]
  /\ UNCHANGED <<up, calls, drawn, consentVars, chosen, content, edits, authority>>

\* Declined, or proven without effect: the view goes; lost: it stays.
AnswerEnded(s) ==
  /\ At(s, "answered") /\ call[s].reply \in {"declined", "refused", "lost"}
  /\ LET b == call[s].binding
         owner == pending[b].session
     IN views' = [views EXCEPT ![owner] = IF call[s].reply = "lost" THEN @ ELSE DropViews(owner, {b})]
  /\ Return(s, IF call[s].reply = "lost" THEN "unknown" ELSE "none", call[s].effect)
  /\ UNCHANGED <<up, calls, drawn, consentVars, permissionVars, retained, content, edits, authority>>

-----------------------------------------------------------------------------
(* Time, the user and the sessions.                                        *)

\* The clock passes a binding's expiresAt; its timer fires at some time
\* after that.
Elapse(b) ==
  /\ pending[b].state = "live" /\ ~pending[b].due
  /\ pending' = [pending EXCEPT ![b].due = TRUE]
  /\ UNCHANGED <<up, calls, call, views, drawn, answered, permissionVars, retained, content, edits, authority, honest>>

ExpiryTimer(b) ==
  /\ pending[b].state = "live" /\ pending[b].due
  /\ pending' = Ends({b}, "expired")
  /\ views' = [views EXCEPT ![pending[b].session] = DropViews(pending[b].session, {b})]
  /\ UNCHANGED <<up, calls, call, drawn, answered, permissionVars, retained, content, edits, authority, honest>>

EditCandidate ==
  /\ edits < MaxEdits /\ edits' = edits + 1 /\ content' \in Candidate \ {content}
  /\ UNCHANGED <<up, calls, call, views, drawn, consentVars, permissionVars, retained, authority, honest>>

\* session_shutdown: the views, the permission, the bindings and the kept
\* selections of the session; a call at an await runs on afterwards.
SessionShutdown(s) ==
  /\ up[s] /\ up' = [up EXCEPT ![s] = FALSE]
  /\ views' = [views EXCEPT ![s] = CleanupAll(@, {})]
  /\ permission' = [permission EXCEPT ![s] = [epoch |-> @.epoch + 1, granted |-> FALSE]]
  /\ chosen' = chosen \ {s}
  /\ pending' = Ends(LiveOf(s), "discarded")
  /\ retained' = [retained EXCEPT ![s] = None]
  /\ UNCHANGED <<calls, call, drawn, answered, content, edits, authority, honest>>

ConsentNext ==
  \/ EditCandidate
  \/ \E b \in Binding : Elapse(b) \/ ExpiryTimer(b)
  \/ \E s \in Session :
       \/ Inspect(s) \/ StartReview(s) \/ StatusAnswered(s)
       \/ StartMismatch(s) \/ StartNotOffered(s) \/ StartLaunch(s)
       \/ ProviderStarts(s) \/ StartCompleted(s) \/ StartFailed(s) \/ StartNeedsConsent(s)
       \/ UserChooses(s) \/ Revoke(s) \/ AnswerConsent(s) \/ Confirmed(s)
       \/ AnswerGate(s) \/ ProviderAnswers(s) \/ AnswerCompleted(s) \/ AnswerEnded(s)
       \/ SessionShutdown(s)

ConsentSpec == ConsentInit /\ [][ConsentNext]_consentAllVars

-----------------------------------------------------------------------------
(* Properties.                                                             *)

\* A session has the standing permission only if its user allowed it after
\* the last revocation, whatever the awaits between the dialog, the answer
\* and the grant let happen.
PermissionWasChosen == \A s \in Session : permission[s].granted => s \in chosen

\* The untracked selection a START sends was resolved for the candidate it
\* starts, although INSPECT kept it before any number of edits.
SelectionOfCandidate ==
  \A s \in Session : At(s, "native") => call[s].selection \in {None, call[s].target}

\* What a consent is for: a permission that the user chose, of a selection
\* resolved for the candidate that is started (gentle-ai.ts START and INSPECT).
ConsentIsChosen == PermissionWasChosen /\ SelectionOfCandidate

=============================================================================
