--------------------------- MODULE ReviewCapture ---------------------------
(***************************************************************************)
(* Reviewer capture: the tools gentle_review_capture and                   *)
(* gentle_review_capture_group of src/extensions/gentle-ai.ts over the     *)
(* host relay (src/lib/review-host-relay.ts) and the in-process reviewer   *)
(* (src/lib/inprocess-reviewer.ts).                                        *)
(*                                                                         *)
(* The provider (the gentle-ai binary, external) offers the slots of one   *)
(* review lineage: first every lens, then one closing slot.  A host asks   *)
(* for STATUS, runs a reviewer for each offered slot, and submits the      *)
(* results.  Several hosts may work on the same lineage, every process may *)
(* be killed by its time bound or by the caller, and the host must say     *)
(* afterwards what its operation did to the provider.                      *)
(***************************************************************************)
EXTENDS Integers, FiniteSets, Sequences, SequencesExt

CONSTANTS Host,          \* the sessions that capture for this lineage
          Lenses,        \* the number of lens slots
          MaxCaptures,   \* the captures all hosts start
          Malformed      \* may an admitted submission answer malformed JSON?

ASSUME CaptureAssumption ==
    /\ IsFiniteSet(Host) /\ Lenses \in Nat \ {0}
    /\ MaxCaptures \in Nat /\ Malformed \in BOOLEAN

Closer == Lenses + 1                 \* the slot offered once all lenses are in
Slot == 1 .. Closer

\* How the closing slot is captured: relayed like a lens, executed by the
\* provider itself, or a correction plan.
Closing == {"role", "vector", "plan"}

VARIABLES
    closing,     \* the kind of the closing slot
    captured,    \* provider: the consumed slots
    declared,    \* provider: the slots declared unachievable
    routes,      \* routes[h]: the bindings h retained from its last STATUS
    refused,     \* refused[h]: h remembers that the transport is refused
    aborted,     \* aborted[h]: the caller's AbortSignal fired
    cap,         \* cap[h]: the running capture operation of h
    report,      \* report[h]: what h's last capture told its caller
    captures     \* the captures started so far

captureVars ==
    <<closing, captured, declared, routes, refused, aborted, cap, report, captures>>

provider == <<closing, captured, declared>>

NoReply == "none"
\* A capture operation: its step, the bound slots in provider order, how each
\* reviewer settled, the position of the slot to submit, the answer that is
\* under way, and (history) the slots it consumed and the one it declared.
Idle == [pc |-> "idle", group |-> FALSE, plan |-> <<>>, got |-> <<>>, at |-> 1,
         reply |-> NoReply, took |-> {}, marked |-> {}]

\* What a caller is told: mutation is the claim, n the submitted reviewers.
Says(mutation, n) == [mutation |-> mutation, n |-> n]
Silent == [mutation |-> "nothing", n |-> 0, took |-> {}, marked |-> {}, plan |-> <<>>]

Kind(s) == IF s = Closer THEN closing ELSE "lens"
\* A collect input the host itself reviews: a lens, or a role the provider
\* left to the host.
IsRelaySlot(s) == Kind(s) \in {"lens", "role"}

\* The collect inputs of a STATUS.  A declared slot turns it into a stop.
Offered ==
    IF declared # {} \/ Closer \in captured THEN {}
    ELSE IF (1 .. Lenses) \subseteq captured THEN {Closer}
         ELSE (1 .. Lenses) \ captured

OfferedInOrder == SetToSortSeq(Offered, <)

\* Every STATUS replaces the retained routes of the lineage by the offered ones.
SyncRoutes(h) == routes' = [routes EXCEPT ![h] = Offered]

End(h, said) ==
    /\ cap' = [cap EXCEPT ![h] = Idle]
    /\ report' = [report EXCEPT ![h] =
                     [mutation |-> said.mutation, n |-> said.n, took |-> cap[h].took,
                      marked |-> cap[h].marked, plan |-> cap[h].plan]]

\* The progress of a group after n submissions, one more perhaps.
GroupProgress(h, n, uncertain) ==
    Says(IF n = 0 THEN IF uncertain THEN "unknown" ELSE "none"
         ELSE IF uncertain THEN "partial_unknown"
              ELSE IF n = Len(cap[h].plan) THEN "completed" ELSE "partial", n)

CaptureInit ==
    /\ closing \in Closing
    /\ captured = {} /\ declared = {}
    /\ routes = [h \in Host |-> {}]
    /\ refused = [h \in Host |-> FALSE]
    /\ aborted = [h \in Host |-> FALSE]
    /\ cap = [h \in Host |-> Idle]
    /\ report = [h \in Host |-> Silent]
    /\ captures = 0

-----------------------------------------------------------------------------
\* STATUS with the host agent: refused for good once the provider refused the
\* transport, otherwise it may fail, or answer and refresh the routes.
NegotiateStatus(h, Refuse, Fail, Answer) ==
    \/ /\ refused[h] /\ Refuse /\ UNCHANGED <<refused, routes>>
    \/ /\ ~refused[h] /\ ~aborted[h] /\ Refuse
       /\ refused' = [refused EXCEPT ![h] = TRUE] /\ UNCHANGED routes
    \/ ~refused[h] /\ Fail /\ UNCHANGED <<refused, routes>>
    \/ /\ ~refused[h] /\ ~aborted[h] /\ Answer
       /\ SyncRoutes(h) /\ UNCHANGED refused

\* The review STATUS operation, which publishes the bindings a capture names.
AskStatus(h) ==
    /\ cap[h].pc = "idle" /\ captures < MaxCaptures
    /\ routes[h] # Offered
    /\ SyncRoutes(h)
    /\ UNCHANGED <<provider, refused, aborted, cap, report, captures>>

\* Where an admitted capture starts: a reviewer run, or a provider call.
Enter(h, plan, group) ==
    /\ cap' = [cap EXCEPT ![h] =
              [Idle EXCEPT !.pc = IF IsRelaySlot(plan[1]) THEN "review" ELSE "submit",
                           !.group = group, !.plan = plan,
                           !.got = [i \in DOMAIN plan |-> "running"]]]
    /\ report' = [report EXCEPT ![h] = Silent]

\* The named binding is one of the collect inputs of a fresh STATUS; a group is
\* all of them, lenses only, each once and in the provider's order.
SelectExact(s, offer) == s \in offer

SelectGroup(plan, offer) ==
    /\ plan = SetToSortSeq(offer, <)
    /\ \A s \in offer : Kind(s) = "lens"

\* gentle_review_capture of one binding: the binding must be a registered
\* route, and a fresh STATUS must offer it.
Capture(h, s) ==
    /\ cap[h].pc = "idle" /\ captures < MaxCaptures
    /\ captures' = captures + 1
    /\ aborted' = [aborted EXCEPT ![h] = FALSE]
    /\ \/ s \notin routes[h] /\ End(h, Says("none", 0)) /\ UNCHANGED <<refused, routes>>
       \/ /\ s \in routes[h]
          /\ LET Rejected == End(h, Says("none", 0))
                 Selected == IF SelectExact(s, Offered) THEN Enter(h, <<s>>, FALSE) ELSE Rejected
             IN NegotiateStatus(h, Rejected, Rejected, Selected)
    /\ UNCHANGED provider

\* gentle_review_capture_group: exactly the offered lens slots, in order.
CaptureGroup(h) ==
    /\ cap[h].pc = "idle" /\ captures < MaxCaptures
    /\ routes[h] # {}
    /\ captures' = captures + 1
    /\ aborted' = [aborted EXCEPT ![h] = FALSE]
    /\ LET plan == SetToSortSeq(routes[h], <)
           Rejected == End(h, Says("none", 0))
           Selected == IF SelectGroup(plan, Offered) THEN Enter(h, plan, TRUE) ELSE Rejected
       IN NegotiateStatus(h, Rejected, Rejected, Selected)
    /\ UNCHANGED provider

\* The caller gives up.
Abort(h) ==
    /\ cap[h].pc # "idle" /\ ~aborted[h]
    /\ aborted' = [aborted EXCEPT ![h] = TRUE]
    /\ UNCHANGED <<provider, routes, refused, cap, report, captures>>

-----------------------------------------------------------------------------
\* The in-process completion: a fired signal decides before the answer does,
\* the time bound before the caller, and only clean text is a review.
Completion == {"throws", "cut", "error", "tool_call", "empty", "too_large", "text"}

CompletionVerdict(expired, gaveUp, answer) ==
    IF expired THEN "timed_out" ELSE IF gaveUp THEN "aborted" ELSE answer

\* What refuses a request before anything is launched, what ends the prompt's
\* materialization, and what keeps a reviewer from starting.
RequestRefusals == {"no_registry", "no_selection", "no_submission", "bad_submission"}

MaterializeEnds == {"unknown_flag", "handshake", "failed", "killed", "empty", "prompt"}

ReviewerRefusals == {"selection_invalid", "model_not_found", "no_provider",
                     "auth_unavailable", "thinking_invalid"}

\* Of all the typed relay errors only the time bound is a fact about the slot.
RelayFailure(why) ==
    CASE why = "text" -> "ready" [] why = "timed_out" -> "timed_out" [] OTHER -> "failed"

\* A child process of the relay: the caller's signal cuts it off, and what it
\* has done by then stays done.
ProcessReply(h, answer) == IF aborted[h] THEN "unreadable" ELSE answer

\* What one relayed slot can come to besides a result that is still awaited.
SlotEnds(h) ==
    RequestRefusals \cup (MaterializeEnds \ {"prompt"}) \cup ReviewerRefusals
        \cup {CompletionVerdict(expired, aborted[h], answer) : expired \in BOOLEAN, answer \in Completion}

\* One relayed slot: the request is validated, the provider materializes the
\* prompt, the reviewer completes it.  Nothing of this touches the provider.
PrepareSlot(h, i) ==
    /\ cap[h].pc = "review" /\ i \in DOMAIN cap[h].got
    /\ cap[h].got[i] = "running"
    /\ \E why \in SlotEnds(h) : cap' = [cap EXCEPT ![h].got[i] = RelayFailure(why)]
    /\ UNCHANGED <<provider, routes, refused, aborted, report, captures>>

\* All reviewers have settled; the earliest failure in provider order is the
\* failure of the operation.  Only a time bound on a lens ends the slot itself.
ReviewersSettle(h) ==
    /\ cap[h].pc = "review"
    /\ \A i \in DOMAIN cap[h].got : cap[h].got[i] # "running"
    /\ LET bad == {i \in DOMAIN cap[h].got : cap[h].got[i] # "ready"}
           first == CHOOSE i \in bad : \A j \in bad : i <= j
       IN \/ /\ bad = {}
             /\ cap' = [cap EXCEPT ![h].pc = IF cap[h].group THEN "check" ELSE "submit"]
             /\ UNCHANGED report
          \/ /\ bad # {} /\ ~cap[h].group
             /\ cap[h].got[first] = "timed_out" /\ Kind(cap[h].plan[first]) = "lens"
             /\ cap' = [cap EXCEPT ![h].pc = "declare"]
             /\ UNCHANGED report
          \/ /\ bad # {}
             /\ \/ cap[h].group
                \/ cap[h].got[first] # "timed_out" \/ Kind(cap[h].plan[first]) # "lens"
             /\ End(h, Says("none", 0))
    /\ UNCHANGED <<provider, routes, refused, aborted, captures>>

-----------------------------------------------------------------------------
\* Before every submission of a group a fresh STATUS must offer exactly the
\* slots that are still to be submitted.
CheckSuffix(h) ==
    /\ cap[h].pc = "check"
    /\ LET rest == SubSeq(cap[h].plan, cap[h].at, Len(cap[h].plan))
           Stop == End(h, GroupProgress(h, cap[h].at - 1, FALSE))
           Selected == IF OfferedInOrder = rest
                       THEN cap' = [cap EXCEPT ![h].pc = "submit"] /\ UNCHANGED report
                       ELSE Stop
       IN NegotiateStatus(h, Stop, Stop, Selected)
    /\ UNCHANGED <<provider, aborted, captures>>

\* The provider admits a result for an offered slot only, and says so, unless
\* its process is killed or cut off, before or after it admitted the result.
Answers(s, admits) ==
    IF ~admits THEN {"unreadable"} \cup (IF s \in Offered THEN {} ELSE {"refused"})
    ELSE (IF s = Closer THEN {"closure"} ELSE {"accepted"}) \cup {"unreadable"}
         \cup (IF Malformed THEN {"malformed"} ELSE {})

\* The submission is launched (a role vector and a correction plan likewise).
Submit(h) ==
    /\ cap[h].pc = "submit" /\ cap[h].reply = NoReply
    /\ \E admits \in BOOLEAN :
        LET s == cap[h].plan[cap[h].at] IN
        /\ admits => s \in Offered
        /\ captured' = IF admits THEN captured \cup {s} ELSE captured
        /\ \E answer \in Answers(s, admits) :
              cap' = [cap EXCEPT ![h] = [@ EXCEPT !.reply = ProcessReply(h, answer),
                                                  !.took = cap[h].took \cup (IF admits THEN {s} ELSE {})]]
    /\ UNCHANGED <<closing, declared, routes, refused, aborted, report, captures>>

MutationOutcome_Fault(reply) == "none"

\* The typed refusal proves that no slot was consumed; any other failed
\* submission is unknown.
MutationOutcome(reply) == IF reply = "refused" THEN "none" ELSE "unknown"

ClosureArrives(h) ==
    /\ cap[h].pc = "submit" /\ cap[h].reply = "closure"
    /\ End(h, Says("closed", cap[h].at))
    /\ routes' = [routes EXCEPT ![h] = {}]
    /\ UNCHANGED <<provider, refused, aborted, captures>>

ResultAccepted(h) ==
    /\ cap[h].pc = "submit" /\ cap[h].reply = "accepted"
    /\ IF ~cap[h].group THEN End(h, Says("captured", 1))
       ELSE /\ cap' = [cap EXCEPT ![h] = [@ EXCEPT
                             !.reply = NoReply, !.at = cap[h].at + 1,
                             !.pc = IF cap[h].at = Len(cap[h].plan) THEN "conclude" ELSE "check"]]
            /\ UNCHANGED report
    /\ UNCHANGED <<provider, routes, refused, aborted, captures>>

\* An error that carries no outcome of its own needs no STATUS.
NeedsStatus(reply) == reply # "malformed" /\ MutationOutcome(reply) = "unknown"

\* A malformed answer is no relay error: a single capture takes it for an
\* operation that failed before it changed anything, a group for an unknown one.
SubmissionFails(h) ==
    /\ cap[h].pc = "submit" /\ cap[h].reply \in {"refused", "unreadable", "malformed"}
    /\ IF NeedsStatus(cap[h].reply)
       THEN cap' = [cap EXCEPT ![h].pc = "reconcile"] /\ UNCHANGED report
       ELSE End(h, IF cap[h].group
                   THEN GroupProgress(h, cap[h].at - 1, cap[h].reply = "malformed")
                   ELSE Says("none", 0))
    /\ UNCHANGED <<provider, routes, refused, aborted, captures>>

\* One bound STATUS after an unknown outcome (or after the whole group); it
\* refreshes the routes when it answers, and never relaunches anything.
Reconcile(h) ==
    /\ cap[h].pc \in {"reconcile", "conclude"}
    /\ SyncRoutes(h) \/ UNCHANGED routes
    /\ End(h, IF cap[h].pc = "conclude" THEN GroupProgress(h, cap[h].at - 1, FALSE)
              ELSE IF cap[h].group THEN GroupProgress(h, cap[h].at - 1, TRUE)
              ELSE Says("unknown", 0))
    /\ UNCHANGED <<provider, refused, aborted, captures>>

-----------------------------------------------------------------------------
\* A timed out lens is declared unachievable; an older binary has no such verb.
Declare(h) ==
    /\ cap[h].pc = "declare" /\ cap[h].reply = NoReply
    /\ \E records \in BOOLEAN :
        LET s == cap[h].plan[1] IN
        /\ records => s \in Offered
        /\ declared' = IF records THEN declared \cup {s} ELSE declared
        /\ \E answer \in IF records THEN {"recorded", "unreadable"}
                         ELSE {"refused", "unreadable", "no_verb"} :
              cap' = [cap EXCEPT ![h] = [@ EXCEPT !.reply = ProcessReply(h, answer),
                                                  !.marked = IF records THEN {s} ELSE {}]]
    /\ UNCHANGED <<closing, captured, routes, refused, aborted, report, captures>>

\* The declaration's answer, then one bound STATUS whose stop must name the
\* declared slot before an unknown declaration counts as recorded.
DeclarationSettles(h) ==
    /\ cap[h].pc = "declare" /\ cap[h].reply # NoReply
    /\ LET s == cap[h].plan[1] IN
       \/ /\ cap[h].reply = "recorded" /\ End(h, Says("committed", 0))
          /\ SyncRoutes(h) \/ UNCHANGED routes
       \/ /\ cap[h].reply \in {"refused", "no_verb"} /\ End(h, Says("none", 0))
          /\ UNCHANGED routes
       \/ /\ cap[h].reply = "unreadable" /\ SyncRoutes(h)
          /\ End(h, Says(IF s \in declared THEN "committed" ELSE "unknown", 0))
       \/ /\ cap[h].reply = "unreadable" /\ UNCHANGED routes
          /\ End(h, Says("unknown", 0))
    /\ UNCHANGED <<provider, refused, aborted, captures>>

\* The operator withdraws a declaration with the command the stop names.
Withdraw(s) ==
    /\ s \in declared
    /\ declared' = declared \ {s}
    /\ UNCHANGED <<closing, captured, routes, refused, aborted, cap, report, captures>>

HostMoves(h) ==
    \/ \E i \in 1 .. Lenses : PrepareSlot(h, i)
    \/ ReviewersSettle(h) \/ CheckSuffix(h) \/ Submit(h)
    \/ ClosureArrives(h) \/ ResultAccepted(h) \/ SubmissionFails(h)
    \/ Reconcile(h) \/ Declare(h) \/ DeclarationSettles(h)

CaptureNext ==
    \/ \E h \in Host : AskStatus(h) \/ CaptureGroup(h) \/ Abort(h) \/ HostMoves(h)
    \/ \E h \in Host, s \in Slot : Capture(h, s)
    \/ \E s \in Slot : Withdraw(s)

CaptureSpec == CaptureInit /\ [][CaptureNext]_captureVars

-----------------------------------------------------------------------------
\* The report of a capture tells what the operation did to the provider:
\* "none" that no slot was consumed and none declared, a count that exactly
\* the first so many slots were, an unknown outcome that at most one more was.
\* However the processes die and whatever other hosts capture meanwhile, the
\* caller never believes that a consumed slot is free, or the reverse.
ReportIsTrue ==
    \A h \in Host :
        LET r == report[h]
            Prefix(n) == {r.plan[i] : i \in 1 .. n}
        IN CASE r.mutation = "none" -> r.took = {} /\ r.marked = {}
             [] r.mutation = "captured" -> r.took = Prefix(1)
             [] r.mutation \in {"partial", "completed", "closed"} -> r.took = Prefix(r.n)
             [] r.mutation \in {"unknown", "partial_unknown"} ->
                    r.took = Prefix(r.n) \/ r.took = Prefix(r.n + 1)
             [] OTHER -> TRUE

=============================================================================
