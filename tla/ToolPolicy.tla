------------------------------ MODULE ToolPolicy ------------------------------
(***************************************************************************)
(* What gentle-ai lets an agent do.  Every tool call passes one handler:   *)
(* a blocked SDD start refuses everything; sensitive paths are refused; a  *)
(* primary turn may write one file directly; a dispatch of an SDD agent    *)
(* needs the preflight of its own session, a Judgment Day fix the frozen   *)
(* findings, a writer one agreed set of edit surfaces; a guarded command   *)
(* is classified by the guardrail files and may have to be confirmed.      *)
(* Preflight and confirmation await the user, so calls overlap, sessions   *)
(* of one project share the saved preferences, and the attention the host  *)
(* shows must follow what is really awaited.  The line about receipt       *)
(* driven development is read, memoised and rendered by the same module.   *)
(***************************************************************************)
EXTENDS Naturals, Sequences, FiniteSets

CONSTANTS
    PiSession,     \* sessions of one project, each a process of its own
    ToolCall,      \* tool calls in flight
    GuardKey,      \* kinds of guarded command
    GuardFile,     \* guardrail files tried, AbsentFile and BadFile among them
    AutoDefault,   \* AUTONOMOUS_DEFAULT_ACTIONS
    RepoFile,      \* files a direct write may name
    Finding,       \* findings of a Judgment Day ledger
    LineRead,      \* starts of an agent that may read the mode at the same time
    MemoTtl,       \* RDD_STATUS_MEMO_TTL_MS in ticks
    ReadTimeout,   \* RDD_STATUS_TIMEOUT_MS in ticks
    MaxTime        \* bound on the clock

GuardAction == {"allow", "confirm", "block"}
Unset == [k \in GuardKey |-> "unset"]
AbsentFile == [kind |-> "absent", auto |-> FALSE, acts |-> Unset]
BadFile == [kind |-> "malformed", auto |-> FALSE, acts |-> Unset]

ASSUME ToolPolicyAssumption ==
    /\ IsFiniteSet(ToolCall)
    /\ AutoDefault \in [GuardKey -> GuardAction]
    /\ {AbsentFile, BadFile} \subseteq GuardFile
    /\ \A f \in GuardFile : f.acts \in [GuardKey -> GuardAction \cup {"unset"}]
    /\ MemoTtl \in Nat /\ ReadTimeout \in Nat /\ ReadTimeout < MemoTtl /\ MaxTime \in Nat

VARIABLES
    mode,       \* per session: an interactive one, a headless one or an RPC child
    turn,       \* per session: the startup block and the direct-write boundary
    guardrails, \* the guardrail settings in the environment and on disk
    preflight,  \* per session: the resolved preferences and the resolution in flight
    saved,      \* the preferences in the project directory
    answered,   \* the sessions whose user confirmed a preflight
    toolCall,   \* the state of every call
    attention,  \* per session: the host's view of what is awaited
    dialogs,    \* per session: the choice and questionnaire dialogs that are really open
    rdd         \* the actual mode, its history, the memo and the reads in flight

policyVars == <<mode, turn, guardrails, preflight, saved, answered, toolCall,
                attention, dialogs, rdd>>

-----------------------------------------------------------------------------
(* Guarded commands.                                                       *)

\* A command, by what its patterns find: guarded keys in the order of their
\* position, and whether a hard-deny pattern matches.
GuardedCommands == {[keys |-> k, denied |-> d] :
                k \in {<<>>} \cup {<<a>> : a \in GuardKey} \cup {<<a, b>> : a \in GuardKey, b \in GuardKey},
                d \in BOOLEAN}

SafeConfig == [auto |-> FALSE, acts |-> Unset]

\* loadRuntimeGuardrailsConfig: the variable wins, a malformed file makes all
\* of it safe, the project's mode replaces the global one and its actions merge.
LoadGuardrails(g) ==
    IF g.env THEN [auto |-> TRUE, acts |-> Unset]
    ELSE IF "malformed" \in {g.global.kind, g.project.kind} THEN SafeConfig
    ELSE IF g.project.kind = "absent" THEN [auto |-> g.global.auto, acts |-> g.global.acts]
    ELSE [auto |-> g.project.auto,
          acts |-> [k \in GuardKey |-> IF g.project.acts[k] # "unset" THEN g.project.acts[k]
                                       ELSE g.global.acts[k]]]

ActionOf(cfg, key) ==
    IF ~cfg.auto THEN "confirm"
    ELSE IF cfg.acts[key] # "unset" THEN cfg.acts[key] ELSE AutoDefault[key]

\* collectGuardedMatches and the denied patterns: the action of every part of a
\* command that some pattern matches.
PartActions(cmd, cfg) ==
    {ActionOf(cfg, cmd.keys[i]) : i \in DOMAIN cmd.keys} \cup (IF cmd.denied THEN {"block"} ELSE {})

\* evaluateGuardedCommand: a hard deny first, then block, confirm and allow over
\* all the matches of the command.
EvaluateGuarded_Fault(cmd, cfg) ==
    IF cmd.denied THEN "block"
    ELSE IF cmd.keys = <<>> THEN "not-guarded" ELSE ActionOf(cfg, cmd.keys[1])

EvaluateGuarded(cmd, cfg) ==
    LET acts == PartActions(cmd, cfg)
    IN CASE "block" \in acts -> "block"
         [] "block" \notin acts /\ "confirm" \in acts -> "confirm"
         [] OTHER -> IF acts = {} THEN "not-guarded" ELSE "allow"

-----------------------------------------------------------------------------
(* What a dispatch must carry.                                             *)

\* The edit-surface entries that are accepted: a narrow repository-relative path,
\* or one quoted because of its blanks.  Absolute paths, parents, globs over the
\* root and unquoted blanks are refused.
NarrowSurface == {"path", "other", "quoted"}

\* hasTaskScopedAllowedEditSurfaces: some section, and all of them the same
\* non-empty set of valid entries.
HasSurfaces(sections) ==
    /\ sections # {}
    /\ \A a \in sections : a # {} /\ a \subseteq NarrowSurface
    /\ \A a, b \in sections : a = b

\* A Judgment Day fix names the ids it is authorised for, carries the rows, and
\* quotes the hash the ledger had when it was frozen; only severe open rows are
\* canonical, and ids and rows agree in order.
HasActivation(d) ==
    /\ d.activated /\ d.ids # <<>>
    /\ \A i, j \in DOMAIN d.ids : i # j => d.ids[i] # d.ids[j]
    /\ [i \in DOMAIN d.rows |-> d.rows[i].id] = d.ids
    /\ \A i \in DOMAIN d.rows : d.rows[i].severe
    /\ d.hash = d.rows

\* The dispatches tried: writers with one or two sections, and fixes that agree
\* with the frozen ledger or differ from it in a row, an id or the hash.
Sections == {{}, {{"path"}}, {{"path"}, {"path", "other"}}, {{"path", "parent"}}, {{}}, {{"quoted"}}}
LedgerRows == {[id |-> f, severe |-> s] : f \in Finding, s \in BOOLEAN}
GoodForm == [sections |-> {{"path"}}, alone |-> TRUE, activated |-> TRUE]
FixForms == {GoodForm, [GoodForm EXCEPT !.sections = {}], [GoodForm EXCEPT !.alone = FALSE],
             [GoodForm EXCEPT !.activated = FALSE]}
FixDispatch == {[kind |-> "fix", sections |-> form.sections, alone |-> form.alone,
                 activated |-> form.activated, ids |-> <<i>>, rows |-> <<r>>, hash |-> <<h>>] :
                  form \in FixForms, i \in Finding, r \in LedgerRows, h \in LedgerRows}
WriterDispatch == {[kind |-> "writer", sections |-> sec] : sec \in Sections}
SddDispatch == {[kind |-> "sdd", context |-> c, single |-> s] :
                  c \in {"plain", "forged", "other"}, s \in BOOLEAN}

RejectsFix(d) ==
    d.kind = "fix" /\ ~(d.alone /\ HasActivation(d) /\ HasSurfaces(d.sections))

RejectsWriter(d) == d.kind \in {"writer", "fix"} /\ ~HasSurfaces(d.sections)

-----------------------------------------------------------------------------
(* The attention the host is shown.                                        *)

Label(choice, questionnaire, pending) ==
    IF choice THEN "choice"
    ELSE IF questionnaire THEN "questionnaire"
    ELSE IF pending > 0 THEN "guarded" ELSE "none"

\* emitEffectiveBlocker after any change of the three causes.
Shown(a) == [a EXCEPT !.label = Label(a.choice, a.questionnaire, a.pending)]

Awaiting(a, pending) == Shown([a EXCEPT !.pending = pending])

\* The dialogs announce themselves; an announcement may come twice.
Announce(s, kind, open) ==
    /\ dialogs' = [dialogs EXCEPT ![s][kind] = open]
    /\ attention' = [attention EXCEPT ![s] = Shown([@ EXCEPT ![kind] = open])]
    /\ UNCHANGED <<mode, turn, guardrails, preflight, saved, answered, toolCall, rdd>>

-----------------------------------------------------------------------------
(* Tool calls.                                                             *)

\* parts is the action every part of the command had when it arrived, said what
\* the dialog of this very call heard.
NoCall == [pc |-> "idle", session |-> "none", input |-> [kind |-> "none"], carried |-> "none",
           parts |-> {}, said |-> "none"]

Refuse(c) == toolCall' = [toolCall EXCEPT ![c].pc = "refused"]

Run(c) == toolCall' = [toolCall EXCEPT ![c].pc = "running"]

\* The boundary of direct writes: only a primary turn with no child running is
\* held to the first file it changed.
OutsideBoundary(s, f) ==
    /\ turn[s].primary /\ turn[s].children = 0
    /\ turn[s].first # "none" /\ turn[s].first # f

\* The first gates, in the order of the handler.
TurnedAway(s, in) ==
    \/ turn[s].blocked /\ in.kind # "parentMessage"
    \/ in.kind = "path" /\ in.sensitive
    \/ in.kind = "write" /\ OutsideBoundary(s, in.file)

\* A call arrives.  A dispatch of an SDD agent waits for the preflight of its
\* session; a command is classified; everything else is decided at once.
ToolCallArrives(c, s, in) ==
    LET cfg == LoadGuardrails(guardrails)
        verdict == IF in.kind = "bash" THEN EvaluateGuarded(in.cmd, cfg) ELSE "not-guarded"
        pc == CASE TurnedAway(s, in) -> "refused"
                [] ~TurnedAway(s, in) /\ in.kind = "sdd" ->
                     IF in.single /\ mode[s] # "rpc" THEN "preflight" ELSE "refused"
                [] ~TurnedAway(s, in) /\ in.kind \in {"fix", "writer"} ->
                     IF RejectsFix(in) \/ RejectsWriter(in) THEN "refused" ELSE "running"
                [] ~TurnedAway(s, in) /\ in.kind = "bash" ->
                     CASE verdict = "block" -> "refused"
                       [] verdict = "confirm" -> IF mode[s] = "headless" THEN "refused" ELSE "confirming"
                       [] OTHER -> "running"
                [] OTHER -> "running"
    IN /\ toolCall[c].pc = "idle"
       /\ toolCall' = [toolCall EXCEPT ![c] = [NoCall EXCEPT !.pc = pc, !.session = s,
                         !.input = IF in.kind \in {"write", "sdd"} THEN in ELSE [kind |-> in.kind],
                         !.parts = IF in.kind = "bash" THEN PartActions(in.cmd, cfg) ELSE {}]]
       /\ attention' = IF pc = "confirming"
                       THEN [attention EXCEPT ![s] = Awaiting(@, attention[s].pending + 1)] ELSE attention
       /\ UNCHANGED <<mode, turn, guardrails, preflight, saved, answered, dialogs, rdd>>

\* The confirmation settles: yes, no, or the dialog throws.  The request is
\* answered and the attention lowered on every way out.
ConfirmSettles(c, answer) ==
    /\ toolCall[c].pc = "confirming"
    /\ toolCall' = [toolCall EXCEPT ![c].pc = IF answer = "yes" THEN "running" ELSE "refused",
                                    ![c].said = answer]
    /\ LET s == toolCall[c].session
           left == IF attention[s].pending = 0 THEN 0 ELSE attention[s].pending - 1
       IN  attention' = [attention EXCEPT ![s] = Awaiting(@, left)]
    /\ UNCHANGED <<mode, turn, guardrails, preflight, saved, answered, dialogs, rdd>>

\* The tool has run: the first direct write of a primary turn sets the boundary.
ToolReturns(c, ok) ==
    LET s == toolCall[c].session IN
    /\ toolCall[c].pc \in {"running", "refused"}
    /\ toolCall' = [toolCall EXCEPT ![c] = NoCall]
    /\ turn' = IF /\ ok /\ toolCall[c].pc = "running" /\ toolCall[c].input.kind = "write"
                  /\ turn[s].primary /\ turn[s].children = 0 /\ turn[s].first = "none"
               THEN [turn EXCEPT ![s].first = toolCall[c].input.file] ELSE turn
    /\ UNCHANGED <<mode, guardrails, preflight, saved, answered, attention, dialogs, rdd>>

-----------------------------------------------------------------------------
(* The SDD preflight.                                                      *)

NoPrefs == "none"

\* ensureSddPreflight: a call joins the resolution in flight or begins one; only
\* an interactive session asks, and what is saved is a suggestion.
BeginPreflight(c) ==
    LET s == toolCall[c].session IN
    /\ toolCall[c].pc = "preflight"
    /\ preflight[s].prefs = NoPrefs /\ preflight[s].flight = "idle"
    /\ preflight' = [preflight EXCEPT ![s].flight = IF mode[s] = "tui" THEN "asking" ELSE "resolved"]
    /\ UNCHANGED <<mode, turn, guardrails, saved, answered, toolCall, attention, dialogs, rdd>>

\* collectSddPreflightPreferences with a user: confirmed as it is or changed, or
\* cancelled, which fails every call that waits and records nothing.
PreflightAnswered(s, yes) ==
    /\ preflight[s].flight = "asking"
    /\ preflight' = [preflight EXCEPT ![s].flight = IF yes THEN "resolved" ELSE "idle"]
    /\ answered' = IF yes THEN answered \cup {s} ELSE answered
    /\ toolCall' = [c \in ToolCall |-> IF ~yes /\ toolCall[c].session = s /\ toolCall[c].pc = "preflight"
                                       THEN [toolCall[c] EXCEPT !.pc = "refused"] ELSE toolCall[c]]
    /\ UNCHANGED <<mode, turn, guardrails, saved, attention, dialogs, rdd>>

\* prompted is what this resolution heard, never what the saved file says.
PromptedOf(s) == mode[s] = "tui"

\* The assets are installed and the models applied, then the preferences are
\* kept for the session and written for the project.
PreflightResolves(s, failed) ==
    /\ preflight[s].flight = "resolved"
    /\ preflight' = [preflight EXCEPT ![s].flight = "idle",
                       ![s].prefs = IF failed THEN @ ELSE IF PromptedOf(s) THEN "prompted" ELSE "defaults"]
    /\ saved' = IF failed THEN saved ELSE IF PromptedOf(s) THEN "prompted" ELSE "defaults"
    /\ toolCall' = [c \in ToolCall |-> IF failed /\ toolCall[c].session = s /\ toolCall[c].pc = "preflight"
                                       THEN [toolCall[c] EXCEPT !.pc = "refused"] ELSE toolCall[c]]
    /\ UNCHANGED <<mode, turn, guardrails, answered, attention, dialogs, rdd>>

\* The dispatch goes on with the preferences of its session: an interactive
\* session needs its own confirmation, and a block the caller wrote is refused.
DispatchSdd(c) ==
    LET s == toolCall[c].session
        prefs == preflight[s].prefs
        ok == /\ ~(prefs = "defaults" /\ mode[s] = "tui")
              /\ toolCall[c].input.context = "plain" IN
    /\ toolCall[c].pc = "preflight" /\ prefs # NoPrefs
    /\ toolCall' = [toolCall EXCEPT ![c].pc = IF ok THEN "running" ELSE "refused",
                                    ![c].carried = IF ok THEN prefs ELSE "none"]
    /\ UNCHANGED <<mode, turn, guardrails, preflight, saved, answered, attention, dialogs, rdd>>

\* The session ends and another process begins in its place: the saved file
\* stays, the preferences kept in memory do not.
ReplaceSession(s, m) ==
    /\ \A c \in ToolCall : toolCall[c].session # s
    /\ preflight[s].flight = "idle"
    /\ mode' = [mode EXCEPT ![s] = m]
    /\ preflight' = [preflight EXCEPT ![s].prefs = NoPrefs]
    /\ answered' = answered \ {s}
    /\ turn' = [turn EXCEPT ![s] = [blocked |-> FALSE, primary |-> FALSE, children |-> 0, first |-> "none"]]
    /\ UNCHANGED <<guardrails, saved, toolCall, attention, dialogs, rdd>>

-----------------------------------------------------------------------------
(* The start of an agent.                                                  *)

Phase == {"apply", "verify", "archive", "remediate"}

\* assertNativeSddPhaseReady over what the native status says.
PhaseReady(st, phase) ==
    /\ phase \in st.instructs
    /\ \/ st.next = phase
       \/ phase = "verify" /\ st.next \in {"archive", "apply"} /\ ~st.blockers
    /\ phase # "remediate" => phase \in st.ready /\ (st.blockers => phase = "verify")

\* The selection the launch flag carries: none, or one that must parse, name
\* the phase of this child and the canonical root of this child.
Selection == {"none", "own", "malformed", "otherPhase", "otherRoot"}
SelectionHolds(sel) == sel \in {"none", "own"}

\* A phase starts over a status that could be read and names its change; the
\* revision a remediation repairs is compared only where the launch selects it.
PhaseStarts(st, phase, sel) ==
    /\ SelectionHolds(sel) /\ st.named /\ PhaseReady(st, phase)
    /\ phase = "remediate" /\ sel = "own" => st.revision = "current"

\* before_agent_start: the boundary is reset by a primary start and suspended by
\* a named one, and the startup block is recomputed from nothing.
StartAgentTurn(s, kind, sel, st) ==
    /\ kind # "primary" => turn[s].children = 0
    /\ turn' = [turn EXCEPT ![s] =
         [blocked |-> CASE kind = "sync" -> TRUE
                        [] kind \in Phase -> ~PhaseStarts(st, kind, sel)
                        [] OTHER -> sel # "none",
          primary |-> IF kind = "primary" THEN TRUE ELSE @.primary,
          children |-> IF kind = "primary" THEN 0 ELSE @.children + 1,
          first |-> IF kind = "primary" THEN "none" ELSE @.first]]
    /\ UNCHANGED <<mode, guardrails, preflight, saved, answered, toolCall, attention, dialogs, rdd>>

EndAgentTurn(s) ==
    /\ turn[s].children > 0
    /\ turn' = [turn EXCEPT ![s].children = @ - 1]
    /\ UNCHANGED <<mode, guardrails, preflight, saved, answered, toolCall, attention, dialogs, rdd>>

EditGuardrails(g) ==
    /\ guardrails' = g
    /\ UNCHANGED <<mode, turn, preflight, saved, answered, toolCall, attention, dialogs, rdd>>

-----------------------------------------------------------------------------
(* The line about receipt driven development.                              *)

\* The mode is on or off at every tick; history keeps it for the property.
Tick(m) ==
    /\ Len(rdd.history) <= MaxTime
    /\ rdd' = [rdd EXCEPT !.history = Append(@, m)]
    /\ UNCHANGED <<mode, turn, guardrails, preflight, saved, answered, toolCall, attention, dialogs>>

Clock == Len(rdd.history)

\* resolveRddModeStatus: a fresh memo is served as it is; otherwise a read begins.
AskRdd(r) ==
    /\ rdd.asked[r] = 0
    /\ rdd' = IF rdd.memo.until > Clock
              THEN [rdd EXCEPT !.served = [line |-> rdd.memo.line, at |-> Clock]]
              ELSE [rdd EXCEPT !.asked[r] = Clock]
    /\ UNCHANGED <<mode, turn, guardrails, preflight, saved, answered, toolCall, attention, dialogs>>

\* The memo of a read lives from the moment the read began.
MemoUntil(asked) == asked + MemoTtl

\* The native answer is the mode at some moment since the question; a timeout or
\* a failure is kept as unknown.
RddAnswers(r, line) ==
    /\ rdd.asked[r] # 0
    /\ line \in {rdd.history[i] : i \in rdd.asked[r]..Clock} \cup {"unknown"}
    /\ line # "unknown" => Clock - rdd.asked[r] <= ReadTimeout
    /\ rdd' = [rdd EXCEPT !.asked[r] = 0,
                          !.memo = [line |-> line, until |-> MemoUntil(rdd.asked[r])],
                          !.served = [line |-> line, at |-> Clock]]
    /\ UNCHANGED <<mode, turn, guardrails, preflight, saved, answered, toolCall, attention, dialogs>>

-----------------------------------------------------------------------------
(* Who verifies a change.                                                  *)

Risk == {"passive", "medium", "high", "unassessable"}

\* riskGatedPlan: the verifier is dropped for passive risk, and for medium risk
\* of a writer that is known to be large.
GatedVerifier(risk, small) ==
    risk \in {"high", "unassessable"} \/ (risk = "medium" /\ small)

\* verificationPlan: only a review that closed for the candidate replaces the
\* verifier, and only while receipt driven development is on.
VerifierRuns(line, risk, small, outcome) ==
    IF line = "on" /\ outcome = "closed" THEN FALSE ELSE GatedVerifier(risk, small)

\* isSmallWriterProfile: low effort, a mini model, or no signal at all.
IsSmallWriter(model, effort) ==
    \/ effort = "low"
    \/ model = "mini"
    \/ model = "none" /\ effort = "none"

\* ANSWER_CONSENT leaves what became of the review of one candidate.
RecordOutcome(candidate, outcome) ==
    /\ rdd' = [rdd EXCEPT !.outcomes[candidate] = outcome]
    /\ UNCHANGED <<mode, turn, guardrails, preflight, saved, answered, toolCall, attention, dialogs>>

\* resolveReviewAssessmentPlan: the mode, the risk and the candidate are read by
\* three native calls that need not see the same moment, and each may fail; what
\* the caller states outranks what is derived for the candidate.
AssessPlan(line, risk, small, stated, candidates) ==
    LET derived == {rdd.outcomes[x] : x \in candidates} \ {"unknown"}
        outcome == IF stated # "none" THEN stated
                   ELSE IF derived = {} THEN "unknown" ELSE CHOOSE o \in derived : TRUE
    IN /\ rdd' = [rdd EXCEPT !.plan = [verifier |-> VerifierRuns(line, risk, small, outcome),
                                       gated |-> GatedVerifier(risk, small),
                                       closed |-> stated = "closed"]]
       /\ UNCHANGED <<mode, turn, guardrails, preflight, saved, answered, toolCall, attention, dialogs>>

-----------------------------------------------------------------------------
PolicyInit ==
    /\ mode \in [PiSession -> {"tui", "headless", "rpc"}]
    /\ turn = [s \in PiSession |-> [blocked |-> FALSE, primary |-> FALSE, children |-> 0, first |-> "none"]]
    /\ guardrails \in [env : BOOLEAN, global : GuardFile, project : GuardFile]
    /\ preflight = [s \in PiSession |-> [prefs |-> NoPrefs, flight |-> "idle"]]
    /\ saved = NoPrefs /\ answered = {}
    /\ toolCall = [c \in ToolCall |-> NoCall]
    /\ attention = [s \in PiSession |->
                     [choice |-> FALSE, questionnaire |-> FALSE, pending |-> 0, label |-> "none"]]
    /\ dialogs = [s \in PiSession |-> [choice |-> FALSE, questionnaire |-> FALSE]]
    /\ rdd = [history |-> <<"off">>, memo |-> [line |-> "unknown", until |-> 0],
              asked |-> [r \in LineRead |-> 0], served |-> [line |-> "unknown", at |-> 1],
              outcomes |-> [x \in Finding |-> "unknown"],
              plan |-> [verifier |-> FALSE, gated |-> FALSE, closed |-> FALSE]]

Bash == {[kind |-> "bash", cmd |-> c] : c \in GuardedCommands}
OtherInput == {[kind |-> "path", sensitive |-> b] : b \in BOOLEAN} \cup {[kind |-> "parentMessage"]}
DirectWrite == {[kind |-> "write", file |-> f] : f \in RepoFile}

NativeStatus == [named : {TRUE}, next : {"apply", "verify", "archive", "remediate", "other"},
                 ready : {{}, Phase}, instructs : {{}, Phase}, blockers : BOOLEAN,
                 revision : {"current", "stale"}]

\* Only a phase asks for the native status, and it may be out of reach.
NoNative == [named |-> FALSE, next |-> "other", ready |-> {}, instructs |-> {}, blockers |-> FALSE,
             revision |-> "stale"]

\* Calls that are decided when they arrive or by the user.
GuardStep ==
    \/ \E c \in ToolCall, s \in PiSession, in \in Bash \cup OtherInput : ToolCallArrives(c, s, in)
    \/ \E c \in ToolCall : \/ \E a \in {"yes", "no", "throws"} : ConfirmSettles(c, a)
                           \/ \E ok \in BOOLEAN : ToolReturns(c, ok)
    \/ \E s \in PiSession, kind \in {"choice", "questionnaire"}, open \in BOOLEAN : Announce(s, kind, open)
    \/ \E g \in [env : BOOLEAN, global : GuardFile, project : GuardFile] : EditGuardrails(g)

\* Dispatches, the preflight and the starts of agents.
DispatchStep ==
    \/ \E c \in ToolCall, s \in PiSession, in \in SddDispatch : ToolCallArrives(c, s, in)
    \/ \E c \in ToolCall : BeginPreflight(c) \/ DispatchSdd(c) \/ ToolReturns(c, TRUE)
    \/ \E s \in PiSession, b \in BOOLEAN : PreflightAnswered(s, b) \/ PreflightResolves(s, b)
    \/ \E s \in PiSession, m \in {"tui", "headless", "rpc"} : ReplaceSession(s, m)

AgentStep ==
    \/ \E c \in ToolCall, s \in PiSession, in \in FixDispatch \cup WriterDispatch \cup DirectWrite \cup OtherInput :
          ToolCallArrives(c, s, in)
    \/ \E c \in ToolCall, ok \in BOOLEAN : ToolReturns(c, ok)
    \/ \E s \in PiSession, kind \in Phase, sel \in Selection, st \in NativeStatus \cup {NoNative} :
          StartAgentTurn(s, kind, sel, st)
    \/ \E s \in PiSession, kind \in {"primary", "named", "sync"}, sel \in Selection : StartAgentTurn(s, kind, sel, NoNative)
    \/ \E s \in PiSession : EndAgentTurn(s)

RddStep ==
    \/ \E m \in {"on", "off"} : Tick(m)
    \/ \E r \in LineRead : AskRdd(r) \/ \E line \in {"on", "off", "unknown"} : RddAnswers(r, line)

\* Candidates are identities like the findings of a ledger are.
PlanStep ==
    \/ \E x \in Finding, o \in {"declined", "unavailable"} : RecordOutcome(x, o)
    \/ \E line \in {"on", "off", "unknown"}, risk \in Risk, candidates \in {{}} \cup {{x} : x \in Finding},
          stated \in {"none", "closed", "declined", "unavailable", "unknown"},
          model \in {"none", "mini", "large"}, effort \in {"none", "low", "high"} :
          AssessPlan(line, risk, IsSmallWriter(model, effort), stated, candidates)

PolicyNext == PlanStep \/ GuardStep \/ DispatchStep \/ AgentStep \/ RddStep

PolicySpec == PolicyInit /\ [][PolicyNext]_policyVars

-----------------------------------------------------------------------------
PolicyTypeOK ==
    /\ mode \in [PiSession -> {"tui", "headless", "rpc"}]
    /\ saved \in {NoPrefs, "prompted", "defaults"} /\ answered \subseteq PiSession
    /\ \A s \in PiSession : attention[s].pending \in Nat
    /\ \A c \in ToolCall : toolCall[c].pc \in {"idle", "preflight", "confirming", "running", "refused"}

\* The host shows a blocker exactly while one is awaited, and the one that ranks
\* highest, however confirmations, choices and questionnaires overlap and
\* whichever way a confirmation ends (createHerdrConfirmationLifecycle).
AttentionIsTrue ==
    \A s \in PiSession :
        LET confirming == {c \in ToolCall : toolCall[c].pc = "confirming" /\ toolCall[c].session = s}
        IN attention[s].label = Label(dialogs[s].choice, dialogs[s].questionnaire, Cardinality(confirming))

\* A guarded command that runs holds no denied and no blocked part, and one with
\* a part to confirm was confirmed in a dialog of its own, in a session that can
\* ask: no other part of the command, no other call waiting in the session and no
\* edit of the files after it arrived ever softens that (confirmCommand).
StrictestPartRules ==
    \A c \in ToolCall : toolCall[c].pc = "running" =>
        /\ "block" \notin toolCall[c].parts
        /\ "confirm" \in toolCall[c].parts =>
             toolCall[c].said = "yes" /\ mode[toolCall[c].session] # "headless"

\* A child of an interactive session that is dispatched for SDD carries
\* preferences which the user of that very session confirmed: the file another
\* session saved, prompted or not, never stands in for the confirmation.
DispatchIsConfirmed ==
    \A c \in ToolCall :
        (toolCall[c].pc = "running" /\ toolCall[c].carried # "none") =>
            LET s == toolCall[c].session
            IN /\ mode[s] # "rpc"
               /\ toolCall[c].carried = "prompted" => s \in answered
               /\ mode[s] = "tui" => s \in answered

\* A rendered line that claims a mode was the mode at a moment less than the
\* memo's lifetime ago, however long the native read took and however reads of
\* several sessions overlap.
LineIsRecent ==
    rdd.served.line # "unknown" =>
        \E i \in 1..Clock : /\ i + MemoTtl > rdd.served.at
                            /\ rdd.history[i] = rdd.served.line

\* Unless the caller states that the review closed, the verifier that the risk
\* calls for with receipt driven development off runs: a declined or unavailable
\* review, remembered for whichever candidate, never lowers the bar.
VerifierKept == rdd.plan.gated /\ ~rdd.plan.closed => rdd.plan.verifier

\* What stands between a tool call and its effect, and between a shown state and
\* the truth, however calls, dialogs, reads and edits of the files overlap
\* (the tool_call handler and the RDD status line of gentle-ai.ts).
PolicyIsKept ==
    AttentionIsTrue /\ StrictestPartRules /\ DispatchIsConfirmed /\ LineIsRecent /\ VerifierKept
=============================================================================
