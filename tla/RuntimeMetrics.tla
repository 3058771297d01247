---------------------------- MODULE RuntimeMetrics ----------------------------
(***************************************************************************)
(* Best-effort runtime metrics of one pi process: the extension that turns  *)
(* a final assistant response or a finished child task into one event       *)
(* (extensions/runtime-metrics.ts), the single delivery slot shared by all  *)
(* instances (lib/runtime-metrics-delivery.ts), the native sender process   *)
(* (lib/runtime-metrics-native.ts), the closed rows it is given             *)
(* (lib/runtime-metrics.ts, lib/runtime-metrics-children.ts) and the child  *)
(* observations the runner and the agents extension keep for it.            *)
(*                                                                         *)
(* A row keeps the three model identities the encoder chooses from.  Token  *)
(* counts, durations and agent classes are abstracted.  A native process is *)
(* killed or ends with any answer; the answer is thrown away either way.    *)
(***************************************************************************)
EXTENDS Integers, Sequences, FiniteSets

CONSTANTS
    MetricSession,     \* ids of the sessions pi can have open
    MetricTask,        \* child tasks
    PublicModel,       \* names the telemetry schema lets out of the machine
    PrivateModel,      \* names it does not
    NoName,            \* an identity the response does not carry
    CustomName,        \* what a private name is replaced by
    MaxClock,          \* bound: session starts
    MaxRevocations,    \* bound: revocations
    MaxEnvChanges,     \* bound: changes of the environment veto
    MaxObserved        \* responses kept of one child (128 in the runner)

ASSUME MetricsAssumption ==
    /\ PublicModel \cap PrivateModel = {}
    /\ {NoName, CustomName} \cap (PublicModel \cup PrivateModel) = {}
    /\ NoName # CustomName /\ NoName \notin MetricSession
    /\ MaxClock \in Nat /\ MaxRevocations \in Nat /\ MaxEnvChanges \in Nat
    /\ MaxObserved \in Nat \ {0}

VARIABLES
    openSession,       \* the session pi has open
    metricEnv,         \* the veto variables of the environment
    envChanges,
    metricEpoch,       \* revocations so far
    clock,             \* session starts so far, standing for performance.now()
    due,               \* extensions whose session handler still has to run
    stage,             \* running, starting, ending or ended
    liveOwner,         \* the extension's `live`
    metricTurn,              \* active, requestSeen, ambiguous, selection
    asked,             \* models of the turn's requests that are unanswered
    attempts,          \* every RuntimeMetricsAttempt made
    deliveryBusy,      \* `busy` of runtime-metrics-delivery.ts
    sendBusy,          \* `busy` of runtime-metrics-native.ts
    senders,           \* native processes that have not closed
    agentsOwner,       \* `metricsOwner`: counts its replacements
    agentTasks,        \* a child task as the runner and the agents extension know it
    trigger            \* the once-per-process telemetry trigger

metricVars == <<openSession, metricEnv, envChanges, metricEpoch, clock, due,
    stage, liveOwner, metricTurn, asked, attempts, deliveryBusy, sendBusy, senders,
    agentsOwner, agentTasks, trigger>>

ownerVars == <<liveOwner, metricTurn, asked>>

slotVars == <<attempts, deliveryBusy, sendBusy, senders>>

agentVars == <<agentsOwner, agentTasks>>

hostVars == <<openSession, metricEnv, envChanges, metricEpoch, clock, due, stage, trigger>>

RawModel == PublicModel \cup PrivateModel

NoMetricOwner == [id |-> NoName, started |-> 0, attempt |-> 0, children |-> {}]

NoEvent == [session |-> NoName, owner |-> 0, epoch |-> 0, rows |-> {}]

IdleAttempt == [state |-> "idle", closed |-> FALSE, event |-> NoEvent]

NewTask == [state |-> "none", registered |-> FALSE, owner |-> 0, session |-> NoName,
            epoch |-> 0, model |-> NoName, ready |-> "no", started |-> 0,
            watched |-> FALSE, seen |-> {}, dropped |-> 0]

(***************************************************************************)
(* Rows                                                                    *)
(***************************************************************************)

(* normalizeRuntimeModel: only a name of a public family survives.  *)
NormalizeRuntimeModel(m) ==
    CASE m \in PublicModel -> m
      [] m \in PrivateModel -> CustomName
      [] OTHER -> NoName

(* record(): one response becomes one row of normalized names.  The model
   the request really asked for is kept beside it for the properties.  *)
RecordRow(selected, observed, response, truth) ==
    [selected |-> NormalizeRuntimeModel(selected),
     observed |-> NormalizeRuntimeModel(observed),
     response |-> NormalizeRuntimeModel(response), truth |-> truth]

(* encodeNativeRuntimeEvent(): the response's own model is the strongest
   evidence, then the selection, then the model the SDK observed.  *)
EncodeRow(r) ==
    LET public == {f \in {"response", "selected", "observed"} : r[f] \in PublicModel}
        field  == IF "response" \in public THEN "response"
                  ELSE IF "selected" \in public THEN "selected" ELSE "observed"
    IN  [model    |-> IF public = {} THEN NoName ELSE r[field],
         evidence |-> IF public = {} THEN "unknown"
                      ELSE IF field = "response" THEN "response" ELSE "selected",
         truth    |-> r.truth]

EncodeNativeRuntimeEvent(rows) == {EncodeRow(r) : r \in rows}

(* runtimeMetricsEnvAllows: every non-empty spelling vetoes; the trigger's
   telemetryKillSwitchReason only knows the exact ones.  *)
RuntimeMetricsEnvAllows == metricEnv = "clear"

ShouldTriggerTelemetry == metricEnv # "exact"

(***************************************************************************)
(* The delivery slot                                                       *)
(***************************************************************************)

(* offer(): one accepted attempt in the whole process, never a queue.  *)
Offer(n, event) ==
    IF attempts[n].closed \/ deliveryBusy
    THEN UNCHANGED <<attempts, deliveryBusy>>
    ELSE /\ attempts' = [attempts EXCEPT ![n].state = "scheduled", ![n].event = event]
         /\ deliveryBusy' = TRUE

ReleasedByDispose_Fault(n) == FALSE

(* dispose() gives the slot back only for an attempt that has not started. *)
ReleasedByDispose(n) ==
    IF ~attempts[n].closed /\ attempts[n].state = "scheduled" THEN FALSE ELSE deliveryBusy

(* dispose(): a scheduled attempt is withdrawn, a running one is aborted and
   its process asked to die.  extra: attempts made in the same step.  *)
DisposeAttempt(n, extra) ==
    IF n = 0
    THEN /\ attempts' = attempts \o extra
         /\ UNCHANGED <<deliveryBusy, senders>>
    ELSE /\ attempts' = [attempts EXCEPT ![n] =
                            IF @.state = "scheduled" THEN [IdleAttempt EXCEPT !.closed = TRUE]
                            ELSE [@ EXCEPT !.closed = TRUE]] \o extra
         /\ deliveryBusy' = ReleasedByDispose(n)
         /\ senders' = {IF p.attempt = n THEN [p EXCEPT !.rejected = TRUE] ELSE p : p \in senders}

Invalidated == [metricTurn EXCEPT !.selection = NoName, !.ambiguous = TRUE]

(* dispose() of the extension.  *)
DisposeExtension ==
    /\ liveOwner' = NoMetricOwner
    /\ metricTurn' = [Invalidated EXCEPT !.active = FALSE]
    /\ DisposeAttempt(liveOwner.attempt, <<>>)

(* current(): an owner of another session, or one the environment has since
   vetoed, is disposed of by whoever asks.  *)
Current == /\ liveOwner # NoMetricOwner
           /\ RuntimeMetricsEnvAllows
           /\ liveOwner.id = openSession

(* submit() of an event by the live owner.  *)
Submit(rows, epoch) ==
    /\ Offer(liveOwner.attempt,
             [session |-> liveOwner.id, owner |-> liveOwner.started,
              epoch |-> epoch, rows |-> rows])
    /\ UNCHANGED senders

MayRun(n) == /\ Current
             /\ liveOwner.started = attempts[n].event.owner

(* The deferred work of an accepted attempt: the checks of the extension and
   of sendNativeRuntimeEvent, the encoding and the spawn are one synchronous
   run.  It ends at once when the owner has gone, the encoder or the binary
   refuses, or the spawn throws.  *)
RunAttempt(n) ==
    /\ attempts[n].state = "scheduled"
    /\ \/ /\ MayRun(n) /\ ~sendBusy
          /\ attempts' = [attempts EXCEPT ![n].state = "running", ![n].event = NoEvent]
          /\ sendBusy' = TRUE
          /\ senders' = senders \cup
                {[attempt |-> n, rejected |-> FALSE, event |-> attempts[n].event,
                  rows |-> EncodeNativeRuntimeEvent(attempts[n].event.rows)]}
          /\ UNCHANGED <<deliveryBusy, liveOwner, metricTurn>>
       \/ /\ Current
          /\ attempts' = [attempts EXCEPT ![n] = IdleAttempt]
          /\ deliveryBusy' = FALSE
          /\ UNCHANGED <<sendBusy, senders, liveOwner, metricTurn>>
       \/ /\ ~Current
          /\ liveOwner' = NoMetricOwner
          /\ metricTurn' = [Invalidated EXCEPT !.active = FALSE]
          /\ attempts' = [attempts EXCEPT ![n] = [IdleAttempt EXCEPT !.closed = TRUE]]
          /\ deliveryBusy' = FALSE
          /\ UNCHANGED <<sendBusy, senders>>
    /\ UNCHANGED <<hostVars, agentVars, asked>>

(* cancel(): the one second timer, a stream error, stderr output or too much
   output.  The process is asked to die; the slot stays taken.  *)
RejectSender(p) ==
    /\ p \in senders /\ ~p.rejected
    /\ senders' = (senders \ {p}) \cup {[p EXCEPT !.rejected = TRUE]}
    /\ UNCHANGED <<hostVars, agentVars, ownerVars, attempts, deliveryBusy, sendBusy>>

(* close: the process is gone, both busy flags fall and waiters are released. *)
SenderCloses(p) ==
    /\ p \in senders
    /\ senders' = senders \ {p}
    /\ sendBusy' = FALSE
    /\ attempts' = [attempts EXCEPT ![p.attempt] =
                       [IdleAttempt EXCEPT !.closed = attempts[p.attempt].closed]]
    /\ deliveryBusy' = FALSE
    /\ UNCHANGED <<hostVars, agentVars, ownerVars>>

(***************************************************************************)
(* Provider events of the session itself                                   *)
(***************************************************************************)

TurnStart ==
    /\ stage = "running"
    /\ metricTurn' = [active |-> TRUE, requestSeen |-> FALSE,
                ambiguous |-> metricTurn.active, selection |-> NoName]
    /\ asked' = {}
    /\ UNCHANGED <<hostVars, slotVars, agentVars, liveOwner>>

(* turn_end and agent_end.  *)
TurnEnd ==
    /\ metricTurn.active
    /\ metricTurn' = [Invalidated EXCEPT !.active = FALSE]
    /\ asked' = {}
    /\ UNCHANGED <<hostVars, slotVars, agentVars, liveOwner>>

(* session_before_compact and session_before_tree: requests that are not of
   the turn are about to be made.  *)
BeforeCompact ==
    /\ stage = "running"
    /\ metricTurn' = Invalidated
    /\ UNCHANGED <<hostVars, slotVars, agentVars, liveOwner, asked>>

(* before_provider_request: a second request of the turn leaves no selection
   that a response could safely be given.  *)
AfterRequest(m) ==
    LET seen == IF metricTurn.requestSeen THEN Invalidated ELSE metricTurn
    IN  IF seen.active /\ ~seen.ambiguous
        THEN [seen EXCEPT !.requestSeen = TRUE, !.selection = m]
        ELSE [seen EXCEPT !.requestSeen = TRUE]

BeforeProviderRequest(m) ==
    /\ stage = "running" /\ metricTurn.active
    /\ asked' = asked \cup {m}
    /\ IF Current
       THEN /\ metricTurn' = AfterRequest(m)
            /\ UNCHANGED <<liveOwner, attempts, deliveryBusy, senders>>
       ELSE DisposeExtension
    /\ UNCHANGED <<hostVars, agentVars, sendBusy>>

(* message_end of an assistant message answering the request for m.  *)
MessageEnd(m, observed, response) ==
    /\ stage = "running" /\ m \in asked
    /\ asked' = asked \ {m}
    /\ IF Current
       THEN /\ Submit({RecordRow(IF metricTurn.active /\ ~metricTurn.ambiguous THEN metricTurn.selection ELSE NoName,
                                 observed, response, m)}, metricEpoch)
            /\ metricTurn' = Invalidated
            /\ UNCHANGED liveOwner
       ELSE DisposeExtension
    /\ UNCHANGED <<hostVars, agentVars, sendBusy>>

(***************************************************************************)
(* Child tasks                                                             *)
(***************************************************************************)

(* metrics.valid(): the same owner, the same session, no veto.  *)
TaskValid(t) == /\ agentTasks[t].owner = agentsOwner
                /\ agentTasks[t].session = openSession
                /\ RuntimeMetricsEnvAllows

(* launch(): observed only when allowed; the agents extension keeps the grant. *)
LaunchTask(t, m) ==
    /\ stage = "running" /\ agentTasks[t].state = "none"
    /\ agentTasks' = [agentTasks EXCEPT ![t] =
          [NewTask EXCEPT !.state = "queued", !.registered = RuntimeMetricsEnvAllows,
             !.owner = agentsOwner, !.session = openSession, !.epoch = metricEpoch, !.model = m]]
    /\ UNCHANGED <<hostVars, ownerVars, slotVars, agentsOwner>>

(* start(): the child gets a buffer and the preparation is queued.  *)
SpawnTask(t) ==
    /\ agentTasks[t].state = "queued"
    /\ agentTasks' = [agentTasks EXCEPT ![t].state = "live",
          ![t].ready = IF agentTasks[t].registered THEN "pending" ELSE "no",
          ![t].watched = agentTasks[t].registered]
    /\ UNCHANGED <<hostVars, ownerVars, slotVars, agentsOwner>>

(* prepareResponseObservations.  *)
PrepareTask(t) ==
    /\ agentTasks[t].state = "live" /\ agentTasks[t].ready = "pending"
    /\ agentTasks' = [agentTasks EXCEPT
          ![t].ready = IF TaskValid(t) THEN "yes" ELSE "refused",
          ![t].started = IF TaskValid(t) THEN clock ELSE 0]
    /\ UNCHANGED <<hostVars, ownerVars, slotVars, agentsOwner>>

(* checkObservationGrant(): not prepared by the first checkpoint, or no
   longer valid, and the buffer is gone for good.  *)
CheckObservationGrant(t) ==
    agentTasks[t].watched /\ agentTasks[t].ready = "yes" /\ TaskValid(t)

(* childResponse(): what is kept of one message_end of the child.  The
   selection is the one of the launch; RPC has no per-request selection.  *)
ChildResponse(t, response) ==
    RecordRow(agentTasks[t].model, NoName, response, agentTasks[t].model)

(* receive() of a message_end of the child.  *)
TaskResponds(t, response) ==
    /\ agentTasks[t].state = "live"
    /\ LET kept == CheckObservationGrant(t)
           row  == ChildResponse(t, response)
           full == Cardinality(agentTasks[t].seen) >= MaxObserved
       IN  agentTasks' = [agentTasks EXCEPT ![t].watched = kept,
              ![t].ready = IF @ = "pending" THEN "refused" ELSE @,
              ![t].seen = IF ~kept THEN {} ELSE IF full THEN @ ELSE @ \cup {row},
              ![t].dropped = IF kept /\ full THEN 1 ELSE @]
    /\ UNCHANGED <<hostVars, ownerVars, slotVars, agentsOwner>>

(* childEvent() and snapshotChildEvent(): only the closed fields of a child's
   completion cross the bus, copied on both sides.  *)
ChildEvent(t) == [session |-> agentTasks[t].session, started |-> agentTasks[t].started,
                  rows |-> agentTasks[t].seen]

(* The extension's listener: an event of this session, of a task launched
   under this owner, once.  *)
ChildAccepted(t, event) ==
    /\ event.session = liveOwner.id
    /\ event.started >= liveOwner.started
    /\ t \notin liveOwner.children

(* finish() -> onFinish() -> childEvent() -> the event bus -> submit(), all
   in one synchronous run.  *)
FinishTask(t) ==
    /\ agentTasks[t].state \in {"queued", "live"}
    /\ agentTasks' = [agentTasks EXCEPT ![t] = [NewTask EXCEPT !.state = "done"]]
    /\ LET task    == agentTasks[t]
           emitted == task.registered /\ TaskValid(t) /\ CheckObservationGrant(t)
       IN  IF ~emitted \/ liveOwner = NoMetricOwner
           THEN UNCHANGED <<liveOwner, metricTurn, attempts, deliveryBusy, senders>>
           ELSE IF ~Current
           THEN DisposeExtension
           ELSE IF ~ChildAccepted(t, ChildEvent(t))
           THEN UNCHANGED <<liveOwner, metricTurn, attempts, deliveryBusy, senders>>
           ELSE /\ liveOwner' = [liveOwner EXCEPT !.children = @ \cup {t}]
                /\ UNCHANGED metricTurn
                /\ IF ChildEvent(t).rows = {} THEN UNCHANGED <<attempts, deliveryBusy, senders>>
                   ELSE Submit(ChildEvent(t).rows, task.epoch)
    /\ UNCHANGED <<hostVars, agentsOwner, asked, sendBusy>>

(* clearTaskMetrics(): a new owner, every buffer dropped, every grant gone.  *)
ClearedTasks ==
    [t \in MetricTask |-> IF agentTasks[t].registered
       THEN [agentTasks[t] EXCEPT !.registered = FALSE, !.watched = FALSE, !.seen = {}]
       ELSE agentTasks[t]]

ClearTaskMetrics ==
    /\ agentsOwner' = agentsOwner + 1
    /\ agentTasks' = ClearedTasks

(***************************************************************************)
(* Sessions, vetoes and revocations                                        *)
(***************************************************************************)

(* pi opens another session (or the same again); the extensions hear of it
   one after the other.  *)
SessionChanges(s) ==
    /\ stage = "running" /\ clock < MaxClock
    /\ openSession' = s
    /\ stage' = "starting" /\ due' = {"metrics", "agents"}
    /\ UNCHANGED <<metricEnv, envChanges, metricEpoch, clock, trigger, ownerVars, slotVars, agentVars>>

AfterHandler(who) ==
    /\ who \in due
    /\ due' = due \ {who}
    /\ stage' = IF due = {who} THEN IF stage = "starting" THEN "running" ELSE "ended" ELSE stage

(* session_start of the metrics extension.  *)
MetricsSessionStart ==
    /\ stage = "starting" /\ AfterHandler("metrics")
    /\ clock' = clock + 1
    /\ metricTurn' = [Invalidated EXCEPT !.active = FALSE]
    /\ asked' = {}
    /\ IF RuntimeMetricsEnvAllows
       THEN /\ liveOwner' = [id |-> openSession, started |-> clock + 1,
                             attempt |-> Len(attempts) + 1, children |-> {}]
            /\ DisposeAttempt(liveOwner.attempt, <<IdleAttempt>>)
       ELSE /\ liveOwner' = NoMetricOwner
            /\ DisposeAttempt(liveOwner.attempt, <<>>)
    /\ UNCHANGED <<openSession, metricEnv, envChanges, metricEpoch, trigger, sendBusy, agentVars>>

(* session_start of the agents extension.  *)
AgentsSessionStart ==
    /\ stage = "starting" /\ AfterHandler("agents")
    /\ ClearTaskMetrics
    /\ UNCHANGED <<openSession, metricEnv, envChanges, metricEpoch, clock, trigger, ownerVars, slotVars>>

SessionShutdown ==
    /\ stage = "running"
    /\ stage' = "ending" /\ due' = {"metrics", "agents"}
    /\ UNCHANGED <<openSession, metricEnv, envChanges, metricEpoch, clock, trigger, ownerVars, slotVars, agentVars>>

(* session_shutdown of the metrics extension.  Print mode first joins the
   accepted attempt, for a bounded time: the teardown comes when it comes.  *)
MetricsSessionShutdown ==
    /\ stage = "ending" /\ AfterHandler("metrics")
    /\ DisposeExtension
    /\ UNCHANGED <<openSession, metricEnv, envChanges, metricEpoch, clock, trigger, asked, sendBusy, agentVars>>

AgentsSessionShutdown ==
    /\ stage = "ending" /\ AfterHandler("agents")
    /\ ClearTaskMetrics
    /\ UNCHANGED <<openSession, metricEnv, envChanges, metricEpoch, clock, trigger, ownerVars, slotVars>>

EnvChange(e) ==
    /\ envChanges < MaxEnvChanges /\ e # metricEnv
    /\ metricEnv' = e /\ envChanges' = envChanges + 1
    /\ UNCHANGED <<openSession, metricEpoch, clock, due, stage, trigger, ownerVars, slotVars, agentVars>>

(* The extension's revocation listener: the attempt is replaced.  *)
RevokeOwner ==
    IF liveOwner.id = openSession
    THEN /\ liveOwner' = [liveOwner EXCEPT !.attempt = Len(attempts) + 1]
         /\ metricTurn' = Invalidated
         /\ DisposeAttempt(liveOwner.attempt, <<IdleAttempt>>)
    ELSE UNCHANGED <<liveOwner, metricTurn, attempts, deliveryBusy, senders>>

(* The revocation event for the open session reaches both listeners.  *)
Revoke ==
    /\ metricEpoch < MaxRevocations
    /\ metricEpoch' = metricEpoch + 1
    /\ RevokeOwner
    /\ ClearTaskMetrics
    /\ UNCHANGED <<openSession, metricEnv, envChanges, clock, due, stage, trigger, asked, sendBusy>>

(* before_agent_start of a primary session nudges the binary's own telemetry
   once per process; the child is killed after three seconds.  *)
SpawnTelemetryTrigger ==
    /\ stage = "running" /\ trigger = "unused"
    /\ trigger' \in IF ShouldTriggerTelemetry THEN {"spawned", "failed"} ELSE {"vetoed"}
    /\ UNCHANGED <<openSession, metricEnv, envChanges, metricEpoch, clock, due, stage, ownerVars, slotVars, agentVars>>

MetricsInit ==
    /\ openSession \in MetricSession
    /\ metricEnv = "clear" /\ envChanges = 0 /\ metricEpoch = 0 /\ clock = 0
    /\ due = {"metrics", "agents"} /\ stage = "starting"
    /\ liveOwner = NoMetricOwner
    /\ metricTurn = [active |-> FALSE, requestSeen |-> FALSE, ambiguous |-> FALSE, selection |-> NoName]
    /\ asked = {} /\ attempts = <<>>
    /\ deliveryBusy = FALSE /\ sendBusy = FALSE /\ senders = {}
    /\ agentsOwner = 0 /\ agentTasks = [t \in MetricTask |-> NewTask]
    /\ trigger = "unused"

SlotStep == \/ \E n \in DOMAIN attempts : RunAttempt(n)
            \/ \E p \in senders : RejectSender(p) \/ SenderCloses(p)

TurnStep == \/ TurnStart \/ TurnEnd \/ BeforeCompact
            \/ \E m \in RawModel : BeforeProviderRequest(m)
            \/ \E m \in RawModel, r \in RawModel \cup {NoName} :
                  \E o \in {m, NoName} : MessageEnd(m, o, r)

TaskStep == \E t \in MetricTask :
                \/ \E m \in RawModel : LaunchTask(t, m)
                \/ SpawnTask(t) \/ PrepareTask(t) \/ FinishTask(t)
                \/ \E r \in RawModel \cup {NoName} : TaskResponds(t, r)

HostStep == \/ \E s \in MetricSession : SessionChanges(s)
            \/ MetricsSessionStart \/ AgentsSessionStart
            \/ SessionShutdown \/ MetricsSessionShutdown \/ AgentsSessionShutdown
            \/ \E e \in {"clear", "loose", "exact"} : EnvChange(e)
            \/ Revoke \/ SpawnTelemetryTrigger

MetricsNext == SlotStep \/ TurnStep \/ TaskStep \/ HostStep

MetricsSpec == MetricsInit /\ [][MetricsNext]_metricVars

(***************************************************************************)
(* Properties                                                              *)
(***************************************************************************)

(* The busy flags tell the truth however sessions, vetoes and revocations
   dispose of attempts: the slot is taken exactly while one attempt is
   scheduled or its process has not closed, a cancelled process that is still
   exiting included, so two telemetry processes never overlap
   (runtime-metrics-delivery.ts:1-9, runtime-metrics-native.ts:91-95).  *)
SlotIsHonest ==
    LET taken == {n \in DOMAIN attempts : attempts[n].state # "idle"}
    IN  /\ Cardinality(taken) <= 1
        /\ deliveryBusy = (taken # {})
        /\ Cardinality(senders) <= 1
        /\ sendBusy = (senders # {})
        /\ \A p \in senders : attempts[p.attempt].state = "running"

(* No process is started for an event of an earlier session, for one taken
   before a revocation, or under a veto, although the event was accepted
   earlier and is sent from a later turn of the loop
   (extensions/runtime-metrics.ts:32-62, gentle-agents.ts:517-533).  *)
OnlyLiveEventsSent ==
    [][\A p \in senders' : p.attempt \notin {q.attempt : q \in senders} =>
          /\ p.event.session = openSession
          /\ p.event.epoch = metricEpoch
          /\ RuntimeMetricsEnvAllows]_metricVars

(* A row sent as evidence of a selection names the model that was asked for
   by the request the response answers, whatever retries, compactions and
   late responses came between, and no row carries a private name
   (extensions/runtime-metrics.ts:75-118, runtime-metrics-native.ts:37-48).  *)
AttributionIsTrue ==
    \A p \in senders : \A r \in p.rows :
        /\ r.model \in PublicModel \cup {CustomName, NoName}
        /\ r.evidence = "selected" => r.model = r.truth

(* What leaves the process as telemetry: one sender at a time, live events
   only, and rows that tell the truth (runtime-metrics-delivery.ts,
   runtime-metrics-native.ts, extensions/runtime-metrics.ts).  *)
MetricsAreHonest == OnlyLiveEventsSent /\ [](SlotIsHonest /\ AttributionIsTrue)
=============================================================================
