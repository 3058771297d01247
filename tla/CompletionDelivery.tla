------------------------ MODULE CompletionDelivery ------------------------
(***************************************************************************)
(* How the answer of a subagent gets back to the parent conversation: the  *)
(* completion queue of agents-completion-delivery.ts and its use by the    *)
(* gentle-agents extension (settle, flush at a turn boundary, pull by a    *)
(* tool, session start and shutdown), on top of the task life cycle the    *)
(* runner promises (TaskLifecycle, which AgentRunner implements).          *)
(*                                                                         *)
(* An answer has two routes of its own: the launching tool call returns it *)
(* (task mode), or the queue pushes it (background mode, and task mode     *)
(* after the call was yielded to let the parent answer a question).  The   *)
(* parent may also pull it at any time with subagent_result or             *)
(* subagent_continue.                                                      *)
(***************************************************************************)
EXTENDS TaskLifecycle, SequencesExt

CONSTANTS
  ParentSession,        \* session identifiers one process may open
  NoSession,            \* no session is open (sessions === undefined)
  Mode,                 \* AGENT_MODE
  MaxRuns,              \* bound on nested parent agent runs
  MaxSessions           \* bound on how often a session is opened

ASSUME DeliveryAssumption ==
  /\ NoSession \notin ParentSession
  /\ Mode \subseteq {"task", "background"}
  /\ MaxRuns \in Nat \ {0}
  /\ MaxSessions \in Nat

VARIABLES
  session,              \* activeSessionId()
  opened,               \* sessions opened so far, for MaxSessions
  owner,                \* task.parentSessionId
  mode,                 \* task.mode
  runs,                 \* activeAgentRuns
  pending,              \* CompletionQueue.pending, in settle order
  old,                  \* the pending tasks settled STALE_COMPLETION_MS ago
  consumed,             \* CompletionQueue.consumed
  delivered,            \* CompletionQueue.delivered
  yielded,              \* yieldedTaskIds
  call,                 \* the launching tool call: what it waits for or returns
  answers,              \* what reached a conversation, in order (observer)
  settled,              \* the completions enqueued, in order (observer)
  pulled,               \* the tasks the parent pulled (observer)
  lost,                 \* deliveries the host refused by throwing (observer)
  due                   \* finished in their open session, not cancelled (observer)

queueVars == <<pending, old, consumed, delivered>>
observers == <<answers, settled, pulled, lost, due>>
deliveryVars == <<session, opened, owner, mode, runs, queueVars, yielded, call, observers>>
vars == <<absVars, deliveryVars>>

Route == {"push", "stale", "tool"}
ParentAnswer == [task : Task, route : Route, to : ParentSession]
Answered == {answers[i].task : i \in DOMAIN answers}

Init ==
  /\ AbsInit
  /\ session = NoSession
  /\ opened = 0
  /\ owner = [t \in Task |-> NoSession]
  /\ mode = [t \in Task |-> "background"]
  /\ runs = 0
  /\ pending = <<>>
  /\ old = {}
  /\ consumed = {}
  /\ delivered = {}
  /\ yielded = {}
  /\ call = [t \in Task |-> "none"]
  /\ answers = <<>>
  /\ settled = <<>>
  /\ pulled = {}
  /\ lost = {}
  /\ due = {}

----------------------------------------------------------------------------
(***************************************************************************)
(* The queue.                                                              *)
(***************************************************************************)

\* enqueue: at most one record per task.
Enqueue(t) ==
  IF t \in consumed \cup delivered \cup ToSet(pending) THEN pending ELSE Append(pending, t)

\* The entries of q that are in S, in their order.
Among(q, S) ==
  LET kept[n \in 0 .. Len(q)] ==
        IF n = 0 THEN <<>> ELSE IF q[n] \in S THEN Append(kept[n - 1], q[n]) ELSE kept[n - 1]
  IN kept[Len(q)]

\* takeDeliverable: the entries the parent has not consumed, in settle order.
TakeDeliverable(q) == Among(q, Task \ consumed)

(***************************************************************************)
(* deliver and deliverStale, for the completions taken by one flush: one   *)
(* of another session is dropped, a stale one is shown to the human only,  *)
(* and one the host refuses (sendMessage throws) is gone for good.         *)
(***************************************************************************)
Delivery(taken, refused) ==
  LET kept == Among(taken, {t \in Task \ refused : owner[t] = session})
  IN [i \in DOMAIN kept |->
        [task |-> kept[i], route |-> IF kept[i] \in old THEN "stale" ELSE "push", to |-> session]]

\* flushCompletions over the queue q, refused being the tasks whose delivery throws.
FlushOf(q, refused) ==
  LET taken == TakeDeliverable(q)
  IN /\ pending' = <<>>
     /\ old' = {}
     /\ delivered' = delivered \cup ToSet(taken)
     /\ answers' = answers \o Delivery(taken, refused)
     /\ lost' = lost \cup (ToSet(taken) \cap refused)

Flush == \E refused \in SUBSET ToSet(pending) : FlushOf(pending, refused)

\* dropAll: pending completions and the bookkeeping of both routes.
DropAll == pending' = <<>> /\ old' = {} /\ consumed' = {} /\ delivered' = {}

----------------------------------------------------------------------------
(***************************************************************************)
(* Tasks.                                                                  *)
(***************************************************************************)

\* launch(): the runner creates the task; a task-mode call starts to wait.
Launch(t, m) ==
  /\ session # NoSession
  /\ Create(t)
  /\ owner' = [owner EXCEPT ![t] = session]
  /\ mode' = [mode EXCEPT ![t] = m]
  /\ call' = [call EXCEPT ![t] = IF m = "task" THEN "awaiting" ELSE "none"]
  /\ UNCHANGED <<session, opened, runs, queueVars, yielded, observers>>

\* The runner starts the task.  Its flips between running and waiting while a
\* question to the human is open make no difference here and are left out.
Start(t) ==
  /\ status[t] = "queued"
  /\ Progress(t, "running")
  /\ UNCHANGED deliveryVars

\* The fault of a question that wakes the call but is not remembered.
Query_Fault(t) ==
  /\ status[t] = "running"
  /\ mode[t] = "task"
  /\ session = owner[t]
  /\ call' = [call EXCEPT ![t] = IF @ = "awaiting" THEN "yield" ELSE @]
  /\ UNCHANGED <<absVars, session, opened, owner, mode, runs, queueVars, yielded, observers>>

(***************************************************************************)
(* onQuery accepted for a task-mode child of the open session: the task is *)
(* remembered as yielded and the first question wakes the waiting call.    *)
(* A question of a background child, or one the hook rejects, changes      *)
(* nothing here.                                                           *)
(***************************************************************************)
Query(t) ==
  /\ status[t] = "running"
  /\ mode[t] = "task"
  /\ session = owner[t]
  /\ yielded' = yielded \cup {t}
  /\ call' = [call EXCEPT ![t] = IF @ = "awaiting" THEN "yield" ELSE @]
  /\ UNCHANGED <<absVars, session, opened, owner, mode, runs, queueVars, observers>>

\* The fault of enqueueing also what the waiting call will return.
Queued_Fault(t) ==
  /\ status'[t] # "cancelled"
  /\ mode[t] = "background" \/ session = owner[t]

\* The completions onFinish enqueues.
Queued(t) ==
  /\ status'[t] # "cancelled"
  /\ \/ mode[t] = "background"
     \/ t \in yielded /\ session = owner[t]

\* settleCompletion: enqueue, and flush at once when the parent is idle.
SettleCompletion(t) ==
  /\ settled' = Append(settled, t)
  /\ IF runs = 0
     THEN \E refused \in SUBSET {t} : FlushOf(Enqueue(t), refused)
     ELSE pending' = Enqueue(t) /\ UNCHANGED <<old, delivered, answers, lost>>

(***************************************************************************)
(* The runner settles t: finish() calls onFinish, then wakes the call.     *)
(* timed_out is told apart from failed nowhere here; failed stands for it. *)
(***************************************************************************)
FinishTask(t) ==
  /\ Settle({t})
  /\ status'[t] # "timed_out"
  /\ IF Queued(t) THEN SettleCompletion(t)
                  ELSE UNCHANGED <<pending, old, delivered, answers, settled, lost>>
  /\ yielded' = yielded \ {t}
  /\ call' = [call EXCEPT ![t] = IF @ = "awaiting" THEN "result" ELSE @]
  /\ due' = IF session = owner[t] /\ status'[t] # "cancelled" THEN due \cup {t} ELSE due
  /\ UNCHANGED <<session, opened, owner, mode, runs, consumed, pulled>>

(***************************************************************************)
(* The awaited promise of the launching call resolves: with the question   *)
(* (the call ends without an answer) or with the finished task, which the  *)
(* call consumes and returns.                                              *)
(***************************************************************************)
ToolReturns(t) ==
  /\ call[t] \in {"yield", "result"}
  /\ call' = [call EXCEPT ![t] = "none"]
  /\ IF call[t] = "result"
     THEN /\ consumed' = consumed \cup {t}
          /\ answers' = Append(answers, [task |-> t, route |-> "tool", to |-> owner[t]])
     ELSE UNCHANGED <<consumed, answers>>
  /\ UNCHANGED <<absVars, session, opened, owner, mode, runs, pending, old, delivered,
                 yielded, settled, pulled, lost, due>>

\* The result tool (and continue) on a finished task: the parent has its answer.
Pull(t) ==
  /\ session # NoSession
  /\ Finished(status[t])
  /\ consumed' = consumed \cup {t}
  /\ pulled' = pulled \cup {t}
  /\ UNCHANGED <<absVars, session, opened, owner, mode, runs, pending, old, delivered,
                 yielded, call, answers, settled, lost, due>>

\* STALE_COMPLETION_MS pass while the completion of t is held.
Age(t) ==
  /\ t \in ToSet(pending)
  /\ old' = old \cup {t}
  /\ UNCHANGED <<absVars, session, opened, owner, mode, runs, pending, consumed, delivered,
                 yielded, call, observers>>

----------------------------------------------------------------------------
(***************************************************************************)
(* The parent agent and its session.                                       *)
(***************************************************************************)

AgentStart ==
  /\ session # NoSession
  /\ runs < MaxRuns
  /\ runs' = runs + 1
  /\ UNCHANGED <<absVars, session, opened, owner, mode, queueVars, yielded, call, observers>>

\* agent_end, also the late one of a run that outlives its session.
AgentEnd ==
  /\ runs' = IF runs = 0 THEN 0 ELSE runs - 1
  /\ Flush
  /\ UNCHANGED <<absVars, session, opened, owner, mode, consumed, yielded, call, settled, pulled, due>>

\* turn_end and agent_settled
TurnEnd ==
  /\ Flush
  /\ UNCHANGED <<absVars, session, opened, owner, mode, runs, consumed, yielded, call, settled, pulled, due>>

\* session_start, of a new session or of one that was open before.
OpenParentSession(s) ==
  /\ session = NoSession
  /\ opened < MaxSessions
  /\ session' = s
  /\ opened' = opened + 1
  /\ DropAll
  /\ UNCHANGED <<absVars, owner, mode, runs, yielded, call, observers>>

(***************************************************************************)
(* session_shutdown: the queue is dropped, the run counter cleared and the *)
(* session closed before cancelAll settles every queued task, so that      *)
(* their onFinish finds no session.  Started tasks settle later.           *)
(***************************************************************************)
CloseParentSession ==
  /\ session # NoSession
  /\ session' = NoSession
  /\ runs' = 0
  /\ DropAll
  /\ due' = {}
  /\ LET Q == {t \in Task : status[t] = "queued"}
     IN /\ status' = [t \in Task |-> IF t \in Q THEN "cancelled" ELSE status[t]]
        /\ finishes' = [t \in Task |-> IF t \in Q THEN finishes[t] + 1 ELSE finishes[t]]
        /\ waiters' = waiters \ Q
        /\ yielded' = yielded \ Q
        /\ call' = [t \in Task |-> IF t \in Q /\ call[t] = "awaiting" THEN "result" ELSE call[t]]
  /\ UNCHANGED <<opened, owner, mode, answers, settled, pulled, lost>>

Next ==
  \/ \E t \in Task : \E m \in Mode : Launch(t, m)
  \/ \E t \in Task : Start(t) \/ Query(t) \/ FinishTask(t) \/ ToolReturns(t) \/ Pull(t) \/ Age(t)
  \/ AgentStart \/ AgentEnd \/ TurnEnd \/ CloseParentSession
  \/ \E s \in ParentSession : OpenParentSession(s)

Spec == Init /\ [][Next]_vars

(***************************************************************************)
(* A parent agent run ends (the host emits agent_end for every run it      *)
(* started), and a promise that is resolved resumes the call awaiting it.  *)
(***************************************************************************)
FairSpec ==
  /\ Spec
  /\ WF_vars(AgentEnd)
  /\ \A t \in Task : WF_vars(ToolReturns(t))

----------------------------------------------------------------------------
TypeOK ==
  /\ session \in ParentSession \cup {NoSession}
  /\ opened \in 0 .. MaxSessions
  /\ owner \in [Task -> ParentSession \cup {NoSession}]
  /\ mode \in [Task -> {"task", "background"}]
  /\ runs \in 0 .. MaxRuns
  /\ pending \in Seq(Task)
  /\ old \subseteq ToSet(pending)
  /\ consumed \subseteq Task /\ delivered \subseteq Task /\ yielded \subseteq Task
  /\ call \in [Task -> {"none", "awaiting", "yield", "result"}]
  /\ answers \in Seq(ParentAnswer)
  /\ settled \in Seq(Task)
  /\ pulled \subseteq Task /\ lost \subseteq Task /\ due \subseteq Task

(***************************************************************************)
(* One answer per task, whatever the route: the launching call and the     *)
(* queue never both deliver it, the queue never delivers it twice, not     *)
(* even when its session is closed and opened again, and it only ever      *)
(* reaches the session that launched the task.                             *)
(***************************************************************************)
OneAnswer ==
  /\ \A i, j \in DOMAIN answers : answers[i].task = answers[j].task => i = j
  /\ \A i \in DOMAIN answers : answers[i].to = owner[answers[i].task]

(***************************************************************************)
(* Every task that ends by itself while its session is open is heard of:   *)
(* by its call, by a push, or because the parent pulled it - unless the    *)
(* session closes first or the host refuses the message.                   *)
(***************************************************************************)
ParentHears ==
  \A t \in Task : t \in due ~> t \notin due \/ t \in Answered \cup pulled \cup lost

=============================================================================
