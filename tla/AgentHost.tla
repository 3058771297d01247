------------------------------ MODULE AgentHost ------------------------------
(***************************************************************************)
(* What the agents extension does around the runner: the task store and its *)
(* listeners (lib/agents-protocol.ts), the activity publisher of an RPC     *)
(* host (lib/agents-rpc-publisher.ts), the history on disk that several pi  *)
(* processes share (lib/agents-history.ts), the stop dialogs, the relay of  *)
(* a child's file changes and the human authorization of a remediation      *)
(* child (extensions/gentle-agents.ts).                                     *)
(*                                                                         *)
(* A thread is its length.  The bytes of a push are one per summary and one *)
(* per thread item.  The runner itself is AgentRunner; here a task is       *)
(* launched, works, asks, finishes or is cancelled.                         *)
(***************************************************************************)
EXTENDS Integers, Sequences, FiniteSets, Folds

CONSTANTS
    HostSession,       \* ids of parent sessions
    HostTask,          \* task ids
    HistoricTask,      \* tasks that carry a retained remediation payload
    HostCommand,       \* commands of a remediation plan
    HostFile,          \* files of a remediation plan
    CallId,            \* tool call ids of the remediation child
    NoHost,            \* no session, no list, no plan
    MaxThread,         \* bound: thread items of one task
    MaxPushBytes,      \* maxBytes of a push
    HistoryMax,        \* historyMaxTasks
    MaxHostSteps       \* bound: store events

ASSUME HostAssumption ==
    /\ IsFiniteSet(HostTask) /\ HistoricTask \subseteq HostTask /\ NoHost \notin HostSession
    /\ MaxThread \in Nat /\ MaxPushBytes \in Nat /\ HistoryMax \in Nat /\ MaxHostSteps \in Nat

VARIABLES
    hostSession,       \* the session the host has open, or NoHost
    hostTask,          \* the task store
    hostClock,         \* events so far: creation and end times
    owned,             \* ownedTaskIds
    restored,          \* restoredTaskIds
    noted,             \* droppedAttributionGuards
    relayed,           \* changes relayed to the session, by task
    publisher,         \* the RPC activity publisher
    pushed,            \* the last pushed payload
    stopAsked,         \* stopSelected dialogs that are open
    stopAllList,       \* the list of an open stop-all dialog
    persisting,        \* saveTask -> pruneHistory of each finished task
    history,           \* task files on disk
    everSaved,         \* tasks saved so far
    restoring,         \* restoreSessionHistory in progress
    rem                \* a remediation launch and its child

storeVars == <<hostSession, hostTask, hostClock, owned, restored, noted, relayed>>

publisherVars == <<publisher, pushed>>

stopVars == <<stopAsked, stopAllList>>

historyVars == <<persisting, history, everSaved, restoring>>

agentHostVars == <<storeVars, publisherVars, stopVars, historyVars, rem>>

ActiveStatus == {"queued", "running", "waiting"}

AbsentTask == [status |-> "absent", session |-> NoHost, created |-> 0, ended |-> 0, thread |-> 0]

(***************************************************************************)
(* The activity publisher                                                  *)
(***************************************************************************)

(* The tasks the store of this process holds: neither unborn ones nor the
   ones that are only on disk.  *)
InStore(tasks) == {t \in HostTask : tasks[t].status \notin {"absent", "stored"}}

(* projectRpcActivity: the tasks of one session.  *)
ProjectRpcActivity(tasks, s) ==
    {[id |-> t, status |-> tasks[t].status, ended |-> tasks[t].ended, thread |-> tasks[t].thread,
      kept |-> tasks[t].thread] : t \in {u \in InStore(tasks) : tasks[u].session = s}}

Finished(entry) == entry.status \notin ActiveStatus

(* Bytes of a payload: one per summary and one per kept item.  *)
PayloadBytes(P) ==
    MapThenFoldSet(LAMBDA m, n : m + n, 0, LAMBDA e : 1 + e.kept, LAMBDA S : CHOOSE e \in S : TRUE, P)

(* What k halvings keep of n thread items: never below one.  *)
Halved(n, k) == IF n <= 1 THEN n ELSE IF n \div (2^k) = 0 THEN 1 ELSE n \div (2^k)

(* halveThreadItems, applied k times.  *)
HalveThreadItems(P, k) == {[e EXCEPT !.kept = Halved(e.kept, k)] : e \in P}

EmptyFinishedThread(P) == {IF Finished(e) THEN [e EXCEPT !.kept = 0] ELSE e : e \in P}

DropOldestFinished_Fault(P, k) ==
    {e \in P : Cardinality({d \in P : d.ended < e.ended}) >= k}

(* Whole finished tasks go, the oldest first.  *)
DropOldestFinished(P, k) ==
    {e \in P : ~Finished(e) \/ Cardinality({d \in P : Finished(d) /\ d.ended < e.ended}) >= k}

EmptyThread(P) == {[e EXCEPT !.kept = 0] : e \in P}

(* The payloads in the order in which the code gives things up: every thread
   halved until none is longer than one item, then the threads of finished
   tasks, then the finished tasks themselves, then every thread.  *)
LastPayload == MaxThread + Cardinality(HostTask) + 3
Payload(P, i) ==
    LET bare == EmptyFinishedThread(HalveThreadItems(P, MaxThread))
    IN  IF i <= MaxThread + 1 THEN HalveThreadItems(P, i - 1)
        ELSE IF i < LastPayload THEN DropOldestFinished(bare, i - MaxThread - 2)
        ELSE EmptyThread(DropOldestFinished(bare, Cardinality(HostTask)))

(* encodeActivityLines: the first payload that fits, or the smallest.  *)
EncodeActivityLines(P) ==
    LET fits == {i \in 1..LastPayload : PayloadBytes(Payload(P, i)) <= MaxPushBytes}
    IN  Payload(P, IF fits = {} THEN LastPayload ELSE CHOOSE i \in fits : \A j \in fits : i <= j)

NoPublisher == [session |-> NoHost, tracked |-> {}, timer |-> FALSE, failed |-> FALSE]

(* syncTasks: every task of the publisher's session is subscribed to.  *)
SyncTasks(tasks, s) == {t \in InStore(tasks) : tasks[t].session = s}

(* A summary notification reaches a started publisher whatever the session;
   a task notification only through the task's own subscription.  *)
NotifySummary(tasks) ==
    publisher' = IF publisher.session = NoHost THEN publisher
                 ELSE [publisher EXCEPT !.tracked = @ \cup SyncTasks(tasks, publisher.session), !.timer = TRUE]

NotifyTask(t) ==
    publisher' = IF t \in publisher.tracked THEN [publisher EXCEPT !.timer = TRUE] ELSE publisher

(* publish(): a throwing setWidget is reported and forgotten.  *)
PublishNow(next) ==
    \/ /\ pushed' = [session |-> publisher.session,
                    tasks |-> EncodeActivityLines(ProjectRpcActivity(hostTask, publisher.session))]
       /\ publisher' = next
    \/ /\ UNCHANGED pushed
       /\ publisher' = IF next.session = NoHost THEN next ELSE [next EXCEPT !.failed = TRUE]

(* The coalescing timer fires.  *)
FlushActivity ==
    /\ publisher.timer
    /\ PublishNow([publisher EXCEPT !.timer = FALSE, !.failed = FALSE])
    /\ UNCHANGED <<storeVars, stopVars, historyVars, rem>>

(* start(): subscribes and schedules the first push.  *)
StartPublisher(s) == [session |-> s, tracked |-> SyncTasks(hostTask, s), timer |-> TRUE, failed |-> FALSE]

(***************************************************************************)
(* Tasks                                                                   *)
(***************************************************************************)

NextEvent == hostClock' = hostClock + 1

(* store.add() and the launch around it.  *)
HostLaunch(t) ==
    /\ hostSession # NoHost /\ hostTask[t].status = "absent"
    /\ hostClock < MaxHostSteps /\ NextEvent
    /\ hostTask' = [hostTask EXCEPT ![t] = [AbsentTask EXCEPT !.status = "queued",
                       !.session = hostSession, !.created = hostClock]]
    /\ owned' = owned \cup {t}
    /\ NotifySummary(hostTask')
    /\ UNCHANGED <<hostSession, restored, noted, relayed, pushed, stopVars, historyVars, rem>>

(* update() with another status.  *)
HostStatus(t, s) ==
    /\ t \in owned /\ hostTask[t].status \in ActiveStatus
    /\ s \in {"running", "waiting"} \ {hostTask[t].status}
    /\ hostTask' = [hostTask EXCEPT ![t].status = s]
    /\ NotifySummary(hostTask')
    /\ UNCHANGED <<hostSession, hostClock, owned, restored, noted, relayed, pushed, stopVars, historyVars, rem>>

(* apply() of an event that leaves the status alone: only the task's own
   listeners hear of it.  *)
HostApply(t) ==
    /\ t \in owned /\ hostTask[t].status = "running" /\ hostTask[t].thread < MaxThread
    /\ hostTask' = [hostTask EXCEPT ![t].thread = @ + 1]
    /\ NotifyTask(t)
    /\ UNCHANGED <<hostSession, hostClock, owned, restored, noted, relayed, pushed, stopVars, historyVars, rem>>

(* finish() of the runner with onFinish(): the task is no longer owned and
   its record goes to disk in the background.  *)
Finishing(T) ==
    /\ hostTask' = [t \in HostTask |-> IF t \in T
                       THEN [hostTask[t] EXCEPT !.status = "finished", !.ended = hostClock]
                       ELSE hostTask[t]]
    /\ owned' = owned \ T
    /\ persisting' = [t \in HostTask |-> IF t \in T THEN [pc |-> "save", list |-> {}] ELSE persisting[t]]
    /\ NotifySummary(hostTask')

HostFinish(t) ==
    /\ t \in owned /\ hostClock < MaxHostSteps /\ NextEvent
    /\ Finishing({t})
    /\ UNCHANGED <<hostSession, restored, noted, relayed, pushed, stopVars, history, everSaved, restoring, rem>>

(* onSuccessfulMutation: the guard chain; the first guard that fails leaves
   one note on the task's thread, the next ones of its kind none.  *)
RelayMutation(t, guard) ==
    /\ hostTask[t].status = "running"
    /\ LET first == IF hostSession = NoHost THEN "session-inactive"
                    ELSE IF hostTask[t].session # hostSession THEN "parent-session-mismatch"
                    ELSE IF t \notin owned THEN "not-owned" ELSE guard
           note  == first # "none" /\ <<t, first>> \notin noted /\ hostTask[t].thread < MaxThread
       IN  /\ relayed' = IF first = "none" THEN relayed \cup {<<hostSession, t>>} ELSE relayed
           /\ noted' = IF first = "none" THEN noted ELSE noted \cup {<<t, first>>}
           /\ IF note THEN /\ hostTask' = [hostTask EXCEPT ![t].thread = @ + 1]
                           /\ NotifyTask(t)
              ELSE UNCHANGED <<hostTask, publisher>>
    /\ UNCHANGED <<hostSession, hostClock, owned, restored, pushed, stopVars, historyVars, rem>>

(* stopSelected: a queued task is stopped at once, another after a dialog. *)
StopSelected(t) ==
    /\ t \in owned /\ t \notin stopAsked
    /\ IF hostTask[t].status = "queued"
       THEN Finishing({t}) /\ UNCHANGED stopAsked
       ELSE stopAsked' = stopAsked \cup {t} /\ UNCHANGED <<hostTask, owned, persisting, publisher>>
    /\ UNCHANGED <<hostSession, hostClock, restored, noted, relayed, pushed, stopAllList, history, everSaved, restoring, rem>>

AnswerStop(t, yes) ==
    /\ t \in stopAsked /\ stopAsked' = stopAsked \ {t}
    /\ IF yes /\ t \in owned THEN Finishing({t})
       ELSE UNCHANGED <<hostTask, owned, persisting, publisher>>
    /\ UNCHANGED <<hostSession, hostClock, restored, noted, relayed, pushed, stopAllList, history, everSaved, restoring, rem>>

(* stopAll: one dialog for the tasks that are active when it opens.  *)
StopAll ==
    /\ stopAllList = NoHost /\ owned # {}
    /\ stopAllList' = owned
    /\ UNCHANGED <<storeVars, publisherVars, stopAsked, historyVars, rem>>

AnswerStopAll(yes) ==
    /\ stopAllList # NoHost /\ stopAllList' = NoHost
    /\ IF yes THEN Finishing(stopAllList \cap owned)
       ELSE UNCHANGED <<hostTask, owned, persisting, publisher>>
    /\ UNCHANGED <<hostSession, hostClock, restored, noted, relayed, pushed, stopAsked, history, everSaved, restoring, rem>>

(***************************************************************************)
(* The history on disk                                                     *)
(***************************************************************************)

(* saveTask: temporary file and rename.  *)
SaveTask(t) ==
    /\ persisting[t].pc = "save"
    /\ history' = history \cup {t}
    /\ everSaved' = everSaved \cup {t}
    /\ persisting' = [persisting EXCEPT ![t].pc = "list"]
    /\ UNCHANGED <<storeVars, publisherVars, stopVars, restoring, rem>>

(* loadHistory as pruneHistory uses it: a listing and the files of it.  *)
ListHistory(t) ==
    /\ persisting[t].pc = "list"
    /\ persisting' = [persisting EXCEPT ![t] = [pc |-> "prune", list |-> history]]
    /\ UNCHANGED <<storeVars, publisherVars, stopVars, history, everSaved, restoring, rem>>

(* The newest HistoryMax of a listing, and the retained payloads.  *)
Newest(L) == {t \in L : t \in HistoricTask \/
    Cardinality({u \in L \ HistoricTask : hostTask[u].created > hostTask[t].created}) < HistoryMax}

Pruned(L) == L \ Newest(L)

(* pruneHistory: what the listing had too much of is removed.  *)
PruneHistory(t) ==
    /\ persisting[t].pc = "prune"
    /\ history' = history \ Pruned(persisting[t].list)
    /\ persisting' = [persisting EXCEPT ![t] = [pc |-> "idle", list |-> {}]]
    /\ UNCHANGED <<storeVars, publisherVars, stopVars, everSaved, restoring, rem>>

(* restore(): a live task is never overwritten by a stored copy.  The file
   of a task of an earlier process is in the store only after this.  *)
LandRestored(T) ==
    /\ hostTask' = [t \in HostTask |-> IF t \in T THEN [hostTask[t] EXCEPT !.status = "finished"] ELSE hostTask[t]]
    /\ restored' = restored \cup T
    /\ IF T = {} THEN UNCHANGED publisher ELSE NotifySummary(hostTask')

(* The history has been read; it lands only in the session it was read for. *)
RestoreSessionHistory ==
    /\ restoring.session # NoHost
    /\ restoring' = [session |-> NoHost, list |-> {}]
    /\ LandRestored(IF restoring.session # hostSession THEN {}
                ELSE {t \in restoring.list : hostTask[t].session = hostSession /\ hostTask[t].status = "stored"})
    /\ UNCHANGED <<hostSession, hostClock, owned, noted, relayed, pushed, stopVars, persisting, history, everSaved, rem>>

(* resolveTask: a tool names a task of any earlier session.  *)
ResolveTask(t) ==
    /\ hostTask[t].status = "stored" /\ t \in history
    /\ LandRestored({t})
    /\ UNCHANGED <<hostSession, hostClock, owned, noted, relayed, pushed, stopVars, historyVars, rem>>

(***************************************************************************)
(* Sessions                                                                *)
(***************************************************************************)

(* session_start: the old publisher's last push, a new publisher for an
   interactive RPC host, and the history of a resumed session.  *)
HostSessionStart(s, rpc, resume) ==
    /\ hostSession = NoHost /\ hostClock < MaxHostSteps /\ NextEvent
    /\ hostSession' = s
    /\ publisher' = IF rpc THEN StartPublisher(s) ELSE NoPublisher
    /\ restoring' = IF resume THEN [session |-> s, list |-> history] ELSE restoring
    /\ UNCHANGED <<hostTask, owned, restored, noted, relayed, pushed, stopVars, persisting, history, everSaved, rem>>

(* session_shutdown: the publisher's last push comes before the children are
   cancelled.  *)
HostSessionShutdown ==
    /\ hostSession # NoHost
    /\ hostSession' = NoHost
    /\ IF publisher.session = NoHost THEN UNCHANGED publisherVars ELSE PublishNow(NoPublisher)
    /\ hostTask' = [t \in HostTask |-> IF t \in owned
                       THEN [hostTask[t] EXCEPT !.status = "finished", !.ended = hostClock] ELSE hostTask[t]]
    /\ owned' = {}
    /\ persisting' = [t \in HostTask |-> IF t \in owned THEN [pc |-> "save", list |-> {}] ELSE persisting[t]]
    /\ UNCHANGED <<hostClock, restored, noted, relayed, stopVars, history, everSaved, restoring, rem>>

(* pi is started again: the store is empty, the files are still there.  *)
HostRestart ==
    /\ hostSession = NoHost /\ \A t \in HostTask : persisting[t].pc = "idle"
    /\ hostClock < MaxHostSteps /\ NextEvent
    /\ hostTask' = [t \in HostTask |-> IF hostTask[t].status = "finished"
                       THEN [hostTask[t] EXCEPT !.status = "stored"] ELSE hostTask[t]]
    /\ restored' = {} /\ noted' = {} /\ stopAsked' = {} /\ stopAllList' = NoHost
    /\ restoring' = [session |-> NoHost, list |-> {}]
    /\ UNCHANGED <<hostSession, owned, relayed, publisherVars, persisting, history, everSaved, rem>>

(***************************************************************************)
(* Remediation                                                             *)
(***************************************************************************)

NoPlan == [pc |-> "idle", session |-> NoHost, plan |-> <<>>, files |-> {},
           left |-> <<>>, used |-> {}, ran |-> <<>>, wrote |-> {}]

(* admitManagedRemediation up to the dialog: owner, asset, plan and native
   status have been accepted.  *)
AdmitRemediation(plan, files) ==
    /\ rem.pc = "idle" /\ hostSession # NoHost
    /\ rem' = [NoPlan EXCEPT !.pc = "confirm", !.session = hostSession, !.plan = plan, !.files = files]
    /\ UNCHANGED <<storeVars, publisherVars, stopVars, historyVars>>

(* confirmRemediationScope's answer, the re-check of the paths and the check
   in launch() that the parent session is still the one that asked; the
   child's own session_start then installs the granted shell.  *)
ConfirmRemediation(yes, moved) ==
    /\ rem.pc = "confirm"
    /\ rem' = IF yes /\ ~moved /\ rem.session = hostSession
              THEN [rem EXCEPT !.pc = "child", !.left = rem.plan]
              ELSE NoPlan
    /\ UNCHANGED <<storeVars, publisherVars, stopVars, historyVars>>

WithoutAt(s, i) == SubSeq(s, 1, i - 1) \o SubSeq(s, i + 1, Len(s))

(* remaining.splice(slot, 1).  *)
SlotSpent(slot) == WithoutAt(rem.left, slot)

(* remediationBash: an authorized slot is spent before the command runs.  *)
RemediationBash(c, id) ==
    /\ rem.pc = "child" /\ id \notin rem.used
    /\ \E slot \in DOMAIN rem.left :
          /\ rem.left[slot] = c
          /\ \A j \in 1..(slot - 1) : rem.left[j] # c
          /\ rem' = [rem EXCEPT !.left = SlotSpent(slot), !.used = @ \cup {id}, !.ran = Append(@, c)]
    /\ UNCHANGED <<storeVars, publisherVars, stopVars, historyVars>>

(* remediationToolAllowed for edit and write.  *)
RemediationToolAllowed(f) == rem.pc = "child" /\ f \in rem.files

RemediationEdit(f) ==
    /\ RemediationToolAllowed(f)
    /\ rem' = [rem EXCEPT !.wrote = @ \cup {f}]
    /\ UNCHANGED <<storeVars, publisherVars, stopVars, historyVars>>

RemediationEnds ==
    /\ rem.pc = "child"
    /\ rem' = NoPlan
    /\ UNCHANGED <<storeVars, publisherVars, stopVars, historyVars>>

HostInit ==
    /\ hostSession = NoHost
    /\ hostTask = [t \in HostTask |-> AbsentTask] /\ hostClock = 1
    /\ owned = {} /\ restored = {} /\ noted = {} /\ relayed = {}
    /\ publisher = NoPublisher /\ pushed = [session |-> NoHost, tasks |-> {}]
    /\ stopAsked = {} /\ stopAllList = NoHost
    /\ persisting = [t \in HostTask |-> [pc |-> "idle", list |-> {}]]
    /\ history = {} /\ everSaved = {}
    /\ restoring = [session |-> NoHost, list |-> {}]
    /\ rem = NoPlan

AgentTaskStep ==
    \/ \E t \in HostTask : HostLaunch(t) \/ HostApply(t) \/ HostFinish(t)
    \/ \E t \in HostTask, s \in {"running", "waiting"} : HostStatus(t, s)

RelayStep == \E t \in HostTask, g \in {"none", "root-mismatch"} : RelayMutation(t, g)

PanelStop == \/ \E t \in HostTask : StopSelected(t)
             \/ \E t \in HostTask, yes \in BOOLEAN : AnswerStop(t, yes)
             \/ StopAll \/ \E yes \in BOOLEAN : AnswerStopAll(yes)

HistoryStep == \/ \E t \in HostTask : SaveTask(t) \/ ListHistory(t) \/ PruneHistory(t) \/ ResolveTask(t)
               \/ RestoreSessionHistory

AgentSessionStep ==
    \/ \E s \in HostSession, rpc, resume \in BOOLEAN : HostSessionStart(s, rpc, resume)
    \/ HostSessionShutdown \/ HostRestart

RemediationStep ==
    \/ \E plan \in UNION {[1..n -> HostCommand] : n \in 1..2}, files \in SUBSET HostFile :
          AdmitRemediation(plan, files)
    \/ \E yes, moved \in BOOLEAN : ConfirmRemediation(yes, moved)
    \/ \E c \in HostCommand, id \in CallId : RemediationBash(c, id)
    \/ \E f \in HostFile : RemediationEdit(f)
    \/ RemediationEnds

HostNext == \/ AgentTaskStep \/ RelayStep \/ PanelStop \/ HistoryStep
            \/ AgentSessionStep \/ RemediationStep \/ FlushActivity

HostSpec == HostInit /\ [][HostNext]_agentHostVars

(***************************************************************************)
(* Properties                                                              *)
(***************************************************************************)

(* When no push is due and the last one did not fail, an RPC host shows every
   active task of its session as it is: coalescing, late subscription of a
   new task and the shrinking of a large payload never lose one
   (agents-rpc-publisher.ts:190-231, 265-324).  *)
ShownIsCurrent ==
    publisher.session # NoHost /\ ~publisher.timer /\ ~publisher.failed =>
        /\ pushed.session = publisher.session
        /\ \A t \in HostTask :
              hostTask[t].session = publisher.session /\ hostTask[t].status \in ActiveStatus =>
                 \E e \in pushed.tasks : /\ e.id = t
                                        /\ e.status = hostTask[t].status
                                        /\ e.thread = hostTask[t].thread

(* Once every finished task has been written and trimmed, the history holds
   exactly the newest tasks ever saved and every retained payload, whatever
   the order in which concurrent savers list and remove
   (agents-history.ts:74-81, gentle-agents.ts:669-675).  *)
HistoryIsNewest ==
    (\A t \in HostTask : persisting[t].pc = "idle") => history = Newest(everSaved)

(* How often a command occurs in a plan, or in what was run.  *)
Times(s, c) == Cardinality({i \in DOMAIN s : s[i] = c})

(* What a remediation child has run is covered, slot by slot, by what the
   human confirmed for this one launch, and what it wrote lies in the
   confirmed files (gentle-agents.ts:99-175, 432-448).  *)
RemediationIsAuthorized ==
    /\ \A c \in HostCommand : Times(rem.ran, c) <= Times(rem.plan, c)
    /\ rem.wrote \subseteq rem.files

(* What the host of the agents owes its user: the tasks as they are, the
   newest ones afterwards, and remediation within what was confirmed
   (gentle-agents.ts, agents-rpc-publisher.ts, agents-history.ts).  *)
HostKeepsFaith == ShownIsCurrent /\ HistoryIsNewest /\ RemediationIsAuthorized
=============================================================================
