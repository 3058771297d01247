---------------------------- MODULE AgentRunner ----------------------------
(***************************************************************************)
(* The Gentle Agents runner (lib/agents-runner.ts, class AgentRunner) with *)
(* the part of the TaskStore it drives (lib/agents-protocol.ts).           *)
(*                                                                         *)
(* Every subagent is a `pi --mode rpc` child process.  The runner queues   *)
(* requests, launches at most MaxConcurrency children, turns their events  *)
(* into status changes, watches them for silence, and stops them: SIGTERM, *)
(* a grace period, SIGKILL, then probes of the process group until it is   *)
(* gone or a deadline passes, in which case the task is reported failed    *)
(* and its slot stays taken ("quarantined").                               *)
(*                                                                         *)
(* Handlers run on one JavaScript thread, so each action is one callback:  *)
(* a tool call, a timer, an OS event or a line of child output.  Time is   *)
(* abstracted to "an armed timer may fire"; payloads, labels, counters and *)
(* the thread shown to the user are left out.                              *)
(***************************************************************************)
EXTENDS Naturals, Sequences, FiniteSets, TLC, TaskLifecycle

CONSTANTS
  Worktree,        \* roots in which a remediation child can be started
  NoSite,          \* the site of a task that is not an sdd-remediate task
  Mode,            \* the delegation modes the host uses
  Call,            \* identifiers of a child's tool calls
  MaxConcurrency,  \* RunnerLimits.maxConcurrency
  MaxProbes,       \* re-probes that fit before the cleanup deadline
  MaxAsks          \* bound: dialogs one child has open at a time

ASSUME RunnerAssumption ==
  /\ MaxConcurrency \in Nat \ {0}
  /\ MaxProbes \in Nat
  /\ MaxAsks \in Nat
  /\ NoSite \notin Worktree
  /\ Mode \subseteq {"task", "background"}
  /\ IsFiniteSet(Task)

VARIABLES
  queue,           \* AgentRunner.queue, oldest first
  live,            \* keys of AgentRunner.live: the tasks that hold a slot
  pump,            \* whether a pump() microtask is scheduled
  mode,            \* TaskRequest.mode
  site,            \* worktree of an sdd-remediate request, else NoSite
  reported,        \* tasks whose last agent_end was a success: record.result is set
  terminal,        \* LiveTask.terminal.status, "none" until requestStop()
  childExit,       \* tasks with LiveTask.childExit set: the exit was observed
  quarantined,     \* tasks with LiveTask.quarantined set
  stall,           \* the watchdog: off, or armed with the idle/tool budget
  timer,           \* cancelGrace: none, the grace timer, or a probe timer
  probesLeft,      \* re-probes left before cleanupDeadlineAt
  tools,           \* LiveTask.inFlightTools
  asks,            \* dialogs shown to the user and not answered yet
  proc,            \* the operating system's view of the child
  platform         \* process.platform: "win32" or any other, "posix"

recordVars == <<status, finishes, waiters, reported>>
slotVars   == <<queue, live, pump, mode, site>>
stopVars   == <<terminal, childExit, quarantined, timer, probesLeft>>
childVars  == <<stall, tools, asks>>
vars == <<recordVars, slotVars, stopVars, childVars, proc, platform>>

(***************************************************************************)
(* proc: "none" before the spawn or when spawn failed; "nopid" while a     *)
(* child that spawn returned without a pid still owes its error event;     *)
(* "up" while the child runs; "orphans" once it exited but left            *)
(* descendants in its group; "gone" when the group is empty.               *)
(***************************************************************************)
ProcState == {"none", "nopid", "up", "orphans", "gone"}

Queued == {queue[i] : i \in DOMAIN queue}

\* Tasks that own queue or slot state, run()'s "active" list.
Active == Queued \cup live

\* Array.prototype.splice(k, 1)
Splice(s, k) == [i \in 1 .. (Len(s) - 1) |-> IF i < k THEN s[i] ELSE s[i + 1]]

\* launch(): POSIX children lead a process group of their own.
Detached == platform # "win32"

\* probeGroup(): a process group exists only for a detached child with a pid.
Probe(t) ==
  IF ~Detached \/ proc[t] \in {"none", "nopid"} THEN "unavailable"
  ELSE IF proc[t] = "gone" THEN "gone" ELSE "present"

FieldTypes ==
  /\ status \in [Task -> TaskStatus \cup {"absent"}]
  /\ finishes \in [Task -> Nat]
  /\ waiters \in SUBSET Task
  /\ reported \in SUBSET Task
  /\ live \in SUBSET Task
  /\ pump \in {"idle", "scheduled"}
  /\ mode \in [Task -> {"task", "background"}]
  /\ site \in [Task -> Worktree \cup {NoSite}]
  /\ terminal \in [Task -> FinishedStatus \cup {"none"}]
  /\ childExit \in SUBSET Task
  /\ quarantined \in SUBSET Task
  /\ timer \in [Task -> {"none", "grace", "probe"}]
  /\ probesLeft \in [Task -> 0 .. MaxProbes]
  /\ stall \in [Task -> {"off", "idle", "tool"}]
  /\ tools \in [Task -> SUBSET Call]
  /\ asks \in [Task -> 0 .. MaxAsks]
  /\ proc \in [Task -> ProcState]
  /\ platform \in {"posix", "win32"}

TypeOK == FieldTypes /\ queue \in Seq(Task)

Init ==
  /\ AbsInit
  /\ reported = {}
  /\ queue = <<>>
  /\ live = {}
  /\ pump = "idle"
  /\ mode = [t \in Task |-> "task"]
  /\ site = [t \in Task |-> NoSite]
  /\ terminal = [t \in Task |-> "none"]
  /\ childExit = {}
  /\ quarantined = {}
  /\ timer = [t \in Task |-> "none"]
  /\ probesLeft = [t \in Task |-> 0]
  /\ stall = [t \in Task |-> "off"]
  /\ tools = [t \in Task |-> {}]
  /\ asks = [t \in Task |-> 0]
  /\ proc = [t \in Task |-> "none"]
  /\ platform \in {"posix", "win32"}

-----------------------------------------------------------------------------
(* Shared steps of the handlers.                                           *)

\* finish(): settles a task once; a second call changes nothing, not even
\* the schedule of the pump.
Finish(t, s) ==
  IF Finished(status[t])
  THEN UNCHANGED <<status, finishes, waiters, pump>>
  ELSE /\ status' = [status EXCEPT ![t] = s]
       /\ finishes' = [finishes EXCEPT ![t] = @ + 1]
       /\ waiters' = waiters \ {t}
       /\ pump' = "scheduled"

\* requestStop(): the first caller decides how the task ends.  SIGTERM is
\* sent and the grace timer armed; the abort command and the signals reach
\* only the child, whose reaction is the environment's choice.
RequestStop(t, s) ==
  IF terminal[t] # "none"
  THEN UNCHANGED <<terminal, tools, stall, timer, probesLeft>>
  ELSE /\ terminal' = [terminal EXCEPT ![t] = s]
       /\ tools' = [tools EXCEPT ![t] = {}]
       /\ stall' = [stall EXCEPT ![t] = "off"]
       /\ timer' = [timer EXCEPT ![t] = "grace"]
       /\ probesLeft' = [probesLeft EXCEPT ![t] = MaxProbes]

\* live.delete(id) with its timers and channel: the LiveTask object is
\* dropped, so its fields go back to their initial values.
ReleaseSlot(t) ==
  /\ live' = live \ {t}
  /\ terminal' = [terminal EXCEPT ![t] = "none"]
  /\ childExit' = childExit \ {t}
  /\ quarantined' = quarantined \ {t}
  /\ timer' = [timer EXCEPT ![t] = "none"]
  /\ probesLeft' = [probesLeft EXCEPT ![t] = 0]
  /\ stall' = [stall EXCEPT ![t] = "off"]
  /\ tools' = [tools EXCEPT ![t] = {}]

\* Fault: the slot of a quarantined task is given back without a pump.
CompleteExit_NoPump(t) ==
  /\ ReleaseSlot(t)
  /\ IF t \in quarantined
     THEN UNCHANGED <<status, finishes, waiters, pump>>
     ELSE Finish(t, IF terminal[t] = "none" THEN "failed" ELSE terminal[t])

\* completeExit(): a quarantined task was already reported, so only its slot
\* is given back; otherwise the task settles as requestStop() decided, or as
\* failed when the child left on its own.
CompleteExit(t) ==
  /\ ReleaseSlot(t)
  /\ IF t \in quarantined
     THEN /\ pump' = "scheduled"
          /\ UNCHANGED <<status, finishes, waiters>>
     ELSE Finish(t, IF terminal[t] = "none" THEN "failed" ELSE terminal[t])

\* armStall(): the budget is chosen from the calls in flight at this moment.
ArmStall(t, inFlight) ==
  stall' = [stall EXCEPT ![t] = IF inFlight = {} THEN "idle" ELSE "tool"]

\* recordPatch(): any event but a question brings a waiting task back.
Resumed(t) == IF status[t] = "waiting" THEN "running" ELSE status[t]

-----------------------------------------------------------------------------
(* Operations called by the host: tools, shortcuts, session shutdown.      *)

\* run(): a remediation request is refused while its worktree has another
\* remediation task queued or holding a slot.
Run(t, m, w) ==
  /\ status[t] = "absent"
  /\ w # NoSite => \A u \in Active : site[u] # w
  /\ status' = [status EXCEPT ![t] = "queued"]
  /\ mode' = [mode EXCEPT ![t] = m]
  /\ site' = [site EXCEPT ![t] = w]
  /\ queue' = Append(queue, t)
  /\ pump' = "scheduled"
  /\ UNCHANGED <<finishes, waiters, reported, live, stopVars, childVars, proc,
                 platform>>

\* waitFor(): resolved at once when the task has settled.
WaitFor(t) ==
  /\ Pending(t)
  /\ waiters' = waiters \cup {t}
  /\ UNCHANGED <<status, finishes, reported, slotVars, stopVars, childVars,
                 proc, platform>>

\* The request leaves the queue, wherever it stands in it.
Unqueue(t) ==
  \E k \in DOMAIN queue : queue[k] = t /\ queue' = Splice(queue, k)

\* cancel() of a task that still waits in the queue.
CancelQueued(t) ==
  /\ Unqueue(t)
  /\ Finish(t, "cancelled")
  /\ UNCHANGED <<reported, live, mode, site, stopVars, childVars, proc, platform>>

\* cancel() of a task that holds a slot; requestStop() ignores it when the
\* task is already being stopped.
CancelLive(t) ==
  /\ t \in live
  /\ RequestStop(t, "cancelled")
  /\ UNCHANGED <<recordVars, slotVars, childExit, quarantined, asks, proc,
                 platform>>

\* cancelAll(), run by session_shutdown.
CancelAll ==
  LET stopped == {t \in live : terminal[t] = "none"} IN
  /\ queue # <<>> \/ stopped # {}
  /\ queue' = <<>>
  /\ status' = [t \in Task |-> IF t \in Queued THEN "cancelled" ELSE status[t]]
  /\ finishes' = [t \in Task |-> IF t \in Queued THEN finishes[t] + 1 ELSE finishes[t]]
  /\ waiters' = waiters \ Queued
  /\ pump' = IF queue = <<>> THEN pump ELSE "scheduled"
  /\ terminal' = [t \in Task |-> IF t \in stopped THEN "cancelled" ELSE terminal[t]]
  /\ tools' = [t \in Task |-> IF t \in stopped THEN {} ELSE tools[t]]
  /\ stall' = [t \in Task |-> IF t \in stopped THEN "off" ELSE stall[t]]
  /\ timer' = [t \in Task |-> IF t \in stopped THEN "grace" ELSE timer[t]]
  /\ probesLeft' = [t \in Task |-> IF t \in stopped THEN MaxProbes ELSE probesLeft[t]]
  /\ UNCHANGED <<reported, live, mode, site, childExit, quarantined, asks, proc,
                 platform>>

\* Fault: steering marks the task running, whatever its status.
Steer_Revives(t) ==
  /\ t \in live
  /\ status' = [status EXCEPT ![t] = "running"]
  /\ UNCHANGED <<finishes, waiters, reported, slotVars, stopVars, childVars,
                 proc, platform>>

\* steer(): accepted while the task holds a slot, even one being stopped; the
\* note it adds to the thread counts as an event of the task.
Steer(t) ==
  /\ t \in live
  /\ status' = [status EXCEPT ![t] = Resumed(t)]
  /\ UNCHANGED <<finishes, waiters, reported, slotVars, stopVars, childVars,
                 proc, platform>>

-----------------------------------------------------------------------------
(* The pump and the launch of a child.                                     *)

\* One turn of pump()'s loop: a slot is free and the oldest request is due.
Dequeue(t) ==
  /\ pump = "scheduled"
  /\ queue # <<>> /\ Cardinality(live) < MaxConcurrency
  /\ t = Head(queue)
  /\ queue' = Tail(queue)

\* spawn() threw: the task fails without ever holding a slot.
LaunchThrows(t) ==
  /\ Dequeue(t)
  /\ Finish(t, "failed")
  /\ UNCHANGED <<reported, live, mode, site, stopVars, childVars, proc, platform>>

\* spawn() returned a child without a pid.  Its error event follows, but a
\* remediation task does not wait for it.
LaunchNoPid(t) ==
  /\ Dequeue(t)
  /\ IF site[t] # NoSite
     THEN /\ Finish(t, "failed")
          /\ UNCHANGED <<live, stall, proc>>
     ELSE /\ live' = live \cup {t}
          /\ proc' = [proc EXCEPT ![t] = "nopid"]
          /\ status' = [status EXCEPT ![t] = "running"]
          /\ ArmStall(t, {})
          /\ UNCHANGED <<finishes, waiters, pump>>
  /\ UNCHANGED <<reported, mode, site, stopVars, tools, asks, platform>>

\* The child process started.
Launch(t) ==
  /\ Dequeue(t)
  /\ live' = live \cup {t}
  /\ status' = [status EXCEPT ![t] = "running"]
  /\ proc' = [proc EXCEPT ![t] = "up"]
  /\ ArmStall(t, {})
  /\ UNCHANGED <<finishes, waiters, reported, pump, mode, site, stopVars,
                 tools, asks, platform>>

\* pump() returns when the queue is empty or every slot is taken.
PumpDone ==
  /\ pump = "scheduled"
  /\ queue = <<>> \/ Cardinality(live) >= MaxConcurrency
  /\ pump' = "idle"
  /\ UNCHANGED <<recordVars, queue, live, mode, site, stopVars, childVars, proc,
                 platform>>

-----------------------------------------------------------------------------
(* Lines of child output: receive().                                       *)

\* receive() drops everything once the task is being stopped.
Listening(t) == t \in live /\ terminal[t] = "none" /\ proc[t] # "nopid"

\* Text, thinking, notes, usage, turn ends: they resume a waiting task and
\* renew the watchdog.
ChildProgress(t) ==
  /\ Listening(t)
  /\ status' = [status EXCEPT ![t] = Resumed(t)]
  /\ ArmStall(t, tools[t])
  /\ UNCHANGED <<finishes, waiters, reported, slotVars, stopVars, tools, asks,
                 proc, platform>>

ToolStart(t, c) ==
  /\ Listening(t)
  /\ status' = [status EXCEPT ![t] = Resumed(t)]
  /\ tools' = [tools EXCEPT ![t] = @ \cup {c}]
  /\ ArmStall(t, tools[t] \cup {c})
  /\ UNCHANGED <<finishes, waiters, reported, slotVars, stopVars, asks,
                 proc, platform>>

ToolEnd(t, c) ==
  /\ Listening(t)
  /\ status' = [status EXCEPT ![t] = Resumed(t)]
  /\ tools' = [tools EXCEPT ![t] = @ \ {c}]
  /\ ArmStall(t, tools[t] \ {c})
  /\ UNCHANGED <<finishes, waiters, reported, slotVars, stopVars, asks,
                 proc, platform>>

\* agent_end: the last one decides what agent_settled will report.
AgentEnd(t, success) ==
  /\ Listening(t)
  /\ status' = [status EXCEPT ![t] = Resumed(t)]
  /\ reported' = IF success THEN reported \cup {t} ELSE reported \ {t}
  /\ ArmStall(t, tools[t])
  /\ UNCHANGED <<finishes, waiters, slotVars, stopVars, tools, asks,
                 proc, platform>>

\* A dialog request.  A task-mode child waits for the user; a background
\* child's dialog is dismissed in the same callback.
Ask(t) ==
  /\ Listening(t)
  /\ asks[t] < MaxAsks
  /\ IF mode[t] = "task"
     THEN /\ status' = [status EXCEPT ![t] = "waiting"]
          /\ asks' = [asks EXCEPT ![t] = @ + 1]
     ELSE /\ status' = [status EXCEPT ![t] = "running"]
          /\ UNCHANGED asks
  /\ ArmStall(t, tools[t])
  /\ UNCHANGED <<finishes, waiters, reported, slotVars, stopVars, tools,
                 proc, platform>>

\* answer(): the user answered one dialog, perhaps of a task that is gone.
Answer(t) ==
  /\ asks[t] > 0
  /\ asks' = [asks EXCEPT ![t] = @ - 1]
  /\ status' = IF t \in live /\ terminal[t] = "none"
               THEN [status EXCEPT ![t] = Resumed(t)]
               ELSE status
  /\ UNCHANGED <<finishes, waiters, reported, slotVars, stopVars, stall, tools,
                 proc, platform>>

\* agent_settled: completed only with a final report.
AgentSettled(t) ==
  /\ Listening(t)
  /\ status' = [status EXCEPT ![t] = Resumed(t)]
  /\ RequestStop(t, IF t \in reported THEN "completed" ELSE "failed")
  /\ UNCHANGED <<finishes, waiters, reported, slotVars, childExit, quarantined,
                 asks, proc, platform>>

\* The prompt was rejected, onLaunch threw, or a child with a pid reported an
\* error: requestStop(FAILED).
ChildFault(t) ==
  /\ Listening(t)
  /\ RequestStop(t, "failed")
  /\ UNCHANGED <<recordVars, slotVars, childExit, quarantined, asks, proc,
                 platform>>

-----------------------------------------------------------------------------
(* Timers.  A spawn error is emitted on the next tick, before any timer.   *)

\* The inactivity watchdog fires.
StallTimeout(t) ==
  /\ t \in live
  /\ stall[t] # "off"
  /\ proc[t] # "nopid"
  /\ RequestStop(t, "timed_out")
  /\ UNCHANGED <<recordVars, slotVars, childExit, quarantined, asks, proc,
                 platform>>

\* Fault: the child's own exit stands for the exit of its group.
GroupGone_ChildOnly(t) == Probe(t) = "gone" \/ t \in childExit

\* confirmGroupExit(), after SIGKILL and on each re-probe: gone by the probe,
\* or, with no group to probe, by the observed exit.
GroupGone(t) == Probe(t) = "gone" \/ (Probe(t) = "unavailable" /\ t \in childExit)

\* The grace timer or a probe timer fires.
TimerFires(t) == t \in live /\ timer[t] # "none" /\ proc[t] # "nopid"

ConfirmGone(t) ==
  /\ TimerFires(t)
  /\ GroupGone(t)
  /\ CompleteExit(t)
  /\ UNCHANGED <<reported, queue, mode, site, asks, proc, platform>>

\* Fault: the probe is not scheduled again.
ProbeAgain_NoRearm(t) ==
  /\ TimerFires(t)
  /\ ~GroupGone(t)
  /\ probesLeft[t] > 0
  /\ timer' = [timer EXCEPT ![t] = "none"]
  /\ probesLeft' = [probesLeft EXCEPT ![t] = @ - 1]
  /\ UNCHANGED <<recordVars, slotVars, terminal, childExit, quarantined,
                 childVars, proc, platform>>

\* The deadline has not passed: probe again.
ProbeAgain(t) ==
  /\ TimerFires(t)
  /\ ~GroupGone(t)
  /\ probesLeft[t] > 0
  /\ timer' = [timer EXCEPT ![t] = "probe"]
  /\ probesLeft' = [probesLeft EXCEPT ![t] = @ - 1]
  /\ UNCHANGED <<recordVars, slotVars, terminal, childExit, quarantined,
                 childVars, proc, platform>>

\* The deadline has passed: report the task, keep its slot.
Quarantine(t) ==
  /\ TimerFires(t)
  /\ ~GroupGone(t)
  /\ timer' = [timer EXCEPT ![t] = "none"]
  /\ quarantined' = quarantined \cup {t}
  /\ Finish(t, "failed")
  /\ UNCHANGED <<reported, queue, live, mode, site, terminal, childExit,
                 probesLeft, childVars, proc, platform>>

-----------------------------------------------------------------------------
(* Events of the child process.                                            *)

\* childError() of a child that never got a pid.
SpawnError(t) ==
  /\ t \in live
  /\ proc[t] = "nopid"
  /\ ReleaseSlot(t)
  /\ Finish(t, "failed")
  /\ proc' = [proc EXCEPT ![t] = "none"]
  /\ UNCHANGED <<reported, queue, mode, site, asks, platform>>

\* Fault: the exit of the child settles the task, group or no group.
ExitGroupPresent_Settles(t) ==
  /\ t \in live /\ t \notin childExit
  /\ proc[t] = "orphans" /\ Detached
  /\ CompleteExit(t)
  /\ UNCHANGED <<reported, queue, mode, site, asks, proc, platform>>

\* exited() while descendants keep the process group alive.
ExitGroupPresent(t) ==
  /\ t \in live /\ t \notin childExit
  /\ proc[t] = "orphans" /\ Detached
  /\ childExit' = childExit \cup {t}
  /\ RequestStop(t, "failed")
  /\ UNCHANGED <<recordVars, slotVars, quarantined, asks, proc, platform>>

\* exited() with no group left, or none to probe.
ExitComplete(t) ==
  /\ t \in live /\ t \notin childExit
  /\ proc[t] = "gone" \/ (proc[t] = "orphans" /\ ~Detached)
  /\ CompleteExit(t)
  /\ UNCHANGED <<reported, queue, mode, site, asks, proc, platform>>

\* The environment: the child exits, and later its last descendant does.
ProcessExits(t, next) ==
  /\ \/ proc[t] = "up" /\ next \in {"orphans", "gone"}
     \/ proc[t] = "orphans" /\ next = "gone"
  /\ proc' = [proc EXCEPT ![t] = next]
  /\ UNCHANGED <<recordVars, slotVars, stopVars, childVars, platform>>

-----------------------------------------------------------------------------
HostOp(t) ==
  \/ \E m \in Mode, w \in Worktree \cup {NoSite} : Run(t, m, w)
  \/ WaitFor(t)
  \/ CancelQueued(t)
  \/ CancelLive(t)
  \/ Steer(t)
  \/ Answer(t)

ChildEvent(t) ==
  \/ ChildProgress(t)
  \/ \E c \in Call : ToolStart(t, c) \/ ToolEnd(t, c)
  \/ \E success \in BOOLEAN : AgentEnd(t, success)
  \/ Ask(t)
  \/ AgentSettled(t)
  \/ ChildFault(t)

Timer(t) == StallTimeout(t) \/ ConfirmGone(t) \/ ProbeAgain(t) \/ Quarantine(t)

ProcessEvent(t) ==
  \/ SpawnError(t)
  \/ ExitGroupPresent(t)
  \/ ExitComplete(t)
  \/ \E next \in {"orphans", "gone"} : ProcessExits(t, next)

Pump ==
  \/ \E t \in Task : LaunchThrows(t) \/ LaunchNoPid(t) \/ Launch(t)
  \/ PumpDone

Next ==
  \/ \E t \in Task : HostOp(t) \/ ChildEvent(t) \/ Timer(t) \/ ProcessEvent(t)
  \/ CancelAll
  \/ Pump

(***************************************************************************)
(* Fairness: the event loop runs microtasks and due timers, and Node emits *)
(* the error of a failed spawn.  Nothing is assumed of the child, of the   *)
(* user or of the exit event.  The watchdog is fair only once the child's  *)
(* group is gone: until then output may renew it for ever.                 *)
(***************************************************************************)
Fairness ==
  /\ WF_vars(Pump)
  /\ \A t \in Task :
       /\ WF_vars(ConfirmGone(t) \/ ProbeAgain(t) \/ Quarantine(t))
       /\ WF_vars(SpawnError(t))
       /\ WF_vars(proc[t] = "gone" /\ StallTimeout(t))

Spec == Init /\ [][Next]_vars

FairSpec == Spec /\ Fairness

\* The same, on a host where every exit event is delivered as well.
ExitFairSpec ==
  FairSpec /\ \A t \in Task : WF_vars(ExitGroupPresent(t) \/ ExitComplete(t))

-----------------------------------------------------------------------------
(* Safety.                                                                 *)

\* What the operating system still runs on behalf of a task.  On win32 only
\* the direct child counts: the code promises nothing of its descendants.
Alive(t) == proc[t] = "up" \/ (proc[t] = "orphans" /\ Detached)

\* max_concurrency bounds processes, not just records: spawn failures,
\* cancelled launches, quarantine and late exits never let pump() start one
\* process too many.
ProcessBound == Cardinality({t \in Task : Alive(t)}) <= MaxConcurrency

\* No lost wakeup: whenever a request waits and a slot is free, a pump()
\* microtask is on its way, whichever handler freed the slot.
NoLostWakeup ==
  queue # <<>> /\ Cardinality(live) < MaxConcurrency => pump = "scheduled"

\* onFinish is called exactly once for a settled task and never for another,
\* and no waitFor() promise outlives the task: quarantine, late exit events
\* and cancellation all report through finish().
NotifiedOnce ==
  \A t \in Task : /\ finishes[t] = IF Finished(status[t]) THEN 1 ELSE 0
                  /\ t \in waiters => Pending(t)

\* A slot whose task has not settled is always watched: by the inactivity
\* timer, with the budget of the calls in flight, or by the stop sequence.
NeverUnwatched ==
  \A t \in live : ~Finished(status[t]) =>
    IF terminal[t] = "none"
    THEN stall[t] = (IF tools[t] = {} THEN "idle" ELSE "tool")
    ELSE timer[t] # "none" /\ stall[t] = "off"

\* A result is handed over while processes of the task survive only by the
\* quarantine, and then as a failure: nobody is told "completed",
\* "cancelled" or "timed_out" while the child still works in the worktree.
SettledMeansGone ==
  \A t \in Task : Finished(status[t]) /\ Alive(t) =>
    t \in quarantined /\ status[t] = "failed" /\ t \in live

CauseKept(t) ==
  /\ terminal[t] # "none" /\ t \in live' => terminal'[t] = terminal[t]
  /\ Finished(status'[t]) /\ ~Finished(status[t]) => status'[t] \in {terminal[t], "failed"}

\* The first cause wins: whatever stops a child first (settling, cancel,
\* watchdog, fault) is never replaced, and is what gets reported unless the
\* cleanup itself failed.  A child nobody stopped is reported failed.
FirstCauseWins == [][\A t \in live : CauseKept(t)]_vars

\* "completed" always comes with a final report, and with no agent_end
\* received after the one that was settled.
CompletedHasReport ==
  \A t \in Task : status[t] = "completed" => t \in reported

\* Two remediation children never work in one worktree at the same time, a
\* quarantined one included.
RemediationExclusive ==
  \A t, u \in Task :
    t # u /\ site[t] # NoSite /\ site[t] = site[u] => ~(Alive(t) /\ Alive(u))

-----------------------------------------------------------------------------
(* Liveness.                                                               *)

\* A stop that was requested ends in a report, even if the child ignores
\* every signal and its exit event is lost.
StopReports ==
  \A t \in Task :
    (t \in live /\ terminal[t] # "none") ~> Finished(status[t])

\* A child that is gone is noticed: its task settles although neither an exit
\* event nor a stop request arrives.
GoneIsNoticed ==
  \A t \in Task : (t \in live /\ proc[t] \in {"gone", "nopid"}) ~> Finished(status[t])

\* No child that is stopped or gone keeps its task open
\* (agents-runner.ts:609-700, 858-996).
ChildrenSettle == StopReports /\ GoneIsNoticed

\* A quarantined slot comes back once its process group is gone, as the
\* message of run() tells the caller to wait for (agents-runner.ts:396).
QuarantineClears ==
  \A t \in Task :
    (t \in live /\ t \in quarantined /\ proc[t] = "gone") ~> (t \notin live)

-----------------------------------------------------------------------------
\* For the runs that check invariants only: nothing orders or names the tasks
\* and the worktrees, so that they are interchangeable.
Symmetric == Permutations(Task) \cup Permutations(Worktree)

=============================================================================
