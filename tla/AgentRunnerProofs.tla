------------------------ MODULE AgentRunnerProofs --------------------------
(***************************************************************************)
(* Proofs about AgentRunner, for every number of tasks, worktrees, tool    *)
(* calls and slots.                                                        *)
(*                                                                         *)
(* The safety properties are not inductive: that a settled task has no     *)
(* process, or that a freed slot is always pumped, depends on how status,  *)
(* slot, stop request, timers and process go together.  IInv says so, task *)
(* by task (TaskInv), beside what holds of the queue, of the number of     *)
(* slots and of the worktrees.  Facts about sequences are proved once      *)
(* about Queued, so that the rest of the proof is about sets.              *)
(***************************************************************************)
EXTENDS AgentRunner, FiniteSetTheorems, TLAPS

USE DEF recordVars, slotVars, stopVars, childVars

-----------------------------------------------------------------------------
(* The inductive invariant.                                                *)

\* A request stands in the queue once.
Distinct == \A i, j \in DOMAIN queue : queue[i] = queue[j] => i = j

QueueInv == queue \in Seq(Task) /\ Distinct

\* Where a task is, by its record: in the queue, in a slot, or neither.  A
\* slot outlives its record only in quarantine.
Placed(t) ==
  /\ status[t] = "queued" <=> t \in Queued
  /\ status[t] \in {"running", "waiting"} => t \in live
  /\ t \in live => \/ status[t] \in {"running", "waiting"}
                   \/ status[t] = "failed" /\ t \in quarantined
  /\ t \in quarantined => t \in live /\ status[t] = "failed"

\* What is left of a LiveTask once its slot is released: nothing.
Stopped(t) ==
  /\ terminal[t] # "none" => t \in live
  /\ timer[t] # "none" => terminal[t] # "none" /\ t \notin quarantined
  /\ t \in quarantined => terminal[t] # "none"

Watched(t) ==
  t \in live /\ t \notin quarantined =>
    IF terminal[t] = "none"
    THEN stall[t] = (IF tools[t] = {} THEN "idle" ELSE "tool")
    ELSE timer[t] # "none" /\ stall[t] = "off"

Unwatched(t) ==
  /\ t \notin live \/ terminal[t] # "none" => stall[t] = "off"
  /\ t \notin live => tools[t] = {} /\ t \notin childExit

\* The operating system runs nothing for a task without a slot.
Housed(t) ==
  /\ Alive(t) \/ proc[t] = "nopid" => t \in live
  /\ proc[t] = "nopid" => t \notin quarantined
  /\ t \in childExit => proc[t] \in {"orphans", "gone"}

Reported(t) ==
  /\ status[t] = "completed" \/ terminal[t] = "completed" => t \in reported
  /\ finishes[t] = IF Finished(status[t]) THEN 1 ELSE 0
  /\ t \in waiters => Pending(t)

TaskInv(t) ==
  Placed(t) /\ Stopped(t) /\ Watched(t) /\ Unwatched(t) /\ Housed(t) /\ Reported(t)

Capacity == Cardinality(live) <= MaxConcurrency

\* Two tasks in the queue or in a slot never share a remediation worktree.
Exclusive ==
  \A t, u \in Task :
    t \in Queued \cup live /\ u \in Queued \cup live /\ t # u /\ site[t] # NoSite
      => site[t] # site[u]

IInv ==
  /\ FieldTypes
  /\ QueueInv
  /\ \A t \in Task : TaskInv(t)
  /\ Capacity
  /\ NoLostWakeup
  /\ Exclusive

-----------------------------------------------------------------------------
(* The queue.                                                              *)

\* run(): the request is appended.
LEMMA QueueAppend ==
  ASSUME QueueInv, NEW t \in Task, t \notin Queued, queue' = Append(queue, t)
  PROVE  QueueInv' /\ Queued' = Queued \cup {t}
  BY DEF QueueInv, Distinct, Queued

\* pump(): the oldest request is shifted.
LEMMA QueueShift ==
  ASSUME QueueInv, NEW t, Dequeue(t)
  PROVE  QueueInv' /\ t \in Queued /\ Queued' = Queued \ {t}
  <1>1. queue \in Seq(Task) /\ queue # <<>> /\ t = Head(queue) /\ queue' = Tail(queue)
    BY DEF QueueInv, Dequeue
  <1>2. t = queue[1] /\ Len(queue) \in Nat /\ Len(queue) # 0
    BY <1>1
  <1>3. queue' \in Seq(Task) /\ Len(queue') = Len(queue) - 1
    BY <1>1, <1>2
  <1>4. \A i \in 1 .. Len(queue) - 1 : queue'[i] = queue[i + 1]
    BY <1>1, <1>2
  <1>5. QueueInv'
    BY <1>1, <1>2, <1>3, <1>4 DEF QueueInv, Distinct
  <1>6. t \in Queued
    BY <1>1, <1>2 DEF Queued
  <1>7. ASSUME NEW u PROVE u \in Queued' <=> u \in Queued /\ u # t
    <2>1. ASSUME u \in Queued' PROVE u \in Queued /\ u # t
      <3>1. PICK i \in 1 .. Len(queue) - 1 : u = queue'[i]
        BY <1>2, <1>3, <2>1 DEF Queued
      <3>2. i + 1 \in 1 .. Len(queue) /\ u = queue[i + 1]
        BY <1>2, <1>4, <3>1
      <3> QED BY <1>1, <1>2, <3>2 DEF Queued, QueueInv, Distinct
    <2>2. ASSUME u \in Queued, u # t PROVE u \in Queued'
      <3>1. PICK i \in 1 .. Len(queue) : u = queue[i]
        BY <1>1, <2>2 DEF Queued
      <3>2. i - 1 \in 1 .. Len(queue) - 1 /\ queue'[i - 1] = u
        BY <1>2, <1>4, <2>2, <3>1
      <3> QED BY <1>2, <1>3, <3>2 DEF Queued
    <2> QED BY <2>1, <2>2
  <1> QED BY <1>5, <1>6, <1>7

\* cancel(): the request is spliced out.
LEMMA QueueSplice ==
  ASSUME QueueInv, NEW t, Unqueue(t)
  PROVE  QueueInv' /\ t \in Queued /\ Queued' = Queued \ {t}
  <1>1. PICK k \in DOMAIN queue : queue[k] = t /\ queue' = Splice(queue, k)
    BY DEF Unqueue
  <1>2. /\ queue \in Seq(Task) /\ k \in 1 .. Len(queue)
        /\ queue' \in Seq(Task) /\ Len(queue') = Len(queue) - 1
        /\ \A i \in 1 .. Len(queue) - 1 :
             queue'[i] = IF i < k THEN queue[i] ELSE queue[i + 1]
    BY <1>1 DEF QueueInv, Splice
  <1>3. QueueInv'
    BY <1>2 DEF QueueInv, Distinct
  <1>4. t \in Queued
    BY <1>1 DEF Queued
  <1>5. ASSUME NEW u PROVE u \in Queued' <=> u \in Queued /\ u # t
    <2>1. ASSUME u \in Queued' PROVE u \in Queued /\ u # t
      <3>1. PICK i \in 1 .. Len(queue) - 1 : u = queue'[i]
        BY <1>2, <2>1 DEF Queued
      <3>2. PICK j \in 1 .. Len(queue) : u = queue[j] /\ j # k
        BY <1>2, <3>1
      <3> QED BY <1>1, <1>2, <3>2 DEF Queued, QueueInv, Distinct
    <2>2. ASSUME u \in Queued, u # t PROVE u \in Queued'
      <3>1. PICK i \in 1 .. Len(queue) : u = queue[i]
        BY <1>2, <2>2 DEF Queued
      <3>2. CASE i < k
        <4>1. i \in 1 .. Len(queue) - 1 /\ queue'[i] = u
          BY <1>2, <3>1, <3>2
        <4> QED BY <1>2, <4>1 DEF Queued
      <3>3. CASE i > k
        <4>1. i - 1 \in 1 .. Len(queue) - 1 /\ queue'[i - 1] = u
          BY <1>2, <3>1, <3>3
        <4> QED BY <1>2, <4>1 DEF Queued
      <3>4. i # k
        BY <1>1, <2>2, <3>1
      <3> QED BY <1>2, <3>2, <3>3, <3>4
    <2> QED BY <2>1, <2>2
  <1> QED BY <1>3, <1>4, <1>5

\* A handler that leaves the queue alone keeps its facts.
LEMMA QueueSame ==
  ASSUME queue' = queue
  PROVE  (QueueInv => QueueInv') /\ Queued' = Queued
  BY DEF QueueInv, Distinct, Queued

\* cancelAll(): nothing is left in the queue.
LEMMA QueueEmpty ==
  ASSUME queue' = <<>>
  PROVE  QueueInv' /\ Queued' = {}
  BY DEF QueueInv, Distinct, Queued

-----------------------------------------------------------------------------
(* Types.                                                                  *)

\* The types hold when the extension is loaded.
LEMMA TypesInit == Init => FieldTypes /\ queue \in Seq(Task)
  <1> SUFFICES ASSUME Init PROVE FieldTypes /\ queue \in Seq(Task)
    OBVIOUS
  <1>1. queue \in Seq(Task)
    BY DEF Init
  <1>2. FieldTypes
    BY RunnerAssumption DEF RunnerAssumption, Init, AbsInit, FieldTypes, TaskStatus,
       ActiveStatus, FinishedStatus, ProcState
  <1> QED BY <1>1, <1>2

\* Every handler keeps the types.
LEMMA TypesStep ==
  ASSUME FieldTypes, [Next]_vars
  PROVE  FieldTypes'
  <1> USE RunnerAssumption DEF RunnerAssumption, FieldTypes, TaskStatus, ActiveStatus,
          FinishedStatus, ProcState, Finished
  <1>1. ASSUME NEW t \in Task, NEW m \in Mode, NEW w \in Worktree \cup {NoSite}, Run(t, m, w) PROVE FieldTypes'
    BY <1>1 DEF Run, Active
  <1>2. ASSUME NEW t \in Task, WaitFor(t) PROVE FieldTypes'
    BY <1>2 DEF WaitFor
  <1>3. ASSUME NEW t \in Task, CancelQueued(t) PROVE FieldTypes'
    BY <1>3 DEF CancelQueued, Finish
  <1>4. ASSUME NEW t \in Task, CancelLive(t) PROVE FieldTypes'
    BY <1>4 DEF CancelLive, RequestStop
  <1>5. ASSUME NEW t \in Task, Steer(t) PROVE FieldTypes'
    BY <1>5 DEF Steer, Resumed
  <1>6. ASSUME NEW t \in Task, Answer(t) PROVE FieldTypes'
    BY <1>6 DEF Answer, Resumed
  <1>7. ASSUME NEW t \in Task, ChildProgress(t) PROVE FieldTypes'
    BY <1>7 DEF ChildProgress, Listening, Resumed, ArmStall
  <1>8. ASSUME NEW t \in Task, NEW c \in Call, ToolStart(t, c) PROVE FieldTypes'
    BY <1>8 DEF ToolStart, Listening, Resumed, ArmStall
  <1>9. ASSUME NEW t \in Task, NEW c \in Call, ToolEnd(t, c) PROVE FieldTypes'
    BY <1>9 DEF ToolEnd, Listening, Resumed, ArmStall
  <1>10. ASSUME NEW t \in Task, NEW success \in BOOLEAN, AgentEnd(t, success) PROVE FieldTypes'
    BY <1>10 DEF AgentEnd, Listening, Resumed, ArmStall
  <1>11. ASSUME NEW t \in Task, Ask(t) PROVE FieldTypes'
    BY <1>11 DEF Ask, Listening, ArmStall
  <1>12. ASSUME NEW t \in Task, AgentSettled(t) PROVE FieldTypes'
    BY <1>12 DEF AgentSettled, Listening, Resumed, RequestStop
  <1>13. ASSUME NEW t \in Task, ChildFault(t) PROVE FieldTypes'
    BY <1>13 DEF ChildFault, Listening, RequestStop
  <1>14. ASSUME NEW t \in Task, StallTimeout(t) PROVE FieldTypes'
    BY <1>14 DEF StallTimeout, RequestStop
  <1>15. ASSUME NEW t \in Task, ConfirmGone(t) PROVE FieldTypes'
    BY <1>15 DEF ConfirmGone, TimerFires, GroupGone, Probe, CompleteExit, ReleaseSlot, Finish
  <1>16. ASSUME NEW t \in Task, ProbeAgain(t) PROVE FieldTypes'
    BY <1>16 DEF ProbeAgain, TimerFires
  <1>17. ASSUME NEW t \in Task, Quarantine(t) PROVE FieldTypes'
    BY <1>17 DEF Quarantine, TimerFires, Finish
  <1>18. ASSUME NEW t \in Task, SpawnError(t) PROVE FieldTypes'
    BY <1>18 DEF SpawnError, ReleaseSlot, Finish
  <1>19. ASSUME NEW t \in Task, ExitGroupPresent(t) PROVE FieldTypes'
    BY <1>19 DEF ExitGroupPresent, RequestStop
  <1>20. ASSUME NEW t \in Task, ExitComplete(t) PROVE FieldTypes'
    BY <1>20 DEF ExitComplete, CompleteExit, ReleaseSlot, Finish
  <1>21. ASSUME NEW t \in Task, NEW next \in {"orphans", "gone"}, ProcessExits(t, next) PROVE FieldTypes'
    BY <1>21 DEF ProcessExits
  <1>22. ASSUME NEW t \in Task, LaunchThrows(t) PROVE FieldTypes'
    BY <1>22 DEF LaunchThrows, Finish
  <1>23. ASSUME NEW t \in Task, LaunchNoPid(t) PROVE FieldTypes'
    BY <1>23 DEF LaunchNoPid, Finish, ArmStall
  <1>24. ASSUME NEW t \in Task, Launch(t) PROVE FieldTypes'
    BY <1>24 DEF Launch, ArmStall
  <1>25. CASE CancelAll
    BY <1>25 DEF CancelAll
  <1>26. CASE PumpDone
    BY <1>26 DEF PumpDone
  <1>27. CASE UNCHANGED vars
    BY <1>27 DEF vars
  <1> QED
    BY <1>1, <1>2, <1>3, <1>4, <1>5, <1>6, <1>7, <1>8, <1>9, <1>10, <1>11, <1>12, <1>13, <1>14, <1>15, <1>16, <1>17, <1>18, <1>19, <1>20, <1>21, <1>22, <1>23, <1>24, <1>25, <1>26, <1>27
       DEF Next, HostOp, ChildEvent, Timer, ProcessEvent, Pump

-----------------------------------------------------------------------------
(* TaskInv.  Each step is about one action and an arbitrary task u.        *)

\* TaskInv holds for every task before run().
LEMMA TaskInit == Init => \A u \in Task : TaskInv(u)
  <1> SUFFICES ASSUME Init, NEW u \in Task PROVE TaskInv(u)
    OBVIOUS
  <1>1. Queued = {}
    BY DEF Init, Queued
  <1> QED
    BY <1>1 DEF Init, AbsInit, Finished, FinishedStatus, Pending, ActiveStatus, TaskInv,
       Placed, Stopped, Watched, Unwatched, Housed, Reported, Alive, Detached

\* Every handler keeps TaskInv of every task, its own and the others.
LEMMA TaskStep ==
  ASSUME FieldTypes, QueueInv, \A u \in Task : TaskInv(u), [Next]_vars, NEW u \in Task
  PROVE  TaskInv(u)'
  <1> USE RunnerAssumption DEF RunnerAssumption, FieldTypes, TaskStatus, ActiveStatus,
          FinishedStatus, ProcState, Finished, Pending, TaskInv, Placed, Stopped, Watched,
          Unwatched, Housed, Reported, Alive, Detached
  <1>1. ASSUME NEW t \in Task, NEW m \in Mode, NEW w \in Worktree \cup {NoSite}, Run(t, m, w) PROVE TaskInv(u)'
    <2>1. t \notin Queued
      BY <1>1 DEF Run
    <2>2. Queued' = Queued \cup {t}
      BY <1>1, <2>1, QueueAppend DEF Run
    <2> QED BY <1>1, <2>1, <2>2 DEF Run, Active
  <1>2. ASSUME NEW t \in Task, WaitFor(t) PROVE TaskInv(u)'
    <2>1. Queued' = Queued
      BY <1>2, QueueSame DEF WaitFor
    <2> QED BY <1>2, <2>1 DEF WaitFor
  <1>3. ASSUME NEW t \in Task, CancelQueued(t) PROVE TaskInv(u)'
    <2>1. t \in Queued /\ Queued' = Queued \ {t}
      BY <1>3, QueueSplice DEF CancelQueued
    <2> QED BY <1>3, <2>1 DEF CancelQueued, Finish
  <1>4. ASSUME NEW t \in Task, CancelLive(t) PROVE TaskInv(u)'
    <2>1. Queued' = Queued
      BY <1>4, QueueSame DEF CancelLive
    <2> QED BY <1>4, <2>1 DEF CancelLive, RequestStop
  <1>5. ASSUME NEW t \in Task, Steer(t) PROVE TaskInv(u)'
    <2>1. Queued' = Queued
      BY <1>5, QueueSame DEF Steer
    <2> QED BY <1>5, <2>1 DEF Steer, Resumed
  <1>6. ASSUME NEW t \in Task, Answer(t) PROVE TaskInv(u)'
    <2>1. Queued' = Queued
      BY <1>6, QueueSame DEF Answer
    <2> QED BY <1>6, <2>1 DEF Answer, Resumed
  <1>7. ASSUME NEW t \in Task, ChildProgress(t) PROVE TaskInv(u)'
    <2>1. Queued' = Queued
      BY <1>7, QueueSame DEF ChildProgress
    <2> QED BY <1>7, <2>1 DEF ChildProgress, Listening, Resumed, ArmStall
  <1>8. ASSUME NEW t \in Task, NEW c \in Call, ToolStart(t, c) PROVE TaskInv(u)'
    <2>1. Queued' = Queued
      BY <1>8, QueueSame DEF ToolStart
    <2>2. tools[t] \cup {c} # {}
      OBVIOUS
    <2>3. CASE u = t
      BY <1>8, <2>1, <2>2, <2>3 DEF ToolStart, Listening, Resumed, ArmStall
    <2>4. CASE u # t
      BY <1>8, <2>1, <2>4 DEF ToolStart, Listening, Resumed, ArmStall
    <2> QED BY <2>3, <2>4
  <1>9. ASSUME NEW t \in Task, NEW c \in Call, ToolEnd(t, c) PROVE TaskInv(u)'
    <2>1. Queued' = Queued
      BY <1>9, QueueSame DEF ToolEnd
    <2> QED BY <1>9, <2>1 DEF ToolEnd, Listening, Resumed, ArmStall
  <1>10. ASSUME NEW t \in Task, NEW success \in BOOLEAN, AgentEnd(t, success) PROVE TaskInv(u)'
    <2>1. Queued' = Queued
      BY <1>10, QueueSame DEF AgentEnd
    <2> QED BY <1>10, <2>1 DEF AgentEnd, Listening, Resumed, ArmStall
  <1>11. ASSUME NEW t \in Task, Ask(t) PROVE TaskInv(u)'
    <2>1. Queued' = Queued
      BY <1>11, QueueSame DEF Ask
    <2> QED BY <1>11, <2>1 DEF Ask, Listening, ArmStall
  <1>12. ASSUME NEW t \in Task, AgentSettled(t) PROVE TaskInv(u)'
    <2>1. Queued' = Queued
      BY <1>12, QueueSame DEF AgentSettled
    <2> QED BY <1>12, <2>1 DEF AgentSettled, Listening, Resumed, RequestStop
  <1>13. ASSUME NEW t \in Task, ChildFault(t) PROVE TaskInv(u)'
    <2>1. Queued' = Queued
      BY <1>13, QueueSame DEF ChildFault
    <2> QED BY <1>13, <2>1 DEF ChildFault, Listening, RequestStop
  <1>14. ASSUME NEW t \in Task, StallTimeout(t) PROVE TaskInv(u)'
    <2>1. Queued' = Queued
      BY <1>14, QueueSame DEF StallTimeout
    <2> QED BY <1>14, <2>1 DEF StallTimeout, RequestStop
  <1>15. ASSUME NEW t \in Task, ConfirmGone(t) PROVE TaskInv(u)'
    <2>1. Queued' = Queued
      BY <1>15, QueueSame DEF ConfirmGone
    <2>2. t \notin quarantined /\ ~Finished(status[t])
      BY <1>15 DEF ConfirmGone, TimerFires
    <2>3. ~Alive(t) /\ proc[t] # "nopid"
      BY <1>15 DEF ConfirmGone, TimerFires, GroupGone, Probe
    <2>4. t \in live /\ CompleteExit(t) /\ UNCHANGED <<reported, asks, proc, platform>>
      BY <1>15 DEF ConfirmGone, TimerFires
    <2>5. CASE u = t
      BY <2>1, <2>2, <2>3, <2>4, <2>5 DEF CompleteExit, ReleaseSlot, Finish
    <2>6. CASE u # t
      BY <2>1, <2>2, <2>4, <2>6 DEF CompleteExit, ReleaseSlot, Finish
    <2> QED BY <2>5, <2>6
  <1>16. ASSUME NEW t \in Task, ProbeAgain(t) PROVE TaskInv(u)'
    <2>1. Queued' = Queued
      BY <1>16, QueueSame DEF ProbeAgain
    <2> QED BY <1>16, <2>1 DEF ProbeAgain, TimerFires
  <1>17. ASSUME NEW t \in Task, Quarantine(t) PROVE TaskInv(u)'
    <2>1. Queued' = Queued
      BY <1>17, QueueSame DEF Quarantine
    <2> QED BY <1>17, <2>1 DEF Quarantine, TimerFires, Finish
  <1>18. ASSUME NEW t \in Task, SpawnError(t) PROVE TaskInv(u)'
    <2>1. Queued' = Queued
      BY <1>18, QueueSame DEF SpawnError
    <2> QED BY <1>18, <2>1 DEF SpawnError, ReleaseSlot, Finish
  <1>19. ASSUME NEW t \in Task, ExitGroupPresent(t) PROVE TaskInv(u)'
    <2>1. Queued' = Queued
      BY <1>19, QueueSame DEF ExitGroupPresent
    <2> QED BY <1>19, <2>1 DEF ExitGroupPresent, RequestStop
  <1>20. ASSUME NEW t \in Task, ExitComplete(t) PROVE TaskInv(u)'
    <2>1. Queued' = Queued
      BY <1>20, QueueSame DEF ExitComplete
    <2> QED BY <1>20, <2>1 DEF ExitComplete, CompleteExit, ReleaseSlot, Finish
  <1>21. ASSUME NEW t \in Task, NEW next \in {"orphans", "gone"}, ProcessExits(t, next) PROVE TaskInv(u)'
    <2>1. Queued' = Queued
      BY <1>21, QueueSame DEF ProcessExits
    <2> QED BY <1>21, <2>1 DEF ProcessExits
  <1>22. ASSUME NEW t \in Task, LaunchThrows(t) PROVE TaskInv(u)'
    <2>1. t \in Queued /\ Queued' = Queued \ {t}
      BY <1>22, QueueShift DEF LaunchThrows
    <2> QED BY <1>22, <2>1 DEF LaunchThrows, Finish
  <1>23. ASSUME NEW t \in Task, LaunchNoPid(t) PROVE TaskInv(u)'
    <2>1. t \in Queued /\ Queued' = Queued \ {t}
      BY <1>23, QueueShift DEF LaunchNoPid
    <2> QED BY <1>23, <2>1 DEF LaunchNoPid, Finish, ArmStall
  <1>24. ASSUME NEW t \in Task, Launch(t) PROVE TaskInv(u)'
    <2>1. t \in Queued /\ Queued' = Queued \ {t}
      BY <1>24, QueueShift DEF Launch
    <2> QED BY <1>24, <2>1 DEF Launch, ArmStall
  <1>25. CASE CancelAll
    <2>1. Queued' = {}
      BY <1>25, QueueEmpty DEF CancelAll
    <2> QED BY <1>25, <2>1 DEF CancelAll
  <1>26. CASE PumpDone
    <2>1. Queued' = Queued
      BY <1>26, QueueSame DEF PumpDone
    <2> QED BY <1>26, <2>1 DEF PumpDone
  <1>27. CASE UNCHANGED vars
    <2>1. Queued' = Queued
      BY <1>27, QueueSame DEF vars
    <2> QED BY <1>27, <2>1 DEF vars
  <1> QED
    BY <1>1, <1>2, <1>3, <1>4, <1>5, <1>6, <1>7, <1>8, <1>9, <1>10, <1>11, <1>12, <1>13, <1>14, <1>15, <1>16, <1>17, <1>18, <1>19, <1>20, <1>21, <1>22, <1>23, <1>24, <1>25, <1>26, <1>27
       DEF Next, HostOp, ChildEvent, Timer, ProcessEvent, Pump

-----------------------------------------------------------------------------
(* Queue, slots and worktrees.                                             *)

SlotInv == QueueInv /\ Capacity /\ NoLostWakeup /\ Exclusive

\* The facts on queue, slots and pump hold at the start.
LEMMA SlotInit == Init => SlotInv
  <1> SUFFICES ASSUME Init PROVE SlotInv
    OBVIOUS
  <1>1. queue = <<>> /\ live = {} /\ Queued = {}
    BY DEF Init, Queued
  <1>2. QueueInv
    BY <1>1 DEF QueueInv, Distinct
  <1>3. Capacity
    BY <1>1, FS_EmptySet, RunnerAssumption DEF RunnerAssumption, Capacity
  <1>4. NoLostWakeup /\ Exclusive
    BY <1>1 DEF NoLostWakeup, Exclusive
  <1> QED BY <1>2, <1>3, <1>4 DEF SlotInv

\* Handlers that leave the queue, the slots and the pump alone.
LEMMA SlotsKept ==
  ASSUME SlotInv, UNCHANGED <<queue, live, pump, site>>
  PROVE  SlotInv'
  <1>1. QueueInv' /\ Queued' = Queued
    BY QueueSame DEF SlotInv
  <1> QED
    BY <1>1 DEF SlotInv, Capacity, NoLostWakeup, Exclusive

\* Handlers that take tasks out of the queue or give a slot back, and make
\* sure that the pump runs.
LEMMA SlotsFreed ==
  ASSUME SlotInv, FieldTypes, QueueInv', Queued' \subseteq Queued, live' \subseteq live,
         site' = site, pump' = "scheduled"
  PROVE  SlotInv'
  <1>1. IsFiniteSet(live)
    BY FS_Subset, RunnerAssumption DEF RunnerAssumption, FieldTypes
  <1>2. Capacity'
    <2>1. Cardinality(live') <= Cardinality(live) /\ Cardinality(live') \in Nat
          /\ Cardinality(live) \in Nat
      BY <1>1, FS_Subset, FS_CardinalityType
    <2> QED BY <2>1, RunnerAssumption DEF RunnerAssumption, Capacity, SlotInv
  <1>3. NoLostWakeup'
    BY DEF NoLostWakeup
  <1>4. Exclusive'
    BY DEF Exclusive, SlotInv
  <1> QED BY <1>2, <1>3, <1>4 DEF SlotInv

\* A launch moves a task from the queue to a free slot.
LEMMA SlotTaken ==
  ASSUME SlotInv, FieldTypes, NEW t \in Task, t \notin live, Dequeue(t),
         live' = live \cup {t}, pump' = pump, site' = site
  PROVE  SlotInv'
  <1>1. QueueInv' /\ t \in Queued /\ Queued' = Queued \ {t}
    BY QueueShift DEF SlotInv
  <1>2. IsFiniteSet(live)
    BY FS_Subset, RunnerAssumption DEF RunnerAssumption, FieldTypes
  <1>3. Capacity'
    <2>1. Cardinality(live') = Cardinality(live) + 1 /\ Cardinality(live) \in Nat
      BY <1>2, FS_AddElement, FS_CardinalityType
    <2>2. Cardinality(live) < MaxConcurrency
      BY DEF Dequeue
    <2> QED BY <2>1, <2>2, RunnerAssumption DEF RunnerAssumption, Capacity
  <1>4. NoLostWakeup'
    BY DEF NoLostWakeup, Dequeue
  <1>5. Exclusive'
    BY <1>1 DEF Exclusive, SlotInv
  <1> QED BY <1>1, <1>3, <1>4, <1>5 DEF SlotInv

\* Every handler keeps them: one step per action, by the lemmas above.
LEMMA SlotStep ==
  ASSUME SlotInv, FieldTypes, \A u \in Task : TaskInv(u), [Next]_vars
  PROVE  SlotInv'
  <1>1. ASSUME NEW t \in Task, NEW m \in Mode, NEW w \in Worktree \cup {NoSite}, Run(t, m, w) PROVE SlotInv'
    <2>1. t \notin Queued /\ t \notin live
      BY <1>1 DEF Run, TaskInv, Placed
    <2>2. QueueInv' /\ Queued' = Queued \cup {t}
      BY <1>1, <2>1, QueueAppend DEF Run, SlotInv
    <2>3. Capacity' /\ NoLostWakeup'
      BY <1>1 DEF Run, Capacity, NoLostWakeup, SlotInv
    <2>4. Exclusive'
      BY <1>1, <2>1, <2>2 DEF Run, Active, Exclusive, SlotInv, FieldTypes
    <2> QED BY <2>2, <2>3, <2>4 DEF SlotInv
  <1>2. ASSUME NEW t \in Task, WaitFor(t) PROVE SlotInv'
    BY <1>2, SlotsKept DEF WaitFor
  <1>3. ASSUME NEW t \in Task, CancelQueued(t) PROVE SlotInv'
    <2>1. QueueInv' /\ t \in Queued /\ Queued' = Queued \ {t}
      BY <1>3, QueueSplice DEF CancelQueued, SlotInv
    <2>2. ~Finished(status[t])
      BY <2>1 DEF TaskInv, Placed, Finished, FinishedStatus
    <2> QED BY <1>3, <2>1, <2>2, SlotsFreed DEF CancelQueued, Finish
  <1>4. ASSUME NEW t \in Task, CancelLive(t) PROVE SlotInv'
    BY <1>4, SlotsKept DEF CancelLive
  <1>5. ASSUME NEW t \in Task, Steer(t) PROVE SlotInv'
    BY <1>5, SlotsKept DEF Steer
  <1>6. ASSUME NEW t \in Task, Answer(t) PROVE SlotInv'
    BY <1>6, SlotsKept DEF Answer
  <1>7. ASSUME NEW t \in Task, ChildProgress(t) PROVE SlotInv'
    BY <1>7, SlotsKept DEF ChildProgress
  <1>8. ASSUME NEW t \in Task, NEW c \in Call, ToolStart(t, c) PROVE SlotInv'
    BY <1>8, SlotsKept DEF ToolStart
  <1>9. ASSUME NEW t \in Task, NEW c \in Call, ToolEnd(t, c) PROVE SlotInv'
    BY <1>9, SlotsKept DEF ToolEnd
  <1>10. ASSUME NEW t \in Task, NEW success \in BOOLEAN, AgentEnd(t, success) PROVE SlotInv'
    BY <1>10, SlotsKept DEF AgentEnd
  <1>11. ASSUME NEW t \in Task, Ask(t) PROVE SlotInv'
    BY <1>11, SlotsKept DEF Ask
  <1>12. ASSUME NEW t \in Task, AgentSettled(t) PROVE SlotInv'
    BY <1>12, SlotsKept DEF AgentSettled
  <1>13. ASSUME NEW t \in Task, ChildFault(t) PROVE SlotInv'
    BY <1>13, SlotsKept DEF ChildFault
  <1>14. ASSUME NEW t \in Task, StallTimeout(t) PROVE SlotInv'
    BY <1>14, SlotsKept DEF StallTimeout
  <1>15. ASSUME NEW t \in Task, ConfirmGone(t) PROVE SlotInv'
    <2>1. QueueInv' /\ Queued' = Queued
      BY <1>15, QueueSame DEF ConfirmGone, SlotInv
    <2>2. live' = live \ {t} /\ pump' = "scheduled" /\ site' = site
      BY <1>15 DEF ConfirmGone, TimerFires, GroupGone, Probe, CompleteExit, ReleaseSlot, Finish, TaskInv, Placed, Housed, Finished, FinishedStatus
    <2> QED BY <2>1, <2>2, SlotsFreed
  <1>16. ASSUME NEW t \in Task, ProbeAgain(t) PROVE SlotInv'
    BY <1>16, SlotsKept DEF ProbeAgain
  <1>17. ASSUME NEW t \in Task, Quarantine(t) PROVE SlotInv'
    <2>1. QueueInv' /\ Queued' = Queued
      BY <1>17, QueueSame DEF Quarantine, SlotInv
    <2>2. live' = live /\ pump' = "scheduled" /\ site' = site
      BY <1>17 DEF Quarantine, TimerFires, Finish, TaskInv, Placed, Stopped, Finished,
         FinishedStatus
    <2> QED BY <2>1, <2>2, SlotsFreed
  <1>18. ASSUME NEW t \in Task, SpawnError(t) PROVE SlotInv'
    <2>1. QueueInv' /\ Queued' = Queued
      BY <1>18, QueueSame DEF SpawnError, SlotInv
    <2>2. live' = live \ {t} /\ pump' = "scheduled" /\ site' = site
      BY <1>18 DEF SpawnError, ReleaseSlot, Finish, TaskInv, Placed, Housed, Finished, FinishedStatus
    <2> QED BY <2>1, <2>2, SlotsFreed
  <1>19. ASSUME NEW t \in Task, ExitGroupPresent(t) PROVE SlotInv'
    BY <1>19, SlotsKept DEF ExitGroupPresent
  <1>20. ASSUME NEW t \in Task, ExitComplete(t) PROVE SlotInv'
    <2>1. QueueInv' /\ Queued' = Queued
      BY <1>20, QueueSame DEF ExitComplete, SlotInv
    <2>2. live' = live \ {t} /\ pump' = "scheduled" /\ site' = site
      BY <1>20 DEF ExitComplete, CompleteExit, ReleaseSlot, Finish, TaskInv, Placed, Housed, Finished, FinishedStatus
    <2> QED BY <2>1, <2>2, SlotsFreed
  <1>21. ASSUME NEW t \in Task, NEW next \in {"orphans", "gone"}, ProcessExits(t, next) PROVE SlotInv'
    BY <1>21, SlotsKept DEF ProcessExits
  <1>22. ASSUME NEW t \in Task, LaunchThrows(t) PROVE SlotInv'
    <2>1. QueueInv' /\ t \in Queued /\ Queued' = Queued \ {t}
      BY <1>22, QueueShift DEF LaunchThrows, SlotInv
    <2>2. ~Finished(status[t])
      BY <2>1 DEF TaskInv, Placed, Finished, FinishedStatus
    <2> QED BY <1>22, <2>1, <2>2, SlotsFreed DEF LaunchThrows, Finish
  <1>23. ASSUME NEW t \in Task, LaunchNoPid(t) PROVE SlotInv'
    <2>1. QueueInv' /\ t \in Queued /\ Queued' = Queued \ {t}
      BY <1>23, QueueShift DEF LaunchNoPid, SlotInv
    <2>2. ~Finished(status[t]) /\ t \notin live
      BY <2>1 DEF TaskInv, Placed, Finished, FinishedStatus
    <2>3. CASE site[t] # NoSite
      BY <1>23, <2>1, <2>2, <2>3, SlotsFreed DEF LaunchNoPid, Finish
    <2>4. CASE site[t] = NoSite
      BY <1>23, <2>2, <2>4, SlotTaken DEF LaunchNoPid
    <2> QED BY <2>3, <2>4
  <1>24. ASSUME NEW t \in Task, Launch(t) PROVE SlotInv'
    <2>1. t \in Queued
      BY <1>24, QueueShift DEF Launch, SlotInv
    <2>2. t \notin live
      BY <2>1 DEF TaskInv, Placed
    <2> QED BY <1>24, <2>2, SlotTaken DEF Launch
  <1>25. CASE CancelAll
    <2>1. QueueInv' /\ Queued' = {}
      BY <1>25, QueueEmpty DEF CancelAll
    <2>2. CASE queue = <<>>
      BY <1>25, <2>2, SlotsKept DEF CancelAll
    <2>3. CASE queue # <<>>
      BY <1>25, <2>1, <2>3, SlotsFreed DEF CancelAll
    <2> QED BY <2>2, <2>3
  <1>26. CASE PumpDone
    <2>1. QueueInv' /\ Queued' = Queued
      BY <1>26, QueueSame DEF PumpDone, SlotInv
    <2>2. Capacity' /\ Exclusive'
      BY <1>26, <2>1 DEF PumpDone, Capacity, Exclusive, SlotInv
    <2>3. NoLostWakeup'
      <3>1. IsFiniteSet(live)
        BY FS_Subset, RunnerAssumption DEF RunnerAssumption, FieldTypes
      <3>2. Cardinality(live) \in Nat
        BY <3>1, FS_CardinalityType
      <3> QED
        BY <1>26, <3>2, RunnerAssumption DEF RunnerAssumption, PumpDone, NoLostWakeup
    <2> QED BY <2>1, <2>2, <2>3 DEF SlotInv
  <1>27. CASE UNCHANGED vars
    BY <1>27, SlotsKept DEF vars
  <1> QED
    BY <1>1, <1>2, <1>3, <1>4, <1>5, <1>6, <1>7, <1>8, <1>9, <1>10, <1>11, <1>12, <1>13, <1>14, <1>15, <1>16, <1>17, <1>18, <1>19, <1>20, <1>21, <1>22, <1>23, <1>24, <1>25, <1>26, <1>27
       DEF Next, HostOp, ChildEvent, Timer, ProcessEvent, Pump

-----------------------------------------------------------------------------
(* The theorems.                                                           *)

\* The inductive invariant holds initially...
LEMMA IInvInit == Init => IInv
  BY TypesInit, TaskInit, SlotInit DEF IInv, SlotInv

\* ... and every handler preserves it.
LEMMA IInvStep == IInv /\ [Next]_vars => IInv'
  <1> SUFFICES ASSUME IInv, [Next]_vars PROVE IInv'
    OBVIOUS
  <1>1. FieldTypes /\ QueueInv /\ SlotInv /\ \A u \in Task : TaskInv(u)
    BY DEF IInv, SlotInv
  <1>2. FieldTypes'
    BY <1>1, TypesStep
  <1>3. \A u \in Task : TaskInv(u)'
    BY <1>1, TaskStep
  <1>4. SlotInv'
    BY <1>1, SlotStep
  <1> QED BY <1>2, <1>3, <1>4 DEF IInv, SlotInv

\* IInv is an invariant of every behaviour of the runner.
THEOREM Invariance == Spec => []IInv
  BY IInvInit, IInvStep, PTL DEF Spec

\* Every field keeps its type.
THEOREM TypeCorrect == Spec => []TypeOK
  <1>1. IInv => TypeOK
    BY DEF IInv, QueueInv, TypeOK
  <1> QED BY <1>1, Invariance, PTL

\* However launches fail and exits arrive, there are never more processes
\* than slots (pump(), completeExit(), confirmGroupExit()).
THEOREM ProcessesBounded == Spec => []ProcessBound
  <1>1. IInv => ProcessBound
    <2> SUFFICES ASSUME IInv PROVE ProcessBound
      OBVIOUS
    <2>1. {t \in Task : Alive(t)} \subseteq live
      BY DEF IInv, TaskInv, Housed
    <2>2. IsFiniteSet(live)
      BY FS_Subset, RunnerAssumption DEF RunnerAssumption, FieldTypes, IInv
    <2>3. /\ Cardinality({t \in Task : Alive(t)}) <= Cardinality(live)
          /\ Cardinality({t \in Task : Alive(t)}) \in Nat
          /\ Cardinality(live) \in Nat
      BY <2>1, <2>2, FS_Subset, FS_CardinalityType
    <2> QED
      BY <2>3, RunnerAssumption DEF RunnerAssumption, ProcessBound, Capacity, IInv
  <1> QED BY <1>1, Invariance, PTL

\* A free slot and a waiting request always have a pump() on its way.
THEOREM WakeupNeverLost == Spec => []NoLostWakeup
  <1>1. IInv => NoLostWakeup
    BY DEF IInv
  <1> QED BY <1>1, Invariance, PTL

\* finish() reports each task exactly once and leaves no waiter behind.
THEOREM ReportedOnce == Spec => []NotifiedOnce
  <1>1. IInv => NotifiedOnce
    BY DEF IInv, TaskInv, Reported, NotifiedOnce
  <1> QED BY <1>1, Invariance, PTL

\* Every slot whose task has not settled is under the right timer.
THEOREM AlwaysWatched == Spec => []NeverUnwatched
  <1>1. IInv => NeverUnwatched
    BY DEF IInv, FieldTypes, TaskInv, Placed, Watched, NeverUnwatched, Finished,
       FinishedStatus
  <1> QED BY <1>1, Invariance, PTL

\* A report other than the quarantine's failure means that the task's
\* processes are gone.
THEOREM SettledIsGone == Spec => []SettledMeansGone
  <1>1. IInv => SettledMeansGone
    BY DEF IInv, TaskInv, Placed, Housed, SettledMeansGone, Finished, FinishedStatus
  <1> QED BY <1>1, Invariance, PTL

\* "completed" is never reported without a final report.
THEOREM CompletionHasReport == Spec => []CompletedHasReport
  <1>1. IInv => CompletedHasReport
    BY DEF IInv, TaskInv, Reported, CompletedHasReport
  <1> QED BY <1>1, Invariance, PTL

\* One remediation child per worktree.
THEOREM RemediationIsExclusive == Spec => []RemediationExclusive
  <1>1. IInv => RemediationExclusive
    BY DEF IInv, TaskInv, Housed, Exclusive, RemediationExclusive
  <1> QED BY <1>1, Invariance, PTL

-----------------------------------------------------------------------------
(* AgentRunner implements TaskLifecycle.                                   *)

\* A handler that settles one task is a Settle step of TaskLifecycle.
LEMMA SettleOne ==
  ASSUME FieldTypes, NEW t \in Task, Pending(t), NEW s \in FinishedStatus,
         status[t] = "queued" => s \in {"cancelled", "failed"},
         status' = [status EXCEPT ![t] = s],
         finishes' = [finishes EXCEPT ![t] = @ + 1],
         waiters' = waiters \ {t}
  PROVE  AbsNext
  <1> DEFINE f == [u \in {t} |-> s]
  <1>1. f \in [{t} -> FinishedStatus] /\ f[t] = s
    OBVIOUS
  <1>2. status' = [u \in Task |-> IF u \in {t} THEN f[u] ELSE status[u]]
    BY <1>1 DEF FieldTypes
  <1>3. finishes' = [u \in Task |-> IF u \in {t} THEN finishes[u] + 1 ELSE finishes[u]]
    BY DEF FieldTypes
  <1>4. Settle({t})
    BY <1>1, <1>2, <1>3 DEF Settle
  <1> QED BY <1>4 DEF AbsNext

\* A handler that only moves a task between running and waiting.
LEMMA ProgressOne ==
  ASSUME FieldTypes, NEW t \in Task, NEW s, status' = [status EXCEPT ![t] = s],
         \/ s = status[t]
         \/ Pending(t) /\ s \in {"running", "waiting"},
         UNCHANGED <<finishes, waiters>>
  PROVE  [AbsNext]_absVars
  <1>1. CASE s = status[t]
    BY <1>1 DEF FieldTypes, absVars
  <1>2. CASE Pending(t) /\ s \in {"running", "waiting"}
    BY <1>2 DEF AbsNext, Progress
  <1> QED BY <1>1, <1>2

\* Every handler is a step of TaskLifecycle or a stutter.
LEMMA AbsStep == IInv /\ [Next]_vars => [AbsNext]_absVars
  <1> SUFFICES ASSUME IInv, [Next]_vars PROVE [AbsNext]_absVars
    OBVIOUS
  <1>0. FieldTypes /\ QueueInv /\ \A u \in Task : Placed(u) /\ Stopped(u) /\ Housed(u)
    BY DEF IInv, TaskInv
  <1> USE DEF Finished, FinishedStatus, Pending, ActiveStatus
  <1>1. ASSUME NEW t \in Task, NEW m \in Mode, NEW w \in Worktree \cup {NoSite}, Run(t, m, w) PROVE [AbsNext]_absVars
    BY <1>1 DEF Run, AbsNext, Create
  <1>2. ASSUME NEW t \in Task, WaitFor(t) PROVE [AbsNext]_absVars
    BY <1>2 DEF WaitFor, AbsNext, Await
  <1>3. ASSUME NEW t \in Task, CancelQueued(t) PROVE [AbsNext]_absVars
    <2>1. status[t] = "queued"
      BY <1>0, <1>3, QueueSplice DEF CancelQueued, Placed
    <2> QED BY <1>0, <1>3, <2>1, SettleOne DEF CancelQueued, Finish
  <1>4. ASSUME NEW t \in Task, CancelLive(t) PROVE [AbsNext]_absVars
    BY <1>4 DEF CancelLive, absVars
  <1>5. ASSUME NEW t \in Task, Steer(t) PROVE [AbsNext]_absVars
    <2>1. status' = [status EXCEPT ![t] = Resumed(t)] /\ UNCHANGED <<finishes, waiters>>
      BY <1>5 DEF Steer
    <2> QED BY <1>0, <2>1, ProgressOne DEF Resumed
  <1>6. ASSUME NEW t \in Task, Answer(t) PROVE [AbsNext]_absVars
    <2>1. CASE status' = status
      BY <1>6, <2>1 DEF Answer, absVars
    <2>2. CASE status' = [status EXCEPT ![t] = Resumed(t)]
      BY <1>0, <1>6, <2>2, ProgressOne DEF Answer, Resumed
    <2> QED BY <1>6, <2>1, <2>2 DEF Answer
  <1>7. ASSUME NEW t \in Task, ChildProgress(t) PROVE [AbsNext]_absVars
    <2>1. status' = [status EXCEPT ![t] = Resumed(t)] /\ UNCHANGED <<finishes, waiters>>
      BY <1>7 DEF ChildProgress
    <2> QED BY <1>0, <2>1, ProgressOne DEF Resumed
  <1>8. ASSUME NEW t \in Task, NEW c \in Call, ToolStart(t, c) PROVE [AbsNext]_absVars
    <2>1. status' = [status EXCEPT ![t] = Resumed(t)] /\ UNCHANGED <<finishes, waiters>>
      BY <1>8 DEF ToolStart
    <2> QED BY <1>0, <2>1, ProgressOne DEF Resumed
  <1>9. ASSUME NEW t \in Task, NEW c \in Call, ToolEnd(t, c) PROVE [AbsNext]_absVars
    <2>1. status' = [status EXCEPT ![t] = Resumed(t)] /\ UNCHANGED <<finishes, waiters>>
      BY <1>9 DEF ToolEnd
    <2> QED BY <1>0, <2>1, ProgressOne DEF Resumed
  <1>10. ASSUME NEW t \in Task, NEW success \in BOOLEAN, AgentEnd(t, success) PROVE [AbsNext]_absVars
    <2>1. status' = [status EXCEPT ![t] = Resumed(t)] /\ UNCHANGED <<finishes, waiters>>
      BY <1>10 DEF AgentEnd
    <2> QED BY <1>0, <2>1, ProgressOne DEF Resumed
  <1>11. ASSUME NEW t \in Task, Ask(t) PROVE [AbsNext]_absVars
    <2>1. Pending(t)
      BY <1>0, <1>11 DEF Ask, Listening, Placed, Stopped
    <2>2. PICK s \in {"running", "waiting"} : status' = [status EXCEPT ![t] = s]
      BY <1>11 DEF Ask
    <2>3. UNCHANGED <<finishes, waiters>>
      BY <1>11 DEF Ask
    <2> QED BY <1>0, <2>1, <2>2, <2>3, ProgressOne
  <1>12. ASSUME NEW t \in Task, AgentSettled(t) PROVE [AbsNext]_absVars
    <2>1. status' = [status EXCEPT ![t] = Resumed(t)] /\ UNCHANGED <<finishes, waiters>>
      BY <1>12 DEF AgentSettled
    <2> QED BY <1>0, <2>1, ProgressOne DEF Resumed
  <1>13. ASSUME NEW t \in Task, ChildFault(t) PROVE [AbsNext]_absVars
    BY <1>13 DEF ChildFault, absVars
  <1>14. ASSUME NEW t \in Task, StallTimeout(t) PROVE [AbsNext]_absVars
    BY <1>14 DEF StallTimeout, absVars
  <1>15. ASSUME NEW t \in Task, ConfirmGone(t) PROVE [AbsNext]_absVars
    <2>1. CASE t \in quarantined
      BY <1>15, <2>1 DEF ConfirmGone, CompleteExit, absVars
    <2>2. CASE t \notin quarantined
      <3>1. status[t] \in {"running", "waiting"}
        BY <1>0, <1>15, <2>2 DEF ConfirmGone, TimerFires, Placed
      <3> DEFINE s == IF terminal[t] = "none" THEN "failed" ELSE terminal[t]
      <3>2. s \in FinishedStatus
        BY <1>0 DEF FieldTypes
      <3>3. Finish(t, s)
        BY <1>15, <2>2 DEF ConfirmGone, CompleteExit
      <3> HIDE DEF s
      <3> QED BY <1>0, <3>1, <3>2, <3>3, SettleOne DEF Finish
    <2> QED BY <2>1, <2>2
  <1>16. ASSUME NEW t \in Task, ProbeAgain(t) PROVE [AbsNext]_absVars
    BY <1>16 DEF ProbeAgain, absVars
  <1>17. ASSUME NEW t \in Task, Quarantine(t) PROVE [AbsNext]_absVars
    <2>1. status[t] \in {"running", "waiting"}
      BY <1>0, <1>17 DEF Quarantine, TimerFires, Placed, Stopped
    <2> QED BY <1>0, <1>17, <2>1, SettleOne DEF Quarantine, Finish
  <1>18. ASSUME NEW t \in Task, SpawnError(t) PROVE [AbsNext]_absVars
    <2>1. status[t] \in {"running", "waiting"}
      BY <1>0, <1>18 DEF SpawnError, Placed, Housed
    <2> QED BY <1>0, <1>18, <2>1, SettleOne DEF SpawnError, Finish
  <1>19. ASSUME NEW t \in Task, ExitGroupPresent(t) PROVE [AbsNext]_absVars
    BY <1>19 DEF ExitGroupPresent, absVars
  <1>20. ASSUME NEW t \in Task, ExitComplete(t) PROVE [AbsNext]_absVars
    <2>1. CASE t \in quarantined
      BY <1>20, <2>1 DEF ExitComplete, CompleteExit, absVars
    <2>2. CASE t \notin quarantined
      <3>1. status[t] \in {"running", "waiting"}
        BY <1>0, <1>20, <2>2 DEF ExitComplete, TimerFires, Placed
      <3> DEFINE s == IF terminal[t] = "none" THEN "failed" ELSE terminal[t]
      <3>2. s \in FinishedStatus
        BY <1>0 DEF FieldTypes
      <3>3. Finish(t, s)
        BY <1>20, <2>2 DEF ExitComplete, CompleteExit
      <3> HIDE DEF s
      <3> QED BY <1>0, <3>1, <3>2, <3>3, SettleOne DEF Finish
    <2> QED BY <2>1, <2>2
  <1>21. ASSUME NEW t \in Task, NEW next \in {"orphans", "gone"}, ProcessExits(t, next) PROVE [AbsNext]_absVars
    BY <1>21 DEF ProcessExits, absVars
  <1>22. ASSUME NEW t \in Task, LaunchThrows(t) PROVE [AbsNext]_absVars
    <2>1. status[t] = "queued"
      BY <1>0, <1>22, QueueShift DEF LaunchThrows, Placed
    <2> QED BY <1>0, <1>22, <2>1, SettleOne DEF LaunchThrows, Finish
  <1>23. ASSUME NEW t \in Task, LaunchNoPid(t) PROVE [AbsNext]_absVars
    <2>1. status[t] = "queued"
      BY <1>0, <1>23, QueueShift DEF LaunchNoPid, Placed
    <2>2. CASE site[t] # NoSite
      BY <1>0, <1>23, <2>1, <2>2, SettleOne DEF LaunchNoPid, Finish
    <2>3. CASE site[t] = NoSite
      BY <1>0, <1>23, <2>1, <2>3, ProgressOne DEF LaunchNoPid
    <2> QED BY <2>2, <2>3
  <1>24. ASSUME NEW t \in Task, Launch(t) PROVE [AbsNext]_absVars
    <2>1. status[t] = "queued"
      BY <1>0, <1>24, QueueShift DEF Launch, Placed
    <2> QED BY <1>0, <1>24, <2>1, ProgressOne DEF Launch
  <1>25. CASE CancelAll
    <2>1. \A u \in Queued : u \in Task /\ status[u] = "queued"
      BY <1>0 DEF Queued, QueueInv, Placed
    <2>2. CASE Queued = {}
      <3>1. /\ status' = [u \in Task |-> status[u]]
            /\ finishes' = [u \in Task |-> finishes[u]]
            /\ waiters' = waiters
        BY <1>25, <2>2 DEF CancelAll
      <3> QED BY <1>0, <3>1 DEF FieldTypes, absVars
    <2>3. CASE Queued # {}
      <3> DEFINE f == [u \in Queued |-> "cancelled"]
      <3>1. f \in [Queued -> FinishedStatus] /\ \A u \in Queued : f[u] = "cancelled"
        OBVIOUS
      <3>2. status' = [u \in Task |-> IF u \in Queued THEN f[u] ELSE status[u]]
        BY <1>25 DEF CancelAll
      <3>3. Settle(Queued)
        BY <1>25, <2>1, <2>3, <3>1, <3>2 DEF CancelAll, Settle
      <3> QED BY <2>1, <3>3 DEF AbsNext
    <2> QED BY <2>2, <2>3
  <1>26. CASE PumpDone
    BY <1>26 DEF PumpDone, absVars
  <1>27. CASE UNCHANGED vars
    BY <1>27 DEF vars, absVars
  <1> QED
    BY <1>1, <1>2, <1>3, <1>4, <1>5, <1>6, <1>7, <1>8, <1>9, <1>10, <1>11, <1>12, <1>13, <1>14, <1>15, <1>16, <1>17, <1>18, <1>19, <1>20, <1>21, <1>22, <1>23, <1>24, <1>25, <1>26, <1>27
       DEF Next, HostOp, ChildEvent, Timer, ProcessEvent, Pump

\* The runner keeps the promise of TaskLifecycle: every handler is a step of
\* it or changes nothing a caller of the runner can see.
THEOREM Refinement == Spec => AbsSpec
  <1>1. Init => AbsInit
    BY DEF Init
  <1> QED BY <1>1, AbsStep, Invariance, PTL DEF Spec, AbsSpec

-----------------------------------------------------------------------------
(* The first cause wins.                                                   *)

\* No handler replaces the cause of a stop or reports another one.
LEMMA CauseStep ==
  ASSUME IInv, [Next]_vars, NEW u \in live
  PROVE  CauseKept(u)
  <1>0. FieldTypes /\ QueueInv /\ u \in Task /\ \A v \in Task : Placed(v) /\ Stopped(v)
    BY DEF IInv, TaskInv, FieldTypes
  <1> USE <1>0 DEF CauseKept, FieldTypes, TaskStatus, ActiveStatus, FinishedStatus, Finished,
          Placed, Stopped
  <1>1. ASSUME NEW t \in Task, NEW m \in Mode, NEW w \in Worktree \cup {NoSite}, Run(t, m, w) PROVE CauseKept(u)
    BY <1>1 DEF Run
  <1>2. ASSUME NEW t \in Task, WaitFor(t) PROVE CauseKept(u)
    BY <1>2 DEF WaitFor
  <1>3. ASSUME NEW t \in Task, CancelQueued(t) PROVE CauseKept(u)
    <2>1. t \in Queued
      BY <1>3, QueueSplice DEF CancelQueued
    <2> QED BY <1>3, <2>1 DEF CancelQueued, Finish
  <1>4. ASSUME NEW t \in Task, CancelLive(t) PROVE CauseKept(u)
    BY <1>4 DEF CancelLive, RequestStop
  <1>5. ASSUME NEW t \in Task, Steer(t) PROVE CauseKept(u)
    BY <1>5 DEF Steer, Resumed
  <1>6. ASSUME NEW t \in Task, Answer(t) PROVE CauseKept(u)
    BY <1>6 DEF Answer, Resumed
  <1>7. ASSUME NEW t \in Task, ChildProgress(t) PROVE CauseKept(u)
    BY <1>7 DEF ChildProgress, Listening, Resumed, ArmStall
  <1>8. ASSUME NEW t \in Task, NEW c \in Call, ToolStart(t, c) PROVE CauseKept(u)
    BY <1>8 DEF ToolStart, Listening, Resumed, ArmStall
  <1>9. ASSUME NEW t \in Task, NEW c \in Call, ToolEnd(t, c) PROVE CauseKept(u)
    BY <1>9 DEF ToolEnd, Listening, Resumed, ArmStall
  <1>10. ASSUME NEW t \in Task, NEW success \in BOOLEAN, AgentEnd(t, success) PROVE CauseKept(u)
    BY <1>10 DEF AgentEnd, Listening, Resumed, ArmStall
  <1>11. ASSUME NEW t \in Task, Ask(t) PROVE CauseKept(u)
    BY <1>11 DEF Ask, Listening, ArmStall
  <1>12. ASSUME NEW t \in Task, AgentSettled(t) PROVE CauseKept(u)
    BY <1>12 DEF AgentSettled, Listening, Resumed, RequestStop
  <1>13. ASSUME NEW t \in Task, ChildFault(t) PROVE CauseKept(u)
    BY <1>13 DEF ChildFault, Listening, RequestStop
  <1>14. ASSUME NEW t \in Task, StallTimeout(t) PROVE CauseKept(u)
    BY <1>14 DEF StallTimeout, RequestStop
  <1>15. ASSUME NEW t \in Task, ConfirmGone(t) PROVE CauseKept(u)
    BY <1>15 DEF ConfirmGone, TimerFires, GroupGone, Probe, CompleteExit, ReleaseSlot, Finish
  <1>16. ASSUME NEW t \in Task, ProbeAgain(t) PROVE CauseKept(u)
    BY <1>16 DEF ProbeAgain, TimerFires
  <1>17. ASSUME NEW t \in Task, Quarantine(t) PROVE CauseKept(u)
    BY <1>17 DEF Quarantine, TimerFires, Finish
  <1>18. ASSUME NEW t \in Task, SpawnError(t) PROVE CauseKept(u)
    BY <1>18 DEF SpawnError, ReleaseSlot, Finish
  <1>19. ASSUME NEW t \in Task, ExitGroupPresent(t) PROVE CauseKept(u)
    BY <1>19 DEF ExitGroupPresent, RequestStop
  <1>20. ASSUME NEW t \in Task, ExitComplete(t) PROVE CauseKept(u)
    BY <1>20 DEF ExitComplete, CompleteExit, ReleaseSlot, Finish
  <1>21. ASSUME NEW t \in Task, NEW next \in {"orphans", "gone"}, ProcessExits(t, next) PROVE CauseKept(u)
    BY <1>21 DEF ProcessExits
  <1>22. ASSUME NEW t \in Task, LaunchThrows(t) PROVE CauseKept(u)
    <2>1. t \in Queued
      BY <1>22, QueueShift DEF LaunchThrows
    <2> QED BY <1>22, <2>1 DEF LaunchThrows, Finish
  <1>23. ASSUME NEW t \in Task, LaunchNoPid(t) PROVE CauseKept(u)
    <2>1. t \in Queued
      BY <1>23, QueueShift DEF LaunchNoPid
    <2> QED BY <1>23, <2>1 DEF LaunchNoPid, Finish, ArmStall
  <1>24. ASSUME NEW t \in Task, Launch(t) PROVE CauseKept(u)
    <2>1. t \in Queued
      BY <1>24, QueueShift DEF Launch
    <2> QED BY <1>24, <2>1 DEF Launch, ArmStall
  <1>25. CASE CancelAll
    BY <1>25 DEF CancelAll
  <1>26. CASE PumpDone
    BY <1>26 DEF PumpDone
  <1>27. CASE UNCHANGED vars
    BY <1>27 DEF vars
  <1> QED
    BY <1>1, <1>2, <1>3, <1>4, <1>5, <1>6, <1>7, <1>8, <1>9, <1>10, <1>11, <1>12, <1>13, <1>14, <1>15, <1>16, <1>17, <1>18, <1>19, <1>20, <1>21, <1>22, <1>23, <1>24, <1>25, <1>26, <1>27
       DEF Next, HostOp, ChildEvent, Timer, ProcessEvent, Pump

\* requestStop() is decided once per launch, and finish() reports it.
THEOREM FirstCauseIsKept == Spec => FirstCauseWins
  <1>1. IInv /\ [Next]_vars => [\A t \in live : CauseKept(t)]_vars
    BY CauseStep
  <1> QED BY <1>1, Invariance, PTL DEF Spec, FirstCauseWins

=============================================================================
