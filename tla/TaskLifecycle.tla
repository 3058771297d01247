--------------------------- MODULE TaskLifecycle ---------------------------
(***************************************************************************)
(* What the Gentle Agents runner promises to the rest of the host about a  *)
(* subagent task, with no queue, slot, process or timer in sight.          *)
(*                                                                         *)
(* A task is created queued, may start, may flip between running and       *)
(* waiting while a question is open, and settles exactly once.  Settling   *)
(* fixes its status for ever, reports it to the host (onFinish) and wakes  *)
(* everybody who waits for it.  A task that never started can only settle  *)
(* as cancelled (removed from the queue) or failed (could not start).      *)
(* AgentRunner is shown to implement this specification.                   *)
(***************************************************************************)
EXTENDS Naturals

CONSTANT Task           \* the identifiers of the tasks of one host session

VARIABLES
  status,               \* the TaskRecord's status; "absent" before run()
  finishes,             \* how often onFinish was called for the task
  waiters               \* the tasks somebody awaits through waitFor()

absVars == <<status, finishes, waiters>>

\* TASK_STATUS and FINISHED_STATUSES of agents-protocol.ts.
FinishedStatus == {"completed", "failed", "cancelled", "timed_out"}
ActiveStatus   == {"queued", "running", "waiting"}
TaskStatus     == ActiveStatus \cup FinishedStatus

\* isFinished(status)
Finished(s) == s \in FinishedStatus

\* The record exists and has not settled.
Pending(t) == status[t] \in ActiveStatus

AbsInit ==
  /\ status = [t \in Task |-> "absent"]
  /\ finishes = [t \in Task |-> 0]
  /\ waiters = {}

Create(t) ==
  /\ status[t] = "absent"
  /\ status' = [status EXCEPT ![t] = "queued"]
  /\ UNCHANGED <<finishes, waiters>>

\* A queued task starts; a running one opens or loses its question.
Progress(t, s) ==
  /\ Pending(t)
  /\ s \in {"running", "waiting"}
  /\ status' = [status EXCEPT ![t] = s]
  /\ UNCHANGED <<finishes, waiters>>

Await(t) ==
  /\ Pending(t)
  /\ waiters' = waiters \cup {t}
  /\ UNCHANGED <<status, finishes>>

(***************************************************************************)
(* The tasks of S settle in one step: one of them, or every queued task    *)
(* when the session shuts down.                                            *)
(***************************************************************************)
Settle(S) ==
  /\ S # {}
  /\ \A t \in S : Pending(t)
  /\ \E s \in [S -> FinishedStatus] :
       /\ \A t \in S : status[t] = "queued" => s[t] \in {"cancelled", "failed"}
       /\ status' = [t \in Task |-> IF t \in S THEN s[t] ELSE status[t]]
  /\ finishes' = [t \in Task |-> IF t \in S THEN finishes[t] + 1 ELSE finishes[t]]
  /\ waiters' = waiters \ S

AbsNext ==
  \/ \E t \in Task : Create(t) \/ Await(t)
  \/ \E t \in Task : \E s \in {"running", "waiting"} : Progress(t, s)
  \/ \E S \in SUBSET Task : Settle(S)

AbsSpec == AbsInit /\ [][AbsNext]_absVars

=============================================================================
