-------------------------- MODULE CandidateOwners --------------------------
(***************************************************************************)
(* Candidate views on disk (lib/review-candidate-view-owner.ts and         *)
(* materializeCandidateView): a frozen worktree, the owner marker beside   *)
(* it, and the reaper lock taken to remove it.  The processes share the    *)
(* directory; every call inside one process is synchronous, so a process   *)
(* does one thing at a time and may die between any two file operations.   *)
(* A view's name is a fresh UUID.                                          *)
(***************************************************************************)
EXTENDS Naturals, FiniteSets

CONSTANTS
  Process,   \* Pi processes of one boot and one PID namespace
  View,      \* names of views; each is created at most once
  NoOne      \* no process

ASSUME OwnersAssumption == NoOne \notin Process

VARIABLES
  alive,    \* the processes that run
  doing,    \* process -> the step it has reached
  records,  \* process -> the views in its registry
  marker,   \* view -> the process named by its owner file
  worktree, \* view -> "none", "partial" or "full": its worktree
  reaper,   \* view -> the process whose reaper lock file exists
  used      \* the names that were drawn

diskVars == <<marker, worktree, reaper>>
ownersVars == <<alive, doing, records, diskVars, used>>

Idle == [step |-> "idle"]
DoingAt(step, v, orphan) == [step |-> step, view |-> v, orphan |-> orphan]

OwnersInit ==
  /\ alive = Process /\ doing = [p \in Process |-> Idle]
  /\ records = [p \in Process |-> {}]
  /\ marker = [v \in View |-> NoOne] /\ worktree = [v \in View |-> "none"]
  /\ reaper = [v \in View |-> NoOne] /\ used = {}

OwnerMoves(p, step) == p \in alive /\ doing[p].step = step
Proceed(p, to) == doing' = [doing EXCEPT ![p] = to]

\* dead(): the recorded process does not run on this host and boot (the
\* fault takes every answer of kill(pid, 0) for a dead process).
Dead_AnyAnswer(q) == q # NoOne

Dead(q) == q # NoOne /\ q \notin alive

-----------------------------------------------------------------------------
(* materializeCandidateView().                                             *)

\* createCandidateOwner(): the marker is durable before Git sees the view.
Claim(p, v) ==
  /\ OwnerMoves(p, "idle") /\ v \notin used
  /\ used' = used \cup {v} /\ marker' = [marker EXCEPT ![v] = p]
  /\ Proceed(p, DoingAt("add", v, FALSE))
  /\ UNCHANGED <<alive, records, worktree, reaper>>

\* git worktree add, which may fail before or after it registers the root.
WorktreeAdd(p) ==
  /\ OwnerMoves(p, "add")
  /\ LET v == doing[p].view
     IN \/ worktree' = [worktree EXCEPT ![v] = "partial"] /\ Proceed(p, DoingAt("fill", v, FALSE))
        \/ worktree' = [worktree EXCEPT ![v] = "partial"] /\ Proceed(p, DoingAt("check", v, FALSE))
        \/ UNCHANGED worktree /\ Proceed(p, DoingAt("check", v, FALSE))
  /\ UNCHANGED <<alive, records, marker, reaper, used>>

\* Check out the worktree, freeze it, and hand the record to the registry; a
\* failure removes what was made.
Materialize(p) ==
  /\ OwnerMoves(p, "fill")
  /\ LET v == doing[p].view
     IN \/ /\ worktree' = [worktree EXCEPT ![v] = "full"]
           /\ records' = [records EXCEPT ![p] = @ \cup {v}] /\ Proceed(p, Idle)
        \/ UNCHANGED <<worktree, records>> /\ Proceed(p, DoingAt("check", v, FALSE))
  /\ UNCHANGED <<alive, marker, reaper, used>>

-----------------------------------------------------------------------------
(* removeCandidateOwner(), for a view of its own or for an orphan.         *)

\* CandidateViewRegistry.cleanup().
RemoveView(p, v) ==
  /\ OwnerMoves(p, "idle") /\ v \in records[p]
  /\ Proceed(p, DoingAt("check", v, FALSE))
  /\ UNCHANGED <<alive, records, diskVars, used>>

\* One entry of sweepCandidateOwners().
Sweep(p, v) ==
  /\ OwnerMoves(p, "idle") /\ Dead(marker[v])
  /\ Proceed(p, DoingAt("check", v, TRUE))
  /\ UNCHANGED <<alive, records, diskVars, used>>

\* checkOwner().
OwnerChecked(p) ==
  LET v == doing[p].view IN IF doing[p].orphan THEN Dead(marker[v]) ELSE marker[v] = p

\* The ownership proof fails, or the reaper file exists already.
Refused(p) ==
  /\ OwnerMoves(p, "check")
  /\ ~OwnerChecked(p) \/ reaper[doing[p].view] # NoOne
  /\ Proceed(p, Idle)
  /\ UNCHANGED <<alive, records, diskVars, used>>

\* exclusiveFile(lock): a lock that exists is never stolen.
TakeReaperLock(p) ==
  /\ OwnerMoves(p, "check") /\ OwnerChecked(p) /\ reaper[doing[p].view] = NoOne
  /\ reaper' = [reaper EXCEPT ![doing[p].view] = p]
  /\ Proceed(p, [doing[p] EXCEPT !.step = "locked"])
  /\ UNCHANGED <<alive, records, marker, worktree, used>>

\* The proofs are repeated and Git removes the worktree.  Without a
\* registered worktree, or when Git fails before, halfway or just after the
\* removal, the marker is left for a later attempt.
GitRemove(p) ==
  /\ OwnerMoves(p, "locked")
  /\ LET v == doing[p].view
         proved == OwnerChecked(p) /\ worktree[v] # "none" /\ reaper[v] = p
     IN \/ /\ proved
           /\ worktree' = [worktree EXCEPT ![v] = "none"]
           /\ Proceed(p, [doing[p] EXCEPT !.step = "unmark"])
        \/ /\ proved
           /\ \E left \in {"none", "partial"} : worktree' = [worktree EXCEPT ![v] = left]
           /\ Proceed(p, [doing[p] EXCEPT !.step = "unlock"])
        \/ UNCHANGED worktree /\ Proceed(p, [doing[p] EXCEPT !.step = "unlock"])
  /\ UNCHANGED <<alive, records, marker, reaper, used>>

\* The marker goes last; then cleanup() forgets the record.
Unmark(p) ==
  /\ OwnerMoves(p, "unmark")
  /\ LET v == doing[p].view
     IN /\ marker' = [marker EXCEPT ![v] = NoOne]
        /\ records' = [records EXCEPT ![p] = @ \ {v}]
  /\ Proceed(p, [doing[p] EXCEPT !.step = "unlock"])
  /\ UNCHANGED <<alive, worktree, reaper, used>>

\* The finally block releases this process's own reaper.
Unlock(p) ==
  /\ OwnerMoves(p, "unlock")
  /\ LET v == doing[p].view IN reaper' = [reaper EXCEPT ![v] = IF @ = p THEN NoOne ELSE @]
  /\ Proceed(p, Idle)
  /\ UNCHANGED <<alive, records, marker, worktree, used>>

ProcessDies(p) ==
  /\ p \in alive /\ Cardinality(alive) > 1
  /\ alive' = alive \ {p} /\ Proceed(p, Idle)
  /\ records' = [records EXCEPT ![p] = {}]
  /\ UNCHANGED <<diskVars, used>>

OwnersNext ==
  \E p \in Process :
    \/ \E v \in View : Claim(p, v) \/ RemoveView(p, v) \/ Sweep(p, v)
    \/ WorktreeAdd(p) \/ Materialize(p)
    \/ Refused(p) \/ TakeReaperLock(p) \/ GitRemove(p) \/ Unmark(p) \/ Unlock(p)
    \/ ProcessDies(p)

\* A synchronous call returns; nobody promises another sweep.
OwnersFairness ==
  \A p \in Process : WF_ownersVars(GitRemove(p) \/ Unmark(p) \/ Unlock(p))

OwnersSpec == OwnersInit /\ [][OwnersNext]_ownersVars /\ OwnersFairness

-----------------------------------------------------------------------------
(* Properties.                                                             *)

\* A sweep never takes the view that a running session is reviewing: the
\* worktree of a view in the registry of a live process changes only while
\* that process itself is removing it, although the sweeps of other
\* processes run over the same directory at any time and may be delayed
\* between their ownership proof and Git's removal.
LiveViewKept ==
  [][\A p \in alive : \A v \in records[p] :
       worktree'[v] # worktree[v] => doing[p].step = "locked" /\ doing[p].view = v]_ownersVars
=============================================================================
