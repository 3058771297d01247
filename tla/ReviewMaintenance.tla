------------------------- MODULE ReviewMaintenance -------------------------
(***************************************************************************)
(* The controller operations that change review authority without          *)
(* reviewing anything: RECOVER, the three maintenance operations (abandon, *)
(* quarantine-legacy, reconcile-authority), REPAIR_LEGACY_ALIAS, RESET,    *)
(* RECOVER_LOCK, REPAIR and ACKNOWLEDGE_APPROVED                           *)
(* (extensions/gentle-ai.ts), and the process calls behind them            *)
(* (lib/native-review-cli.ts).                                             *)
(*                                                                         *)
(* Each host runs one operation at a time; several hosts work on the same  *)
(* lineage.  A native command is a process of its own: cancelling it       *)
(* rejects the caller at once, while the killed process may still commit   *)
(* before it is gone, and a process that committed may still fail to say   *)
(* so.  Texts, actors and reasons are left out: an authorization is the    *)
(* revision and the target it names.  ReviewCapture is extended for the    *)
(* property of both: what a host reports of the provider is so.            *)
(***************************************************************************)
EXTENDS ReviewCapture

CONSTANTS Admin,       \* hosts that run controller operations
          Target,      \* target identities the workspace can have
          MaxRevision, \* bound on the revisions of the lineage
          MaxAdminOps  \* bound on the operations started in one behaviour

ASSUME MaintenanceAssumption ==
  /\ Target # {} /\ MaxRevision \in Nat \ {0} /\ MaxAdminOps \in Nat \ {0}

VARIABLES lineage,    \* the native authority of the lineage
          admin,      \* admin[h]: the operation host h is in
          command,    \* command[h]: the process of the operation of h
          strays,     \* cancelled processes that have not died yet
          adminSaid,  \* adminSaid[h]: what the last operation of h reported
          adminOps    \* operations started

maintenanceVars == <<lineage, admin, command, strays, adminSaid, adminOps>>

\* What the next native STATUS answers: the state of the lineage decides which action the provider offers.
LineageState == {"recover", "approved", "alias", "legacy", "open", "burned"}

Maintenance == {"abandon", "quarantine-legacy", "reconcile-authority"}

\* RESET and RECOVER_LOCK both become `review reclaim`.
Reclaiming == {"reset", "recover-lock"}

Operation == Maintenance \cup Reclaiming \cup {"recover", "repair-legacy-alias", "repair", "acknowledge-approved"}

NoCommand == [op |-> "none", revision |-> 0, target |-> CHOOSE t \in Target : TRUE, committed |-> FALSE]

Resting == [op |-> "none", at |-> "idle", revision |-> 0, target |-> CHOOSE t \in Target : TRUE]

NothingSaid == [outcome |-> "none", committed |-> FALSE]

MaintenanceTypeOK ==
  /\ lineage \in [state : LineageState, revision : 0..MaxRevision, target : Target]
  /\ admin \in [Admin -> [op : Operation \cup {"none"}, at : {"idle", "status", "confirm", "recheck", "call", "reconcile"},
                          revision : 0..MaxRevision, target : Target]]
  /\ command \in [Admin -> [op : Operation \cup {"none"}, revision : 0..MaxRevision, target : Target, committed : BOOLEAN]]
  /\ strays \subseteq [by : Admin, op : Operation, revision : 0..MaxRevision, target : Target, said : {"none", "unknown"}]
  /\ adminSaid \in [Admin -> [outcome : {"none", "unknown", "committed"}, committed : BOOLEAN]]
  /\ adminOps \in 0..MaxAdminOps

MaintenanceInit ==
  /\ lineage \in [state : LineageState \ {"burned"}, revision : {0}, target : {CHOOSE t \in Target : TRUE}]
  /\ admin = [h \in Admin |-> Resting]
  /\ command = [h \in Admin |-> NoCommand]
  /\ strays = {}
  /\ adminSaid = [h \in Admin |-> NothingSaid]
  /\ adminOps = 0

---------------------------------------------------------------------------
(* The native provider, as the host relies on it.                          *)

\* A command is accepted for the state it is for, and only while the revision (and, for a recovery or an
\* acknowledgement, the target) its authorization names is still the current one.  A reclaim names neither.
Accepts(op, revision, target) ==
  /\ op \notin Reclaiming => lineage.revision = revision
  /\ CASE op = "recover"              -> lineage.state = "recover" /\ lineage.target = target
       [] op = "acknowledge-approved" -> lineage.state = "approved" /\ lineage.target = target
       [] op = "repair-legacy-alias"  -> lineage.state = "alias"
       [] op \in Maintenance          -> lineage.state \in {"open", "recover", "legacy"}
       [] op \in Reclaiming           -> lineage.state # "burned"

\* The authority after an accepted command: an acknowledgement burns it, every other one starts a revision.
Applied(op) ==
  /\ lineage.revision < MaxRevision
  /\ lineage' = [lineage EXCEPT !.revision = @ + 1,
                                !.state = IF op = "acknowledge-approved" THEN "burned" ELSE "open"]

\* Review elsewhere moves the lineage, or the user edits the workspace: the target changes with no new revision.
AuthorityMoves ==
  /\ \/ /\ lineage.revision < MaxRevision /\ lineage.state # "burned"
        /\ \E s \in {"recover", "approved", "open"} : lineage' = [lineage EXCEPT !.revision = @ + 1, !.state = s]
     \/ \E t \in Target \ {lineage.target} : lineage' = [lineage EXCEPT !.target = t]
  /\ UNCHANGED <<admin, command, strays, adminSaid, adminOps>>

---------------------------------------------------------------------------
(* How a process result becomes an answer (NativeReviewCliV216.invoke and  *)
(* NativeReviewPlainCli.execute).                                          *)

\* Results that say nothing about the mutation: the process was launched, so the error is "unknown".
Opaque == {"output-limit", "signal", "malformed-json", "unexpected-stderr", "non-zero", "schema", "identity"}

\* A negotiated command that fails with a decodable envelope says itself what it did.
Envelope(committed) == {"envelope-unknown", IF committed THEN "envelope-committed" ELSE "envelope-none"}

Negotiated(op) == op = "acknowledge-approved"

\* What the exit of a process can be, given whether it committed.  Only a committed command exits with success.
ExitResults(op, committed) ==
  (IF committed THEN {"ok"} ELSE {}) \cup Opaque \cup (IF Negotiated(op) THEN Envelope(committed) ELSE {})

\* mutation_outcome of a result: the class of the error (launched and mutating is "unknown"), or of its envelope.
MutationOf(result) ==
  CASE result \in {"ok", "envelope-committed"}          -> "committed"
    [] result \in {"not-launched", "envelope-none"}      -> "none"
    [] result \in Opaque \cup {"cancelled", "unstartable", "envelope-unknown"} -> "unknown"

---------------------------------------------------------------------------
(* The operations of a host.                                               *)

\* The operation of h ends with a report; `own` says whether its command really committed.
Reports(h, outcome, own) ==
  /\ adminSaid' = [adminSaid EXCEPT ![h] = [outcome |-> outcome, committed |-> own]]
  /\ admin' = [admin EXCEPT ![h] = Resting]
  /\ command' = [command EXCEPT ![h] = NoCommand]

\* The command is started with the revision and the target that were authorized.
Launches(h, op, revision, target) ==
  /\ admin' = [admin EXCEPT ![h] = [op |-> op, at |-> "call", revision |-> revision, target |-> target]]
  /\ command' = [command EXCEPT ![h] = [op |-> op, revision |-> revision, target |-> target, committed |-> FALSE]]
  /\ UNCHANGED adminSaid

\* The caller names the revision it saw at some time.
RequestOf(op, revision, at) == [op |-> op, at |-> at, revision |-> revision, target |-> lineage.target]

\* Where an operation begins: RESET and the maintenance operations with the confirmation of
\* authorizeDestructiveReviewOperation, RECOVER_LOCK with its command, the others with a STATUS or an inventory.
FirstStep(op) ==
  CASE op \in Maintenance \cup {"reset"} -> "confirm"
    [] op = "recover-lock"               -> "call"
    [] OTHER                             -> "status"

\* A request with missing or invalid input, without a UI, or without the native method is refused before any call.
RefuseRequest(h) ==
  /\ admin[h].at = "idle" /\ adminOps < MaxAdminOps
  /\ adminOps' = adminOps + 1
  /\ Reports(h, "none", FALSE)
  /\ UNCHANGED <<lineage, strays>>

BeginOperation(h, op, revision) ==
  /\ admin[h].at = "idle" /\ adminOps < MaxAdminOps /\ revision <= lineage.revision
  /\ adminOps' = adminOps + 1
  /\ IF FirstStep(op) = "call"
     THEN Launches(h, op, lineage.revision, lineage.target)
     ELSE admin' = [admin EXCEPT ![h] = RequestOf(op, revision, FirstStep(op))] /\ UNCHANGED <<command, adminSaid>>
  /\ UNCHANGED <<lineage, strays>>

\* A STATUS or inventory call that fails: nothing was started.
StatusFails(h) ==
  /\ admin[h].at \in {"status", "recheck"}
  /\ Reports(h, "none", FALSE)
  /\ UNCHANGED <<lineage, strays, adminOps>>

\* RECOVER pins what STATUS says: the action, the revision the caller expects, and the target it will show.
RecoverStatus(h) ==
  /\ admin[h].op = "recover" /\ admin[h].at = "status"
  /\ IF lineage.state = "recover" /\ lineage.revision = admin[h].revision
     THEN /\ admin' = [admin EXCEPT ![h].at = "confirm", ![h].target = lineage.target]
          /\ UNCHANGED <<command, adminSaid>>
     ELSE Reports(h, "none", FALSE)
  /\ UNCHANGED <<lineage, strays, adminOps>>

\* REPAIR_LEGACY_ALIAS takes the revision from a complete inventory in which exactly one entry qualifies.
AliasInventory(h) ==
  /\ admin[h].op = "repair-legacy-alias" /\ admin[h].at = "status"
  /\ IF lineage.state = "alias"
     THEN /\ admin' = [admin EXCEPT ![h].at = "confirm", ![h].revision = lineage.revision]
          /\ UNCHANGED <<command, adminSaid>>
     ELSE Reports(h, "none", FALSE)
  /\ UNCHANGED <<lineage, strays, adminOps>>

\* REPAIR leaves compact authority alone and repairs a legacy store in this process.
RepairStatus(h) ==
  /\ admin[h].op = "repair" /\ admin[h].at = "status"
  /\ IF lineage.state = "legacy" THEN Reports(h, "committed", TRUE) ELSE Reports(h, "none", FALSE)
  /\ UNCHANGED <<lineage, strays, adminOps>>

\* ACKNOWLEDGE_APPROVED executes the tokens STATUS offers for exactly this lineage, target and revision.
AcknowledgeStatus(h) ==
  /\ admin[h].op = "acknowledge-approved" /\ admin[h].at = "status"
  /\ IF lineage.state = "approved"
     THEN Launches(h, "acknowledge-approved", lineage.revision, lineage.target)
     ELSE Reports(h, "none", FALSE)
  /\ UNCHANGED <<lineage, strays, adminOps>>

\* The maintainer answers the confirmation; a refusal throws before anything is launched.
Confirm(h, approved) ==
  /\ admin[h].at = "confirm"
  /\ IF ~approved
     THEN Reports(h, "none", FALSE)
     ELSE IF admin[h].op = "recover"
          THEN admin' = [admin EXCEPT ![h].at = "recheck"] /\ UNCHANGED <<command, adminSaid>>
          ELSE Launches(h, admin[h].op, admin[h].revision, admin[h].target)
  /\ UNCHANGED <<lineage, strays, adminOps>>

\* The authority is read once more after the approval and must be exactly the one that was approved.
RecoverRecheck(h) ==
  /\ admin[h].at = "recheck"
  /\ IF lineage.state = "recover" /\ lineage.revision = admin[h].revision /\ lineage.target = admin[h].target
     THEN Launches(h, "recover", admin[h].revision, admin[h].target)
     ELSE Reports(h, "none", FALSE)
  /\ UNCHANGED <<lineage, strays, adminOps>>

---------------------------------------------------------------------------
(* The process of a command.                                               *)

\* An acknowledgement whose effect is unknown reads STATUS once more; the others report at once.
Answered(h, result, own) ==
  IF Negotiated(command[h].op) /\ MutationOf(result) = "unknown"
  THEN /\ admin' = [admin EXCEPT ![h].at = "reconcile"]
       /\ command' = [command EXCEPT ![h].committed = own]
       /\ UNCHANGED adminSaid
  ELSE Reports(h, MutationOf(result), own)

\* The package binary is missing, or an argument check of the client throws: nothing was launched.  A process
\* that could not be started counts as launched.
NotLaunched(h) ==
  /\ admin[h].at = "call" /\ ~command[h].committed
  /\ \E result \in {"not-launched", "unstartable"} : Answered(h, result, FALSE)
  /\ UNCHANGED <<lineage, strays, adminOps>>

CommandCommits(h) ==
  /\ admin[h].at = "call" /\ ~command[h].committed
  /\ Accepts(command[h].op, command[h].revision, command[h].target)
  /\ Applied(command[h].op)
  /\ command' = [command EXCEPT ![h].committed = TRUE]
  /\ UNCHANGED <<admin, strays, adminSaid, adminOps>>

\* The process exits and its result is classified.
CommandExits(h) ==
  /\ admin[h].at = "call"
  /\ \E result \in ExitResults(command[h].op, command[h].committed) : Answered(h, result, command[h].committed)
  /\ UNCHANGED <<lineage, strays, adminOps>>

\* The signal of the tool call cancels a command (RECOVER_LOCK passes none): the caller goes on at once, and
\* the killed process, unless it had already committed, lingers.
CancelCommand(h) ==
  /\ admin[h].at = "call" /\ admin[h].op # "recover-lock"
  /\ strays' = IF command[h].committed THEN strays
               ELSE strays \cup {[by |-> h, op |-> command[h].op, revision |-> command[h].revision,
                               target |-> command[h].target, said |-> MutationOf("cancelled")]}
  /\ Answered(h, "cancelled", command[h].committed)
  /\ UNCHANGED <<lineage, adminOps>>

\* A killed process commits before it is gone, or dies.
StrayEnds(s) ==
  /\ strays' = strays \ {s}
  /\ \/ UNCHANGED lineage
     \/ Accepts(s.op, s.revision, s.target) /\ Applied(s.op)
  /\ UNCHANGED <<admin, command, adminSaid, adminOps>>

\* reconcileNativeMutationFailure: the report carries the fresh STATUS (or its failure) and stays "unknown".
ReconcileFailure(h) ==
  /\ admin[h].at = "reconcile"
  /\ Reports(h, "unknown", command[h].committed)
  /\ UNCHANGED <<lineage, strays, adminOps>>

MaintenanceNext ==
  \/ AuthorityMoves
  \/ \E s \in strays : StrayEnds(s)
  \/ \E h \in Admin :
       \/ RefuseRequest(h) \/ StatusFails(h)
       \/ \E op \in Operation, r \in 0..MaxRevision : BeginOperation(h, op, r)
       \/ RecoverStatus(h) \/ AliasInventory(h) \/ RepairStatus(h) \/ AcknowledgeStatus(h)
       \/ \E approved \in BOOLEAN : Confirm(h, approved)
       \/ RecoverRecheck(h)
       \/ NotLaunched(h) \/ CommandCommits(h) \/ CommandExits(h) \/ CancelCommand(h) \/ ReconcileFailure(h)

\* What an operation reports is true and stays true: "committed" only of a command that committed, "none" only
\* of one that did not, and a cancelled process that may still commit belongs to an operation that said "unknown".
MaintenanceReportIsTrue ==
  /\ \A h \in Admin : /\ adminSaid[h].outcome = "committed" => adminSaid[h].committed
                      /\ adminSaid[h].outcome = "none" => ~adminSaid[h].committed
  /\ \A s \in strays : s.said = "unknown"

\* What a capture and a maintenance operation report to their caller is what became of the native
\* operation (review-host-relay.ts, native-review-cli.ts).
ReportsAreTrue == ReportIsTrue /\ MaintenanceReportIsTrue

MaintenanceSpec == MaintenanceInit /\ [][MaintenanceNext]_maintenanceVars
=============================================================================
