----------------------------- MODULE ReviewLock -----------------------------
(***************************************************************************)
(* The mutation lock of the review store (lib/review-lock.ts): a directory *)
(* "authority.lock" that a process makes, signs with owner.json, and moves *)
(* away to release; and the two repairs that move it to a quarantine when  *)
(* its owner died, recover() and recoverIncomplete().                      *)
(*                                                                         *)
(* Every file-system call is a step of its own: processes of one user run  *)
(* side by side and any of them may die between two calls.  The move of a  *)
(* directory is two calls (mkdir reserves the destination, rename fills    *)
(* it), as on POSIX; on win32 it is the rename alone, which fails if the   *)
(* destination exists: the same outcomes with fewer interleavings.         *)
(***************************************************************************)
EXTENDS Naturals, FiniteSets

CONSTANTS
  Owner,                \* acquisitions: a token each, each in its own process
  Repairer,             \* who may call recover() and recoverIncomplete()
  RepairKind,               \* the repairs in use: "stale", "incomplete"
  Caller,               \* "informed" or "any": what a repair's caller knows
  None,                 \* no directory, or no owner.json in it
  Torn                  \* an owner.json whose writer died while writing it

ASSUME LockAssumption ==
  /\ RepairKind \subseteq {"stale", "incomplete"}
  /\ Caller \in {"informed", "any"}
  /\ None \notin Owner /\ Torn \notin Owner /\ None # Torn

VARIABLES
  pc,                   \* where each acquisition stands
  dead,                 \* the acquisitions whose process has died
  intents,              \* authority.lock-intents
  lock,                 \* the acquisition whose mkdir made authority.lock
  signer,               \* the token in authority.lock/owner.json
  names,                \* destinations that exist: released-, stale-, incomplete-
  step, kind, token     \* each repairer: its progress, its repair and target

fsVars == <<intents, lock, signer, names>>
repairVars == <<step, kind, token>>
lockVars == <<pc, dead, fsVars, repairVars>>

Place == {"idle", "intent", "made", "signed", "held", "releasing", "reserved", "done", "failed"}

\* From the return of acquire() to the rename that gives the lock up.
InLock == {"held", "releasing", "reserved"}
Holds(o) == o \notin dead /\ pc[o] \in InLock

LockInit ==
  /\ pc = [o \in Owner |-> "idle"]
  /\ dead = {}
  /\ intents = {}
  /\ lock = None
  /\ signer = None
  /\ names = {}
  /\ step = [r \in Repairer |-> "idle"]
  /\ kind = [r \in Repairer |-> "stale"]
  /\ token \in [Repairer -> Owner]

-----------------------------------------------------------------------------
(* acquire()                                                               *)

Goes(o, from, to) ==
  /\ o \notin dead /\ pc[o] = from
  /\ pc' = [pc EXCEPT ![o] = to]

\* The intent names the token before anything else exists.
WriteIntent(o) ==
  /\ Goes(o, "idle", "intent")
  /\ intents' = intents \cup {o}
  /\ UNCHANGED <<dead, lock, signer, names, repairVars>>

\* mkdir fails when the directory exists; the intent stays behind.
MakeLock(o) ==
  /\ Goes(o, "intent", IF lock = None THEN "made" ELSE "failed")
  /\ lock' = IF lock = None THEN o ELSE lock
  /\ UNCHANGED <<dead, intents, signer, names, repairVars>>

\* owner.json is created exclusively in whatever directory is there now.
Sign(o) ==
  LET ok == lock # None /\ signer = None IN
  /\ Goes(o, "made", IF ok THEN "signed" ELSE "failed")
  /\ signer' = IF ok THEN o ELSE signer
  /\ UNCHANGED <<dead, intents, lock, names, repairVars>>

\* The directory is synced and the intent removed: acquire() returns.
Confirm(o) ==
  /\ Goes(o, "signed", IF lock = None THEN "failed" ELSE "held")
  /\ intents' = IF lock = None THEN intents ELSE intents \ {o}
  /\ UNCHANGED <<dead, lock, signer, names, repairVars>>

-----------------------------------------------------------------------------
(* release()                                                               *)

\* readOwner() must show this very token.
CheckOwner(o) ==
  /\ Goes(o, "held", IF lock # None /\ signer = o THEN "releasing" ELSE "failed")
  /\ UNCHANGED <<dead, fsVars, repairVars>>

\* moveNoReplace: the destination is reserved by its own mkdir.
ReserveRelease(o) ==
  LET ok == lock # None /\ <<"released", o>> \notin names IN
  /\ Goes(o, "releasing", IF ok THEN "reserved" ELSE "failed")
  /\ names' = IF ok THEN names \cup {<<"released", o>>} ELSE names
  /\ UNCHANGED <<dead, intents, lock, signer, repairVars>>

\* moveNoReplace: the rename, then the released directory is removed.
MoveReleased(o) ==
  /\ Goes(o, "reserved", IF lock = None THEN "failed" ELSE "done")
  /\ lock' = None
  /\ signer' = None
  /\ names' = names \ {<<"released", o>>}
  /\ UNCHANGED <<dead, intents, repairVars>>

-----------------------------------------------------------------------------
(* Death of an owner's process: SIGKILL, power loss, or plain exit.        *)

Die(o) ==
  /\ o \notin dead /\ pc[o] # "idle"
  /\ dead' = dead \cup {o}
  /\ UNCHANGED <<pc, fsVars, repairVars>>

\* The same inside the write of owner.json, which is left unreadable.
DieSigning(o) ==
  /\ o \notin dead /\ pc[o] = "made"
  /\ lock # None /\ signer = None
  /\ dead' = dead \cup {o}
  /\ signer' = Torn
  /\ UNCHANGED <<pc, intents, lock, names, repairVars>>

-----------------------------------------------------------------------------
(* recover() and recoverIncomplete(), which differ in what they observe.   *)

\* recover(): owner.json names o.  recoverIncomplete(): there is no owner.json.
Observed(k, o) == IF k = "stale" THEN lock # None /\ signer = o ELSE signer = None

\* An informed caller has made sure, before calling, that the lock to repair
\* is that of o and that o is dead.
MayCall(o) == Caller = "informed" => lock = o /\ o \in dead

\* The first read of the repair.
ObserveOwner(r, k, o) ==
  /\ step[r] = "idle"
  /\ MayCall(o)
  /\ Observed(k, o)
  /\ step' = [step EXCEPT ![r] = "observed"]
  /\ kind' = [kind EXCEPT ![r] = k]
  /\ token' = [token EXCEPT ![r] = o]
  /\ UNCHANGED <<pc, dead, fsVars>>

\* proveOwnerDead(), for recoverIncomplete() of the owner its intent names.
ProveDead(r) ==
  LET proof == token[r] \in dead /\ (kind[r] = "incomplete" => token[r] \in intents) IN
  /\ step[r] = "observed"
  /\ step' = [step EXCEPT ![r] = IF proof THEN "proved" ELSE "idle"]
  /\ UNCHANGED <<pc, dead, fsVars, kind, token>>

\* moveNoReplace: the destination's name holds the token of the dead owner,
\* so one repairer at most gets past this step.
ReserveStale(r) ==
  LET name == <<kind[r], token[r]>>
      ok == lock # None /\ name \notin names
  IN /\ step[r] = "proved"
     /\ step' = [step EXCEPT ![r] = IF ok THEN "reserved" ELSE "idle"]
     /\ names' = IF ok THEN names \cup {name} ELSE names
     /\ UNCHANGED <<pc, dead, intents, lock, signer, kind, token>>

\* Fault: the reservation is taken back after every move.
MoveStale_Forgets(r) ==
  /\ step[r] = "reserved"
  /\ step' = [step EXCEPT ![r] = "idle"]
  /\ lock' = None
  /\ signer' = None
  /\ names' = names \ {<<kind[r], token[r]>>}
  /\ UNCHANGED <<pc, dead, intents, kind, token>>

\* moveNoReplace: the rename moves whatever is there; if nothing is, the
\* reservation is taken back.
MoveStale(r) ==
  /\ step[r] = "reserved"
  /\ step' = [step EXCEPT ![r] = "idle"]
  /\ lock' = None
  /\ signer' = None
  /\ names' = IF lock = None THEN names \ {<<kind[r], token[r]>>} ELSE names
  /\ UNCHANGED <<pc, dead, intents, kind, token>>

-----------------------------------------------------------------------------
OwnerStep(o) ==
  \/ WriteIntent(o) \/ MakeLock(o) \/ Sign(o) \/ Confirm(o)
  \/ CheckOwner(o) \/ ReserveRelease(o) \/ MoveReleased(o)
  \/ Die(o) \/ DieSigning(o)

RepairStep(r) ==
  \/ \E k \in RepairKind, o \in Owner : ObserveOwner(r, k, o)
  \/ ProveDead(r) \/ ReserveStale(r) \/ MoveStale(r)

LockNext ==
  \/ \E o \in Owner : OwnerStep(o)
  \/ \E r \in Repairer : RepairStep(r)

LockSpec == LockInit /\ [][LockNext]_lockVars

-----------------------------------------------------------------------------
LockTypeOK ==
  /\ pc \in [Owner -> Place]
  /\ dead \subseteq Owner
  /\ intents \subseteq Owner
  /\ lock \in Owner \cup {None}
  /\ signer \in Owner \cup {None, Torn}
  /\ names \subseteq {"released", "stale", "incomplete"} \X Owner
  /\ step \in [Repairer -> {"idle", "observed", "proved", "reserved"}]
  /\ kind \in [Repairer -> {"stale", "incomplete"}]
  /\ token \in [Repairer -> Owner]

\* At most one living process is between acquire() and the end of release(),
\* whatever died before it and however many repairs of those deaths compete.
MutualExclusion == \A o, p \in Owner : Holds(o) /\ Holds(p) => o = p

\* The holder's directory stays in place with its own signature until the
\* holder itself moves it, so that release() cannot fail on its own lock.
HolderOwnsLock == \A o \in Owner : Holds(o) => lock = o /\ signer = o

\* A repair that started from a dead owner's lock moves that lock and no
\* other one, although it looks again at nothing before the rename: "stale
\* recovery moves only the observed owner" (tests/review-lock.test.ts:51).
MovesOnlyObserved ==
  [][\A r \in Repairer :
       step[r] = "reserved" /\ step'[r] = "idle" /\ lock # None =>
         lock = token[r] /\ token[r] \in dead]_lockVars

\* Nobody keeps out of the lock what no one holds: after a release the
\* directory is gone, so a lock that is there has a maker that is still at
\* work, died, or failed while signing.
NoLeftover ==
  lock # None => pc[lock] \in {"made", "signed"} \cup InLock \/ lock \in dead

=============================================================================
