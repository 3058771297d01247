---------------------------- MODULE ReviewStore ----------------------------
(***************************************************************************)
(* The graph-v1 review store: the immutable root sets and the three        *)
(* CURRENT pointer slots of lib/review-object-store.ts, and the journalled *)
(* operations of ReviewTransactionStore in lib/review-transaction.ts that  *)
(* read the authority, install a successor and publish it slot by slot.    *)
(*                                                                         *)
(* A mutation runs inside the mutation lock, whose exclusion ReviewLock    *)
(* establishes, so one mutation is under way at a time; it may stop after  *)
(* any write, by an exception (the lock is released) or by the death of    *)
(* its process (the lock is recovered).  Readers take no lock and read one *)
(* slot at a time.                                                         *)
(***************************************************************************)
EXTENDS ReviewJournal, FiniteSets

CONSTANTS
  Repairs,              \* "prompt" or "any": when the REPAIR operation is run
  MaxGeneration,        \* bound on the number of root sets in a chain
  MaxFaults             \* bound on mutations that stop half-way

ASSUME StoreAssumption ==
  /\ Repairs \in {"prompt", "any"}
  /\ MaxGeneration \in Nat
  /\ MaxFaults \in Nat

VARIABLES
  slot0, slot1, slot2,  \* the root set each CURRENT.n names, <<>> for none
  installed,            \* root set objects
  busy,                 \* the mutation lock: free, or what its holder does
  at,                   \* the next slot the holder writes
  target,               \* the root set it publishes
  owes,                 \* what the caller is told when the holder returns
  promised,             \* what callers have been told (observer)
  faults,               \* mutations that stopped half-way, for MaxFaults
  reads,                \* how many slots an unlocked reader has read
  seen0, seen1, seen2,  \* what it read in them
  window                \* the authorities since that reader began (observer)

slots == <<slot0, slot1, slot2>>
holder == <<busy, at, target, owes>>
seen == <<reads, seen0, seen1, seen2>>
vars == <<slots, installed, holder, promised, faults, seen, window>>

\* readQuorum over three pointers: the first one that another one agrees with.
QuorumOf(a, b, c) ==
  IF a # <<>> /\ (a = b \/ a = c) THEN a ELSE IF b = c THEN b ELSE <<>>

\* readCurrent(), or <<>> when it throws.
Current == QuorumOf(slot0, slot1, slot2)

Heads == HeadsOf(Current)

Init ==
  /\ slot0 = <<>> /\ slot1 = <<>> /\ slot2 = <<>>
  /\ installed = {}
  /\ busy = "free"
  /\ at = 0
  /\ target = <<>>
  /\ owes = {}
  /\ promised = {}
  /\ faults = 0
  /\ reads = 0
  /\ seen0 = <<>> /\ seen1 = <<>> /\ seen2 = <<>>
  /\ window = {}

-----------------------------------------------------------------------------
\* A reader's observer: the authority after every mutation step of a read.
Observe == window' = IF reads \in {1, 2} THEN window \cup {Current'} ELSE window

\* A mutation may begin.  With prompt repairs it never finds a slot that
\* disagrees with the authority.
MayBegin ==
  /\ busy = "free"
  /\ Repairs = "prompt" => Current = <<>> \/ (slot0 = Current /\ slot1 = Current /\ slot2 = Current)

\* The fault of pointing CURRENT at a root set that is not installed yet.
Publish_Fault(l, journal, told) ==
  /\ Len(Current) < MaxGeneration
  /\ target' = Published(Current, l, journal)
  /\ busy' = "publishing"
  /\ at' = 0
  /\ owes' = told
  /\ UNCHANGED <<slots, installed, promised, faults, seen>>

\* writeGraphState: the event and the successor root set are installed, and
\* publishRootSet finds it to descend from the authority it was built on.
Publish(l, journal, told) ==
  /\ Len(Current) < MaxGeneration
  /\ target' = Published(Current, l, journal)
  /\ installed' = installed \cup {Published(Current, l, journal)}
  /\ busy' = "publishing"
  /\ at' = 0
  /\ owes' = told
  /\ UNCHANGED <<slots, promised, faults, seen>>

\* create(): writeGraphState goes on without an authority when it reads none.
Create(l, k) ==
  /\ MayBegin
  /\ Heads[l] = <<>>
  /\ Publish(l, <<Entry(k, "completed")>>, {<<l, k>>})

\* The fault of an operation that does not look its key up.
RunOperation_Fault(l, k) ==
  /\ MayBegin
  /\ Heads[l] # <<>> /\ ~HasPending(Heads[l])
  /\ Publish(l, Append(Heads[l], Entry(k, "completed")), {<<l, k>>})

\* #runCompletedOperation, of a reducer transition or a gate, with a new key.
RunOperation(l, k) ==
  /\ MayBegin
  /\ Heads[l] # <<>>
  /\ k \notin Keys(Heads[l]) /\ ~HasPending(Heads[l])
  /\ Publish(l, Append(Heads[l], Entry(k, "completed")), {<<l, k>>})

\* beginReducerOperation
BeginOperation(l, k) ==
  /\ MayBegin
  /\ Heads[l] # <<>>
  /\ k \notin Keys(Heads[l]) /\ ~HasPending(Heads[l])
  /\ Publish(l, Append(Heads[l], Entry(k, "pending")), {})

\* completeReducerOperation of the pending key.
CompleteOperation(l, k) ==
  /\ MayBegin
  /\ k \in Keys(Heads[l]) \ Completed(Heads[l])
  /\ Publish(l, Complete(Heads[l], k), {<<l, k>>})

\* A retry finds its key completed, in START, run or complete, and returns
\* the recorded result; every other call throws and changes nothing.
Replay(l, k) ==
  /\ MayBegin
  /\ k \in Completed(Heads[l])
  /\ promised' = promised \cup {<<l, k>>}
  /\ UNCHANGED <<slots, installed, holder, faults, seen>>

\* repairCurrentPointers: a quorum is copied to the slots that disagree with
\* it; with none, a sole root set object of generation zero is.
Repair ==
  /\ busy = "free"
  /\ \/ target' = Current /\ Current # <<>>
     \/ /\ Current = <<>>
        /\ \E root \in installed : installed = {root} /\ Len(root) = 1 /\ target' = root
  /\ target' \in installed
  /\ busy' = "repairing"
  /\ at' = 0
  /\ owes' = {}
  /\ UNCHANGED <<slots, installed, promised, faults, seen>>

\* writePointer: one rename.
WriteSlot ==
  /\ busy # "free" /\ at < 3
  /\ slot0' = IF at = 0 THEN target ELSE slot0
  /\ slot1' = IF at = 1 THEN target ELSE slot1
  /\ slot2' = IF at = 2 THEN target ELSE slot2
  /\ at' = at + 1
  /\ UNCHANGED <<installed, busy, target, owes, promised, faults, seen>>

\* The fault of returning when the first slot is written.
Return_Fault ==
  /\ busy # "free" /\ at > 0
  /\ promised' = promised \cup owes
  /\ busy' = "free" /\ at' = 0 /\ target' = <<>> /\ owes' = {}
  /\ UNCHANGED <<slots, installed, faults, seen>>

\* The last readCurrent() shows the new root set; the lock is released and the
\* call returns.
Return ==
  /\ busy # "free" /\ at = 3
  /\ busy = "publishing" => Current = target
  /\ promised' = promised \cup owes
  /\ busy' = "free" /\ at' = 0 /\ target' = <<>> /\ owes' = {}
  /\ UNCHANGED <<slots, installed, faults, seen>>

\* The mutation stops: its caller learns nothing, the lock becomes free.
Fail ==
  /\ busy # "free"
  /\ faults < MaxFaults
  /\ faults' = faults + 1
  /\ busy' = "free" /\ at' = 0 /\ target' = <<>> /\ owes' = {}
  /\ UNCHANGED <<slots, installed, promised, seen>>

Mutation ==
  \/ \E l \in Lineage, k \in Key :
       \/ Create(l, k) \/ RunOperation(l, k) \/ Replay(l, k)
       \/ BeginOperation(l, k) \/ CompleteOperation(l, k)
  \/ Repair \/ WriteSlot \/ Return \/ Fail

-----------------------------------------------------------------------------
(* readCurrent() outside the lock: read(), STATUS, receipts, detection of  *)
(* legacy authorities.                                                     *)

ReadSlot ==
  /\ reads < 3
  /\ reads' = reads + 1
  /\ seen0' = IF reads = 0 THEN slot0 ELSE seen0
  /\ seen1' = IF reads = 1 THEN slot1 ELSE seen1
  /\ seen2' = IF reads = 2 THEN slot2 ELSE seen2
  /\ window' = window \cup {Current}
  /\ UNCHANGED <<slots, installed, holder, promised, faults>>

ReadAgain ==
  /\ reads = 3
  /\ reads' = 0
  /\ seen0' = <<>> /\ seen1' = <<>> /\ seen2' = <<>>
  /\ window' = {}
  /\ UNCHANGED <<slots, installed, holder, promised, faults>>

Next == (Mutation /\ Observe) \/ ReadSlot \/ ReadAgain

Spec == Init /\ [][Next]_vars

-----------------------------------------------------------------------------
TypeOK ==
  /\ installed \subseteq Chain \ {<<>>}
  /\ {slot0, slot1, slot2, target} \subseteq installed \cup {<<>>}
  /\ busy \in {"free", "publishing", "repairing"}
  /\ at \in 0 .. 3
  /\ owes \subseteq Lineage \X Key /\ promised \subseteq Lineage \X Key
  /\ faults \in 0 .. MaxFaults
  /\ reads \in 0 .. 3
  /\ {seen0, seen1, seen2} \subseteq installed \cup {<<>>}
  /\ window \subseteq installed \cup {<<>>}

\* What a caller was told stays so: the operation of every call that returned
\* is completed in the journal of the authority for ever, although later
\* mutations stop half-way and are retried.
PromiseKept == \A p \in promised : p[2] \in Completed(Heads[p[1]])

\* Whatever stopped before, a root set that CURRENT selects keeps every promise:
\* publication "preserves old-or-new authority" and otherwise denies
\* (tests/review-object-store.test.ts:50).
OldOrNew == Current # <<>> => PromiseKept

\* An unlocked read is consistent: what it resolves is a root set that was the
\* authority at some moment of the read, never one that was given up, and its
\* object is there.
ReadsAuthority ==
  reads = 3 =>
    LET root == QuorumOf(seen0, seen1, seen2)
    IN root = <<>> \/ (root \in window /\ root \in installed)

\* The store implements the authority: publication moves from a root set to a
\* successor of it in one step, whatever stops where.
Authority == INSTANCE ReviewAuthority WITH chain <- Current

AuthoritySpec == Authority!Spec

=============================================================================
