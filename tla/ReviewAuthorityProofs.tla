------------------------ MODULE ReviewAuthorityProofs -------------------------
(***************************************************************************)
(* Proofs about what a review rests on: the lock excludes when a repair is *)
(* only called for an owner that has died (ReviewLock); when every half-way *)
(* publication is repaired before the next one, the three slots behave like *)
(* one register that holds the authority (ReviewStore); a gate lets       *)
(* through only what was approved (ReviewGate); the repository has one     *)
(* identity (ReviewRepository); a view of a candidate goes with its last   *)
(* owner (CandidateOwners); and what a reviewer reads is the candidate     *)
(* that was on disk when it was frozen (CandidateTree).  They hold for any *)
(* number of processes, repairs, lineages, keys, generations, edits and    *)
(* faults, and for any sets of trees, callers, budgets, root commits,      *)
(* views, paths and contents.                                              *)
(***************************************************************************)
EXTENDS ReviewLock, ReviewStore, ReviewGate, ReviewRepository, CandidateOwners, CandidateTree,
        FiniteSetTheorems, TLAPS

-----------------------------------------------------------------------------
(* The lock.                                                               *)

Name(r) == <<kind[r], token[r]>>

\* The directory in place is the one repairer r observed.
Mine(r) ==
  /\ lock = token[r]
  /\ kind[r] = "stale" => signer = token[r]
  /\ kind[r] = "incomplete" => signer = None

\* What a living process may rely on at each point of acquire and release.
LiveInv(o) ==
  o \notin dead =>
    /\ pc[o] = "made" => lock = o /\ signer = None
    /\ pc[o] \in {"signed"} \cup InLock => lock = o /\ signer = o

\* The file system on its own: a signature stands in its signer's directory.
FileInv ==
  /\ lock = None => signer = None
  /\ signer \in Owner => lock = signer
  /\ NoLeftover

\* A repair under way has a dead target.  Its directory is still in place, or
\* the destination has been reserved by somebody, for good.
RepairInv(r) ==
  step[r] # "idle" =>
    /\ token[r] \in dead
    /\ step[r] = "reserved" => Mine(r) /\ Name(r) \in names
    /\ Mine(r) \/ Name(r) \in names

\* The name a release reserves exists only while that release is moving.
ReleaseName == \A o \in Owner : <<"released", o>> \in names => pc[o] = "reserved"

\* The destination's name admits one repairer.
Fence == \A r, s \in Repairer : step[r] = "reserved" /\ step[s] = "reserved" => r = s

LockInv ==
  /\ LockTypeOK
  /\ \A o \in Owner : LiveInv(o)
  /\ FileInv
  /\ \A r \in Repairer : RepairInv(r)
  /\ Fence
  /\ ReleaseName

-----------------------------------------------------------------------------
\* Nothing exists before the first acquire().
LEMMA LockInvInit == LockInit => LockInv
  <1> SUFFICES ASSUME LockInit PROVE LockInv
    OBVIOUS
  <1>1. LockTypeOK
    BY LockAssumption DEF LockInit, LockTypeOK, Place
  <1>2. ASSUME NEW o \in Owner PROVE LiveInv(o)
    BY DEF LockInit, LiveInv, InLock
  <1>3. FileInv
    BY LockAssumption DEF LockInit, FileInv, NoLeftover
  <1>4. \A r \in Repairer : RepairInv(r)
    BY DEF LockInit, RepairInv
  <1>5. Fence
    BY DEF LockInit, Fence
  <1>6. ReleaseName
    BY DEF LockInit, ReleaseName
  <1> QED BY <1>1, <1>2, <1>3, <1>4, <1>5, <1>6 DEF LockInv

\* Every call keeps the types.
LEMMA TypeStep == LockTypeOK /\ [LockNext]_lockVars => LockTypeOK'
  <1> SUFFICES ASSUME LockTypeOK, [LockNext]_lockVars PROVE LockTypeOK'
    OBVIOUS
  <1>1. ASSUME NEW o \in Owner, OwnerStep(o) PROVE LockTypeOK'
    BY <1>1 DEF LockTypeOK, Place, OwnerStep, Goes, WriteIntent, MakeLock, Sign, Confirm,
       CheckOwner, ReserveRelease, MoveReleased, Die, DieSigning, fsVars, repairVars
  <1>2. ASSUME NEW r \in Repairer, RepairStep(r) PROVE LockTypeOK'
    <2>1. ASSUME NEW k \in RepairKind, NEW o \in Owner, ObserveOwner(r, k, o) PROVE LockTypeOK'
      BY <2>1, LockAssumption DEF LockTypeOK, ObserveOwner, fsVars
    <2>2. CASE ProveDead(r)
      BY <2>2 DEF LockTypeOK, ProveDead, fsVars
    <2>3. <<kind[r], token[r]>> \in {"released", "stale", "incomplete"} \X Owner
      BY DEF LockTypeOK
    <2>4. CASE ReserveStale(r)
      BY <2>3, <2>4 DEF LockTypeOK, ReserveStale
    <2>5. CASE MoveStale(r)
      BY <2>5 DEF LockTypeOK, MoveStale
    <2> QED BY <1>2, <2>1, <2>2, <2>4, <2>5 DEF RepairStep
  <1>3. CASE UNCHANGED lockVars
    BY <1>3 DEF LockTypeOK, lockVars, fsVars, repairVars
  <1> QED BY <1>1, <1>2, <1>3 DEF LockNext

\* Every call of a process that holds or wants the lock keeps the invariant.
LEMMA OwnerKeeps ==
  ASSUME LockInv, NEW o \in Owner, OwnerStep(o)
  PROVE  (\A p \in Owner : LiveInv(p)') /\ FileInv' /\ (\A r \in Repairer : RepairInv(r)') /\ Fence'
  <1> USE LockAssumption
  <1>f. Fence'
    BY DEF LockInv, Fence, OwnerStep, WriteIntent, MakeLock, Sign, Confirm, CheckOwner,
       ReserveRelease, MoveReleased, Die, DieSigning, repairVars
  <1>1. CASE WriteIntent(o)
    BY <1>1, <1>f DEF LockInv, LockTypeOK, LiveInv, FileInv, NoLeftover, RepairInv, Mine, Name, InLock,
       WriteIntent, Goes, repairVars
  <1>2. CASE MakeLock(o)
    BY <1>2, <1>f DEF LockInv, LockTypeOK, LiveInv, FileInv, NoLeftover, RepairInv, Mine, Name, InLock,
       MakeLock, Goes, repairVars
  <1>3. CASE Sign(o)
    BY <1>3, <1>f DEF LockInv, LockTypeOK, LiveInv, FileInv, NoLeftover, RepairInv, Mine, Name, InLock,
       Sign, Goes, repairVars
  <1>4. CASE Confirm(o)
    BY <1>4, <1>f DEF LockInv, LockTypeOK, LiveInv, FileInv, NoLeftover, RepairInv, Mine, Name, InLock,
       Confirm, Goes, repairVars
  <1>5. CASE CheckOwner(o)
    BY <1>5, <1>f DEF LockInv, LockTypeOK, LiveInv, FileInv, NoLeftover, RepairInv, Mine, Name, InLock,
       CheckOwner, Goes, fsVars, repairVars
  <1>6. CASE ReserveRelease(o)
    <2>1. /\ lock' = lock /\ signer' = signer /\ dead' = dead
          /\ step' = step /\ kind' = kind /\ token' = token
          /\ names \subseteq names'
          /\ o \notin dead /\ pc[o] = "releasing"
          /\ pc' = [pc EXCEPT ![o] = pc'[o]] /\ pc'[o] \in {"reserved", "failed"}
      BY <1>6 DEF LockInv, LockTypeOK, ReserveRelease, Goes, repairVars
    <2>2. lock = o /\ signer = o
      BY <2>1 DEF LockInv, LiveInv, InLock
    <2>3. pc'[o] = "reserved"
      BY <1>6, <2>1, <2>2 DEF LockInv, LockTypeOK, ReleaseName, ReserveRelease, Goes
    <2>4. \A p \in Owner : LiveInv(p)'
      BY <2>1, <2>2, <2>3 DEF LockInv, LockTypeOK, LiveInv, InLock
    <2>5. FileInv'
      BY <2>1, <2>2, <2>3 DEF LockInv, LockTypeOK, FileInv, NoLeftover, InLock
    <2>6. \A r \in Repairer : RepairInv(r)'
      BY <2>1 DEF LockInv, RepairInv, Mine, Name
    <2> QED BY <1>f, <2>4, <2>5, <2>6
  <1>7. CASE MoveReleased(o)
    BY <1>7, <1>f DEF LockInv, LockTypeOK, LiveInv, FileInv, NoLeftover, RepairInv, Mine, Name, InLock,
       MoveReleased, Goes, repairVars
  <1>8. CASE Die(o)
    BY <1>8, <1>f DEF LockInv, LockTypeOK, LiveInv, FileInv, NoLeftover, RepairInv, Mine, Name, InLock,
       Die, fsVars, repairVars
  <1>9. CASE DieSigning(o)
    BY <1>9, <1>f DEF LockInv, LockTypeOK, LiveInv, FileInv, NoLeftover, RepairInv, Mine, Name, InLock,
       DieSigning, repairVars
  <1> QED BY <1>1, <1>2, <1>3, <1>4, <1>5, <1>6, <1>7, <1>8, <1>9 DEF OwnerStep

\* Every call of a repair keeps it, provided its caller was informed.
LEMMA LockRepairKeeps ==
  ASSUME Caller = "informed", LockInv, NEW r \in Repairer, RepairStep(r)
  PROVE  (\A p \in Owner : LiveInv(p)') /\ FileInv' /\ (\A s \in Repairer : RepairInv(s)') /\ Fence'
  <1> USE LockAssumption
  <1>1. ASSUME NEW k \in RepairKind, NEW o \in Owner, ObserveOwner(r, k, o)
        PROVE  (\A p \in Owner : LiveInv(p)') /\ FileInv' /\ (\A s \in Repairer : RepairInv(s)') /\ Fence'
    <2>1. (\A p \in Owner : LiveInv(p)') /\ FileInv'
      BY <1>1 DEF LockInv, LiveInv, FileInv, NoLeftover, InLock, ObserveOwner, fsVars
    <2>2. RepairInv(r)'
      BY <1>1 DEF LockInv, LockTypeOK, RepairInv, Mine, Name, ObserveOwner, Observed, MayCall, fsVars
    <2>3. ASSUME NEW s \in Repairer, s # r PROVE RepairInv(s)'
      BY <1>1, <2>3 DEF LockInv, LockTypeOK, RepairInv, Mine, Name, ObserveOwner, fsVars
    <2>4. Fence'
      BY <1>1 DEF LockInv, LockTypeOK, Fence, ObserveOwner
    <2> QED BY <2>1, <2>2, <2>3, <2>4
  <1>2. CASE ProveDead(r)
    <2>1. (\A p \in Owner : LiveInv(p)') /\ FileInv'
      BY <1>2 DEF LockInv, LiveInv, FileInv, NoLeftover, InLock, ProveDead, fsVars
    <2>2. ASSUME NEW s \in Repairer PROVE RepairInv(s)'
      BY <1>2, <2>2 DEF LockInv, LockTypeOK, RepairInv, Mine, Name, ProveDead, fsVars
    <2>3. Fence'
      BY <1>2 DEF LockInv, LockTypeOK, Fence, ProveDead
    <2> QED BY <2>1, <2>2, <2>3
  <1>3. CASE ReserveStale(r)
    <2>1. (\A p \in Owner : LiveInv(p)') /\ FileInv'
      BY <1>3 DEF LockInv, LiveInv, FileInv, NoLeftover, InLock, ReserveStale
    <2>2. ASSUME NEW s \in Repairer PROVE RepairInv(s)'
      BY <1>3, <2>2 DEF LockInv, LockTypeOK, RepairInv, Mine, Name, ReserveStale
    <2>3. ASSUME step'[r] = "reserved", NEW s \in Repairer, s # r, step[s] = "reserved" PROVE FALSE
      <3>1. Mine(r) /\ Name(r) \notin names
        BY <1>3, <2>3 DEF LockInv, LockTypeOK, RepairInv, Name, ReserveStale
      <3>2. Mine(s) /\ Name(s) \in names
        BY <2>3 DEF LockInv, RepairInv
      <3>3. token[r] = token[s] /\ kind[r] = kind[s]
        BY <3>1, <3>2 DEF Mine, LockInv, LockTypeOK
      <3> QED BY <3>1, <3>2, <3>3 DEF Name
    <2>4. Fence'
      BY <1>3, <2>3 DEF LockInv, LockTypeOK, Fence, ReserveStale
    <2> QED BY <2>1, <2>2, <2>4
  <1>4. CASE MoveStale(r)
    <2>1. Mine(r) /\ Name(r) \in names /\ token[r] \in dead /\ token[r] \in Owner
      BY <1>4 DEF LockInv, LockTypeOK, RepairInv, MoveStale
    <2>2. lock # None /\ names' = names /\ lock' = None /\ signer' = None
      BY <1>4, <2>1 DEF Mine, MoveStale
    <2>3. (\A p \in Owner : LiveInv(p)') /\ FileInv'
      BY <1>4, <2>1, <2>2 DEF LockInv, LockTypeOK, LiveInv, FileInv, NoLeftover, InLock, Mine, MoveStale
    <2>4. ASSUME NEW s \in Repairer PROVE RepairInv(s)'
      <3>1. CASE s = r
        BY <1>4, <3>1 DEF LockInv, LockTypeOK, RepairInv, MoveStale
      <3>2. CASE s # r
        <4>1. step[s] # "reserved" /\ step'[s] = step[s] /\ kind' = kind /\ token' = token
          BY <1>4, <3>2 DEF LockInv, LockTypeOK, Fence, MoveStale
        <4>2. Mine(s) => Name(s) = Name(r)
          BY <2>1 DEF LockInv, LockTypeOK, Mine, Name
        <4> QED BY <1>4, <2>1, <2>2, <4>1, <4>2 DEF LockInv, RepairInv, Name, MoveStale
      <3> QED BY <3>1, <3>2
    <2>5. Fence'
      BY <1>4 DEF LockInv, LockTypeOK, Fence, MoveStale
    <2> QED BY <2>3, <2>4, <2>5
  <1> QED BY <1>1, <1>2, <1>3, <1>4 DEF RepairStep

\* Only ReserveRelease makes the name of a release, and MoveReleased, which
\* alone leaves "reserved" behind, unmakes it.
LEMMA NameKeeps == LockInv /\ [LockNext]_lockVars => ReleaseName'
  <1> SUFFICES ASSUME LockInv, [LockNext]_lockVars, NEW p \in Owner, <<"released", p>> \in names'
               PROVE  pc'[p] = "reserved"
    BY DEF ReleaseName
  <1> USE LockAssumption DEF LockInv, LockTypeOK, ReleaseName
  <1>1. ASSUME NEW o \in Owner, OwnerStep(o) PROVE pc'[p] = "reserved"
    <2>1. CASE ReserveRelease(o)
      BY <2>1 DEF ReserveRelease, Goes
    <2>2. CASE MoveReleased(o)
      BY <2>2 DEF MoveReleased, Goes
    <2>3. CASE WriteIntent(o) \/ MakeLock(o) \/ Sign(o) \/ Confirm(o) \/ CheckOwner(o)
      BY <2>3 DEF WriteIntent, MakeLock, Sign, Confirm, CheckOwner, Goes, fsVars
    <2>4. CASE Die(o) \/ DieSigning(o)
      BY <2>4 DEF Die, DieSigning, fsVars
    <2> QED BY <1>1, <2>1, <2>2, <2>3, <2>4 DEF OwnerStep
  <1>2. ASSUME NEW r \in Repairer, RepairStep(r) PROVE pc'[p] = "reserved"
    <2>1. pc' = pc
      BY <1>2 DEF RepairStep, ObserveOwner, ProveDead, ReserveStale, MoveStale
    <2>2. kind[r] # "released"
      OBVIOUS
    <2>3. <<"released", p>> \in names
      BY <1>2, <2>2 DEF RepairStep, ObserveOwner, ProveDead, ReserveStale, MoveStale, fsVars
    <2> QED BY <2>1, <2>3
  <1>3. CASE UNCHANGED lockVars
    BY <1>3 DEF lockVars, fsVars
  <1> QED BY <1>1, <1>2, <1>3 DEF LockNext

\* The invariant is inductive.
LEMMA LockInvStep ==
  ASSUME Caller = "informed" PROVE LockInv /\ [LockNext]_lockVars => LockInv'
  <1> SUFFICES ASSUME LockInv, [LockNext]_lockVars PROVE LockInv'
    OBVIOUS
  <1>1. LockTypeOK' /\ ReleaseName'
    BY TypeStep, NameKeeps DEF LockInv
  <1>2. ASSUME NEW o \in Owner, OwnerStep(o) PROVE LockInv'
    BY <1>1, <1>2, OwnerKeeps DEF LockInv
  <1>3. ASSUME NEW r \in Repairer, RepairStep(r) PROVE LockInv'
    BY <1>1, <1>3, LockRepairKeeps DEF LockInv
  <1>4. CASE UNCHANGED lockVars
    BY <1>1, <1>4 DEF LockInv, LiveInv, FileInv, NoLeftover, RepairInv, Mine, Name, Fence, lockVars,
       fsVars, repairVars
  <1> QED BY <1>2, <1>3, <1>4 DEF LockNext

-----------------------------------------------------------------------------
\* LockInv holds throughout every behaviour with informed repairs.
THEOREM LockInvariance ==
  ASSUME Caller = "informed" PROVE LockSpec => []LockInv
  BY LockInvInit, LockInvStep, PTL DEF LockSpec

\* Variables keep their types whoever calls the repairs.
THEOREM LockTypeCorrect == LockSpec => []LockTypeOK
  <1>1. LockInit => LockTypeOK
    BY LockInvInit DEF LockInv
  <1> QED BY <1>1, TypeStep, PTL DEF LockSpec

\* A living holder finds its own directory and signature in place until it
\* moves them itself (acquire, release).
THEOREM HolderKeepsLock ==
  ASSUME Caller = "informed" PROVE LockSpec => []HolderOwnsLock
  <1>1. LockInv => HolderOwnsLock
    BY DEF LockInv, LiveInv, HolderOwnsLock, Holds
  <1> QED BY <1>1, LockInvariance, PTL

\* acquire() never succeeds while another living process holds the lock,
\* with any number of competing repairs of earlier deaths.
THEOREM LockExcludes ==
  ASSUME Caller = "informed" PROVE LockSpec => []MutualExclusion
  <1>1. LockInv => MutualExclusion
    BY DEF LockInv, LiveInv, MutualExclusion, Holds
  <1> QED BY <1>1, LockInvariance, PTL

\* A released lock leaves no directory behind.
THEOREM ReleaseLeavesNothing ==
  ASSUME Caller = "informed" PROVE LockSpec => []NoLeftover
  <1>1. LockInv => NoLeftover
    BY DEF LockInv, FileInv
  <1> QED BY <1>1, LockInvariance, PTL

\* The rename of a repair hits the dead owner it was called for: the name of
\* the destination fences every other one off.
THEOREM RepairMovesObserved ==
  ASSUME Caller = "informed" PROVE LockSpec => MovesOnlyObserved
  <1> DEFINE Hit == \A r \in Repairer :
               step[r] = "reserved" /\ step'[r] = "idle" /\ lock # None =>
                 lock = token[r] /\ token[r] \in dead
  <1>1. LockInv /\ [LockNext]_lockVars => [Hit]_lockVars
    BY DEF LockInv, RepairInv, Mine
  <1> QED BY <1>1, LockInvariance, PTL DEF LockSpec, MovesOnlyObserved

-----------------------------------------------------------------------------
(* The store.                                                              *)

\* Where a publication stands: the slots below `at` hold the new root set, the
\* others agree on the old one, which it succeeds.
Publishing ==
  /\ at = 0 => slot1 = slot2 /\ (slot1 # <<>> => slot0 = slot1) /\ Successor(slot1, target)
  /\ at = 1 => slot0 = target /\ slot1 = slot2 /\ Successor(slot1, target)
  /\ at \in {2, 3} => slot0 = target /\ slot1 = target
  /\ at = 3 => slot2 = target
  /\ \A p \in owes : p[2] \in Completed(HeadsOf(target)[p[1]])

\* A repair copies the authority, or the first root set there ever was.
Repairing ==
  /\ owes = {}
  /\ \/ Current = target
     \/ /\ slot1 = <<>> /\ slot2 = <<>> /\ at \in {0, 1}
        /\ at = 1 => slot0 = target
        /\ Successor(<<>>, target)

\* The authority is never lost; before it exists CURRENT.1 and CURRENT.2 do
\* not, and a root set of generation zero can only follow nothing.
SlotInv ==
  /\ Current = <<>> => slot1 = <<>> /\ slot2 = <<>>
  /\ busy # "free" => target # <<>>
  /\ busy = "publishing" => Publishing
  /\ busy = "repairing" => Repairing
  /\ \A rs \in installed : Len(rs) = 1 => Successor(<<>>, rs)

\* What the reader has read and may still find again has been the authority.
ReadInv ==
  /\ reads = 1 /\ seen0 # <<>> /\ (seen0 = slot1 \/ seen0 = slot2) => seen0 \in window
  /\ reads = 2 /\ seen0 # <<>> /\ (seen0 = seen1 \/ seen0 = slot2) => seen0 \in window
  /\ reads = 2 /\ seen1 # <<>> /\ seen1 = slot2 => seen1 \in window
  /\ reads = 3 /\ seen0 # <<>> /\ (seen0 = seen1 \/ seen0 = seen2) => seen0 \in window
  /\ reads = 3 /\ seen1 # <<>> /\ seen1 = seen2 => seen1 \in window

StoreInv == TypeOK /\ SlotInv /\ PromiseKept /\ ReadInv

-----------------------------------------------------------------------------
(* Journals and chains.                                                    *)

\* A chain keeps its heads in a journal per lineage.
LEMMA HeadsType ==
  ASSUME NEW c \in Chain PROVE HeadsOf(c) \in [Lineage -> Journal]
  <1>1. <<>> \in Journal
    BY DEF Journal
  <1>2. NoLineage \in [Lineage -> Journal]
    BY <1>1 DEF NoLineage
  <1>3. c # <<>> => c[Len(c)] \in [Lineage -> Journal]
    <2>1. c # <<>> => Len(c) \in 1 .. Len(c)
      BY DEF Chain
    <2> QED BY <2>1 DEF Chain
  <1> QED BY <1>2, <1>3 DEF HeadsOf

\* writeGraphState appends one root set that differs in one lineage.
LEMMA PublishedIs ==
  ASSUME NEW c \in Chain, NEW l \in Lineage, NEW j \in Journal
  PROVE  /\ Published(c, l, j) \in Chain \ {<<>>}
         /\ Len(Published(c, l, j)) = Len(c) + 1
         /\ HeadsOf(Published(c, l, j)) = [HeadsOf(c) EXCEPT ![l] = j]
  <1> DEFINE h == [HeadsOf(c) EXCEPT ![l] = j]
  <1>1. h \in [Lineage -> Journal]
    BY HeadsType
  <1> HIDE DEF h
  <1>2. Append(c, h) \in Chain /\ Len(Append(c, h)) = Len(c) + 1 /\ Append(c, h)[Len(c) + 1] = h
    BY <1>1 DEF Chain
  <1>3. Append(c, h) # <<>>
    BY <1>1 DEF Chain
  <1>4. HeadsOf(Append(c, h)) = h
    BY <1>2, <1>3 DEF HeadsOf
  <1> QED BY <1>2, <1>3, <1>4 DEF Published, h

\* A new key is appended to a journal.
LEMMA AppendIs ==
  ASSUME NEW j \in Journal, NEW k \in Key, NEW s \in {"pending", "completed"}
  PROVE  /\ Append(j, Entry(k, s)) \in Journal
         /\ Completed(j) \subseteq Completed(Append(j, Entry(k, s)))
         /\ s = "completed" => k \in Completed(Append(j, Entry(k, s)))
  <1> DEFINE n == Append(j, Entry(k, s))
  <1>1. Entry(k, s) \in [key : Key, status : {"pending", "completed"}]
    BY DEF Entry
  <1>2. n \in Journal /\ Len(n) = Len(j) + 1 /\ DOMAIN n = 1 .. Len(j) + 1
    BY <1>1 DEF Journal
  <1>3. \A i \in DOMAIN j : i \in DOMAIN n /\ n[i] = j[i]
    BY <1>1, <1>2 DEF Journal
  <1>4. n[Len(j) + 1] = Entry(k, s) /\ Len(j) + 1 \in DOMAIN n
    BY <1>1, <1>2 DEF Journal
  <1>5. Entry(k, s).key = k /\ Entry(k, s).status = s
    BY DEF Entry
  <1> HIDE DEF n
  <1>6. Completed(j) \subseteq Completed(n)
    BY <1>3 DEF Completed
  <1>7. s = "completed" => k \in Completed(n)
    BY <1>4, <1>5 DEF Completed
  <1> QED BY <1>2, <1>6, <1>7 DEF n

\* Completing a key completes it and undoes nothing.
LEMMA CompleteIs ==
  ASSUME NEW j \in Journal, NEW k \in Key
  PROVE  /\ Complete(j, k) \in Journal
         /\ Completed(j) \subseteq Completed(Complete(j, k))
         /\ k \in Keys(j) => k \in Completed(Complete(j, k))
  <1>1. Entry(k, "completed") \in [key : Key, status : {"pending", "completed"}]
        /\ Entry(k, "completed").key = k /\ Entry(k, "completed").status = "completed"
    BY DEF Entry
  <1>2. Complete(j, k) \in Journal /\ DOMAIN Complete(j, k) = DOMAIN j
    BY <1>1 DEF Complete, Journal
  <1>3. \A i \in DOMAIN j :
          Complete(j, k)[i] = IF j[i].key = k THEN Entry(k, "completed") ELSE j[i]
    BY DEF Complete
  <1>4. Completed(j) \subseteq Completed(Complete(j, k))
    BY <1>1, <1>2, <1>3 DEF Completed
  <1>5. k \in Keys(j) => k \in Completed(Complete(j, k))
    BY <1>1, <1>2, <1>3 DEF Keys, Completed
  <1> QED BY <1>2, <1>4, <1>5

\* The abstract specification means the same by a successor.
LEMMA SameSuccessor ==
  ASSUME NEW c, NEW d PROVE Authority!Successor(c, d) <=> Successor(c, d)
  BY DEF Authority!Successor, Authority!Step, Authority!HeadsOf, Authority!Published,
     Authority!NoLineage, Authority!Entry, Authority!Keys, Authority!HasPending,
     Authority!Complete, Successor, Step, HeadsOf, Published, NoLineage, Entry, Keys,
     HasPending, Complete

\* Nothing that is completed is undone by a successor root set.
LEMMA SuccessorKeeps ==
  ASSUME NEW c \in Chain, NEW d, Successor(c, d), NEW m \in Lineage
  PROVE  Completed(HeadsOf(c)[m]) \subseteq Completed(HeadsOf(d)[m])
  <1>1. PICK l \in Lineage, k \in Key :
          Step(HeadsOf(c)[l], k, HeadsOf(d)[l]) /\ d = Published(c, l, HeadsOf(d)[l])
    BY DEF Successor
  <1> DEFINE j == HeadsOf(c)[l]  n == HeadsOf(d)[l]
  <1>2. j \in Journal
    BY HeadsType
  <1>3. n \in Journal /\ Completed(j) \subseteq Completed(n)
    <2>1. CASE j = <<>> /\ n = <<Entry(k, "completed")>>
      <3>1. n = Append(j, Entry(k, "completed"))
        BY <2>1
      <3> QED BY <1>2, <3>1, AppendIs
    <2>2. CASE \E s \in {"pending", "completed"} : n = Append(j, Entry(k, s))
      BY <1>2, <2>2, AppendIs
    <2>3. CASE n = Complete(j, k)
      BY <1>2, <2>3, CompleteIs
    <2> QED BY <1>1, <2>1, <2>2, <2>3 DEF Step
  <1>4. HeadsOf(d) = [HeadsOf(c) EXCEPT ![l] = n]
    BY <1>1, <1>3, PublishedIs
  <1>5. HeadsOf(c) \in [Lineage -> Journal]
    BY HeadsType
  <1> HIDE DEF j, n
  <1> QED BY <1>3, <1>4, <1>5 DEF j

\* The root set of an operation that follows the rules of the journal succeeds
\* the one it was built on.
LEMMA StepSucceeds ==
  ASSUME NEW c \in Chain, NEW l \in Lineage, NEW k \in Key, NEW j \in Journal,
         Step(HeadsOf(c)[l], k, j)
  PROVE  Successor(c, Published(c, l, j)) /\ HeadsOf(Published(c, l, j))[l] = j
  <1>1. HeadsOf(Published(c, l, j)) = [HeadsOf(c) EXCEPT ![l] = j]
    BY PublishedIs
  <1>2. HeadsOf(Published(c, l, j))[l] = j
    BY <1>1, HeadsType
  <1> QED BY <1>2 DEF Successor

\* A key that is in the journal and not completed is pending.
LEMMA PendingEntry ==
  ASSUME NEW j \in Journal, NEW k \in Keys(j) \ Completed(j)
  PROVE  Entry(k, "pending") \in {j[i] : i \in DOMAIN j}
  <1>1. PICK i \in DOMAIN j : j[i].key = k
    BY DEF Keys
  <1>a. j[i].status # "completed"
    BY <1>1 DEF Completed
  <1>b. DOMAIN j = 1 .. Len(j)
    BY DEF Journal
  <1>2. j[i] \in [key : Key, status : {"pending", "completed"}]
    <2> DEFINE S == [key : Key, status : {"pending", "completed"}]
    <2>1. j \in Seq(S)
      BY DEF Journal
    <2> HIDE DEF S
    <2>2. j[i] \in S
      BY <1>b, <2>1
    <2> QED BY <2>2 DEF S
  <1>3. j[i] = Entry(k, "pending")
    BY <1>1, <1>a, <1>2 DEF Entry
  <1> QED BY <1>3

-----------------------------------------------------------------------------
(* The invariant.                                                          *)

\* Nothing is there before the first START.
LEMMA StoreInvInit == Init => StoreInv
  <1> SUFFICES ASSUME Init PROVE StoreInv
    OBVIOUS
  <1>1. TypeOK
    BY StoreAssumption DEF Init, TypeOK
  <1>2. SlotInv
    BY DEF Init, SlotInv, Current, QuorumOf
  <1>3. PromiseKept /\ ReadInv
    BY DEF Init, PromiseKept, ReadInv
  <1> QED BY <1>1, <1>2, <1>3 DEF StoreInv

\* The authority is one of the slots.
LEMMA CurrentType == TypeOK => Current \in installed \cup {<<>>} /\ Current \in Chain
  <1> SUFFICES ASSUME TypeOK PROVE Current \in installed \cup {<<>>} /\ Current \in Chain
    OBVIOUS
  <1>1. Current \in installed \cup {<<>>}
    BY DEF TypeOK, Current, QuorumOf
  <1>2. <<>> \in Chain
    BY DEF Chain
  <1> QED BY <1>1, <1>2 DEF TypeOK

\* A mutation that starts to publish leaves the authority as it is.
LEMMA PublishKeeps ==
  ASSUME Repairs = "prompt", StoreInv, MayBegin, Observe,
         NEW l \in Lineage, NEW k \in Key, NEW j \in Journal, NEW told \in SUBSET {<<l, k>>},
         Step(Heads[l], k, j), told # {} => k \in Completed(j), Publish(l, j, told)
  PROVE  StoreInv' /\ Current' = Current
  <1> DEFINE new == Published(Current, l, j)
  <1>1. Current' = Current
    BY DEF Publish, slots, Current
  <1>2. /\ new \in Chain \ {<<>>} /\ Len(new) = Len(Current) + 1
        /\ Successor(Current, new) /\ HeadsOf(new)[l] = j
    BY CurrentType, PublishedIs, StepSucceeds DEF StoreInv, Heads
  <1>3. /\ target' = new /\ installed' = installed \cup {new} /\ busy' = "publishing"
        /\ at' = 0 /\ owes' = told
        /\ slot0' = slot0 /\ slot1' = slot1 /\ slot2' = slot2
        /\ promised' = promised /\ faults' = faults
        /\ reads' = reads /\ seen0' = seen0 /\ seen1' = seen1 /\ seen2' = seen2
    BY DEF Publish, slots, seen
  <1> HIDE DEF new
  <1>4. window' \subseteq installed' \cup {<<>>} /\ window \subseteq window'
    BY <1>1, <1>3, CurrentType DEF Observe, StoreInv, TypeOK
  <1>5. TypeOK'
    <2>1. installed' \subseteq Chain \ {<<>>}
      BY <1>2, <1>3 DEF StoreInv, TypeOK
    <2>2. {slot0, slot1, slot2, target}' \subseteq installed' \cup {<<>>}
      BY <1>3 DEF StoreInv, TypeOK
    <2>3. owes' \subseteq Lineage \X Key
      BY <1>3
    <2> QED BY <1>3, <1>4, <2>1, <2>2, <2>3 DEF StoreInv, TypeOK
  <1>6. SlotInv'
    <2>1. slot1 = Current /\ slot2 = Current /\ (slot1 # <<>> => slot0 = slot1)
      BY DEF StoreInv, SlotInv, MayBegin
    <2>2. \A p \in owes' : p[2] \in Completed(HeadsOf(target')[p[1]])
      BY <1>2, <1>3
    <2>3. Publishing'
      BY <1>2, <1>3, <2>1, <2>2 DEF Publishing
    <2>4. \A rs \in installed' : Len(rs) = 1 => Successor(<<>>, rs)
      <3>1. Len(new) = 1 => Current = <<>>
        BY <1>2, CurrentType DEF StoreInv, Chain
      <3> QED BY <1>2, <1>3, <3>1 DEF StoreInv, SlotInv
    <2>5. target' # <<>>
      BY <1>2, <1>3
    <2> QED BY <1>1, <1>3, <2>3, <2>4, <2>5 DEF StoreInv, SlotInv
  <1>7. PromiseKept'
    BY <1>1, <1>3 DEF StoreInv, PromiseKept, Heads
  <1>8. ReadInv'
    BY <1>3, <1>4 DEF StoreInv, ReadInv
  <1> QED BY <1>1, <1>5, <1>6, <1>7, <1>8 DEF StoreInv

\* The five journalled operations.
LEMMA OperationKeeps ==
  ASSUME Repairs = "prompt", StoreInv, Observe, NEW l \in Lineage, NEW k \in Key,
         Create(l, k) \/ RunOperation(l, k) \/ BeginOperation(l, k) \/ CompleteOperation(l, k)
  PROVE  StoreInv' /\ Current' = Current
  <1>1. Heads[l] \in Journal
    BY CurrentType, HeadsType DEF StoreInv, Heads
  <1>2. CASE Create(l, k)
    <2>1. <<Entry(k, "completed")>> = Append(Heads[l], Entry(k, "completed")) /\ Heads[l] = <<>>
      BY <1>2 DEF Create
    <2>2. /\ <<Entry(k, "completed")>> \in Journal
          /\ k \in Completed(<<Entry(k, "completed")>>)
      BY <1>1, <2>1, AppendIs
    <2>3. Step(Heads[l], k, <<Entry(k, "completed")>>)
      BY <2>1 DEF Step
    <2> QED BY <1>2, <2>2, <2>3, PublishKeeps DEF Create
  <1>3. CASE RunOperation(l, k)
    <2>1. /\ Append(Heads[l], Entry(k, "completed")) \in Journal
          /\ k \in Completed(Append(Heads[l], Entry(k, "completed")))
      BY <1>1, AppendIs
    <2>2. Step(Heads[l], k, Append(Heads[l], Entry(k, "completed")))
      BY <1>3 DEF Step, RunOperation
    <2> QED BY <1>3, <2>1, <2>2, PublishKeeps DEF RunOperation
  <1>4. CASE BeginOperation(l, k)
    <2>1. Append(Heads[l], Entry(k, "pending")) \in Journal
      BY <1>1, AppendIs
    <2>2. Step(Heads[l], k, Append(Heads[l], Entry(k, "pending")))
      BY <1>4 DEF Step, BeginOperation
    <2> QED BY <1>4, <2>1, <2>2, PublishKeeps DEF BeginOperation
  <1>5. CASE CompleteOperation(l, k)
    <2>1. Complete(Heads[l], k) \in Journal /\ k \in Completed(Complete(Heads[l], k))
      BY <1>1, <1>5, CompleteIs DEF CompleteOperation
    <2>2. Step(Heads[l], k, Complete(Heads[l], k))
      BY <1>1, <1>5, PendingEntry DEF Step, CompleteOperation
    <2> QED BY <1>5, <2>1, <2>2, PublishKeeps DEF CompleteOperation
  <1> QED BY <1>2, <1>3, <1>4, <1>5

\* A retry that finds its key completed, and a repair that starts.
LEMMA ReplayKeeps ==
  ASSUME StoreInv, Observe, NEW l \in Lineage, NEW k \in Key, Replay(l, k)
  PROVE  StoreInv' /\ Current' = Current
  <1>1. /\ Current' = Current
        /\ UNCHANGED <<slot0, slot1, slot2, installed, busy, at, target, owes, faults,
                       reads, seen0, seen1, seen2>>
        /\ promised' = promised \cup {<<l, k>>}
    BY DEF Replay, Current, slots, holder, seen
  <1>2. window' \subseteq installed' \cup {<<>>} /\ window \subseteq window'
    BY <1>1, CurrentType DEF Observe, StoreInv, TypeOK
  <1>3. TypeOK'
    BY <1>1, <1>2 DEF StoreInv, TypeOK
  <1>4. SlotInv'
    BY <1>1 DEF StoreInv, SlotInv, Publishing, Repairing
  <1>5. PromiseKept'
    BY <1>1 DEF StoreInv, PromiseKept, Heads, Replay
  <1>6. ReadInv'
    BY <1>1, <1>2 DEF StoreInv, ReadInv
  <1> QED BY <1>1, <1>3, <1>4, <1>5, <1>6 DEF StoreInv

\* A repair begins: it holds the authority, or the first root set there ever was.
LEMMA StoreRepairKeeps ==
  ASSUME StoreInv, Observe, Repair
  PROVE  StoreInv' /\ Current' = Current
  <1>1. /\ Current' = Current
        /\ UNCHANGED <<slot0, slot1, slot2, installed, promised, faults,
                       reads, seen0, seen1, seen2>>
        /\ busy' = "repairing" /\ at' = 0 /\ owes' = {} /\ target' \in installed
    BY DEF Repair, Current, slots, seen
  <1>2. window' \subseteq installed' \cup {<<>>} /\ window \subseteq window'
    BY <1>1, CurrentType DEF Observe, StoreInv, TypeOK
  <1>3. TypeOK'
    BY <1>1, <1>2 DEF StoreInv, TypeOK
  <1>4. SlotInv'
    <2>1. target' # <<>>
      BY <1>1 DEF StoreInv, TypeOK
    <2>2. target' = Current \/ (Current = <<>> /\ Successor(<<>>, target'))
      BY DEF Repair, StoreInv, SlotInv
    <2>3. Repairing'
      BY <1>1, <2>2 DEF Repairing, StoreInv, SlotInv
    <2> QED BY <1>1, <2>1, <2>3 DEF StoreInv, SlotInv
  <1>5. PromiseKept'
    BY <1>1 DEF StoreInv, PromiseKept, Heads
  <1>6. ReadInv'
    BY <1>1, <1>2 DEF StoreInv, ReadInv
  <1> QED BY <1>1, <1>3, <1>4, <1>5, <1>6 DEF StoreInv

\* One rename: the authority stays or moves to the target, a successor.  A
\* root set that reaches CURRENT.1 or CURRENT.2 is the authority by then.
LEMMA WriteKeeps ==
  ASSUME StoreInv, Observe, WriteSlot
  PROVE  StoreInv' /\ (Current' = Current \/ Successor(Current, Current'))
  <1>1. /\ UNCHANGED <<installed, busy, target, owes, promised, faults,
                       reads, seen0, seen1, seen2>>
        /\ at' = at + 1 /\ at \in 0 .. 2 /\ busy \in {"publishing", "repairing"}
        /\ target \in installed /\ target # <<>>
    BY DEF WriteSlot, StoreInv, TypeOK, SlotInv, seen
  <1>2. /\ at = 0 => slot0' = target /\ slot1' = slot1 /\ slot2' = slot2
        /\ at = 1 => slot0' = slot0 /\ slot1' = target /\ slot2' = slot2
        /\ at = 2 => slot0' = slot0 /\ slot1' = slot1 /\ slot2' = target
    BY DEF WriteSlot
  <1>3. /\ Current' = Current \/ (Current' = target /\ Successor(Current, target))
        /\ at \in {1, 2} => Current' = target
        /\ Current' = <<>> => slot1' = <<>> /\ slot2' = <<>>
        /\ busy = "publishing" => Publishing'
        /\ busy = "repairing" => Repairing'
    <2>1. CASE busy = "publishing"
      <3>1. CASE at = 0
        BY <1>1, <1>2, <2>1, <3>1 DEF StoreInv, SlotInv, Publishing, Current, QuorumOf
      <3>2. CASE at = 1
        BY <1>1, <1>2, <2>1, <3>2 DEF StoreInv, SlotInv, Publishing, Current, QuorumOf
      <3>3. CASE at = 2
        BY <1>1, <1>2, <2>1, <3>3 DEF StoreInv, SlotInv, Publishing, Current, QuorumOf
      <3> QED BY <1>1, <3>1, <3>2, <3>3
    <2>2. CASE busy = "repairing"
      <3>1. CASE at = 0
        BY <1>1, <1>2, <2>2, <3>1 DEF StoreInv, SlotInv, Repairing, Current, QuorumOf
      <3>2. CASE at = 1
        BY <1>1, <1>2, <2>2, <3>2 DEF StoreInv, SlotInv, Repairing, Current, QuorumOf
      <3>3. CASE at = 2
        BY <1>1, <1>2, <2>2, <3>3 DEF StoreInv, SlotInv, Repairing, Current, QuorumOf
      <3> QED BY <1>1, <3>1, <3>2, <3>3
    <2> QED BY <1>1, <2>1, <2>2
  <1>4. window' \subseteq installed' \cup {<<>>} /\ window \subseteq window'
        /\ (reads \in {1, 2} => Current' \in window')
    BY <1>1, <1>3, CurrentType DEF Observe, StoreInv, TypeOK
  <1>5. TypeOK'
    BY <1>1, <1>2, <1>4 DEF StoreInv, TypeOK
  <1>6. SlotInv'
    BY <1>1, <1>3 DEF StoreInv, SlotInv
  <1>7. PromiseKept'
    <2>1. CASE Current' = Current
      BY <1>1, <2>1 DEF StoreInv, PromiseKept, Heads
    <2>2. CASE Successor(Current, Current')
      <3> SUFFICES ASSUME NEW p \in promised
                   PROVE  p[2] \in Completed(HeadsOf(Current')[p[1]])
        BY <1>1 DEF PromiseKept, Heads
      <3>1. p[1] \in Lineage
        BY DEF StoreInv, TypeOK
      <3>2. p[2] \in Completed(HeadsOf(Current)[p[1]])
        BY DEF StoreInv, PromiseKept, Heads
      <3>3. Current \in Chain
        BY CurrentType DEF StoreInv
      <3>4. Completed(HeadsOf(Current)[p[1]]) \subseteq Completed(HeadsOf(Current')[p[1]])
        BY <2>2, <3>1, <3>3, SuccessorKeeps
      <3> QED BY <3>2, <3>4
    <2> QED BY <1>3, <2>1, <2>2
  <1>8. ReadInv'
    <2>1. /\ slot1' # slot1 => slot1' = Current'
          /\ slot2' # slot2 => slot2' = Current'
      BY <1>1, <1>2, <1>3
    <2> QED BY <1>1, <1>4, <2>1 DEF StoreInv, ReadInv
  <1> QED BY <1>3, <1>5, <1>6, <1>7, <1>8 DEF StoreInv

\* The holder returns or stops: the slots stay as they are.
LEMMA ReleaseKeeps ==
  ASSUME StoreInv, Observe, Return \/ Fail
  PROVE  StoreInv' /\ Current' = Current
  <1>1. /\ Current' = Current
        /\ UNCHANGED <<slot0, slot1, slot2, installed, reads, seen0, seen1, seen2>>
        /\ busy' = "free" /\ at' = 0 /\ target' = <<>> /\ owes' = {}
    BY DEF Return, Fail, Current, slots, seen
  <1>2. window' \subseteq installed' \cup {<<>>} /\ window \subseteq window'
    BY <1>1, CurrentType DEF Observe, StoreInv, TypeOK
  <1>3. faults' \in 0 .. MaxFaults /\ promised' \subseteq promised \cup owes
    BY StoreAssumption DEF Return, Fail, StoreInv, TypeOK
  <1>4. TypeOK'
    BY <1>1, <1>2, <1>3 DEF StoreInv, TypeOK
  <1>5. SlotInv'
    BY <1>1 DEF StoreInv, SlotInv
  <1>6. PromiseKept'
    <2>1. CASE Return
      <3>1. \A p \in owes : p[2] \in Completed(HeadsOf(Current)[p[1]])
        BY <2>1 DEF Return, StoreInv, TypeOK, SlotInv, Publishing, Repairing
      <3> QED BY <1>1, <1>3, <3>1 DEF StoreInv, PromiseKept, Heads
    <2>2. CASE Fail
      BY <1>1, <2>2 DEF Fail, StoreInv, PromiseKept, Heads
    <2> QED BY <2>1, <2>2
  <1>7. ReadInv'
    BY <1>1, <1>2 DEF StoreInv, ReadInv
  <1> QED BY <1>1, <1>4, <1>5, <1>6, <1>7 DEF StoreInv

\* The reader changes nothing but its own state.
LEMMA ReaderKeeps ==
  ASSUME StoreInv, ReadSlot \/ ReadAgain
  PROVE  StoreInv' /\ Current' = Current
  <1>1. /\ Current' = Current
        /\ UNCHANGED <<slot0, slot1, slot2, installed, busy, at, target, owes, promised, faults>>
    BY DEF ReadSlot, ReadAgain, Current, slots, holder
  <1>2. TypeOK'
    BY <1>1, CurrentType DEF StoreInv, TypeOK, ReadSlot, ReadAgain
  <1>3. SlotInv' /\ PromiseKept'
    BY <1>1 DEF StoreInv, SlotInv, Publishing, Repairing, PromiseKept, Heads
  <1>4. ReadInv'
    <2>1. CASE ReadAgain
      BY <2>1 DEF ReadAgain, ReadInv
    <2>2. CASE ReadSlot
      <3>1. /\ slot0 # <<>> /\ (slot0 = slot1 \/ slot0 = slot2) => slot0 = Current
            /\ slot1 # <<>> /\ slot1 = slot2 => slot1 = Current
        BY DEF Current, QuorumOf
      <3>2. reads \in {0, 1, 2} /\ reads' = reads + 1 /\ window' = window \cup {Current}
        BY <2>2 DEF ReadSlot, StoreInv, TypeOK
      <3>3. CASE reads = 0
        BY <1>1, <2>2, <3>1, <3>2, <3>3 DEF ReadSlot, ReadInv
      <3>4. CASE reads = 1
        BY <1>1, <2>2, <3>1, <3>2, <3>4 DEF ReadSlot, StoreInv, ReadInv
      <3>5. CASE reads = 2
        BY <1>1, <2>2, <3>1, <3>2, <3>5 DEF ReadSlot, StoreInv, ReadInv
      <3> QED BY <3>2, <3>3, <3>4, <3>5
    <2> QED BY <2>1, <2>2
  <1> QED BY <1>1, <1>2, <1>3, <1>4 DEF StoreInv

\* Every step keeps the invariant and keeps or succeeds the authority.
LEMMA StoreInvStep ==
  ASSUME Repairs = "prompt"
  PROVE  StoreInv /\ [Next]_vars => StoreInv' /\ (Current' = Current \/ Successor(Current, Current'))
  <1> SUFFICES ASSUME StoreInv, [Next]_vars
               PROVE  StoreInv' /\ (Current' = Current \/ Successor(Current, Current'))
    OBVIOUS
  <1>1. ASSUME Mutation, Observe
        PROVE  StoreInv' /\ (Current' = Current \/ Successor(Current, Current'))
    BY <1>1, OperationKeeps, ReplayKeeps, StoreRepairKeeps, WriteKeeps, ReleaseKeeps DEF Mutation
  <1>2. CASE ReadSlot \/ ReadAgain
    BY <1>2, ReaderKeeps
  <1>3. CASE UNCHANGED vars
    BY <1>3 DEF vars, slots, holder, seen, StoreInv, TypeOK, SlotInv, Publishing, Repairing,
       PromiseKept, Heads, ReadInv, Current
  <1> QED BY <1>1, <1>2, <1>3 DEF Next

-----------------------------------------------------------------------------
\* StoreInv holds throughout every behaviour with prompt repairs.
THEOREM StoreInvariance ==
  ASSUME Repairs = "prompt" PROVE Spec => []StoreInv
  BY StoreInvInit, StoreInvStep, PTL DEF Spec

\* Every CURRENT slot, and whatever is being published, names a root set whose
\* object is installed (writeGraphState installs before it publishes).
THEOREM StoreTypeCorrect ==
  ASSUME Repairs = "prompt" PROVE Spec => []TypeOK
  <1>1. StoreInv => TypeOK
    BY DEF StoreInv
  <1> QED BY <1>1, StoreInvariance, PTL

\* No call that returned is ever undone (create, runReducerOperation,
\* completeReducerOperation, the gate), wherever later ones stop.
THEOREM PromisesAreKept ==
  ASSUME Repairs = "prompt" PROVE Spec => []PromiseKept
  <1>1. StoreInv => PromiseKept
    BY DEF StoreInv
  <1> QED BY <1>1, StoreInvariance, PTL

\* readCurrent() without the lock returns a root set that was the authority
\* during the read.
THEOREM ReadsAreConsistent ==
  ASSUME Repairs = "prompt" PROVE Spec => []ReadsAuthority
  <1>1. StoreInv => ReadsAuthority
    BY DEF StoreInv, TypeOK, ReadInv, ReadsAuthority, QuorumOf
  <1> QED BY <1>1, StoreInvariance, PTL

\* The slots, the objects and the journal together implement the authority:
\* one chain that grows by one operation at a time.
THEOREM StoreRefines ==
  ASSUME Repairs = "prompt" PROVE Spec => AuthoritySpec
  <1>1. Init => Authority!Init
    BY DEF Init, Authority!Init, Current, QuorumOf
  <1>2. StoreInv /\ [Next]_vars => [Authority!Next]_Current
    BY StoreInvStep, SameSuccessor DEF Authority!Next
  <1> QED BY <1>1, <1>2, StoreInvariance, PTL DEF Spec, AuthoritySpec, Authority!Spec

-----------------------------------------------------------------------------
(* The gates.                                                              *)

\* An answer about a changed tree carries the claim that the lineage keeps.
ClaimsRecorded ==
  \A x \in journal : x.status = "scope-changed" =>
    x.budget # "none" /\ claims[x.target.tree] = x.budget

\* A key has one answer, and the gate under way asks under a new one.
KeysAgree ==
  /\ \A x, y \in journal : x.key = y.key => x = y
  /\ gateLock = "gate" => \A x \in journal : x.key # gateAsked.key

GInv == GateTypeOK /\ AllowIsSound /\ ClaimsRecorded /\ KeysAgree

\* The lineage, the claims and the journal untouched, the rest well typed.
LEMMA Untouched ==
  ASSUME GInv, UNCHANGED <<outcome, tree, claims, journal, gateLock, gateAsked>>, GateTypeOK'
  PROVE  GInv'
BY DEF GInv, AllowIsSound, ClaimsRecorded, KeysAgree

\* A new answer that agrees with the lineage, the claims and the other answers.
LEMMA RecordKeeps ==
  ASSUME GInv, GateTypeOK', UNCHANGED review, NEW x,
         journal' = journal \cup {x},
         \A y \in journal : y.key # x.key,
         gateLock' = "free",
         x.status = "allow" =>
           /\ outcome = "approved" /\ x.target.tree = tree
           /\ x.target.kind \in {"push-update", "pull-request"} => x.target.old = Base,
         \A t \in Tree : claims[t] # "none" => claims'[t] = claims[t],
         x.status = "scope-changed" => x.budget # "none" /\ claims'[x.target.tree] = x.budget
  PROVE  GInv'
<1>1. AllowIsSound'
  BY DEF GInv, AllowIsSound, review
<1>2. ClaimsRecorded'
  <2> SUFFICES ASSUME NEW y \in journal', y.status = "scope-changed"
               PROVE  y.budget # "none" /\ claims'[y.target.tree] = y.budget
    BY DEF ClaimsRecorded
  <2>1. CASE y \in journal
    <3>1. y \in Answer
      BY <2>1 DEF GInv, GateTypeOK
    <3>2. y.target.tree \in Tree
      BY <3>1 DEF Answer, Target
    <3> QED
      BY <2>1, <3>2 DEF GInv, ClaimsRecorded
  <2> QED
    BY <2>1
<1>3. KeysAgree'
  BY DEF GInv, KeysAgree
<1> QED
  BY <1>1, <1>2, <1>3 DEF GInv

\* The reads and moves that change neither lineage nor journal.
LEMMA EnvironmentKeeps ==
  ASSUME GInv,
         \/ OtherLineage \/ RepositoryMoves
         \/ \E c \in GateCaller : ReadState(c) \/ ReadRoot(c)
  PROVE  GInv'
<1>a. GateTypeOK
  BY DEF GInv
<1>1. CASE OtherLineage
  <2>1. GateTypeOK'
    BY <1>a, <1>1 DEF OtherLineage, GateTypeOK, review
  <2> QED
    BY <1>1, <2>1, Untouched DEF OtherLineage, review
<1>2. CASE RepositoryMoves
  <2>1. GateTypeOK'
    BY <1>a, <1>2 DEF RepositoryMoves, GateTypeOK, review
  <2> QED
    BY <1>2, <2>1, Untouched DEF RepositoryMoves, review
<1>3. ASSUME NEW c \in GateCaller, ReadState(c)
      PROVE  GInv'
  <2>1. [outcome |-> outcome, tree |-> tree, root |-> 0, head |-> 0] \in Receipt
    BY <1>a, <1>3 DEF ReadState, GateTypeOK, Receipt
  <2>2. GateTypeOK'
    BY <1>a, <1>3, <2>1 DEF ReadState, GateTypeOK, review
  <2> QED
    BY <1>3, <2>2, Untouched DEF ReadState, review
<1>4. ASSUME NEW c \in GateCaller, ReadRoot(c)
      PROVE  GInv'
  <2>1. receipt[c] \in Receipt /\ root \in Nat /\ headRoot \in Nat
    BY <1>a DEF GateTypeOK
  <2>2. [[receipt[c] EXCEPT !.root = root] EXCEPT !.head = headRoot] \in Receipt
    BY <2>1 DEF Receipt
  <2>3. receipt' \in [GateCaller -> Receipt]
    BY <1>a, <1>4, <2>2 DEF ReadRoot, GateTypeOK
  <2>4. GateTypeOK'
    BY <1>a, <1>4, <2>3 DEF ReadRoot, GateTypeOK, review
  <2> QED
    BY <1>4, <2>4, Untouched DEF ReadRoot, review
<1> QED
  BY <1>1, <1>2, <1>3, <1>4

\* While the lineage is open no gate has allowed.
LEMMA ReduceKeeps ==
  ASSUME GInv, Reduce
  PROVE  GInv'
<1>1. outcome = "open"
  BY DEF Reduce, Fix, Close
<1>2. \A x \in journal : x.status # "allow"
  BY <1>1 DEF GInv, AllowIsSound
<1>3. GateTypeOK'
  BY DEF GInv, GateTypeOK, Reduce, Fix, Close, PublishRoot
<1> QED
  BY <1>2, <1>3 DEF GInv, Reduce, AllowIsSound, ClaimsRecorded, KeysAgree

\* A gate answers at once for the approved tree of a closed lineage, or denies, or
\* keeps the lock.
LEMMA GateKeeps ==
  ASSUME GInv, NEW c \in GateCaller, NEW q \in Request, Gate(c, q)
  PROVE  GInv'
<1> DEFINE status == evaluateGateTarget(receipt[c], q.target)
<1>a. GateTypeOK /\ gateLock = "free" /\ \A x \in journal : x.key # q.key
  BY DEF GInv, Gate
<1>b. q.key \in RequestKey /\ q.target \in Target
  BY DEF Request
<1>c. status \in Status
  BY DEF evaluateGateTarget, Status
<1>d. status = "allow" =>
        /\ outcome = "approved" /\ q.target.tree = tree
        /\ q.target.kind \in {"push-update", "pull-request"} => q.target.old = Base
  BY DEF Gate, Authoritative, evaluateGateTarget, Matches
<1>e. UNCHANGED <<outcome, tree, claims, receipt, repo>>
  BY DEF Gate, review
<1>f. \/ status # "scope-changed" /\ Record(q, status, "none") /\ UNCHANGED <<gateLock, gateAsked>>
      \/ gateLock' = "gate" /\ gateAsked' = q /\ UNCHANGED <<root, headRoot, journal>>
  BY DEF Gate
<1> HIDE DEF status
<1>1. CASE status # "scope-changed" /\ Record(q, status, "none") /\ UNCHANGED <<gateLock, gateAsked>>
  <2> DEFINE x == [key |-> q.key, target |-> q.target, status |-> status, budget |-> "none"]
  <2>1. x \in Answer
    BY <1>b, <1>c DEF Answer
  <2>2. journal' = journal \cup {x} /\ root' = root + 1 /\ headRoot' = root + 1
    BY <1>1 DEF Record, PublishRoot
  <2>3. x.key = q.key /\ x.status = status /\ x.target = q.target
    OBVIOUS
  <2> HIDE DEF x
  <2>4. GateTypeOK'
    BY <1>a, <1>e, <1>1, <2>1, <2>2 DEF GateTypeOK
  <2> QED
    BY <1>a, <1>d, <1>e, <1>1, <2>2, <2>3, <2>4, RecordKeeps DEF review
<1>2. CASE gateLock' = "gate" /\ gateAsked' = q /\ UNCHANGED <<root, headRoot, journal>>
  <2>1. GateTypeOK'
    BY <1>a, <1>e, <1>2 DEF GateTypeOK
  <2> QED
    BY <1>a, <1>e, <1>2, <2>1 DEF GInv, AllowIsSound, ClaimsRecorded, KeysAgree
<1> QED
  BY <1>f, <1>1, <1>2

\* The second look claims the changed tree once.
LEMMA ClaimKeeps ==
  ASSUME GInv, ClaimScope
  PROVE  GInv'
<1> DEFINE t == gateAsked.target.tree
           budget == IF claims[t] = "none" THEN gateAsked.offer ELSE claims[t]
<1>a. /\ GateTypeOK /\ gateAsked \in Request /\ gateLock' = "free" /\ gateAsked' = NoRequest
      /\ \A x \in journal : x.key # gateAsked.key
  BY DEF GInv, GateTypeOK, ClaimScope, KeysAgree
<1>b. gateAsked.key \in RequestKey /\ gateAsked.target \in Target /\ t \in Tree /\ gateAsked.offer \in Budget
  BY <1>a DEF Request, Target
<1>c. budget \in Budget /\ budget # "none"
  BY <1>a, <1>b, GateAssumption DEF GateTypeOK
<1>d. UNCHANGED <<outcome, tree, receipt, repo>>
  BY DEF ClaimScope, review
<1>e. \/ claims' = [claims EXCEPT ![t] = budget] /\ Record(gateAsked, "scope-changed", budget)
      \/ UNCHANGED claims /\ Record(gateAsked, "deny", "none")
  BY DEF ClaimScope
<1>f. claims[t] # "none" => budget = claims[t]
  OBVIOUS
<1> HIDE DEF t, budget
<1>1. CASE claims' = [claims EXCEPT ![t] = budget] /\ Record(gateAsked, "scope-changed", budget)
  <2> DEFINE x == [key |-> gateAsked.key, target |-> gateAsked.target,
                   status |-> "scope-changed", budget |-> budget]
  <2>1. x \in Answer
    BY <1>b, <1>c DEF Answer, Status
  <2>2. journal' = journal \cup {x} /\ root' = root + 1 /\ headRoot' = root + 1
    BY <1>1 DEF Record, PublishRoot
  <2>3. x.key = gateAsked.key /\ x.status = "scope-changed" /\ x.budget = budget /\ x.target.tree = t
    BY DEF t
  <2> HIDE DEF x
  <2>4. claims' \in [Tree -> Budget \cup {"none"}] /\ claims'[t] = budget
    BY <1>a, <1>b, <1>c, <1>1 DEF GateTypeOK
  <2>5. GateTypeOK'
    BY <1>a, <1>d, <2>1, <2>2, <2>4 DEF GateTypeOK
  <2>6. \A u \in Tree : claims[u] # "none" => claims'[u] = claims[u]
    BY <1>a, <1>f, <1>1 DEF GateTypeOK
  <2> QED
    BY <1>a, <1>c, <1>d, <2>2, <2>3, <2>4, <2>5, <2>6, RecordKeeps DEF review
<1>2. CASE UNCHANGED claims /\ Record(gateAsked, "deny", "none")
  <2> DEFINE x == [key |-> gateAsked.key, target |-> gateAsked.target, status |-> "deny", budget |-> "none"]
  <2>1. x \in Answer
    BY <1>b DEF Answer, Status
  <2>2. journal' = journal \cup {x} /\ root' = root + 1 /\ headRoot' = root + 1
    BY <1>2 DEF Record, PublishRoot
  <2>3. x.key = gateAsked.key /\ x.status = "deny"
    OBVIOUS
  <2> HIDE DEF x
  <2>4. GateTypeOK'
    BY <1>a, <1>d, <1>2, <2>1, <2>2 DEF GateTypeOK
  <2> QED
    BY <1>a, <1>d, <1>2, <2>2, <2>3, <2>4, RecordKeeps DEF review
<1> QED
  BY <1>e, <1>1, <1>2

\* Every step keeps the invariant.
LEMMA GateNextKeeps == GInv /\ [GateNext]_gateVars => GInv'
<1> SUFFICES ASSUME GInv, [GateNext]_gateVars PROVE GInv'
  OBVIOUS
<1>1. CASE UNCHANGED gateVars
  <2>1. GateTypeOK'
    BY <1>1 DEF GInv, GateTypeOK, gateVars, review
  <2> QED
    BY <1>1, <2>1, Untouched DEF gateVars, review
<1>2. CASE GateFails
  <2>1. GateTypeOK'
    BY <1>2 DEF GInv, GateTypeOK, GateFails, review
  <2> QED
    BY <1>2, <2>1 DEF GInv, GateFails, review, AllowIsSound, ClaimsRecorded, KeysAgree
<1>3. CASE OtherLineage \/ RepositoryMoves \/ \E c \in GateCaller : ReadState(c) \/ ReadRoot(c)
  BY <1>3, EnvironmentKeeps
<1>4. ASSUME NEW c \in GateCaller, NEW q \in Request, Gate(c, q)
      PROVE  GInv'
  BY <1>4, GateKeeps
<1> QED
  BY <1>1, <1>2, <1>3, <1>4, ReduceKeeps, ClaimKeeps DEF GateNext

\* The invariant holds at first.
LEMMA GateInitHolds == GateInit => GInv
<1> SUFFICES ASSUME GateInit PROVE GInv
  OBVIOUS
<1>1. NoReceipt \in Receipt
  BY DEF NoReceipt, Receipt
<1>2. GateTypeOK
  BY <1>1 DEF GateInit, OpenInit, GateTypeOK
<1> QED
  BY <1>2 DEF GateInit, GInv, AllowIsSound, ClaimsRecorded, KeysAgree

\* Receipts, claims and answers keep their types.
THEOREM GateTypeCorrect == GateSpec => []GateTypeOK
<1>1. GInv => GateTypeOK
  BY DEF GInv
<1> QED
  BY GateInitHolds, GateNextKeeps, <1>1, PTL DEF GateSpec

\* A gate allows only the tree that the lineage approved, for good.
THEOREM GateAllowsApproved == GateSpec => []AllowIsSound
<1>1. GInv => AllowIsSound
  BY DEF GInv
<1> QED
  BY GateInitHolds, GateNextKeeps, <1>1, PTL DEF GateSpec

\* One answer per key and one child, with one budget, per changed tree.
THEOREM GateRetriesAgree == GateSpec => []RetriesAgree
<1>1. GInv => RetriesAgree
  BY DEF GInv, ClaimsRecorded, KeysAgree, RetriesAgree
<1> QED
  BY GateInitHolds, GateNextKeeps, <1>1, PTL DEF GateSpec

-----------------------------------------------------------------------------
(* The identity of the repository.                                         *)

Running ==
  [pc : {"read", "install", "lost"}, purpose : {"open", "write", "latch", "inspect"},
   roots : Identity, tries : Nat]

Resolution == Running \cup {NoResolution}

RepositoryTypeOK ==
  /\ liveRoots \in SUBSET RootCommit
  /\ identityFile \in {MissingIdentity, PartialIdentity} \cup Identity
  /\ foreignWriter \in Identity \cup {NoIdentity}
  /\ resolving \in [Resolver -> Resolution]
  /\ opened \in [Resolver -> Identity \cup {NoIdentity}]

\* Until the identity is complete, nobody has a store and no record exists.
Unpinned == \A r \in Resolver : opened[r] = NoIdentity

RepositoryInv ==
  /\ RepositoryTypeOK
  /\ OneIdentity
  /\ identityFile \notin Identity => written = {} /\ Unpinned
  /\ foreignWriter # NoIdentity <=> identityFile = PartialIdentity
  /\ \A r \in Resolver : resolving[r].pc = "lost" => identityFile # MissingIdentity

\* A resolver goes on with its resolution, or gives it up.
Proceeds(r) ==
  /\ \E n \in Resolution : resolving' = [resolving EXCEPT ![r] = n] /\ (n.pc = "lost" => identityFile # MissingIdentity)
  /\ UNCHANGED <<liveRoots, identityFile, foreignWriter, opened, written>>

\* A resolver ends with the identity that is pinned.
Settles(r) ==
  /\ resolving' = [resolving EXCEPT ![r] = NoResolution]
  /\ opened' \in {opened, [opened EXCEPT ![r] = identityFile]}
  /\ written' \in {written, written \cup {identityFile}}
  /\ identityFile \in Identity
  /\ UNCHANGED <<liveRoots, identityFile, foreignWriter>>

\* A resolver that does nothing is idle.
LEMMA NoResolutionIsIdle == NoResolution \in Resolution /\ NoResolution.pc = "idle"
BY DEF NoResolution, Resolution

\* A repository with a root commit has an identity.
LEMMA NonEmptyIsIdentity ==
  ASSUME NEW i \in SUBSET RootCommit, i # {}
  PROVE  i \in Identity /\ i # NoIdentity
BY DEF Identity, NoIdentity

\* A resolution that goes on is again a resolution.
LEMMA RunningMovesOn ==
  ASSUME NEW v \in Resolution, v.pc # "idle"
  PROVE  /\ v \in Running
         /\ \A p \in {"install", "lost"} : [v EXCEPT !.pc = p] \in Resolution /\ [v EXCEPT !.pc = p].pc = p
         /\ \A p \in {"install", "lost"} : [v EXCEPT !.pc = p, !.tries = 0] \in Resolution
         /\ [v EXCEPT !.tries = @ + 1] \in Resolution /\ [v EXCEPT !.tries = @ + 1].pc = v.pc
<1>1. v \in Running
  BY NoResolutionIsIdle DEF Resolution
<1>2. \A p \in {"install", "lost"} : [v EXCEPT !.pc = p] \in Running /\ [v EXCEPT !.pc = p].pc = p
  BY <1>1 DEF Running
<1>3. \A p \in {"install", "lost"} : [v EXCEPT !.pc = p, !.tries = 0] \in Running
  BY <1>1 DEF Running
<1>4. [v EXCEPT !.tries = @ + 1] \in Running /\ [v EXCEPT !.tries = @ + 1].pc = v.pc
  BY <1>1 DEF Running
<1> QED
  BY <1>1, <1>2, <1>3, <1>4 DEF Resolution

\* A resolution that has not read the pinned identity may go on.
LEMMA ProceedsKeeps ==
  ASSUME RepositoryInv, NEW r \in Resolver, Proceeds(r)
  PROVE  RepositoryInv'
<1>1. PICK n \in Resolution : resolving' = [resolving EXCEPT ![r] = n] /\ (n.pc = "lost" => identityFile # MissingIdentity)
  BY DEF Proceeds
<1>2. UNCHANGED <<liveRoots, identityFile, foreignWriter, opened, written>>
  BY DEF Proceeds
<1>3. RepositoryTypeOK'
  BY <1>1, <1>2 DEF RepositoryInv, RepositoryTypeOK
<1>4. \A q \in Resolver : resolving'[q] = IF q = r THEN n ELSE resolving[q]
  BY <1>1 DEF RepositoryInv, RepositoryTypeOK
<1> QED
  BY <1>1, <1>2, <1>3, <1>4 DEF RepositoryInv, OneIdentity, Unpinned

\* A resolution that settles on what is pinned opens and writes under it.
LEMMA SettlesKeeps ==
  ASSUME RepositoryInv, NEW r \in Resolver, Settles(r)
  PROVE  RepositoryInv'
<1>1. /\ resolving' = [resolving EXCEPT ![r] = NoResolution]
      /\ opened' \in {opened, [opened EXCEPT ![r] = identityFile]}
      /\ written' \in {written, written \cup {identityFile}}
      /\ identityFile \in Identity
      /\ UNCHANGED <<liveRoots, identityFile, foreignWriter>>
  BY DEF Settles
<1>2. RepositoryTypeOK'
  BY <1>1, NoResolutionIsIdle DEF RepositoryInv, RepositoryTypeOK
<1>3. \A q \in Resolver : resolving'[q].pc = IF q = r THEN "idle" ELSE resolving[q].pc
  BY <1>1, NoResolutionIsIdle DEF RepositoryInv, RepositoryTypeOK
<1>4. \A q \in Resolver : opened'[q] \in {opened[q], identityFile}
  BY <1>1 DEF RepositoryInv, RepositoryTypeOK
<1>5. OneIdentity'
  BY <1>1, <1>4 DEF RepositoryInv, OneIdentity
<1> QED
  BY <1>1, <1>2, <1>3, <1>5 DEF RepositoryInv

\* A partial identity file is read again, a bounded number of times.
LEMMA ReadsPartialProceeds ==
  ASSUME RepositoryInv, NEW r \in Resolver, ReadsPartial(r), resolving[r].pc \in {"read", "lost"},
         UNCHANGED <<liveRoots, identityFile, foreignWriter>>
  PROVE  Proceeds(r)
<1> DEFINE v == resolving[r]
<1>0. v \in Resolution /\ v.pc # "idle" /\ (v.pc = "lost" => identityFile # MissingIdentity)
  BY DEF RepositoryInv, RepositoryTypeOK
<1>1. CASE Refuse(r)
  BY <1>1, NoResolutionIsIdle DEF Refuse, Proceeds
<1>2. CASE resolving' = [resolving EXCEPT ![r].tries = @ + 1] /\ UNCHANGED <<opened, written>>
  <2> DEFINE n == [v EXCEPT !.tries = @ + 1]
  <2>1. n \in Resolution /\ n.pc = v.pc
    BY <1>0, RunningMovesOn
  <2>2. resolving' = [resolving EXCEPT ![r] = n]
    BY <1>2
  <2> HIDE DEF n
  <2> QED
    BY <1>0, <1>2, <2>1, <2>2 DEF Proceeds
<1> QED
  BY <1>1, <1>2 DEF ReadsPartial

\* An authority is resolved under the identity that is pinned by then.
LEMMA ResolvedSettles ==
  ASSUME RepositoryInv, NEW r \in Resolver, NEW id, Resolved(r, id),
         id = identityFile \/ resolving[r].purpose = "inspect",
         identityFile \in Identity \/ resolving[r].purpose = "inspect",
         UNCHANGED <<liveRoots, identityFile, foreignWriter>>
  PROVE  Settles(r) \/ Proceeds(r)
<1>1. CASE resolving[r].purpose = "inspect"
  BY <1>1, NoResolutionIsIdle DEF Resolved, Proceeds
<1>2. CASE resolving[r].purpose # "inspect"
  BY <1>2 DEF Resolved, Settles
<1> QED
  BY <1>1, <1>2

\* Every probe, read, link, adoption and death of a resolver keeps it.
LEMMA ResolverStepKeeps ==
  ASSUME RepositoryInv, NEW r \in Resolver,
         \/ \E purpose \in {"open", "write", "latch", "inspect"} : Probe(r, purpose)
         \/ ResolveRepositoryAuthority(r) \/ ResolveForRecovery(r)
         \/ LinkIdentity(r) \/ AdoptWinner(r) \/ ResolverDies(r)
  PROVE  RepositoryInv'
<1> DEFINE v == resolving[r]
<1>0. v \in Resolution /\ resolving \in [Resolver -> Resolution]
  BY DEF RepositoryInv, RepositoryTypeOK
<1>1. ASSUME NEW purpose \in {"open", "write", "latch", "inspect"}, Probe(r, purpose) PROVE RepositoryInv'
  <2> DEFINE n == [pc |-> "read", purpose |-> purpose, roots |-> liveRoots, tries |-> 0]
  <2>0. liveRoots # {} /\ liveRoots \in SUBSET RootCommit
    BY <1>1 DEF Probe, RepositoryInv, RepositoryTypeOK
  <2>1. liveRoots \in Identity
    BY <2>0, NonEmptyIsIdentity
  <2>2. n \in Running /\ n.pc = "read"
    BY <2>1 DEF Running
  <2>3. Proceeds(r)
    BY <1>1, <2>2 DEF Probe, Proceeds, Resolution
  <2> QED
    BY <2>3, ProceedsKeeps
<1>2. CASE ResolveRepositoryAuthority(r)
  <2>0. /\ v.pc = "read" /\ v.purpose # "inspect" /\ UNCHANGED <<liveRoots, identityFile, foreignWriter>>
    BY <1>2 DEF ResolveRepositoryAuthority
  <2>1. CASE identityFile = MissingIdentity
    <3> DEFINE n == [v EXCEPT !.pc = "install"]
    <3>1. n \in Resolution /\ n.pc = "install"
      BY <1>0, <2>0, RunningMovesOn
    <3>2. resolving' = [resolving EXCEPT ![r].pc = "install"] /\ UNCHANGED <<opened, written>>
      BY <1>2, <2>1, RepositoryAssumption DEF ResolveRepositoryAuthority
    <3>3. resolving' = [resolving EXCEPT ![r] = n]
      BY <3>2
    <3> HIDE DEF n
    <3> QED
      BY <2>0, <3>1, <3>2, <3>3, ProceedsKeeps DEF Proceeds
  <2>2. CASE identityFile = PartialIdentity
    <3>1. ReadsPartial(r)
      BY <1>2, <2>2, RepositoryAssumption DEF ResolveRepositoryAuthority
    <3> QED
      BY <2>0, <3>1, ReadsPartialProceeds, ProceedsKeeps
  <2>3. CASE identityFile \notin {MissingIdentity, PartialIdentity}
    <3>1. identityFile \in Identity
      BY <2>3 DEF RepositoryInv, RepositoryTypeOK
    <3>2. Resolved(r, identityFile) \/ Refuse(r)
      BY <1>2, <2>3 DEF ResolveRepositoryAuthority
    <3>3. CASE Refuse(r)
      BY <2>0, <3>3, NoResolutionIsIdle, ProceedsKeeps DEF Refuse, Proceeds
    <3>4. CASE Resolved(r, identityFile)
      BY <2>0, <3>1, <3>4, ResolvedSettles, SettlesKeeps, ProceedsKeeps
    <3> QED
      BY <3>2, <3>3, <3>4
  <2> QED
    BY <2>1, <2>2, <2>3
<1>3. CASE ResolveForRecovery(r)
  <2>0. /\ v.pc = "read" /\ v.purpose = "inspect" /\ UNCHANGED <<liveRoots, identityFile, foreignWriter>>
    BY <1>3 DEF ResolveForRecovery
  <2>1. ReadsPartial(r) \/ \E id : Resolved(r, id)
    BY <1>3 DEF ResolveForRecovery
  <2> QED
    BY <2>0, <2>1, ReadsPartialProceeds, ResolvedSettles, SettlesKeeps, ProceedsKeeps
<1>4. CASE LinkIdentity(r)
  <2>0. v.pc = "install" /\ UNCHANGED <<liveRoots, foreignWriter>>
    BY <1>4 DEF LinkIdentity
  <2>1. v.roots \in Identity
    BY <1>0, <2>0, RunningMovesOn DEF Running
  <2>2. CASE identityFile = MissingIdentity
    <3>1. identityFile' = v.roots /\ Resolved(r, v.roots)
      BY <1>4, <2>2 DEF LinkIdentity
    <3>2. /\ written = {} /\ Unpinned /\ foreignWriter = NoIdentity
      BY <2>2, RepositoryAssumption DEF RepositoryInv
    <3>3. /\ resolving' = [resolving EXCEPT ![r] = NoResolution]
          /\ opened' \in {opened, [opened EXCEPT ![r] = v.roots]}
          /\ written' \in {written, written \cup {v.roots}}
      BY <3>1 DEF Resolved
    <3>4. RepositoryTypeOK'
      BY <2>0, <2>1, <3>1, <3>3, NoResolutionIsIdle DEF RepositoryInv, RepositoryTypeOK
    <3>5. \A q \in Resolver : opened'[q] \in {NoIdentity, v.roots}
      BY <3>2, <3>3 DEF Unpinned, RepositoryInv, RepositoryTypeOK
    <3>6. OneIdentity'
      BY <3>1, <3>2, <3>3, <3>5 DEF OneIdentity
    <3> QED
      BY <2>0, <2>1, <3>1, <3>2, <3>4, <3>6, RepositoryAssumption DEF RepositoryInv
  <2>3. CASE identityFile # MissingIdentity
    <3> DEFINE n == [v EXCEPT !.pc = "lost", !.tries = 0]
    <3>1. n \in Resolution
      BY <1>0, <2>0, RunningMovesOn
    <3>2. resolving' = [resolving EXCEPT ![r] = n] /\ UNCHANGED <<identityFile, opened, written>>
      BY <1>0, <1>4, <2>3 DEF LinkIdentity
    <3> HIDE DEF n
    <3> QED
      BY <2>0, <2>3, <3>1, <3>2, ProceedsKeeps DEF Proceeds
  <2> QED
    BY <2>2, <2>3
<1>5. CASE AdoptWinner(r)
  <2>0. v.pc = "lost" /\ UNCHANGED <<liveRoots, identityFile, foreignWriter>>
    BY <1>5 DEF AdoptWinner
  <2>1. identityFile \in Identity \/ identityFile = PartialIdentity
    BY <2>0 DEF RepositoryInv, RepositoryTypeOK
  <2>2. CASE identityFile = PartialIdentity
    <3>1. ReadsPartial(r)
      BY <1>5, <2>2, RepositoryAssumption DEF AdoptWinner, Pinned
    <3> QED
      BY <2>0, <3>1, ReadsPartialProceeds, ProceedsKeeps
  <2>3. CASE identityFile \in Identity
    <3>1. Resolved(r, identityFile)
      BY <1>5, <2>3, RepositoryAssumption DEF AdoptWinner, Pinned
    <3> QED
      BY <2>0, <2>3, <3>1, ResolvedSettles, SettlesKeeps, ProceedsKeeps
  <2> QED
    BY <2>1, <2>2, <2>3
<1>6. CASE ResolverDies(r)
  <2>1. /\ resolving' = [resolving EXCEPT ![r] = NoResolution]
        /\ opened' = [opened EXCEPT ![r] = NoIdentity]
        /\ UNCHANGED <<liveRoots, identityFile, foreignWriter, written>>
    BY <1>6 DEF ResolverDies
  <2>2. RepositoryTypeOK'
    BY <2>1, NoResolutionIsIdle DEF RepositoryInv, RepositoryTypeOK
  <2>3. \A q \in Resolver : opened'[q] \in {NoIdentity, opened[q]}
    BY <2>1 DEF RepositoryInv, RepositoryTypeOK
  <2>4. \A q \in Resolver : resolving'[q].pc = IF q = r THEN "idle" ELSE resolving[q].pc
    BY <1>0, <2>1, NoResolutionIsIdle
  <2> QED
    BY <2>1, <2>2, <2>3, <2>4 DEF RepositoryInv, OneIdentity, Unpinned
<1> QED
  BY <1>1, <1>2, <1>3, <1>4, <1>5, <1>6

\* Every step, of Git and of a foreign writer too, keeps it.
LEMMA RepositoryStep == RepositoryInv /\ [RepositoryNext]_repositoryVars => RepositoryInv'
<1> SUFFICES ASSUME RepositoryInv, [RepositoryNext]_repositoryVars PROVE RepositoryInv'
  OBVIOUS
<1>1. ASSUME NEW roots \in SUBSET RootCommit, GitChangesRoots(roots) PROVE RepositoryInv'
  <2>1. liveRoots' = roots /\ UNCHANGED <<identityFile, foreignWriter, resolving, opened, written>>
    BY <1>1 DEF GitChangesRoots
  <2>2. RepositoryTypeOK'
    BY <2>1 DEF RepositoryInv, RepositoryTypeOK
  <2> QED
    BY <2>1, <2>2 DEF RepositoryInv, OneIdentity, Unpinned
<1>2. CASE ForeignCreates
  <2>1. /\ identityFile = MissingIdentity /\ liveRoots # {} /\ liveRoots \in SUBSET RootCommit
        /\ identityFile' = PartialIdentity /\ foreignWriter' = liveRoots
        /\ UNCHANGED <<liveRoots, resolving, opened, written>>
    BY <1>2 DEF ForeignCreates, RepositoryInv, RepositoryTypeOK
  <2>2. liveRoots \in Identity /\ liveRoots # NoIdentity
    BY <2>1, NonEmptyIsIdentity
  <2>3. written = {} /\ Unpinned
    BY <2>1, RepositoryAssumption DEF RepositoryInv
  <2>4. RepositoryTypeOK'
    BY <2>1, <2>2 DEF RepositoryInv, RepositoryTypeOK
  <2> QED
    BY <2>1, <2>2, <2>3, <2>4, RepositoryAssumption DEF RepositoryInv, OneIdentity, Unpinned
<1>3. CASE ForeignFills
  <2>1. /\ foreignWriter \in Identity /\ identityFile = PartialIdentity /\ written = {} /\ Unpinned
        /\ identityFile' = foreignWriter /\ foreignWriter' = NoIdentity
        /\ UNCHANGED <<liveRoots, resolving, opened, written>>
    BY <1>3, RepositoryAssumption DEF ForeignFills, RepositoryInv, RepositoryTypeOK
  <2> QED
    BY <2>1, RepositoryAssumption DEF RepositoryInv, RepositoryTypeOK, OneIdentity, Unpinned
<1>4. CASE UNCHANGED repositoryVars
  BY <1>4 DEF repositoryVars, RepositoryInv, RepositoryTypeOK, OneIdentity, Unpinned
<1> QED
  BY <1>1, <1>2, <1>3, <1>4, ResolverStepKeeps DEF RepositoryNext

\* No identity is pinned at the start, and nothing is opened.
LEMMA RepositoryInitially == RepositoryInit => RepositoryInv
BY NoResolutionIsIdle, RepositoryAssumption
DEF RepositoryInit, RepositoryInv, RepositoryTypeOK, OneIdentity, Unpinned

\* Every store is opened under, and every record carries, the one pinned
\* identity, for any root commits, resolvers and number of attempts
\* (resolveRepositoryAuthority and its recovery in review-repository.ts).
THEOREM AuthorityHasOneIdentity == RepositorySpec => []OneIdentity
<1>1. RepositoryInv => OneIdentity
  BY DEF RepositoryInv
<1> QED
  BY RepositoryInitially, RepositoryStep, <1>1, PTL DEF RepositorySpec

\* Once pinned, the identity never changes.
PinnedStays == Pinned(identityFile) => identityFile' = identityFile

\* No step replaces an identity that was pinned by the atomic link.
THEOREM IdentityIsPinned == RepositorySpec => [][PinnedStays]_repositoryVars
<1>1. RepositoryInv /\ [RepositoryNext]_repositoryVars => [PinnedStays]_repositoryVars
  <2> SUFFICES ASSUME RepositoryInv, RepositoryNext, identityFile \in Identity PROVE identityFile' = identityFile
    BY DEF PinnedStays, Pinned, repositoryVars
  <2>1. identityFile \notin {MissingIdentity, PartialIdentity}
    BY RepositoryAssumption
  <2> QED
    BY <2>1
    DEF RepositoryInv, RepositoryNext, Probe, ResolveRepositoryAuthority, ResolveForRecovery, LinkIdentity,
        AdoptWinner, ResolverDies, GitChangesRoots, ForeignCreates, ForeignFills
<1> QED
  BY RepositoryInitially, RepositoryStep, <1>1, PTL DEF RepositorySpec

-----------------------------------------------------------------------------
(* The views on disk.                                                      *)

Task == [step : {"add", "fill", "check", "locked", "unmark", "unlock"}, view : View, orphan : BOOLEAN]

OwnersTypeOK ==
  /\ alive \subseteq Process
  /\ doing \in [Process -> Task \cup {Idle}]
  /\ records \in [Process -> SUBSET View]
  /\ marker \in [View -> Process \cup {NoOne}]
  /\ used \subseteq View

\* Only a process that runs does something or has views; what it has, or is
\* making, carries its marker.
Owning(p) ==
  /\ p \notin alive => doing[p] = Idle /\ records[p] = {}
  /\ \A v \in records[p] : marker[v] = p
  /\ doing[p].step \in {"add", "fill"} => marker[doing[p].view] = p /\ doing[p].view \notin records[p]

\* A marker is removed only when no other process that runs is named by it.
Removing(p) ==
  /\ doing[p].step # "idle" => doing[p].view \in used
  /\ doing[p].step = "unmark" => marker[doing[p].view] \notin alive \ {p}

OwnersInv ==
  /\ OwnersTypeOK
  /\ \A p \in Process : Owning(p) /\ Removing(p)
  /\ \A v \in View : marker[v] # NoOne => v \in used

\* A process that does something is not idle.
LEMMA IdleIsNoTask == Idle.step = "idle" /\ \A t \in Task : t.step # "idle" /\ t # Idle
BY DEF Idle, Task

\* A removal moves on with the view it is for.
LEMMA NextTask ==
  ASSUME NEW t \in Task, NEW s \in {"locked", "unmark", "unlock"}
  PROVE  [t EXCEPT !.step = s] \in Task /\ [t EXCEPT !.step = s].step = s /\ [t EXCEPT !.step = s].view = t.view
BY DEF Task

\* A process begins with one view.
LEMMA FirstTask ==
  ASSUME NEW s \in {"add", "fill", "check"}, NEW v \in View, NEW b \in BOOLEAN
  PROVE  DoingAt(s, v, b) \in Task /\ DoingAt(s, v, b).step = s /\ DoingAt(s, v, b).view = v
BY DEF Task, DoingAt

\* A step of p that leaves the markers and records alone.
Shifts(p, t) ==
  /\ doing' = [doing EXCEPT ![p] = t] /\ UNCHANGED <<alive, records, marker, used>>
  /\ p \in alive
  /\ t = Idle \/ (t \in Task /\ t.view \in used)
  /\ t.step \in {"add", "fill"} => marker[t.view] = p /\ t.view \notin records[p]
  /\ t.step = "unmark" => marker[t.view] \notin alive \ {p}

\* A process that touches no file keeps it.
LEMMA ShiftsKeeps ==
  ASSUME OwnersInv, NEW p \in Process, NEW t, Shifts(p, t)
  PROVE  OwnersInv'
<1>1. /\ doing' = [doing EXCEPT ![p] = t] /\ UNCHANGED <<alive, records, marker, used>>
      /\ t \in Task \cup {Idle} /\ p \in alive
  BY DEF Shifts
<1>2. OwnersTypeOK'
  BY <1>1 DEF OwnersInv, OwnersTypeOK
<1>3. doing'[p] = t /\ \A q \in Process \ {p} : doing'[q] = doing[q]
  BY <1>1 DEF OwnersInv, OwnersTypeOK
<1>4. ASSUME NEW q \in Process PROVE Owning(q)' /\ Removing(q)'
  <2>0. Owning(q) /\ Removing(q)
    BY DEF OwnersInv
  <2>1. CASE q = p
    BY <1>1, <1>3, <2>0, <2>1, IdleIsNoTask DEF Owning, Removing, Shifts
  <2>2. CASE q # p
    BY <1>1, <1>3, <2>0, <2>2 DEF Owning, Removing
  <2> QED
    BY <2>1, <2>2
<1> QED
  BY <1>1, <1>2, <1>4 DEF OwnersInv

\* Every file operation of a process, and its death, keeps it.
LEMMA OwnersStepKeeps ==
  ASSUME OwnersInv, NEW p \in Process,
         \/ \E v \in View : Claim(p, v) \/ RemoveView(p, v) \/ Sweep(p, v)
         \/ WorktreeAdd(p) \/ Materialize(p)
         \/ Refused(p) \/ TakeReaperLock(p) \/ GitRemove(p) \/ Unmark(p) \/ Unlock(p)
         \/ ProcessDies(p)
  PROVE  OwnersInv'
<1> DEFINE t == doing[p]
           v == t.view
<1>0. /\ t \in Task \cup {Idle} /\ Owning(p) /\ Removing(p) /\ OwnersTypeOK
      /\ \A q \in Process : Owning(q) /\ Removing(q)
  BY DEF OwnersInv, OwnersTypeOK
<1>b. FALSE \in BOOLEAN /\ TRUE \in BOOLEAN
  OBVIOUS
<1>t. ASSUME t.step # "idle" PROVE t \in Task /\ v \in View /\ v \in used
  BY <1>0, <1>t, IdleIsNoTask DEF Removing, Task
<1>i. ASSUME p \in alive, Proceed(p, Idle), UNCHANGED <<alive, records, marker, used>> PROVE OwnersInv'
  <2>0. Idle.step = "idle"
    BY IdleIsNoTask
  <2>1. Shifts(p, Idle)
    BY <1>i, <2>0 DEF Shifts, Proceed
  <2> QED
    BY <2>1, ShiftsKeeps
<1>n. ASSUME NEW s \in {"locked", "unlock"}, p \in alive, t.step # "idle",
             Proceed(p, [t EXCEPT !.step = s]), UNCHANGED <<alive, records, marker, used>>
      PROVE  OwnersInv'
  <2>1. Shifts(p, [t EXCEPT !.step = s])
    BY <1>n, <1>t, NextTask DEF Shifts, Proceed
  <2> QED
    BY <2>1, ShiftsKeeps
<1>c. ASSUME NEW w \in used, NEW b \in BOOLEAN, p \in alive, Proceed(p, DoingAt("check", w, b)),
             UNCHANGED <<alive, records, marker, used>>
      PROVE  OwnersInv'
  <2>0. w \in View
    BY <1>0 DEF OwnersTypeOK
  <2>1. Shifts(p, DoingAt("check", w, b))
    BY <1>c, <2>0, FirstTask DEF Shifts, Proceed
  <2> QED
    BY <2>1, ShiftsKeeps
<1>1. ASSUME NEW w \in View, Claim(p, w) PROVE OwnersInv'
  <2> DEFINE d == DoingAt("add", w, FALSE)
  <2>1. /\ p \in alive /\ w \notin used /\ used' = used \cup {w} /\ marker' = [marker EXCEPT ![w] = p]
        /\ doing' = [doing EXCEPT ![p] = d] /\ UNCHANGED <<alive, records>> /\ t.step = "idle"
    BY <1>1 DEF Claim, OwnerMoves, Proceed
  <2>2. d \in Task /\ d.step = "add" /\ d.view = w
    BY <1>b, FirstTask
  <2> HIDE DEF d
  <2>3. OwnersTypeOK'
    BY <1>0, <2>1, <2>2 DEF OwnersTypeOK
  <2>4. /\ doing'[p] = d /\ \A q \in Process \ {p} : doing'[q] = doing[q]
        /\ marker'[w] = p /\ \A x \in View \ {w} : marker'[x] = marker[x]
    BY <1>0, <2>1 DEF OwnersTypeOK
  <2>5. marker[w] = NoOne
    BY <2>1 DEF OwnersInv
  <2>6. \A q \in Process : w \notin records[q]
    BY <1>0, <2>5, OwnersAssumption DEF Owning
  <2>7. ASSUME NEW q \in Process PROVE Owning(q)' /\ Removing(q)'
    <3>0. Owning(q) /\ Removing(q) /\ records'[q] = records[q] /\ records[q] \subseteq View \ {w}
      BY <1>0, <2>1, <2>6 DEF OwnersTypeOK
    <3>1. CASE q = p
      BY <2>1, <2>2, <2>4, <2>6, <3>0, <3>1 DEF Owning, Removing
    <3>2. CASE q # p
      <4>1. doing'[q] = doing[q] /\ (doing[q].step # "idle" => doing[q].view \in View \ {w})
        BY <1>0, <2>1, <2>4, <3>0, <3>2 DEF Removing, OwnersTypeOK
      <4>2. doing[q].step # "idle" => marker'[doing[q].view] = marker[doing[q].view]
        BY <2>4, <4>1
      <4>3. \A x \in records[q] : marker'[x] = marker[x]
        BY <2>4, <3>0
      <4> QED
        BY <2>1, <3>0, <4>1, <4>2, <4>3 DEF Owning, Removing
    <3> QED
      BY <3>1, <3>2
  <2>8. \A x \in View : marker'[x] # NoOne => x \in used'
    BY <2>1, <2>4 DEF OwnersInv
  <2> QED
    BY <2>3, <2>7, <2>8 DEF OwnersInv
<1>2. ASSUME NEW w \in View, RemoveView(p, w) PROVE OwnersInv'
  <2>1. w \in used
    BY <1>0, <1>2, OwnersAssumption DEF RemoveView, Owning, OwnersInv
  <2> QED
    BY <1>2, <1>b, <1>c, <2>1 DEF RemoveView, OwnerMoves, diskVars
<1>3. ASSUME NEW w \in View, Sweep(p, w) PROVE OwnersInv'
  <2>1. w \in used
    BY <1>3 DEF Sweep, Dead, OwnersInv
  <2> QED
    BY <1>3, <1>b, <1>c, <2>1 DEF Sweep, OwnerMoves, diskVars
<1>4. CASE WorktreeAdd(p)
  <2>1. p \in alive /\ t.step = "add" /\ UNCHANGED <<alive, records, marker, used>>
    BY <1>4 DEF WorktreeAdd, OwnerMoves
  <2>2. CASE Proceed(p, DoingAt("check", v, FALSE))
    BY <1>b, <1>c, <1>t, <2>1, <2>2
  <2>3. CASE Proceed(p, DoingAt("fill", v, FALSE))
    <3>1. marker[v] = p /\ v \notin records[p] /\ v \in used /\ v \in View
      BY <1>0, <1>t, <2>1 DEF Owning
    <3>2. Shifts(p, DoingAt("fill", v, FALSE))
      BY <1>b, <2>1, <2>3, <3>1, FirstTask DEF Shifts, Proceed
    <3> QED
      BY <3>2, ShiftsKeeps
  <2> QED
    BY <1>4, <2>2, <2>3 DEF WorktreeAdd
<1>5. CASE Materialize(p)
  <2>1. p \in alive /\ t.step = "fill" /\ UNCHANGED <<alive, marker, used>>
    BY <1>5 DEF Materialize, OwnerMoves
  <2>2. CASE records' = records /\ Proceed(p, DoingAt("check", v, FALSE))
    BY <1>b, <1>c, <1>t, <2>1, <2>2
  <2>3. CASE records' = [records EXCEPT ![p] = @ \cup {v}] /\ Proceed(p, Idle)
    <3>1. marker[v] = p /\ v \in View
      BY <1>0, <1>t, <2>1 DEF Owning
    <3>2. doing'[p] = Idle /\ records'[p] = records[p] \cup {v}
      BY <1>0, <2>3 DEF OwnersTypeOK, Proceed
    <3>3. \A q \in Process \ {p} : doing'[q] = doing[q] /\ records'[q] = records[q]
      BY <1>0, <2>3 DEF OwnersTypeOK, Proceed
    <3>4. OwnersTypeOK'
      BY <1>0, <2>1, <2>3, <3>1 DEF OwnersTypeOK, Proceed
    <3>5. ASSUME NEW q \in Process PROVE Owning(q)' /\ Removing(q)'
      <4>1. CASE q = p
        BY <1>0, <2>1, <3>1, <3>2, <4>1, IdleIsNoTask DEF Owning, Removing
      <4>2. CASE q # p
        BY <1>0, <2>1, <3>3, <4>2 DEF Owning, Removing
      <4> QED
        BY <4>1, <4>2
    <3> QED
      BY <2>1, <3>4, <3>5 DEF OwnersInv
  <2> QED
    BY <1>5, <2>2, <2>3 DEF Materialize
<1>6. CASE Refused(p)
  BY <1>6, <1>i DEF Refused, OwnerMoves, diskVars
<1>7. CASE TakeReaperLock(p)
  BY <1>7, <1>n DEF TakeReaperLock, OwnerMoves
<1>8. CASE GitRemove(p)
  <2>1. p \in alive /\ t.step = "locked" /\ UNCHANGED <<alive, records, marker, used>>
    BY <1>8 DEF GitRemove, OwnerMoves
  <2>2. CASE Proceed(p, [t EXCEPT !.step = "unlock"])
    BY <1>n, <2>1, <2>2
  <2>3. CASE OwnerChecked(p) /\ Proceed(p, [t EXCEPT !.step = "unmark"])
    <3>1. marker[v] \notin alive \ {p}
      BY <2>3 DEF OwnerChecked, Dead
    <3>2. Shifts(p, [t EXCEPT !.step = "unmark"])
      BY <1>t, <2>1, <2>3, <3>1, NextTask DEF Shifts, Proceed
    <3> QED
      BY <3>2, ShiftsKeeps
  <2> QED
    BY <1>8, <2>2, <2>3 DEF GitRemove
<1>9. CASE Unmark(p)
  <2> DEFINE d == [t EXCEPT !.step = "unlock"]
  <2>1. /\ p \in alive /\ t.step = "unmark" /\ UNCHANGED <<alive, used>>
        /\ marker' = [marker EXCEPT ![v] = NoOne] /\ records' = [records EXCEPT ![p] = @ \ {v}]
        /\ doing' = [doing EXCEPT ![p] = d]
    BY <1>9 DEF Unmark, OwnerMoves, Proceed
  <2>2. /\ t \in Task /\ v \in View /\ v \in used /\ d \in Task /\ d.step = "unlock" /\ d.view = v
        /\ marker[v] \notin alive \ {p}
    BY <1>0, <1>t, <2>1, NextTask DEF Removing
  <2> HIDE DEF d
  <2>3. OwnersTypeOK'
    BY <1>0, <2>1, <2>2 DEF OwnersTypeOK
  <2>4. /\ doing'[p] = d /\ records'[p] = records[p] \ {v} /\ marker'[v] = NoOne
        /\ \A q \in Process \ {p} : doing'[q] = doing[q] /\ records'[q] = records[q]
        /\ \A x \in View \ {v} : marker'[x] = marker[x]
    BY <1>0, <2>1, <2>2 DEF OwnersTypeOK
  <2>5. ASSUME NEW q \in Process PROVE Owning(q)' /\ Removing(q)'
    <3>0. Owning(q) /\ Removing(q) /\ records[q] \subseteq View
      BY <1>0 DEF OwnersTypeOK
    <3>1. CASE q = p
      BY <2>1, <2>2, <2>4, <3>0, <3>1 DEF Owning, Removing
    <3>2. CASE q # p
      <4>1. q \in alive => marker[v] # q
        BY <2>2, <3>2
      <4>2. v \notin records[q]
        BY <3>0, <4>1 DEF Owning
      <4>3. doing[q].step \in {"add", "fill"} => doing[q].view \in View \ {v}
        BY <1>0, <3>0, <4>1, <1>t, IdleIsNoTask DEF Owning, Removing, OwnersTypeOK
      <4>4. doing[q].step # "idle" => doing[q].view \in View
        BY <1>0, <3>0 DEF Removing, OwnersTypeOK
      <4>5. Owning(q)'
        BY <2>1, <2>4, <3>0, <3>2, <4>2, <4>3 DEF Owning
      <4>6. Removing(q)'
        BY <1>0, <2>1, <2>4, <3>0, <3>2, <4>4, OwnersAssumption DEF Removing, OwnersTypeOK
      <4> QED
        BY <4>5, <4>6
    <3> QED
      BY <3>1, <3>2
  <2>6. \A x \in View : marker'[x] # NoOne => x \in used'
    BY <2>1, <2>4 DEF OwnersInv
  <2> QED
    BY <2>3, <2>5, <2>6 DEF OwnersInv
<1>10. CASE Unlock(p)
  BY <1>10, <1>i DEF Unlock, OwnerMoves
<1>11. CASE ProcessDies(p)
  <2>1. /\ alive' = alive \ {p} /\ doing' = [doing EXCEPT ![p] = Idle]
        /\ records' = [records EXCEPT ![p] = {}] /\ UNCHANGED <<marker, used>>
    BY <1>11 DEF ProcessDies, Proceed, diskVars
  <2>2. OwnersTypeOK'
    BY <1>0, <2>1 DEF OwnersTypeOK
  <2>3. /\ doing'[p] = Idle /\ records'[p] = {}
        /\ \A q \in Process \ {p} : doing'[q] = doing[q] /\ records'[q] = records[q]
    BY <1>0, <2>1 DEF OwnersTypeOK
  <2>4. ASSUME NEW q \in Process PROVE Owning(q)' /\ Removing(q)'
    <3>1. CASE q = p
      BY <2>1, <2>3, <3>1, IdleIsNoTask DEF Owning, Removing
    <3>2. CASE q # p
      BY <1>0, <2>1, <2>3, <3>2 DEF Owning, Removing
    <3> QED
      BY <3>1, <3>2
  <2> QED
    BY <2>1, <2>2, <2>4 DEF OwnersInv
<1> QED
  BY <1>1, <1>2, <1>3, <1>4, <1>5, <1>6, <1>7, <1>8, <1>9, <1>10, <1>11

\* Every step keeps it.
LEMMA OwnersStep == OwnersInv /\ [OwnersNext]_ownersVars => OwnersInv'
<1> SUFFICES ASSUME OwnersInv, [OwnersNext]_ownersVars PROVE OwnersInv'
  OBVIOUS
<1>1. CASE UNCHANGED ownersVars
  BY <1>1 DEF ownersVars, diskVars, OwnersInv, OwnersTypeOK, Owning, Removing
<1> QED
  BY <1>1, OwnersStepKeeps DEF OwnersNext

\* No view exists at the start.
LEMMA OwnersInitially == OwnersInit => OwnersInv
BY IdleIsNoTask DEF OwnersInit, OwnersInv, OwnersTypeOK, Owning, Removing

\* The worktree of a view in the registry of a live process changes only while
\* that process itself removes it, for any processes and views: the ownership
\* proof of a sweep stands until Git's removal (removeCandidateOwner).
THEOREM LiveViewStays == OwnersSpec => LiveViewKept
<1> DEFINE Kept(p, v) == worktree'[v] # worktree[v] => doing[p].step = "locked" /\ doing[p].view = v
<1>1. ASSUME OwnersInv, NEW q \in Process, NEW p \in alive, NEW v \in records[p],
             \/ \E w \in View : Claim(q, w) \/ RemoveView(q, w) \/ Sweep(q, w)
             \/ WorktreeAdd(q) \/ Materialize(q)
             \/ Refused(q) \/ TakeReaperLock(q) \/ GitRemove(q) \/ Unmark(q) \/ Unlock(q)
             \/ ProcessDies(q)
      PROVE  Kept(p, v)
  <2>0. Owning(q) /\ marker[v] = p
    BY <1>1 DEF OwnersInv, OwnersTypeOK, Owning
  <2> SUFFICES ASSUME worktree'[v] # worktree[v] PROVE doing[p].step = "locked" /\ doing[p].view = v
    OBVIOUS
  <2>1. worktree' # worktree
    OBVIOUS
  <2>2. WorktreeAdd(q) \/ Materialize(q) \/ GitRemove(q)
    BY <1>1, <2>1
    DEF Claim, RemoveView, Sweep, Refused, TakeReaperLock, Unmark, Unlock, ProcessDies, diskVars
  <2>3. \E x : worktree' = [worktree EXCEPT ![doing[q].view] = x]
    BY <2>1, <2>2 DEF WorktreeAdd, Materialize, GitRemove
  <2>4. v = doing[q].view
    BY <2>3
  <2>5. CASE WorktreeAdd(q) \/ Materialize(q)
    BY <2>0, <2>4, <2>5 DEF WorktreeAdd, Materialize, OwnerMoves, Owning
  <2>6. CASE GitRemove(q)
    BY <2>0, <2>1, <2>4, <2>6 DEF GitRemove, OwnerMoves, OwnerChecked, Dead
  <2> QED
    BY <2>2, <2>5, <2>6
<1>2. OwnersInv /\ [OwnersNext]_ownersVars => [\A p \in alive : \A v \in records[p] : Kept(p, v)]_ownersVars
  BY <1>1 DEF OwnersNext
<1> QED
  BY OwnersInitially, OwnersStep, <1>2, PTL DEF OwnersSpec, LiveViewKept

-----------------------------------------------------------------------------
(* The candidate that is frozen and read.                                  *)

FileEntry == PresentEntry \cup {AbsentEntry}
FileTree == [FilePath -> FileEntry]
IndexSlot == [entry : FileEntry, stat : Int, smudged : BOOLEAN]
GitIndex == [slot : [FilePath -> IndexSlot], time : Int]
FileMode == {"regular", "executable", "absent", "deleted"}
Change == [status : {"A", "D", "M"}, oldMode : FileMode, newMode : FileMode, modeOnly : BOOLEAN]
Manifest == UNION {[D -> Change] : D \in SUBSET FilePath}
Expectation == {<<>>} \cup (FileTree \X Manifest)
CandidateScope == UNION {[D -> FileMode] : D \in SUBSET FilePath}
FreezeKind == {"committed", "legacy", "selected"}
FreezeState ==
    [pc : {"seed", "update", "intended", "all", "write"}, kind : FreezeKind, untracked : SUBSET FilePath,
     base : FileTree, expect : Expectation, idx : GitIndex, seen : FileTree]
FrozenState ==
    [pc : {"held", "dispatched"}, kind : FreezeKind, untracked : SUBSET FilePath, base : FileTree,
     tree : FileTree, seen : FileTree, expect : Expectation, scope : CandidateScope, lenses : SUBSET ReviewLens,
     index : FileTree, file : [FilePath -> [entry : FileEntry, writable : BOOLEAN]]]
PagesState ==
    [pc : {"reading", "done", "refused"}, order : Seq(FilePath), cursor : Int, read : Seq(FilePath), file : FileTree]

\* The contributor's files, index and commits are well formed, and no index is younger than now.
WorktreeOK ==
    /\ treeClock \in Nat /\ edits \in Nat
    /\ head \in FileTree
    /\ disk \in [FilePath -> [entry : FileEntry, time : Nat]]
    /\ liveIndex \in GitIndex /\ liveIndex.time <= treeClock

\* Whatever an index is trusted for without reading the file is what is on disk.
Vouched(idx) == \A p \in FilePath : ~MustRead(idx, p) => idx.slot[p].entry = disk[p].entry

\* A candidate on its way: the private index vouches for what it is trusted with, and from the
\* first write of a path on it holds what was seen there.
FreezingSound ==
    freezing = NotFreezing \/
      /\ freezing \in FreezeState /\ frozen = [pc |-> "none"]
      /\ freezing.idx.time <= treeClock
      /\ freezing.expect # <<>> => freezing.expect[2] = DeriveChangedPathManifest(freezing.base, freezing.expect[1])
      /\ freezing.pc # "update" => TreeOfIndex(freezing.idx) = freezing.seen
      /\ freezing.pc \in {"seed", "all"} => \A p \in FilePath : freezing.idx.slot[p].stat = -1
      /\ freezing.pc \in {"update", "intended"} => freezing.kind = "selected" /\ Vouched(freezing.idx)
      /\ freezing.pc = "all" => freezing.kind = "legacy"

\* A frozen candidate is what was seen, with the manifest that was claimed and its own scope.
FrozenSound ==
    frozen = [pc |-> "none"] \/
      /\ frozen \in FrozenState
      /\ frozen.tree = frozen.seen
      /\ frozen.expect # <<>> => frozen.expect[2] = DeriveChangedPathManifest(frozen.base, frozen.tree)

\* The order in which a scope is read holds every path of it exactly once.
Enumerates(order, scope) ==
    /\ order \in [1..Cardinality(DOMAIN scope) -> FilePath]
    /\ {order[i] : i \in DOMAIN order} = DOMAIN scope

\* A reviewer reads a dispatched candidate: its files, and a prefix of the order of its scope.
PagesSound ==
    pages = [pc |-> "none"] \/
      /\ pages \in PagesState /\ frozen.pc = "dispatched"
      /\ \A p \in FilePath \ (IgnoredPath \ PathsOf(frozen.tree)) : pages.file[p] = frozen.tree[p]
      /\ Enumerates(pages.order, frozen.scope)
      /\ pages.pc = "reading" => pages.cursor \in 0..Len(pages.order) /\ pages.read = SubSeq(pages.order, 1, pages.cursor)
      /\ pages.pc = "done" => pages.read = pages.order

CandidateInv == WorktreeOK /\ Vouched(liveIndex) /\ FreezingSound /\ FrozenSound /\ PagesSound

-----------------------------------------------------------------------------
(* Entries, trees and scopes.                                              *)

\* An absent entry is the one absent entry.
LEMMA GoneIsAbsent ==
  /\ AbsentEntry \in FileEntry /\ Gone(AbsentEntry)
  /\ \A e \in FileEntry : Gone(e) => e = AbsentEntry
<1>1. \A e \in PresentEntry : ~Gone(e)
  BY DEF PresentEntry, Gone
<1>2. AbsentEntry \in FileEntry
  BY DEF FileEntry
<1>3. Gone(AbsentEntry)
  BY DEF Gone, AbsentEntry
<1> QED
  BY <1>1, <1>2, <1>3 DEF FileEntry

\* The tree an index stands for.
LEMMA IndexHasTree ==
  ASSUME NEW idx \in GitIndex
  PROVE  /\ TreeOfIndex(idx) \in FileTree
         /\ \A p \in FilePath : TreeOfIndex(idx)[p] = idx.slot[p].entry /\ idx.slot[p] \in IndexSlot
                                /\ idx.slot[p].entry \in FileEntry /\ idx.slot[p].stat \in Int
                                /\ idx.slot[p].smudged \in BOOLEAN
<1>1. \A p \in FilePath : idx.slot[p] \in IndexSlot
  BY DEF GitIndex
<1>2. \A p \in FilePath : idx.slot[p].entry \in FileEntry /\ idx.slot[p].stat \in Int /\ idx.slot[p].smudged \in BOOLEAN
  BY <1>1 DEF IndexSlot
<1> QED
  BY <1>1, <1>2 DEF TreeOfIndex, FileTree

\* What Git records of a path whose index entry it may trust, or reads the file for, is what
\* is on disk.
LEMMA RefreshedIsDisk ==
  ASSUME WorktreeOK, NEW idx \in GitIndex, NEW p \in FilePath,
         ~MustRead(idx, p) => idx.slot[p].entry = disk[p].entry
  PROVE  Refreshed(idx, p) = disk[p].entry
<1> DEFINE e == disk[p].entry
<1>1. e \in FileEntry
  BY DEF WorktreeOK
<1>2. CASE Gone(e)
  BY <1>1, <1>2, GoneIsAbsent DEF Refreshed
<1>3. CASE ~Gone(e) /\ MustRead(idx, p)
  BY <1>3 DEF Refreshed
<1>4. CASE ~Gone(e) /\ ~MustRead(idx, p)
  <2>1. Refreshed(idx, p) = [e EXCEPT !.content = e.content]
    BY <1>4 DEF Refreshed
  <2>2. e \in PresentEntry
    BY <1>1, <1>4, GoneIsAbsent DEF FileEntry
  <2> HIDE DEF e
  <2>3. [e EXCEPT !.content = e.content] = e
    BY <2>2 DEF PresentEntry
  <2> QED
    BY <2>1, <2>3 DEF e
<1> QED
  BY <1>2, <1>3, <1>4

\* A manifest tells of the changed paths.
LEMMA ManifestIsManifest ==
  ASSUME NEW base \in FileTree, NEW shown \in FileTree
  PROVE  DeriveChangedPathManifest(base, shown) \in Manifest
<1> DEFINE D == {q \in FilePath : base[q] # shown[q]}
           what(p) == [status |-> IF Gone(shown[p]) THEN "D" ELSE IF Gone(base[p]) THEN "A" ELSE "M",
                       oldMode |-> base[p].mode, newMode |-> shown[p].mode,
                       modeOnly |-> base[p].content = shown[p].content]
<1>1. \A e \in FileEntry : e.mode \in FileMode
  BY DEF FileEntry, PresentEntry, AbsentEntry, FileMode
<1>2. \A p \in D : what(p) \in Change
  <2> SUFFICES ASSUME NEW p \in D PROVE what(p) \in Change
    OBVIOUS
  <2>1. base[p].mode \in FileMode /\ shown[p].mode \in FileMode
    BY <1>1 DEF FileTree
  <2> QED
    BY <2>1 DEF Change
<1> HIDE DEF what
<1>3. [p \in D |-> what(p)] \in [D -> Change]
  BY <1>2
<1>4. DeriveChangedPathManifest(base, shown) = [p \in D |-> what(p)]
  BY DEF DeriveChangedPathManifest, what
<1>5. D \in SUBSET FilePath
  OBVIOUS
<1> HIDE DEF D
<1> QED
  BY <1>3, <1>4, <1>5 DEF Manifest

\* A scope holds the changed paths with their modes.
LEMMA ScopeIsScope ==
  ASSUME NEW base \in FileTree, NEW shown \in FileTree
  PROVE  DeriveChangedScope(base, shown) \in CandidateScope
<1> DEFINE D == {q \in FilePath : base[q] # shown[q]}
           what(p) == IF Gone(shown[p]) THEN "deleted" ELSE shown[p].mode
<1>1. \A e \in FileEntry : e.mode \in FileMode
  BY DEF FileEntry, PresentEntry, AbsentEntry, FileMode
<1>2. \A p \in D : what(p) \in FileMode
  BY <1>1 DEF FileTree, FileMode
<1> HIDE DEF what
<1>3. [p \in D |-> what(p)] \in [D -> FileMode]
  BY <1>2
<1>4. DeriveChangedScope(base, shown) = [p \in D |-> what(p)]
  BY DEF DeriveChangedScope, what
<1>5. D \in SUBSET FilePath
  OBVIOUS
<1> HIDE DEF D
<1> QED
  BY <1>3, <1>4, <1>5 DEF CandidateScope

-----------------------------------------------------------------------------
(* The order of a scope.                                                   *)

\* A finite set has an enumeration.
LEMMA FiniteIsListed ==
  ASSUME NEW S, IsFiniteSet(S)
  PROVE  \E f \in [1..Cardinality(S) -> S] : {f[i] : i \in 1..Cardinality(S)} = S
<1>1. PICK f : f \in Bijection(1..Cardinality(S), S)
  BY FS_CardinalityType DEF ExistsBijection
<1>2. f \in [1..Cardinality(S) -> S] /\ \A y \in S : \E i \in 1..Cardinality(S) : f[i] = y
  BY <1>1 DEF Bijection, Surjection, Injection
<1>3. {f[i] : i \in 1..Cardinality(S)} = S
  BY <1>2
<1> QED
  BY <1>2, <1>3

\* A scope can be put in the order of its modes.
LEMMA ScopeHasOrder ==
  ASSUME NEW scope \in CandidateScope
  PROVE  \E s \in [1..Cardinality(DOMAIN scope) -> FilePath] :
            /\ {s[i] : i \in DOMAIN s} = DOMAIN scope
            /\ \A i, j \in DOMAIN s : i < j => ModeRank(scope[s[i]]) <= ModeRank(scope[s[j]])
<1> DEFINE D == DOMAIN scope
           A == {p \in D : ModeRank(scope[p]) = 0}
           B == {p \in D : ModeRank(scope[p]) = 1}
           C == {p \in D : ModeRank(scope[p]) = 2}
           a == Cardinality(A)
           b == Cardinality(B)
           c == Cardinality(C)
<1>1. D \subseteq FilePath /\ IsFiniteSet(D)
  BY TreeAssumption, FS_Subset DEF CandidateScope
<1>2. \A p \in D : ModeRank(scope[p]) \in {0, 1, 2}
  BY DEF ModeRank
<1>3. A \cup (B \cup C) = D /\ A \cap (B \cup C) = {} /\ B \cap C = {}
  BY <1>2
<1>4. IsFiniteSet(A) /\ IsFiniteSet(B) /\ IsFiniteSet(C) /\ IsFiniteSet(B \cup C)
  <2>1. A \subseteq D /\ B \subseteq D /\ C \subseteq D /\ B \cup C \subseteq D
    OBVIOUS
  <2> QED
    BY <1>1, <2>1, FS_Subset
<1>5. A \subseteq D /\ B \subseteq D /\ C \subseteq D
  OBVIOUS
<1>6. /\ \A p \in A : ModeRank(scope[p]) = 0
      /\ \A p \in B : ModeRank(scope[p]) = 1
      /\ \A p \in C : ModeRank(scope[p]) = 2
  OBVIOUS
<1> HIDE DEF D, A, B, C
<1>7. a \in Nat /\ b \in Nat /\ c \in Nat
  BY <1>4, FS_CardinalityType
<1>8. Cardinality(D) = a + b + c
  <2>1. Cardinality(B \cup C) = b + c
    <3>1. Cardinality(B \cap C) = 0
      BY <1>3, FS_EmptySet
    <3>2. Cardinality(B \cup C) = Cardinality(B) + Cardinality(C) - Cardinality(B \cap C)
      BY <1>4, FS_Union
    <3> QED
      BY <1>7, <3>1, <3>2
  <2>2. Cardinality(A \cap (B \cup C)) = 0
    BY <1>3, FS_EmptySet
  <2>3. Cardinality(A \cup (B \cup C)) = Cardinality(A) + Cardinality(B \cup C) - Cardinality(A \cap (B \cup C))
    BY <1>4, FS_Union
  <2>4. Cardinality(D) = Cardinality(A \cup (B \cup C))
    BY <1>3
  <2> HIDE DEF b, c
  <2>5. Cardinality(D) = a + (b + c)
    BY <1>7, <2>1, <2>2, <2>3, <2>4
  <2> QED
    BY <1>7, <2>5
<1>9. PICK f \in [1..a -> A] : {f[i] : i \in 1..a} = A
  BY <1>4, FiniteIsListed
<1>10. PICK g \in [1..b -> B] : {g[i] : i \in 1..b} = B
  BY <1>4, FiniteIsListed
<1>11. PICK h \in [1..c -> C] : {h[i] : i \in 1..c} = C
  BY <1>4, FiniteIsListed
<1> DEFINE entryAt(i) == IF i <= a THEN f[i] ELSE IF i <= a + b THEN g[i - a] ELSE h[i - a - b]
           n == Cardinality(D)
           s == [i \in 1..n |-> entryAt(i)]
<1> HIDE DEF a, b, c
<1>12. /\ \A i \in 1..n : i <= a => entryAt(i) \in A
       /\ \A i \in 1..n : i > a /\ i <= a + b => entryAt(i) \in B
       /\ \A i \in 1..n : i > a + b => entryAt(i) \in C
  BY <1>7, <1>8, <1>9, <1>10, <1>11
<1>13. /\ \A p \in A : \E i \in 1..n : entryAt(i) = p
       /\ \A p \in B : \E i \in 1..n : entryAt(i) = p
       /\ \A p \in C : \E i \in 1..n : entryAt(i) = p
  <2>1. ASSUME NEW p \in A PROVE \E i \in 1..n : entryAt(i) = p
    <3>1. PICK k \in 1..a : f[k] = p
      BY <1>9
    <3>2. k \in 1..n /\ entryAt(k) = p
      BY <1>7, <1>8, <3>1
    <3> QED
      BY <3>2
  <2>2. ASSUME NEW p \in B PROVE \E i \in 1..n : entryAt(i) = p
    <3>1. PICK k \in 1..b : g[k] = p
      BY <1>10
    <3>2. a + k \in 1..n /\ entryAt(a + k) = p
      BY <1>7, <1>8, <3>1
    <3> QED
      BY <3>2
  <2>3. ASSUME NEW p \in C PROVE \E i \in 1..n : entryAt(i) = p
    <3>1. PICK k \in 1..c : h[k] = p
      BY <1>11
    <3>2. a + b + k \in 1..n /\ entryAt(a + b + k) = p
      BY <1>7, <1>8, <3>1
    <3> QED
      BY <3>2
  <2> QED
    BY <2>1, <2>2, <2>3
<1>14. n \in Nat /\ \A i \in 1..n : entryAt(i) \in D
  BY <1>5, <1>7, <1>8, <1>12
<1> HIDE DEF entryAt
<1>15. s \in [1..n -> FilePath] /\ DOMAIN s = 1..n /\ \A i \in 1..n : s[i] = entryAt(i)
  BY <1>1, <1>14
<1>16. {s[i] : i \in DOMAIN s} = D
  <2>1. \A p \in D : \E i \in 1..n : entryAt(i) = p
    BY <1>3, <1>13
  <2> QED
    BY <1>14, <1>15, <2>1
<1>17. ASSUME NEW i \in 1..n, NEW j \in 1..n, i < j
       PROVE  ModeRank(scope[s[i]]) <= ModeRank(scope[s[j]])
  <2>1. \/ i <= a /\ ModeRank(scope[entryAt(i)]) = 0
        \/ i > a /\ i <= a + b /\ ModeRank(scope[entryAt(i)]) = 1
        \/ i > a + b /\ ModeRank(scope[entryAt(i)]) = 2
    BY <1>6, <1>7, <1>12
  <2>2. \/ j <= a /\ ModeRank(scope[entryAt(j)]) = 0
        \/ j > a /\ j <= a + b /\ ModeRank(scope[entryAt(j)]) = 1
        \/ j > a + b /\ ModeRank(scope[entryAt(j)]) = 2
    BY <1>6, <1>7, <1>12
  <2>3. ModeRank(scope[entryAt(i)]) <= ModeRank(scope[entryAt(j)])
    BY <1>7, <1>17, <2>1, <2>2
  <2> QED
    BY <1>15, <2>3
<1> HIDE DEF s
<1>18. s \in [1..n -> FilePath] /\ {s[i] : i \in DOMAIN s} = D
       /\ \A i, j \in DOMAIN s : i < j => ModeRank(scope[s[i]]) <= ModeRank(scope[s[j]])
  BY <1>15, <1>16, <1>17
<1> QED
  BY <1>18 DEF n, D

\* So the order the pages are read in is an enumeration of the scope.
LEMMA OrderEnumerates ==
  ASSUME frozen.scope \in CandidateScope
  PROVE  Enumerates(ScopeOrder, frozen.scope)
<1> DEFINE N == Cardinality(DOMAIN frozen.scope)
           Good(s) == /\ {s[i] : i \in DOMAIN s} = DOMAIN frozen.scope
                      /\ \A i, j \in DOMAIN s : i < j => ModeRank(frozen.scope[s[i]]) <= ModeRank(frozen.scope[s[j]])
           Lists == UNION {[1..n -> FilePath] : n \in {N}}
<1>1. Lists = [1..N -> FilePath]
  OBVIOUS
<1>2. \E s \in [1..N -> FilePath] : Good(s)
  BY ScopeHasOrder
<1>3. ScopeOrder = CHOOSE s \in Lists : Good(s)
  BY DEF ScopeOrder
<1> HIDE DEF Lists, N
<1>4. ScopeOrder \in [1..N -> FilePath] /\ Good(ScopeOrder)
  <2> HIDE DEF Good
  <2> QED
    BY <1>1, <1>2, <1>3
<1> QED
  BY <1>4 DEF Enumerates, N

-----------------------------------------------------------------------------
(* The contributor's steps.                                                *)

\* At the start every file is committed and indexed.
LEMMA CandidateInitially ==
  ASSUME TreeInit
  PROVE  CandidateInv
<1>1. head \in FileTree
  BY DEF TreeInit, FileTree, FileEntry
<1>2. disk \in [FilePath -> [entry : FileEntry, time : Nat]]
  BY <1>1 DEF TreeInit, FileTree
<1> DEFINE slot == [p \in FilePath |-> [entry |-> head[p], stat |-> 0, smudged |-> FALSE]]
<1>3. slot \in [FilePath -> IndexSlot] /\ \A p \in FilePath : slot[p].entry = head[p]
  BY <1>1 DEF FileTree, IndexSlot
<1>4. liveIndex = [slot |-> slot, time |-> Backdate]
  BY DEF TreeInit
<1> HIDE DEF slot
<1>5. liveIndex \in GitIndex /\ liveIndex.time <= treeClock /\ treeClock \in Nat /\ edits \in Nat
  <2>1. treeClock = Backdate /\ edits = 0
    BY DEF TreeInit
  <2>2. liveIndex \in GitIndex /\ liveIndex.time = Backdate
    BY <1>3, <1>4, TreeAssumption DEF GitIndex
  <2> QED
    BY <2>1, <2>2, TreeAssumption
<1>6. Vouched(liveIndex)
  BY <1>3, <1>4 DEF Vouched, TreeInit
<1> QED
  BY <1>1, <1>2, <1>5, <1>6 DEF CandidateInv, WorktreeOK, FreezingSound, FrozenSound, PagesSound, TreeInit

\* An edit leaves its mark on every index: the file is younger than the index.
LEMMA EditIsRead ==
  ASSUME WorktreeOK, NEW idx \in GitIndex, idx.time <= treeClock, Vouched(idx),
         NEW p \in FilePath, NEW e \in FileEntry, EditFile(p, e)
  PROVE  \A q \in FilePath : ~MustRead(idx, q)' => idx.slot[q].entry = disk'[q].entry
<1> SUFFICES ASSUME NEW q \in FilePath, ~MustRead(idx, q)'
             PROVE  idx.slot[q].entry = disk'[q].entry
  OBVIOUS
<1>1. disk' = [disk EXCEPT ![p] = [entry |-> e, time |-> treeClock]] /\ disk \in [FilePath -> [entry : FileEntry, time : Nat]]
  BY DEF EditFile, WorktreeOK
<1>2. idx.slot[q].stat = disk'[q].time /\ idx.slot[q].stat < idx.time /\ ~idx.slot[q].smudged
  <2>1. idx.slot[q].stat \in Int /\ idx.time \in Int
    BY IndexHasTree DEF GitIndex
  <2> QED
    BY <2>1 DEF MustRead
<1>3. q # p
  BY <1>1, <1>2, IndexHasTree DEF WorktreeOK, GitIndex
<1>4. disk'[q] = disk[q]
  BY <1>1, <1>3
<1>5. ~MustRead(idx, q)
  BY <1>2, <1>4, IndexHasTree DEF MustRead, GitIndex
<1> QED
  BY <1>4, <1>5 DEF Vouched

\* So an edit keeps every index that vouched vouching.
LEMMA EditKeepsCandidate ==
  ASSUME CandidateInv, NEW p \in FilePath, NEW e \in FileEntry, EditFile(p, e)
  PROVE  CandidateInv'
<1>1. WorktreeOK'
  BY DEF EditFile, WorktreeOK, CandidateInv
<1>2. UNCHANGED <<treeClock, head, liveIndex, freezing, frozen, pages>> /\ WorktreeOK
  BY DEF EditFile, CandidateInv
<1>3. Vouched(liveIndex)'
  <2>1. liveIndex \in GitIndex /\ liveIndex.time <= treeClock /\ Vouched(liveIndex)
    BY DEF CandidateInv, WorktreeOK
  <2>2. PICK idx : idx = liveIndex
    OBVIOUS
  <2>3. \A q \in FilePath : ~MustRead(idx, q)' => idx.slot[q].entry = disk'[q].entry
    BY <1>2, <2>1, <2>2, EditIsRead
  <2> QED
    BY <1>2, <2>2, <2>3 DEF Vouched, MustRead
<1>4. FreezingSound'
  <2>1. CASE freezing = NotFreezing
    BY <1>2, <2>1 DEF FreezingSound
  <2>2. CASE freezing # NotFreezing
    <3>1. freezing \in FreezeState /\ freezing.idx.time <= treeClock
      BY <2>2 DEF CandidateInv, FreezingSound
    <3>2. freezing.idx \in GitIndex
      BY <3>1 DEF FreezeState
    <3>3. PICK idx : idx = freezing.idx
      OBVIOUS
    <3>4. Vouched(idx) => \A q \in FilePath : ~MustRead(idx, q)' => idx.slot[q].entry = disk'[q].entry
      BY <1>2, <3>1, <3>2, <3>3, EditIsRead
    <3>5. Vouched(freezing.idx) => Vouched(freezing.idx)'
      BY <1>2, <3>3, <3>4 DEF Vouched, MustRead
    <3> QED
      BY <1>2, <2>2, <3>5 DEF CandidateInv, FreezingSound
  <2> QED
    BY <2>1, <2>2
<1>5. FrozenSound' /\ PagesSound'
  BY <1>2 DEF CandidateInv, FrozenSound, PagesSound
<1> QED
  BY <1>1, <1>3, <1>4, <1>5 DEF CandidateInv

\* Writing the live index keeps it vouching: what its old time could not vouch for is marked.
LEMMA AddKeepsCandidate ==
  ASSUME CandidateInv, NEW P \in SUBSET FilePath, GitAdd(P)
  PROVE  CandidateInv'
<1> DEFINE unseen(p) == liveIndex.slot[p].smudged
                           \/ (liveIndex.slot[p].stat >= liveIndex.time /\ liveIndex.slot[p].entry # disk[p].entry)
           next(p) == IF p \in P THEN [entry |-> disk[p].entry, stat |-> disk[p].time, smudged |-> FALSE]
                      ELSE [liveIndex.slot[p] EXCEPT !.smudged = unseen(p)]
<1>1. liveIndex' = [slot |-> [p \in FilePath |-> next(p)], time |-> treeClock]
  BY DEF GitAdd
<1>2. UNCHANGED <<treeClock, edits, head, disk, freezing, frozen, pages>> /\ WorktreeOK
  BY DEF GitAdd, CandidateInv
<1>3. \A p \in FilePath : liveIndex.slot[p] \in IndexSlot /\ liveIndex.slot[p].stat \in Int /\ liveIndex.time \in Int
  BY <1>2, IndexHasTree DEF WorktreeOK, GitIndex
<1>4. ASSUME NEW p \in FilePath
      PROVE  /\ next(p) \in IndexSlot
             /\ p \notin P => next(p).entry = liveIndex.slot[p].entry /\ next(p).stat = liveIndex.slot[p].stat
                               /\ next(p).smudged = unseen(p)
             /\ p \in P => next(p).entry = disk[p].entry
  <2>1. PICK s \in IndexSlot : s = liveIndex.slot[p]
    BY <1>3
  <2>2. PICK u \in BOOLEAN : u = unseen(p)
    <3>1. unseen(p) \in BOOLEAN
      BY <1>3 DEF IndexSlot
    <3> QED
      BY <3>1
  <2>3. p \notin P => next(p) = [s EXCEPT !.smudged = u]
    BY <2>1, <2>2
  <2>4. p \in P => next(p) = [entry |-> disk[p].entry, stat |-> disk[p].time, smudged |-> FALSE]
    OBVIOUS
  <2>5. disk[p].entry \in FileEntry /\ disk[p].time \in Nat
    BY <1>2 DEF WorktreeOK
  <2>6. [s EXCEPT !.smudged = u] \in IndexSlot /\ [s EXCEPT !.smudged = u].entry = s.entry
        /\ [s EXCEPT !.smudged = u].stat = s.stat /\ [s EXCEPT !.smudged = u].smudged = u
    BY DEF IndexSlot
  <2> HIDE DEF next, unseen
  <2>7. CASE p \in P
    <3>1. PICK d \in FileEntry, t \in Int : d = disk[p].entry /\ t = disk[p].time
      BY <2>5
    <3>2. [entry |-> d, stat |-> t, smudged |-> FALSE] \in IndexSlot
      BY DEF IndexSlot
    <3>3. next(p) = [entry |-> d, stat |-> t, smudged |-> FALSE]
      BY <2>4, <2>7, <3>1
    <3>4. next(p) \in IndexSlot /\ next(p).entry = disk[p].entry
      BY <3>1, <3>2, <3>3
    <3> QED
      BY <2>7, <3>4
  <2>8. CASE p \notin P
    BY <2>1, <2>2, <2>3, <2>6, <2>8
  <2> QED
    BY <2>7, <2>8
<1> HIDE DEF next
<1>5. PICK m : m = [p \in FilePath |-> next(p)]
  OBVIOUS
<1>6. m \in [FilePath -> IndexSlot] /\ liveIndex' = [slot |-> m, time |-> treeClock]
  BY <1>1, <1>4, <1>5
<1>7. WorktreeOK'
  BY <1>2, <1>6 DEF WorktreeOK, GitIndex
<1>8. Vouched(liveIndex)'
  <2> SUFFICES ASSUME NEW p \in FilePath, ~MustRead(liveIndex, p)'
               PROVE  liveIndex'.slot[p].entry = disk'[p].entry
    BY DEF Vouched
  <2>1. liveIndex'.slot[p] = next(p) /\ liveIndex'.time = treeClock
    BY <1>5, <1>6
  <2>2. CASE p \in P
    BY <1>2, <1>4, <2>1, <2>2
  <2>3. CASE p \notin P
    <3>1. ~unseen(p) /\ liveIndex.slot[p].stat = disk[p].time
      BY <1>2, <1>4, <2>1, <2>3 DEF MustRead
    <3>2. liveIndex.slot[p].entry = disk[p].entry
      <4>1. CASE liveIndex.slot[p].stat >= liveIndex.time
        BY <3>1, <4>1
      <4>2. CASE ~(liveIndex.slot[p].stat >= liveIndex.time)
        BY <3>1, <4>2 DEF MustRead, CandidateInv, Vouched
      <4> QED
        BY <4>1, <4>2
    <3> QED
      BY <1>2, <1>4, <2>1, <2>3, <3>2
  <2> QED
    BY <2>2, <2>3
<1>9. FreezingSound' /\ FrozenSound' /\ PagesSound'
  BY <1>2 DEF CandidateInv, FreezingSound, FrozenSound, PagesSound, Vouched, MustRead
<1> QED
  BY <1>7, <1>8, <1>9 DEF CandidateInv

\* Neither a commit nor the time that passes changes what the indexes vouch for.
LEMMA CommitKeepsCandidate ==
  ASSUME CandidateInv, CommitIndex \/ ClockTicks
  PROVE  CandidateInv'
<1>1. UNCHANGED <<edits, disk, liveIndex, freezing, frozen, pages>> /\ WorktreeOK
  BY DEF CommitIndex, ClockTicks, CandidateInv
<1>2. treeClock' \in Nat /\ treeClock <= treeClock'
  BY <1>1 DEF CommitIndex, ClockTicks, WorktreeOK
<1>3. head' \in FileTree
  BY <1>1, IndexHasTree DEF CommitIndex, ClockTicks, WorktreeOK
<1>4. WorktreeOK'
  <2>1. liveIndex.time \in Int /\ treeClock \in Nat
    BY <1>1 DEF WorktreeOK, GitIndex
  <2>2. liveIndex.time <= treeClock'
    BY <1>1, <1>2, <2>1 DEF WorktreeOK
  <2> QED
    BY <1>1, <1>2, <1>3, <2>2 DEF WorktreeOK
<1>5. Vouched(liveIndex)'
  BY <1>1 DEF CandidateInv, Vouched, MustRead
<1>6. FreezingSound'
  <2>1. CASE freezing = NotFreezing
    BY <1>1, <2>1 DEF FreezingSound
  <2>2. CASE freezing # NotFreezing
    <3>1. freezing \in FreezeState /\ freezing.idx.time <= treeClock
      BY <2>2 DEF CandidateInv, FreezingSound
    <3>2. freezing.idx.time \in Int /\ treeClock \in Nat
      BY <1>1, <3>1 DEF FreezeState, GitIndex, WorktreeOK
    <3>3. freezing.idx.time <= treeClock'
      BY <1>2, <3>1, <3>2
    <3>4. Vouched(freezing.idx) => Vouched(freezing.idx)'
      BY <1>1 DEF Vouched, MustRead
    <3> QED
      BY <1>1, <2>2, <3>3, <3>4 DEF CandidateInv, FreezingSound
  <2> QED
    BY <2>1, <2>2
<1>7. FrozenSound' /\ PagesSound'
  BY <1>1 DEF CandidateInv, FrozenSound, PagesSound
<1> QED
  BY <1>4, <1>5, <1>6, <1>7 DEF CandidateInv

-----------------------------------------------------------------------------
(* Freezing.                                                               *)

\* The steps of a freeze leave the contributor's files alone, and the view.
LEMMA FreezeAlone ==
  ASSUME CandidateInv, UNCHANGED <<userVars, frozen, pages>>
  PROVE  /\ (WorktreeOK /\ Vouched(liveIndex) /\ FrozenSound /\ PagesSound)'
         /\ WorktreeOK /\ Vouched(liveIndex) /\ FreezingSound
         /\ UNCHANGED treeClock /\ UNCHANGED disk /\ UNCHANGED frozen
<1>1. UNCHANGED <<treeClock, edits, head, disk, liveIndex, frozen, pages>>
  BY DEF userVars
<1>2. WorktreeOK /\ Vouched(liveIndex) /\ FreezingSound /\ FrozenSound /\ PagesSound
  BY DEF CandidateInv
<1>3. WorktreeOK'
  BY <1>1, <1>2 DEF WorktreeOK
<1>4. Vouched(liveIndex)'
  BY <1>1, <1>2 DEF Vouched, MustRead
<1>5. FrozenSound'
  BY <1>1, <1>2 DEF FrozenSound
<1>6. PagesSound'
  BY <1>1, <1>2 DEF PagesSound
<1> QED
  BY <1>1, <1>2, <1>3, <1>4, <1>5, <1>6

\* A freeze begins with the index of a commit, of which no path has a recorded time.
LEMMA FreezingBegins ==
  ASSUME CandidateInv, NEW r \in FreezeRequest, NEW base \in FileTree, NEW expect \in Expectation,
         freezing' = Freezing(r, base, head, expect), frozen.pc = "none",
         UNCHANGED <<userVars, frozen, pages>>,
         expect # <<>> => expect[2] = DeriveChangedPathManifest(base, expect[1])
  PROVE  CandidateInv'
<1>1. PICK idx : idx = ReadTree(head)
  OBVIOUS
<1>2. /\ treeClock \in Nat /\ head \in FileTree /\ treeClock' = treeClock /\ disk' = disk
      /\ (WorktreeOK /\ Vouched(liveIndex) /\ FrozenSound /\ PagesSound)'
  BY FreezeAlone DEF WorktreeOK
<1>3. NoSlot \in IndexSlot /\ NoSlot.stat = -1
  BY GoneIsAbsent DEF NoSlot, IndexSlot
<1>4. PICK m : m = [p \in FilePath |-> [NoSlot EXCEPT !.entry = head[p]]]
  OBVIOUS
<1>5. /\ idx \in GitIndex /\ idx.time = treeClock
      /\ \A p \in FilePath : idx.slot[p].entry = head[p] /\ idx.slot[p].stat = -1
  <2>1. PICK z \in IndexSlot : z = NoSlot
    BY <1>3
  <2>2. \A e \in FileEntry : /\ [z EXCEPT !.entry = e] \in IndexSlot
                             /\ [z EXCEPT !.entry = e].entry = e /\ [z EXCEPT !.entry = e].stat = z.stat
    BY DEF IndexSlot
  <2>3. \A p \in FilePath : head[p] \in FileEntry /\ m[p] = [z EXCEPT !.entry = head[p]]
    BY <1>2, <1>4, <2>1 DEF FileTree
  <2>4. m \in [FilePath -> IndexSlot]
    <3>1. \A p \in FilePath : [NoSlot EXCEPT !.entry = head[p]] \in IndexSlot
      BY <2>1, <2>2, <2>3
    <3> HIDE DEF IndexSlot
    <3> QED
      BY <1>4, <3>1
  <2>5. ASSUME NEW p \in FilePath PROVE m[p].entry = head[p] /\ m[p].stat = -1
    <3>1. PICK e \in FileEntry : e = head[p]
      BY <2>3
    <3>2. [z EXCEPT !.entry = e].entry = e /\ [z EXCEPT !.entry = e].stat = z.stat
      BY <2>2
    <3>3. m[p] = [z EXCEPT !.entry = e]
      BY <2>3, <3>1
    <3>4. z.stat = -1
      BY <1>3, <2>1
    <3>5. m[p].entry = e /\ m[p].stat = z.stat
      BY <3>2, <3>3
    <3> QED
      BY <3>1, <3>4, <3>5
  <2>6. idx = [slot |-> m, time |-> treeClock]
    BY <1>1, <1>4 DEF ReadTree
  <2> QED
    BY <1>2, <2>4, <2>5, <2>6 DEF GitIndex
<1>6. TreeOfIndex(idx) = head
  BY <1>2, <1>5 DEF TreeOfIndex, FileTree
<1>7. r.kind \in FreezeKind /\ r.untracked \in SUBSET FilePath
  BY DEF FreezeRequest, FreezeKind
<1>8. PICK k \in FreezeKind, u \in SUBSET FilePath, h \in FileTree : k = r.kind /\ u = r.untracked /\ h = head
  BY <1>2, <1>7
<1>9. freezing' = [pc |-> "seed", kind |-> k, untracked |-> u, base |-> base, expect |-> expect, idx |-> idx, seen |-> h]
  BY <1>1, <1>8 DEF Freezing
<1>10. freezing' \in FreezeState
  BY <1>5, <1>8, <1>9 DEF FreezeState
<1>11. frozen' = [pc |-> "none"]
  BY FreezeAlone DEF CandidateInv, FrozenSound, FrozenState
<1>12. FreezingSound'
  <2>1. /\ freezing'.pc = "seed" /\ freezing'.expect = expect /\ freezing'.base = base
        /\ freezing'.idx = idx /\ freezing'.seen = h
    BY <1>9
  <2>2. TreeOfIndex(freezing'.idx) = freezing'.seen
    BY <1>6, <1>8, <2>1
  <2>3. \A p \in FilePath : freezing'.idx.slot[p].stat = -1
    BY <1>5, <2>1
  <2>4. freezing'.idx.time <= treeClock'
    BY <1>2, <1>5, <2>1
  <2> QED
    BY <1>10, <1>11, <2>1, <2>2, <2>3, <2>4 DEF FreezingSound, TreeOfIndex, DeriveChangedPathManifest
<1> QED
  BY <1>2, <1>12 DEF CandidateInv

\* Whether for a request of the parent or for what native STATUS named.
LEMMA BeginKeepsCandidate ==
  ASSUME CandidateInv, NEW r \in FreezeRequest,
         \/ \E base \in {head, EmptyTree} : BeginFreeze(r, base)
         \/ \E shown, other \in NamedTree : BeginRestore(r, shown, DeriveChangedPathManifest(head, other))
  PROVE  CandidateInv'
<1>1. WorktreeOK /\ head \in FileTree
  BY DEF CandidateInv, WorktreeOK
<1>2. EmptyTree \in FileTree
  BY GoneIsAbsent DEF EmptyTree, FileTree
<1>3. CASE \E base \in {head, EmptyTree} : BeginFreeze(r, base)
  <2>1. PICK base \in {head, EmptyTree} : BeginFreeze(r, base)
    BY <1>3
  <2>2. /\ freezing' = Freezing(r, base, head, <<>>) /\ frozen.pc = "none"
        /\ UNCHANGED <<userVars, frozen, pages>>
    BY <2>1 DEF BeginFreeze
  <2>3. base \in FileTree /\ <<>> \in Expectation
    BY <1>1, <1>2 DEF Expectation
  <2> QED
    BY <2>2, <2>3, FreezingBegins
<1>4. CASE \E shown, other \in NamedTree : BeginRestore(r, shown, DeriveChangedPathManifest(head, other))
  <2>1. PICK shown \in NamedTree, other \in NamedTree : BeginRestore(r, shown, DeriveChangedPathManifest(head, other))
    BY <1>4
  <2>2. PICK claimed : claimed = DeriveChangedPathManifest(head, other)
    OBVIOUS
  <2>3. /\ freezing' = Freezing(r, head, head, <<shown, claimed>>) /\ frozen.pc = "none"
        /\ UNCHANGED <<userVars, frozen, pages>>
        /\ claimed = DeriveChangedPathManifest(head, shown)
    BY <2>1, <2>2 DEF BeginRestore, AssertManifestMatchesGit
  <2>4. shown \in FileTree
    <3>1. TreeOfIndex(liveIndex) \in FileTree
      BY <1>1, IndexHasTree DEF WorktreeOK
    <3>2. [p \in FilePath |-> disk[p].entry] \in FileTree
      BY <1>1 DEF WorktreeOK, FileTree
    <3> QED
      BY <1>1, <3>1, <3>2 DEF NamedTree
  <2>5. PICK m \in Manifest : m = claimed
    BY <1>1, <2>3, <2>4, ManifestIsManifest
  <2>6. PICK expect : expect = <<shown, m>>
    OBVIOUS
  <2>7. expect \in Expectation /\ expect[1] = shown /\ expect[2] = m
    BY <2>4, <2>6 DEF Expectation
  <2>8. freezing' = Freezing(r, head, head, expect)
    BY <2>3, <2>5, <2>6
  <2>9. PICK b \in FileTree : b = head
    BY <1>1
  <2>10. expect # <<>> => expect[2] = DeriveChangedPathManifest(b, expect[1])
    BY <2>3, <2>5, <2>7, <2>9
  <2>11. freezing' = Freezing(r, b, head, expect)
    BY <2>8, <2>9
  <2> QED
    BY <2>3, <2>7, <2>10, <2>11, FreezingBegins
<1> QED
  BY <1>3, <1>4

\* A freeze that fails leaves nothing.
LEMMA FailingKeepsCandidate ==
  ASSUME CandidateInv, FreezeFails
  PROVE  CandidateInv'
<1>1. UNCHANGED <<userVars, frozen, pages>> /\ freezing' = NotFreezing
  BY DEF FreezeFails
<1>2. FreezingSound'
  BY <1>1 DEF FreezingSound
<1> QED
  BY <1>1, <1>2, FreezeAlone DEF CandidateInv

\* What is being frozen, once it is.
LEMMA FreezingIs ==
  ASSUME CandidateInv, freezing.pc # "idle"
  PROVE  freezing \in FreezeState /\ freezing # NotFreezing
<1>1. freezing # NotFreezing
  BY DEF NotFreezing
<1> QED
  BY <1>1 DEF CandidateInv, FreezingSound

\* A step of a freeze keeps what was asked for, and ends with an index and what was seen.
LEMMA FreezingGoesOn ==
  ASSUME CandidateInv, freezing.pc # "idle", UNCHANGED <<userVars, frozen, pages>>,
         NEW f \in FreezeState, freezing' = f,
         f.kind = freezing.kind, f.base = freezing.base, f.expect = freezing.expect,
         f.idx.time <= treeClock,
         f.pc # "update" => TreeOfIndex(f.idx) = f.seen,
         f.pc \in {"seed", "all"} => \A p \in FilePath : f.idx.slot[p].stat = -1,
         f.pc \in {"update", "intended"} => f.kind = "selected" /\ Vouched(f.idx),
         f.pc = "all" => f.kind = "legacy"
  PROVE  CandidateInv'
<1>1. /\ (WorktreeOK /\ Vouched(liveIndex) /\ FrozenSound /\ PagesSound)'
      /\ treeClock' = treeClock /\ disk' = disk /\ frozen' = frozen
  BY FreezeAlone
<1>2. frozen = [pc |-> "none"] /\ (freezing.expect # <<>> =>
          freezing.expect[2] = DeriveChangedPathManifest(freezing.base, freezing.expect[1]))
  BY FreezingIs DEF CandidateInv, FreezingSound
<1>3. Vouched(f.idx) => Vouched(f.idx)'
  BY <1>1 DEF Vouched, MustRead
<1>4. TreeOfIndex(f.idx)' = TreeOfIndex(f.idx)
  BY DEF TreeOfIndex
<1>5. f.expect # <<>> => f.expect[2] = DeriveChangedPathManifest(f.base, f.expect[1])
  BY <1>2
<1>6. FreezingSound'
  <2>1. f \in FreezeState /\ frozen' = [pc |-> "none"] /\ f.idx.time <= treeClock'
    BY <1>1, <1>2
  <2>2. f.pc \in {"update", "intended"} => f.kind = "selected" /\ Vouched(f.idx)'
    BY <1>3
  <2>3. f.pc # "update" => TreeOfIndex(f.idx)' = f.seen
    BY <1>4
  <2> QED
    BY <1>5, <2>1, <2>2, <2>3 DEF FreezingSound
<1> QED
  BY <1>1, <1>6 DEF CandidateInv

\* Rounding down never goes up.
LEMMA RoundedDown ==
  ASSUME NEW t \in Int
  PROVE  RoundDown(t) \in Int /\ RoundDown(t) <= t
<1>1. PICK g \in Nat \ {0} : g = Granularity
  BY TreeAssumption
<1>2. (t \div g) * g <= t /\ t \div g \in Int
  OBVIOUS
<1>3. PICK d \in Int : d = t \div g
  BY <1>2
<1>4. d * g \in Int
  OBVIOUS
<1> QED
  BY <1>1, <1>2, <1>3, <1>4 DEF RoundDown

\* Updating paths records of each what is on disk, when the index vouches for the ones Git does
\* not read, and of the others what was recorded.
LEMMA SlotsAreDisk ==
  ASSUME WorktreeOK, freezing \in FreezeState, NEW P \in SUBSET FilePath,
         NEW next \in {"intended", "write"},
         \A p \in P : ~MustRead(freezing.idx, p) => freezing.idx.slot[p].entry = disk[p].entry
  PROVE  \E f \in FreezeState :
            /\ f = [WithSlots(P) EXCEPT !.pc = next]
            /\ f.pc = next /\ f.kind = freezing.kind /\ f.base = freezing.base /\ f.expect = freezing.expect
            /\ f.idx.time = freezing.idx.time
            /\ \A p \in FilePath \ P : f.idx.slot[p] = freezing.idx.slot[p]
            /\ \A p \in P : f.idx.slot[p].entry = disk[p].entry /\ f.seen[p] = disk[p].entry
            /\ \A p \in FilePath \ P :
                  f.seen[p] = IF freezing.kind = "selected" /\ freezing.pc = "update" THEN AbsentEntry
                              ELSE freezing.seen[p]
<1> DEFINE entryAt(p) == IF p \in P THEN [entry |-> Refreshed(freezing.idx, p), stat |-> disk[p].time, smudged |-> FALSE]
                    ELSE freezing.idx.slot[p]
           saw(p) == IF p \in P THEN disk[p].entry
                     ELSE IF freezing.kind = "selected" /\ freezing.pc = "update" THEN AbsentEntry
                     ELSE freezing.seen[p]
<1>1. freezing.idx \in GitIndex /\ freezing.seen \in FileTree
  BY DEF FreezeState
<1>2. \A p \in FilePath : disk[p].entry \in FileEntry /\ disk[p].time \in Nat
  BY DEF WorktreeOK
<1>3. \A p \in P : Refreshed(freezing.idx, p) = disk[p].entry
  BY <1>1, RefreshedIsDisk
<1>4. ASSUME NEW p \in FilePath
      PROVE  entryAt(p) \in IndexSlot /\ (p \in P => entryAt(p).entry = disk[p].entry)
  <2>1. CASE p \in P
    <3>1. PICK d \in FileEntry, t \in Int : d = disk[p].entry /\ t = disk[p].time
      BY <1>2
    <3>2. [entry |-> d, stat |-> t, smudged |-> FALSE] \in IndexSlot
      BY DEF IndexSlot
    <3>3. entryAt(p) = [entry |-> d, stat |-> t, smudged |-> FALSE]
      BY <1>3, <2>1, <3>1
    <3> HIDE DEF entryAt
    <3> QED
      BY <3>1, <3>2, <3>3
  <2>2. CASE p \notin P
    BY <1>1, <2>2, IndexHasTree
  <2> QED
    BY <2>1, <2>2
<1>5. \A p \in FilePath : saw(p) \in FileEntry
  BY <1>1, <1>2, GoneIsAbsent DEF FileTree
<1>6. PICK m : m = [p \in FilePath |-> entryAt(p)]
  OBVIOUS
<1>7. PICK s : s = [p \in FilePath |-> saw(p)]
  OBVIOUS
<1>8. WithSlots(P) = [freezing EXCEPT !.idx.slot = m, !.seen = s]
  BY <1>6, <1>7 DEF WithSlots
<1>9. \A p \in FilePath \ P : entryAt(p) = freezing.idx.slot[p]
  OBVIOUS
<1>10. \A p \in P : saw(p) = disk[p].entry
  OBVIOUS
<1>11. \A p \in FilePath \ P : saw(p) = IF freezing.kind = "selected" /\ freezing.pc = "update" THEN AbsentEntry
                                       ELSE freezing.seen[p]
  OBVIOUS
<1> HIDE DEF entryAt, saw
<1>12. m \in [FilePath -> IndexSlot] /\ \A p \in FilePath : m[p] = entryAt(p)
  BY <1>4, <1>6
<1>13. s \in FileTree /\ \A p \in FilePath : s[p] = saw(p)
  BY <1>5, <1>7 DEF FileTree
<1>14. PICK z \in FreezeState : z = freezing
  OBVIOUS
<1>15. PICK i \in GitIndex : i = z.idx
  BY DEF FreezeState
<1>16. PICK j : j = [i EXCEPT !.slot = m]
  OBVIOUS
<1>17. j \in GitIndex /\ j.slot = m /\ j.time = i.time
  BY <1>12, <1>16 DEF GitIndex
<1>18. [z EXCEPT !.idx.slot = m, !.seen = s] = [[z EXCEPT !.idx = j] EXCEPT !.seen = s]
  BY <1>15, <1>16 DEF FreezeState
<1>19. PICK w : w = [z EXCEPT !.idx = j]
  OBVIOUS
<1>20. /\ w \in FreezeState /\ w.idx = j /\ w.kind = z.kind /\ w.base = z.base
       /\ w.expect = z.expect /\ w.pc = z.pc
  BY <1>17, <1>19 DEF FreezeState
<1>21. PICK y : y = [w EXCEPT !.seen = s]
  OBVIOUS
<1>22. /\ y \in FreezeState /\ y.idx = j /\ y.kind = z.kind /\ y.base = z.base /\ y.expect = z.expect /\ y.seen = s
  BY <1>13, <1>20, <1>21 DEF FreezeState
<1>23. PICK f : f = [y EXCEPT !.pc = next]
  OBVIOUS
<1>24. /\ f \in FreezeState /\ f.idx = j /\ f.kind = z.kind /\ f.base = z.base /\ f.expect = z.expect /\ f.seen = s
       /\ f.pc = next
  BY <1>22, <1>23 DEF FreezeState
<1>25. f = [WithSlots(P) EXCEPT !.pc = next]
  BY <1>8, <1>14, <1>18, <1>19, <1>21, <1>23
<1>26. /\ f.idx.time = freezing.idx.time /\ f.idx.slot = m
       /\ f.kind = freezing.kind /\ f.base = freezing.base /\ f.expect = freezing.expect
  BY <1>14, <1>15, <1>17, <1>24
<1>27. \A p \in FilePath \ P : f.idx.slot[p] = freezing.idx.slot[p]
  BY <1>9, <1>12, <1>26
<1>28. \A p \in P : f.idx.slot[p].entry = disk[p].entry /\ f.seen[p] = disk[p].entry
  <2> SUFFICES ASSUME NEW p \in P PROVE f.idx.slot[p].entry = disk[p].entry /\ f.seen[p] = disk[p].entry
    OBVIOUS
  <2>1. f.idx.slot[p] = entryAt(p) /\ f.seen[p] = saw(p)
    BY <1>12, <1>13, <1>24, <1>26
  <2> QED
    BY <1>4, <1>10, <2>1
<1>29. \A p \in FilePath \ P : f.seen[p] = saw(p)
  BY <1>13, <1>24
<1>30. \A p \in FilePath \ P : f.seen[p] = IF freezing.kind = "selected" /\ freezing.pc = "update" THEN AbsentEntry
                                         ELSE freezing.seen[p]
  BY <1>11, <1>29
<1>31. f \in FreezeState /\ f.pc = next
  BY <1>24
<1> QED
  BY <1>25, <1>26, <1>27, <1>28, <1>30, <1>31, Zenon

\* The seed: the index of the commit, or a backdated copy of the live index, which vouches for
\* no more than the live index does.
LEMMA SeedKeepsCandidate ==
  ASSUME CandidateInv, SeedPrivateIndex
  PROVE  CandidateInv'
<1>1. UNCHANGED <<userVars, frozen, pages>> /\ freezing.pc = "seed"
  BY DEF SeedPrivateIndex
<1>2. freezing \in FreezeState /\ freezing # NotFreezing
  BY <1>1, FreezingIs
<1>3. TreeOfIndex(freezing.idx) = freezing.seen /\ \A p \in FilePath : freezing.idx.slot[p].stat = -1
  BY <1>1, <1>2 DEF CandidateInv, FreezingSound
<1>4. treeClock \in Nat /\ liveIndex \in GitIndex /\ liveIndex.time <= treeClock /\ Vouched(liveIndex)
  BY DEF CandidateInv, WorktreeOK
<1>5. CASE freezing.kind # "selected"
  <2>1. freezing' = [freezing EXCEPT !.pc = IF freezing.kind = "committed" THEN "write" ELSE "all",
                                     !.idx.time = treeClock]
    BY <1>5 DEF SeedPrivateIndex
  <2>2. PICK z \in FreezeState, n \in {"write", "all"}, c \in Int :
           z = freezing /\ n = (IF freezing.kind = "committed" THEN "write" ELSE "all") /\ c = treeClock
    BY <1>2, <1>4
  <2>3. PICK i \in GitIndex : i = z.idx
    BY DEF FreezeState
  <2>4. PICK j : j = [i EXCEPT !.time = c]
    OBVIOUS
  <2>5. j \in GitIndex /\ j.slot = i.slot /\ j.time = c
    BY <2>4 DEF GitIndex
  <2>6. PICK w : w = [z EXCEPT !.pc = n]
    OBVIOUS
  <2>7. /\ w \in FreezeState /\ w.idx = i /\ w.kind = z.kind /\ w.base = z.base /\ w.expect = z.expect
        /\ w.seen = z.seen /\ w.pc = n
    BY <2>3, <2>6 DEF FreezeState
  <2>8. PICK f : f = [w EXCEPT !.idx = j]
    OBVIOUS
  <2>9. /\ f \in FreezeState /\ f.idx = j /\ f.kind = z.kind /\ f.base = z.base /\ f.expect = z.expect
        /\ f.seen = z.seen /\ f.pc = n
    BY <2>5, <2>7, <2>8 DEF FreezeState
  <2>10. [z EXCEPT !.pc = n, !.idx.time = c] = f
    BY <2>3, <2>4, <2>6, <2>7, <2>8 DEF FreezeState
  <2>11. freezing' = f
    BY <2>1, <2>2, <2>10
  <2>12. TreeOfIndex(f.idx) = f.seen /\ \A p \in FilePath : f.idx.slot[p].stat = -1
    BY <1>3, <2>2, <2>3, <2>5, <2>9 DEF TreeOfIndex
  <2>13. f.pc = "all" => f.kind = "legacy"
    BY <1>5, <2>2, <2>9 DEF FreezeState, FreezeKind
  <2>14. f.idx.time <= treeClock
    BY <1>4, <2>2, <2>5, <2>9
  <2> QED
    BY <1>1, <2>2, <2>9, <2>11, <2>12, <2>13, <2>14, FreezingGoesOn
<1>6. CASE freezing' = NotFreezing
  BY <1>1, <1>6, FailingKeepsCandidate DEF FreezeFails
<1>7. CASE freezing.kind = "selected" /\ freezing' = [freezing EXCEPT !.pc = "update", !.idx = [liveIndex EXCEPT !.time = PrivateTime]]
  <2>1. PICK t \in Int : t = PrivateTime /\ t <= liveIndex.time
    <3>1. PICK b \in Nat, l \in Int : b = Backdate /\ l = liveIndex.time
      BY <1>4, TreeAssumption DEF GitIndex
    <3>2. l - b \in Int /\ l - b <= l
      BY <3>1
    <3>3. RoundDown(l - b) \in Int /\ RoundDown(l - b) <= l - b
      BY <3>2, RoundedDown
    <3>4. PrivateTime = RoundDown(l - b)
      BY <3>1 DEF PrivateTime
    <3> QED
      BY <3>1, <3>2, <3>3, <3>4
  <2>2. PICK l \in GitIndex : l = liveIndex
    BY <1>4
  <2>3. PICK j : j = [l EXCEPT !.time = t]
    OBVIOUS
  <2>4. j \in GitIndex /\ j.slot = l.slot /\ j.time = t /\ l.time \in Int
    BY <2>3 DEF GitIndex
  <2>5. PICK z \in FreezeState : z = freezing
    BY <1>2
  <2>6. PICK w : w = [z EXCEPT !.pc = "update"]
    OBVIOUS
  <2>7. /\ w \in FreezeState /\ w.kind = z.kind /\ w.base = z.base /\ w.expect = z.expect /\ w.pc = "update"
    BY <2>6 DEF FreezeState
  <2>8. PICK f : f = [w EXCEPT !.idx = j]
    OBVIOUS
  <2>9. f \in FreezeState /\ f.idx = j /\ f.kind = z.kind /\ f.base = z.base /\ f.expect = z.expect /\ f.pc = "update"
    BY <2>4, <2>7, <2>8 DEF FreezeState
  <2>10. [z EXCEPT !.pc = "update", !.idx = j] = [[z EXCEPT !.pc = "update"] EXCEPT !.idx = j]
    BY DEF FreezeState
  <2>11. freezing' = f
    BY <1>7, <2>1, <2>2, <2>3, <2>5, <2>6, <2>8, <2>10
  <2>12. Vouched(f.idx)
    <3> SUFFICES ASSUME NEW p \in FilePath, ~MustRead(f.idx, p)
                 PROVE  f.idx.slot[p].entry = disk[p].entry
      BY DEF Vouched
    <3>1. f.idx.slot = liveIndex.slot /\ f.idx.time <= liveIndex.time /\ liveIndex.slot[p].stat \in Int
          /\ f.idx.time \in Int /\ liveIndex.time \in Int
      BY <1>4, <2>1, <2>2, <2>4, <2>9, IndexHasTree
    <3>2. ~MustRead(liveIndex, p)
      BY <3>1 DEF MustRead
    <3> QED
      BY <1>4, <3>1, <3>2 DEF Vouched
  <2>13. f.idx.time <= treeClock
    BY <1>4, <2>1, <2>2, <2>4, <2>9
  <2> QED
    BY <1>1, <1>7, <2>5, <2>9, <2>11, <2>12, <2>13, FreezingGoesOn
<1> QED
  BY <1>5, <1>6, <1>7 DEF SeedPrivateIndex

\* git add -u: what the copy holds, as it is on disk.
LEMMA UpdateKeepsCandidate ==
  ASSUME CandidateInv, AddUpdated
  PROVE  CandidateInv'
<1> DEFINE P == PathsOf(TreeOfIndex(freezing.idx))
<1>1. UNCHANGED <<userVars, frozen, pages>> /\ freezing.pc = "update" /\ freezing' = [WithSlots(P) EXCEPT !.pc = "intended"]
  BY DEF AddUpdated
<1>2. WorktreeOK /\ freezing \in FreezeState /\ freezing # NotFreezing
  BY <1>1, FreezingIs DEF CandidateInv
<1>3. freezing.kind = "selected" /\ Vouched(freezing.idx) /\ freezing.idx.time <= treeClock
  BY <1>1, <1>2 DEF CandidateInv, FreezingSound
<1>4. freezing.idx \in GitIndex
  BY <1>2 DEF FreezeState
<1>5. P \in SUBSET FilePath /\ \A p \in FilePath \ P : freezing.idx.slot[p].entry = AbsentEntry
  BY <1>4, IndexHasTree, GoneIsAbsent DEF PathsOf
<1> HIDE DEF P
<1>6. PICK f \in FreezeState :
         /\ f = [WithSlots(P) EXCEPT !.pc = "intended"]
         /\ f.pc = "intended" /\ f.kind = freezing.kind /\ f.base = freezing.base /\ f.expect = freezing.expect
         /\ f.idx.time = freezing.idx.time
         /\ \A p \in FilePath \ P : f.idx.slot[p] = freezing.idx.slot[p]
         /\ \A p \in P : f.idx.slot[p].entry = disk[p].entry /\ f.seen[p] = disk[p].entry
         /\ \A p \in FilePath \ P :
               f.seen[p] = IF freezing.kind = "selected" /\ freezing.pc = "update" THEN AbsentEntry
                           ELSE freezing.seen[p]
  <2>1. \A p \in P : ~MustRead(freezing.idx, p) => freezing.idx.slot[p].entry = disk[p].entry
    BY <1>3, <1>5 DEF Vouched
  <2>2. PICK n \in {"intended", "write"} : n = "intended"
    OBVIOUS
  <2> QED
    BY <1>2, <1>5, <2>1, <2>2, SlotsAreDisk
<1>7. Vouched(f.idx)
  BY <1>3, <1>6 DEF Vouched, MustRead
<1>8. TreeOfIndex(f.idx) = f.seen
  <2>1. f.seen \in FileTree
    BY DEF FreezeState
  <2>2. \A p \in FilePath : f.seen[p] = f.idx.slot[p].entry
    BY <1>1, <1>3, <1>5, <1>6
  <2> QED
    BY <2>1, <2>2 DEF TreeOfIndex, FileTree
<1> QED
  BY <1>1, <1>3, <1>6, <1>7, <1>8, FreezingGoesOn

\* git add of the paths the user chose, and of all that are not ignored.
LEMMA AddingKeepsCandidate ==
  ASSUME CandidateInv, AddIntended \/ AddAll
  PROVE  CandidateInv'
<1>1. CASE freezing' = NotFreezing /\ UNCHANGED <<userVars, frozen, pages>>
  BY <1>1, FailingKeepsCandidate DEF FreezeFails
<1>2. ASSUME NEW P \in SUBSET FilePath, freezing' = [WithSlots(P) EXCEPT !.pc = "write"],
             freezing.pc \in {"intended", "all"}, UNCHANGED <<userVars, frozen, pages>>
      PROVE  CandidateInv'
  <2>1. WorktreeOK /\ freezing \in FreezeState /\ freezing # NotFreezing
    BY <1>2, FreezingIs DEF CandidateInv
  <2>2. freezing.idx.time <= treeClock /\ TreeOfIndex(freezing.idx) = freezing.seen
    BY <1>2, <2>1 DEF CandidateInv, FreezingSound
  <2>3. freezing.idx \in GitIndex
    BY <2>1 DEF FreezeState
  <2>4. \A p \in P : ~MustRead(freezing.idx, p) => freezing.idx.slot[p].entry = disk[p].entry
    <3>1. CASE freezing.pc = "intended"
      BY <2>1, <3>1 DEF CandidateInv, FreezingSound, Vouched
    <3>2. CASE freezing.pc = "all"
      <4>1. \A p \in FilePath : freezing.idx.slot[p].stat = -1 /\ disk[p].time \in Nat
        BY <2>1, <3>2 DEF CandidateInv, FreezingSound, WorktreeOK
      <4> QED
        BY <4>1 DEF MustRead
    <3> QED
      BY <1>2, <3>1, <3>2
  <2>5. PICK f \in FreezeState :
           /\ f = [WithSlots(P) EXCEPT !.pc = "write"]
           /\ f.pc = "write" /\ f.kind = freezing.kind /\ f.base = freezing.base /\ f.expect = freezing.expect
           /\ f.idx.time = freezing.idx.time
           /\ \A p \in FilePath \ P : f.idx.slot[p] = freezing.idx.slot[p]
           /\ \A p \in P : f.idx.slot[p].entry = disk[p].entry /\ f.seen[p] = disk[p].entry
           /\ \A p \in FilePath \ P :
                 f.seen[p] = IF freezing.kind = "selected" /\ freezing.pc = "update" THEN AbsentEntry
                             ELSE freezing.seen[p]
    <3>1. PICK n \in {"intended", "write"} : n = "write"
      OBVIOUS
    <3> QED
      BY <2>1, <2>4, <3>1, SlotsAreDisk
  <2>6. TreeOfIndex(f.idx) = f.seen
    <3>1. f.seen \in FileTree
      BY DEF FreezeState
    <3>2. \A p \in FilePath : freezing.seen[p] = freezing.idx.slot[p].entry
      BY <2>2, <2>3, IndexHasTree
    <3>3. freezing.pc # "update"
      BY <1>2
    <3>4. \A p \in FilePath : f.seen[p] = f.idx.slot[p].entry
      BY <2>5, <3>2, <3>3
    <3> QED
      BY <3>1, <3>4 DEF TreeOfIndex, FileTree
  <2> QED
    BY <1>2, <2>2, <2>5, <2>6, FreezingGoesOn
<1>3. CASE AddIntended
  <2>1. PICK P : P = freezing.untracked
    OBVIOUS
  <2>2. UNCHANGED <<userVars, frozen, pages>> /\ freezing.pc = "intended"
        /\ (freezing' = NotFreezing \/ freezing' = [WithSlots(P) EXCEPT !.pc = "write"])
    BY <1>3, <2>1 DEF AddIntended
  <2>3. P \in SUBSET FilePath
    BY <2>1, <2>2, FreezingIs DEF FreezeState
  <2> QED
    BY <1>1, <1>2, <2>2, <2>3
<1>4. CASE AddAll
  <2>1. PICK P : P = PathsOf(TreeOfIndex(freezing.idx)) \cup (FilePath \ IgnoredPath)
    OBVIOUS
  <2>2. UNCHANGED <<userVars, frozen, pages>> /\ freezing.pc = "all"
        /\ freezing' = [WithSlots(P) EXCEPT !.pc = "write"]
    BY <1>4, <2>1 DEF AddAll
  <2>3. P \in SUBSET FilePath
    BY <2>1 DEF PathsOf
  <2> QED
    BY <1>2, <2>2, <2>3
<1> QED
  BY <1>3, <1>4

-----------------------------------------------------------------------------
(* The view and its reader.                                                *)

\* The steps of the view leave the contributor's files alone.
LEMMA ViewAlone ==
  ASSUME CandidateInv, UNCHANGED <<treeClock, head, disk, liveIndex, freezing>>, edits' \in Nat
  PROVE  (WorktreeOK /\ Vouched(liveIndex))'
<1>1. WorktreeOK /\ Vouched(liveIndex)
  BY DEF CandidateInv
<1> QED
  BY <1>1 DEF WorktreeOK, Vouched, MustRead

\* What is held, once something is.
LEMMA HeldIs ==
  ASSUME CandidateInv, frozen.pc # "none"
  PROVE  /\ frozen \in FrozenState /\ frozen.tree = frozen.seen
         /\ frozen.expect # <<>> => frozen.expect[2] = DeriveChangedPathManifest(frozen.base, frozen.tree)
         /\ freezing = NotFreezing
BY DEF CandidateInv, FrozenSound, FreezingSound

\* A held candidate that keeps what was seen is sound, whatever becomes of its files.
LEMMA HeldGoesOn ==
  ASSUME CandidateInv, frozen.pc # "none", NEW f \in FrozenState, frozen' = f,
         f.tree = frozen.tree, f.seen = frozen.seen, f.base = frozen.base, f.expect = frozen.expect,
         UNCHANGED freezing
  PROVE  (FreezingSound /\ FrozenSound)'
<1>1. f.tree = f.seen /\ freezing' = NotFreezing
  BY HeldIs
<1>2. f.expect # <<>> => f.expect[2] = DeriveChangedPathManifest(f.base, f.tree)
  BY HeldIs
<1> QED
  BY <1>1, <1>2 DEF FreezingSound, FrozenSound

\* The view holds the tree of the index, with the manifest that native STATUS claimed of it.
LEMMA WriteKeepsCandidate ==
  ASSUME CandidateInv, NEW lenses \in SUBSET ReviewLens, WriteView(lenses)
  PROVE  CandidateInv'
<1>1. freezing.pc = "write" /\ freezing' = NotFreezing /\ UNCHANGED <<userVars, pages>>
  BY DEF WriteView
<1>2. freezing \in FreezeState /\ freezing # NotFreezing
  BY <1>1, FreezingIs
<1>3. /\ frozen = [pc |-> "none"] /\ TreeOfIndex(freezing.idx) = freezing.seen
      /\ freezing.expect # <<>> => freezing.expect[2] = DeriveChangedPathManifest(freezing.base, freezing.expect[1])
  BY <1>1, <1>2 DEF CandidateInv, FreezingSound
<1>4. pages = [pc |-> "none"]
  BY <1>3 DEF CandidateInv, PagesSound
<1>5. PagesSound'
  BY <1>1, <1>4 DEF PagesSound
<1>6. (WorktreeOK /\ Vouched(liveIndex))'
  BY <1>1 DEF userVars, CandidateInv, WorktreeOK, Vouched, MustRead
<1>7. PICK z \in FreezeState : z = freezing
  BY <1>2
<1>8. PICK shown \in FileTree : shown = TreeOfIndex(z.idx)
  BY IndexHasTree DEF FreezeState
<1>9. PICK scope \in CandidateScope : scope = DeriveChangedScope(z.base, shown)
  BY ScopeIsScope DEF FreezeState
<1>10. PICK files \in [FilePath -> [entry : FileEntry, writable : BOOLEAN]] : files = CheckedOut(shown)
  <2>1. CheckedOut(shown) \in [FilePath -> [entry : FileEntry, writable : BOOLEAN]]
    BY DEF CheckedOut, FileTree
  <2> QED
    BY <2>1
<1>11. CASE frozen' = [pc |-> "none"]
  BY <1>1, <1>5, <1>6, <1>11 DEF CandidateInv, FreezingSound, FrozenSound
<1>12. CASE frozen' # [pc |-> "none"]
  <2> DEFINE f == [pc |-> "held", kind |-> z.kind, untracked |-> z.untracked,
                   base |-> z.base, tree |-> shown, seen |-> z.seen, expect |-> z.expect,
                   scope |-> scope, lenses |-> lenses, index |-> shown, file |-> files]
  <2>1. frozen' = f /\ (z.expect # <<>> => z.expect[1] = shown)
    BY <1>7, <1>8, <1>9, <1>10, <1>12 DEF WriteView
  <2>2. f \in FrozenState
    BY DEF FreezeState, FrozenState
  <2>3. /\ f.tree = shown /\ f.seen = z.seen /\ f.expect = z.expect /\ f.base = z.base
    OBVIOUS
  <2> HIDE DEF f
  <2>4. PICK g \in FrozenState : g = f
    BY <2>2
  <2>5. g.tree = g.seen
    BY <1>3, <1>7, <1>8, <2>3, <2>4
  <2>6. g.expect # <<>> => g.expect[2] = DeriveChangedPathManifest(g.base, g.tree)
    BY <1>3, <1>7, <2>1, <2>3, <2>4
  <2>7. FrozenSound'
    BY <2>1, <2>4, <2>5, <2>6 DEF FrozenSound
  <2>8. FreezingSound'
    BY <1>1 DEF FreezingSound
  <2> QED
    BY <1>5, <1>6, <2>7, <2>8 DEF CandidateInv
<1> QED
  BY <1>11, <1>12

\* Whoever tampers with the view changes its files and its index, not what it stands for.
LEMMA TamperKeepsCandidate ==
  ASSUME CandidateInv, NEW p \in FilePath, NEW e \in FileEntry, NEW open \in BOOLEAN, NEW staged \in BOOLEAN,
         TamperView(p, e, open, staged)
  PROVE  CandidateInv'
<1>1. frozen.pc = "held" /\ edits' = edits + 1 /\ UNCHANGED <<treeClock, head, disk, liveIndex, freezing, pages>>
  BY DEF TamperView
<1>2. frozen \in FrozenState
  BY <1>1, HeldIs
<1>3. pages = [pc |-> "none"]
  BY <1>1 DEF CandidateInv, PagesSound
<1>4. (WorktreeOK /\ Vouched(liveIndex))'
  BY <1>1, ViewAlone DEF CandidateInv, WorktreeOK
<1>5. PICK z \in FrozenState : z = frozen
  BY <1>2
<1>6. PICK i \in FileTree : i = z.index
  BY DEF FrozenState
<1>7. PICK j \in FileTree : j = IF staged THEN [i EXCEPT ![p] = e] ELSE i
  <2>1. [i EXCEPT ![p] = e] \in FileTree
    BY DEF FileTree
  <2> QED
    BY <2>1
<1>8. PICK m \in [FilePath -> [entry : FileEntry, writable : BOOLEAN]] : m = z.file
  BY DEF FrozenState
<1>9. PICK n \in [FilePath -> [entry : FileEntry, writable : BOOLEAN]] : n = [m EXCEPT ![p] = [entry |-> e, writable |-> open]]
  <2>1. [entry |-> e, writable |-> open] \in [entry : FileEntry, writable : BOOLEAN]
    OBVIOUS
  <2>2. [m EXCEPT ![p] = [entry |-> e, writable |-> open]] \in [FilePath -> [entry : FileEntry, writable : BOOLEAN]]
    BY <2>1
  <2> QED
    BY <2>2
<1>10. PICK f : f = [z EXCEPT !.file = n, !.index = j]
  OBVIOUS
<1>11. PICK w : w = [z EXCEPT !.file = n]
  OBVIOUS
<1>12. /\ w \in FrozenState /\ w.index = i /\ w.tree = z.tree /\ w.seen = z.seen /\ w.base = z.base /\ w.expect = z.expect
       /\ w.pc = z.pc
  BY <1>6, <1>9, <1>11 DEF FrozenState
<1>13. PICK y : y = [w EXCEPT !.index = j]
  OBVIOUS
<1>14. /\ y \in FrozenState /\ y.tree = z.tree /\ y.seen = z.seen /\ y.base = z.base /\ y.expect = z.expect
       /\ y.pc = z.pc
  BY <1>7, <1>12, <1>13 DEF FrozenState
<1>15. frozen' = y
  <2>1. frozen' = [frozen EXCEPT !.file[p] = [entry |-> e, writable |-> open],
                                 !.index = IF staged THEN [frozen.index EXCEPT ![p] = e] ELSE frozen.index]
    BY DEF TamperView
  <2>2. j = IF staged THEN [frozen.index EXCEPT ![p] = e] ELSE frozen.index
    BY <1>5, <1>6, <1>7
  <2>3. frozen' = [z EXCEPT !.file[p] = [entry |-> e, writable |-> open], !.index = j]
    BY <1>5, <2>1, <2>2
  <2>4. [z EXCEPT !.file[p] = [entry |-> e, writable |-> open], !.index = j] = [[z EXCEPT !.file = n] EXCEPT !.index = j]
    BY <1>8, <1>9 DEF FrozenState
  <2> QED
    BY <1>11, <1>13, <2>3, <2>4
<1>16. (FreezingSound /\ FrozenSound)'
  BY <1>1, <1>5, <1>14, <1>15, HeldGoesOn
<1>17. PagesSound'
  BY <1>1, <1>3 DEF PagesSound
<1> QED
  BY <1>4, <1>16, <1>17 DEF CandidateInv

\* A verified view holds the tree it stands for, ignored files aside.
LEMMA SafeIsTree ==
  ASSUME frozen \in FrozenState, AssertRecordSafe
  PROVE  \A p \in FilePath \ (IgnoredPath \ PathsOf(frozen.tree)) : frozen.file[p].entry = frozen.tree[p]
<1> SUFFICES ASSUME NEW p \in FilePath \ (IgnoredPath \ PathsOf(frozen.tree))
             PROVE  frozen.file[p].entry = frozen.tree[p]
  OBVIOUS
<1>1. frozen.tree[p] \in FileEntry /\ frozen.file[p].entry \in FileEntry
  BY DEF FrozenState, FileTree
<1>2. CASE p \in PathsOf(frozen.tree)
  <2>1. frozen.file[p] = [entry |-> frozen.tree[p], writable |-> FALSE]
    BY <1>2, Zenon DEF AssertRecordSafe, EntrySafe
  <2> QED
    BY <2>1
<1>3. CASE p \notin PathsOf(frozen.tree)
  <2>1. p \notin IgnoredPath /\ Gone(frozen.tree[p]) /\ frozen.index = frozen.tree
    BY <1>3 DEF PathsOf, AssertRecordSafe
  <2>2. Gone(frozen.file[p].entry)
    BY <2>1 DEF AssertRecordSafe, InjectedEntries
  <2> QED
    BY <1>1, <2>1, <2>2, GoneIsAbsent
<1> QED
  BY <1>2, <1>3

\* So a reviewer is dispatched to the candidate.
LEMMA InjectKeepsCandidate ==
  ASSUME CandidateInv, NEW agents, InjectReviewCandidateView(agents)
  PROVE  CandidateInv'
<1>1. /\ frozen.pc = "held" /\ AssertRecordSafe /\ UNCHANGED <<userVars, freezing>>
      /\ frozen' = [frozen EXCEPT !.pc = "dispatched"]
  BY DEF InjectReviewCandidateView, ResolveCurrentForLenses
<1>2. frozen \in FrozenState
  BY <1>1, HeldIs
<1>3. (WorktreeOK /\ Vouched(liveIndex))'
  BY <1>1, ViewAlone DEF CandidateInv, WorktreeOK, userVars
<1>4. PICK z \in FrozenState : z = frozen
  BY <1>2
<1>5. PICK f : f = [z EXCEPT !.pc = "dispatched"]
  OBVIOUS
<1>6. /\ f \in FrozenState /\ f.pc = "dispatched" /\ f.tree = z.tree /\ f.seen = z.seen /\ f.base = z.base
      /\ f.expect = z.expect /\ f.scope = z.scope
  BY <1>5 DEF FrozenState
<1>7. frozen' = f
  BY <1>1, <1>4, <1>5
<1>8. (FreezingSound /\ FrozenSound)'
  BY <1>1, <1>4, <1>6, <1>7, HeldGoesOn
<1>9. PICK order : order = ScopeOrder
  OBVIOUS
<1>10. Enumerates(order, z.scope)
  BY <1>2, <1>4, <1>9, OrderEnumerates DEF FrozenState
<1>11. PICK n \in Nat : order \in [1..n -> FilePath] /\ n = Cardinality(DOMAIN z.scope)
  <2>1. DOMAIN z.scope \in SUBSET FilePath
    BY DEF FrozenState, CandidateScope
  <2>2. Cardinality(DOMAIN z.scope) \in Nat
    BY <2>1, TreeAssumption, FS_Subset, FS_CardinalityType
  <2> QED
    BY <1>10, <2>2 DEF Enumerates
<1>12. order \in Seq(FilePath)
  BY <1>11
<1>13. PICK files : files = [p \in FilePath |-> frozen.file[p].entry]
  OBVIOUS
<1>14. files \in FileTree
  BY <1>2, <1>13 DEF FrozenState, FileTree
<1>15. PICK g : g = [pc |-> "reading", order |-> order, cursor |-> 0, read |-> <<>>, file |-> files]
  OBVIOUS
<1>16. pages' = g
  BY <1>9, <1>13, <1>15 DEF InjectReviewCandidateView
<1>17. g \in PagesState
  <2>1. <<>> \in Seq(FilePath)
    OBVIOUS
  <2> QED
    BY <1>12, <1>14, <1>15, <2>1 DEF PagesState
<1>18. \A p \in FilePath \ (IgnoredPath \ PathsOf(f.tree)) : g.file[p] = f.tree[p]
  BY <1>1, <1>2, <1>4, <1>6, <1>13, <1>15, SafeIsTree DEF PathsOf
<1>19. g.order = order /\ g.pc = "reading" /\ g.cursor = 0 /\ g.read = <<>>
  BY <1>15
<1>20. g.cursor \in 0..Len(g.order) /\ g.read = SubSeq(g.order, 1, g.cursor)
  BY <1>12, <1>19
<1>21. PagesSound'
  <2>1. Enumerates(g.order, f.scope)
    BY <1>6, <1>10, <1>19
  <2> QED
    BY <1>6, <1>7, <1>16, <1>17, <1>18, <1>19, <1>20, <2>1 DEF PagesSound, Enumerates, PathsOf
<1> QED
  BY <1>3, <1>8, <1>21 DEF CandidateInv

\* The reader follows the cursors: what was read is a prefix of the order, and at the end all of it.
LEMMA PageKeepsCandidate ==
  ASSUME CandidateInv, ReadScopePage
  PROVE  CandidateInv'
<1>1. pages.pc = "reading" /\ UNCHANGED <<userVars, freezing, frozen>>
  BY Zenon DEF ReadScopePage
<1>2. /\ pages \in PagesState /\ frozen.pc = "dispatched"
      /\ \A p \in FilePath \ (IgnoredPath \ PathsOf(frozen.tree)) : pages.file[p] = frozen.tree[p]
      /\ Enumerates(pages.order, frozen.scope)
      /\ pages.cursor \in 0..Len(pages.order) /\ pages.read = SubSeq(pages.order, 1, pages.cursor)
  BY <1>1 DEF CandidateInv, PagesSound
<1>3. (WorktreeOK /\ Vouched(liveIndex) /\ FreezingSound /\ FrozenSound)'
  <2>1. (WorktreeOK /\ Vouched(liveIndex))'
    BY <1>1, ViewAlone DEF CandidateInv, WorktreeOK, userVars
  <2>2. freezing' = NotFreezing /\ freezing = NotFreezing
    BY <1>1, <1>2, HeldIs
  <2> QED
    BY <1>1, <2>1, <2>2 DEF CandidateInv, FreezingSound, FrozenSound
<1>4. PICK z \in PagesState : z = pages
  BY <1>2
<1>5. PICK o \in Seq(FilePath), k \in Int : o = z.order /\ k = z.cursor
  BY DEF PagesState
<1>6. k \in 0..Len(o) /\ z.read = SubSeq(o, 1, k)
  BY <1>2, <1>4, <1>5
<1>7. ASSUME NEW g \in PagesState, pages' = g, g.order = o, g.file = z.file,
             g.pc = "reading" => g.cursor \in 0..Len(o) /\ g.read = SubSeq(o, 1, g.cursor),
             g.pc = "done" => g.read = o
      PROVE  CandidateInv'
  <2>1. frozen'.pc = "dispatched" /\ frozen' = frozen
    BY <1>1, <1>2
  <2>2. \A p \in FilePath \ (IgnoredPath \ PathsOf(frozen.tree)) : g.file[p] = frozen.tree[p]
    BY <1>2, <1>4, <1>7
  <2>3. Enumerates(g.order, frozen.scope)
    BY <1>2, <1>4, <1>5, <1>7
  <2>4. PagesSound'
    BY <1>7, <2>1, <2>2, <2>3 DEF PagesSound, Enumerates, PathsOf
  <2> QED
    BY <1>3, <2>4 DEF CandidateInv
<1>8. CASE pages.order = <<>>
  <2>1. PICK g : g = [z EXCEPT !.pc = "done"]
    OBVIOUS
  <2>2. g \in PagesState /\ g.order = z.order /\ g.file = z.file /\ g.read = z.read /\ g.pc = "done"
    BY <2>1 DEF PagesState
  <2>3. pages' = g
    BY <1>4, <1>8, <2>1 DEF ReadScopePage
  <2>4. SubSeq(o, 1, k) = o
    <3>1. o = <<>> /\ k = 0
      BY <1>4, <1>5, <1>6, <1>8
    <3> QED
      BY <3>1
  <2> QED
    BY <1>5, <1>6, <1>7, <2>2, <2>3, <2>4
<1>9. CASE pages.order # <<>>
  <2>1. PICK last \in (k + 1)..Len(o) :
           LET page == SubSeq(o, k + 1, last)
           IN  IF \E i \in DOMAIN page : page[i] \in LongPath
               THEN /\ last = k + 1
                    /\ pages' = [z EXCEPT !.pc = "refused"]
               ELSE pages' = [z EXCEPT !.cursor = NextCursor(last), !.read = z.read \o page,
                                       !.pc = IF NextCursor(last) = -1 THEN "done" ELSE z.pc]
    BY <1>4, <1>5, <1>9, Zenon DEF ReadScopePage
  <2>2. PICK page : page = SubSeq(o, k + 1, last)
    OBVIOUS
  <2>3. page \in Seq(FilePath) /\ SubSeq(o, 1, k) \o page = SubSeq(o, 1, last) /\ SubSeq(o, 1, last) \in Seq(FilePath)
    <3>1. k \in Nat /\ last \in Nat /\ k + 1 <= last /\ last <= Len(o)
      BY <1>6, <2>1
    <3>2. page \in Seq(FilePath)
      BY <2>2, <3>1
    <3>3. SubSeq(o, 1, last) \in Seq(FilePath) /\ SubSeq(o, 1, k) \in Seq(FilePath)
      BY <3>1
    <3>4. Len(page) = last - k /\ Len(SubSeq(o, 1, k)) = k /\ Len(SubSeq(o, 1, last)) = last
      BY <2>2, <3>1
    <3>5. \A i \in 1..last : (SubSeq(o, 1, k) \o page)[i] = SubSeq(o, 1, last)[i]
      <4> SUFFICES ASSUME NEW i \in 1..last PROVE (SubSeq(o, 1, k) \o page)[i] = SubSeq(o, 1, last)[i]
        OBVIOUS
      <4>1. CASE i <= k
        BY <3>1, <3>2, <3>3, <3>4, <4>1
      <4>2. CASE i > k
        <5>1. (SubSeq(o, 1, k) \o page)[i] = page[i - k]
          BY <3>1, <3>2, <3>3, <3>4, <4>2
        <5>2. page[i - k] = o[i]
          <6>1. i - k \in 1..(last - k) /\ (k + 1) + (i - k) - 1 = i
            BY <3>1, <4>2
          <6>2. \A j \in 1..(last - k) : SubSeq(o, k + 1, last)[j] = o[(k + 1) + j - 1]
            BY <3>1
          <6>3. SubSeq(o, k + 1, last)[i - k] = o[(k + 1) + (i - k) - 1]
            BY <6>1, <6>2
          <6> QED
            BY <2>2, <6>1, <6>3
        <5>3. SubSeq(o, 1, last)[i] = o[i]
          BY <3>1, <3>4
        <5> QED
          BY <5>1, <5>2, <5>3
      <4>3. i <= k \/ i > k
        BY <3>1
      <4> QED
        BY <4>1, <4>2, <4>3
    <3>6. Len(SubSeq(o, 1, k) \o page) = last /\ SubSeq(o, 1, k) \o page \in Seq(FilePath)
      BY <3>1, <3>2, <3>3, <3>4
    <3> QED
      BY <3>2, <3>3, <3>4, <3>5, <3>6
  <2>4. last = Len(o) => SubSeq(o, 1, last) = o
    OBVIOUS
  <2>5. CASE pages' = [z EXCEPT !.pc = "refused"]
    <3>1. PICK g : g = [z EXCEPT !.pc = "refused"]
      OBVIOUS
    <3>2. g \in PagesState /\ g.order = z.order /\ g.file = z.file /\ g.pc = "refused"
      BY <3>1 DEF PagesState
    <3> QED
      BY <1>5, <1>7, <2>5, <3>1, <3>2
  <2>6. CASE pages' = [z EXCEPT !.cursor = NextCursor(last), !.read = z.read \o page,
                                !.pc = IF NextCursor(last) = -1 THEN "done" ELSE z.pc]
    <3>1. PICK c \in Int : c = NextCursor(last) /\ (c = -1 => last = Len(o)) /\ (c # -1 => c = last /\ c \in 0..Len(o))
      <4>1. last \in Int /\ last <= Len(o) /\ last > 0
        BY <1>6, <2>1
      <4>2. NextCursor(last) = IF last < Len(o) THEN last ELSE -1
        BY <1>4, <1>5 DEF NextCursor
      <4> QED
        BY <4>1, <4>2
    <3>2. PICK phase \in {"reading", "done"} : phase = (IF c = -1 THEN "done" ELSE z.pc)
      BY <1>1, <1>4
    <3>3. PICK read \in Seq(FilePath) : read = z.read \o page /\ read = SubSeq(o, 1, last)
      BY <1>6, <2>3
    <3>4. pages' = [z EXCEPT !.cursor = c, !.read = read, !.pc = phase]
      BY <2>6, <3>1, <3>2, <3>3
    <3>5. PICK g : g = [z EXCEPT !.cursor = c, !.read = read, !.pc = phase]
      OBVIOUS
    <3>6. g \in PagesState /\ g.order = z.order /\ g.file = z.file /\ g.pc = phase /\ g.read = read /\ g.cursor = c
      BY <3>5 DEF PagesState
    <3>7. pages' = g
      BY <3>4, <3>5
    <3>8. phase = "reading" => c = last /\ c \in 0..Len(o)
      BY <3>1, <3>2
    <3>9. phase = "done" => last = Len(o)
      BY <1>1, <1>4, <3>1, <3>2
    <3> QED
      BY <1>5, <1>7, <2>4, <3>3, <3>6, <3>7, <3>8, <3>9
  <2> QED
    BY <2>1, <2>2, <2>5, <2>6
<1> QED
  BY <1>8, <1>9

\* When the review is over nothing is held.
LEMMA RemoveKeepsCandidate ==
  ASSUME CandidateInv, RemoveFrozen
  PROVE  CandidateInv'
<1>1. frozen.pc # "none" /\ frozen' = [pc |-> "none"] /\ pages' = [pc |-> "none"] /\ UNCHANGED <<userVars, freezing>>
  BY DEF RemoveFrozen
<1>2. (WorktreeOK /\ Vouched(liveIndex))'
  BY <1>1, ViewAlone DEF CandidateInv, WorktreeOK, userVars
<1>3. freezing' = NotFreezing
  BY <1>1, HeldIs
<1> QED
  BY <1>1, <1>2, <1>3 DEF CandidateInv, FreezingSound, FrozenSound, PagesSound

\* Every step of the contributor, of a freeze and of the view keeps the candidate.
LEMMA CandidateStep ==
  ASSUME CandidateInv, [TreeNext]_treeVars
  PROVE  CandidateInv'
<1>1. CASE ContributorStep
  BY <1>1, EditKeepsCandidate, AddKeepsCandidate, CommitKeepsCandidate DEF ContributorStep, FileEntry
<1>2. CASE FreezeStep
  <2>1. CASE SeedPrivateIndex \/ AddUpdated \/ AddIntended \/ AddAll
    BY <2>1, SeedKeepsCandidate, UpdateKeepsCandidate, AddingKeepsCandidate
  <2>2. CASE FreezeFails
    BY <2>2, FailingKeepsCandidate
  <2>3. ASSUME NEW lenses \in SUBSET ReviewLens, WriteView(lenses) PROVE CandidateInv'
    BY <2>3, WriteKeepsCandidate
  <2>4. ASSUME NEW r \in FreezeRequest,
               \/ \E base \in {head, EmptyTree} : BeginFreeze(r, base)
               \/ \E shown, other \in NamedTree : BeginRestore(r, shown, DeriveChangedPathManifest(head, other))
        PROVE  CandidateInv'
    BY <2>4, BeginKeepsCandidate
  <2> QED
    BY <1>2, <2>1, <2>2, <2>3, <2>4 DEF FreezeStep
<1>3. CASE ViewStep
  <2>1. ASSUME NEW p \in FilePath, NEW e \in PresentEntry \cup {AbsentEntry}, NEW open \in BOOLEAN, NEW staged \in BOOLEAN,
               TamperView(p, e, open, staged)
        PROVE  CandidateInv'
    BY <2>1, TamperKeepsCandidate DEF FileEntry
  <2>2. ASSUME NEW agents, InjectReviewCandidateView(agents) PROVE CandidateInv'
    BY <2>2, InjectKeepsCandidate
  <2>3. CASE ReadScopePage \/ RemoveFrozen
    BY <2>3, PageKeepsCandidate, RemoveKeepsCandidate
  <2> QED
    BY <1>3, <2>1, <2>2, <2>3 DEF ViewStep
<1>4. CASE UNCHANGED treeVars
  <2>1. UNCHANGED <<treeClock, edits, head, disk, liveIndex, freezing, frozen, pages>>
    BY <1>4 DEF treeVars
  <2>2. (WorktreeOK /\ Vouched(liveIndex) /\ FrozenSound /\ PagesSound)'
    BY <2>1, FreezeAlone DEF userVars
  <2>3. FreezingSound'
    BY <2>1 DEF CandidateInv, FreezingSound, Vouched, MustRead
  <2> QED
    BY <2>2, <2>3 DEF CandidateInv
<1> QED
  BY <1>1, <1>2, <1>3, <1>4 DEF TreeNext

\* A frozen candidate is what was seen on disk, and a reader of it sees all of it.
LEMMA InvIsReviewed ==
  ASSUME CandidateInv
  PROVE  ReviewedIsCandidate
<1>1. FrozenIsLive
  BY HeldIs DEF FrozenIsLive
<1>2. ReviewerSeesCandidate
  <2> SUFFICES ASSUME pages.pc # "none" PROVE
        /\ \A p \in FilePath \ (IgnoredPath \ PathsOf(frozen.tree)) : pages.file[p] = frozen.tree[p]
        /\ frozen.expect # <<>> => frozen.expect[2] = DeriveChangedPathManifest(frozen.base, frozen.tree)
        /\ pages.pc = "done" =>
              /\ Len(pages.read) = Cardinality(DOMAIN frozen.scope)
              /\ {pages.read[i] : i \in DOMAIN pages.read} = DOMAIN frozen.scope
    BY DEF ReviewerSeesCandidate
  <2>1. /\ frozen.pc = "dispatched" /\ pages \in PagesState
        /\ \A p \in FilePath \ (IgnoredPath \ PathsOf(frozen.tree)) : pages.file[p] = frozen.tree[p]
        /\ Enumerates(pages.order, frozen.scope)
        /\ pages.pc = "done" => pages.read = pages.order
    BY DEF CandidateInv, PagesSound
  <2>2. frozen.expect # <<>> => frozen.expect[2] = DeriveChangedPathManifest(frozen.base, frozen.tree)
    BY <2>1, HeldIs
  <2>3. PICK o \in Seq(FilePath) : o = pages.order
    BY <2>1 DEF PagesState
  <2>4. Cardinality(DOMAIN frozen.scope) \in Nat
    <3>1. DOMAIN frozen.scope \in SUBSET FilePath
      BY <2>1, HeldIs DEF FrozenState, CandidateScope
    <3> QED
      BY <3>1, TreeAssumption, FS_Subset, FS_CardinalityType
  <2>5. Len(o) = Cardinality(DOMAIN frozen.scope) /\ {o[i] : i \in DOMAIN o} = DOMAIN frozen.scope
    <3>1. PICK n \in Nat : n = Cardinality(DOMAIN frozen.scope)
      BY <2>4
    <3>2. o \in [1..n -> FilePath]
      BY <2>1, <2>3, <3>1 DEF Enumerates
    <3>3. Len(o) = n
      BY <3>2
    <3> QED
      BY <2>1, <2>3, <3>1, <3>3 DEF Enumerates
  <2> QED
    BY <2>1, <2>2, <2>3, <2>5
<1> QED
  BY <1>1, <1>2 DEF ReviewedIsCandidate

\* What a reviewer is shown is the candidate that was frozen, and what was frozen is what was
\* on disk when Git read it: through edits, staging and commits around the capture, and however
\* close to the last write of the index (review-candidate-view.ts:858-917, 957-1006, 1344-1389).
THEOREM ReviewsSeeCandidate == TreeSpec => []ReviewedIsCandidate
<1>1. TreeInit => CandidateInv
  BY CandidateInitially
<1>2. CandidateInv /\ [TreeNext]_treeVars => CandidateInv'
  BY CandidateStep
<1>3. CandidateInv => ReviewedIsCandidate
  BY InvIsReviewed
<1> QED
  BY <1>1, <1>2, <1>3, PTL DEF TreeSpec
=============================================================================
