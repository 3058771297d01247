------------------------- MODULE MCReviewAuthority -------------------------
(***************************************************************************)
(* Instance for TLC of what review processes share on disk: the mutation   *)
(* lock, the root sets it protects, the receipts and gates built on them,  *)
(* the identity of a repository, the candidate that is frozen for review   *)
(* and the ownership of its worktrees.  They are checked side by side:     *)
(* Init picks the part that runs, and the others keep one initial state.   *)
(***************************************************************************)
EXTENDS ReviewLock, ReviewStore, ReviewGate, ReviewRepository, CandidateTree, CandidateOwners, TLC

CONSTANT Parts  \* the parts this run takes

VARIABLE part  \* the part that runs

\* Values that are only compared; parts that never meet use the same ones, so that
\* a few permutations serve all of them (lineages, callers, resolvers and contents;
\* keys and commits; budgets).
Symmetric == Permutations(Lineage) \cup Permutations(Key) \cup Permutations(Budget)

\* A candidate starts from one or two tracked files.
Tracked(P) == [p \in FilePath |-> IF p \in P THEN [mode |-> "regular", content |-> CHOOSE c \in FileContent : TRUE]
                                  ELSE AbsentEntry]
CandidateHeads == {Tracked(FilePath \ IgnoredPath), Tracked(FilePath \ (IgnoredPath \cup LongPath))}

\* While a candidate is frozen, edits change content only; a reviewer is injected
\* after the freeze, when the clock no longer matters.
PlainFiles == \A p \in FilePath : disk'[p].entry.mode # "executable" /\ (p \in IgnoredPath => Gone(disk'[p].entry))

FreezePart == frozen.pc = "none" /\ (ContributorStep \/ FreezeStep) /\ PlainFiles

ViewPart ==
  \/ frozen.pc = "none" /\ freezing.pc = "idle" /\ ContributorStep /\ treeClock' = treeClock
  \/ frozen.pc = "none" /\ FreezeStep
  \/ frozen.pc # "none" /\ (ViewStep \/ ContributorStep) /\ treeClock' = treeClock /\ liveIndex' = liveIndex

\* A push of an update looks at the old tree of its target, and a pull request alike; a release is
\* judged like an intended commit.
PlainTarget(g) == g.kind = "push-update" \/ (g.old = Base /\ g.kind \notin {"release", "pull-request"})
\* The repository and its remote change one ref at a time; the last root set is published by a gate.
OneRefMoves == repo' # repo => \E f \in DOMAIN repo : \A g \in DOMAIN repo \ {f} : repo'[g] = repo[g]
GatePart ==
  /\ GateNext /\ OneRefMoves
  /\ root' = MaxRoot => root = MaxRoot \/ journal' # journal
  /\ gateLock' = "gate" => PlainTarget(gateAsked'.target)
  /\ \A x \in journal' \ journal : PlainTarget(x.target)

\* Two mutations stop half-way in a chain of one root set, one in a longer chain.
StorePart == Next /\ (faults' < 2 \/ Len(target') < 2)

SharedInit ==
  /\ part \in Parts
  /\ LockInit /\ Init /\ GateInit /\ RepositoryInit /\ OwnersInit
  /\ TreeInit
  /\ part # "lock" => token = [r \in Repairer |-> CHOOSE o \in Owner : TRUE]
  /\ part # "gate" => tree = Base /\ repo = [source |-> Base, old |-> Base, parent |-> NoTree]
  /\ part # "identity" => liveRoots = {}
  /\ head \in IF part \in {"freeze", "view"} THEN CandidateHeads ELSE {[p \in FilePath |-> AbsentEntry]}

Keep(parts, values) == IF part \in parts THEN TRUE ELSE UNCHANGED values
TreeParts == {"freeze", "view"}

SharedNext ==
  /\ UNCHANGED part
  /\ Keep({"lock"}, lockVars)
  /\ Keep({"store"}, vars)
  /\ Keep({"gate"}, gateVars)
  /\ Keep({"identity"}, repositoryVars)
  /\ Keep(TreeParts, treeVars)
  /\ Keep({"owners"}, ownersVars)
  /\ \/ part = "lock" /\ LockNext
     \/ part = "store" /\ StorePart
     \/ part = "gate" /\ GatePart
     \/ part = "identity" /\ RepositoryNext
     \/ part = "freeze" /\ FreezePart
     \/ part = "view" /\ ViewPart
     \/ part = "owners" /\ OwnersNext

\* The other parts keep their initial state, so the variables of the part that runs tell states apart.
PartView ==
  CASE part = "lock" -> <<part, lockVars>>
    [] part = "store" -> <<part, vars>>
    [] part = "gate" -> <<part, gateVars>>
    [] part = "identity" -> <<part, repositoryVars>>
    [] part \in TreeParts -> <<part, treeVars>>
    [] OTHER -> <<part, ownersVars>>

SharedSpec ==
  SharedInit /\ [][SharedNext]_<<part, lockVars, vars, gateVars, repositoryVars, treeVars, ownersVars>>
=============================================================================
