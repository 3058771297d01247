------------------------- MODULE CandidateRegistry -------------------------
(***************************************************************************)
(* CandidateViewRegistry (lib/review-candidate-view.ts) as functions from  *)
(* a registry to a registry.  Every method is synchronous, so a method is  *)
(* one function; what Git and the disk may refuse on the way is a Boolean  *)
(* parameter: `safe' (assertRecordSafe), `rm' (removeCandidateOwner).      *)
(* A call yields [reg, ok]: ok is FALSE when the method throws, and reg    *)
(* then holds what the method had already changed.  A record abstracts a   *)
(* frozen view to the content (`tree') it was made from.                   *)
(***************************************************************************)
EXTENDS Naturals, FiniteSets

CONSTANTS
  Token,     \* names of candidate views
  Lineage,   \* review lineages of the repository
  Candidate, \* contents the candidate may have
  ReplayKey, \* replay keys of START requests
  None,
  MaxRefusals,   \* removals that Git refuses
  UndoRefusable  \* whether it may refuse the one a failed restore makes

VARIABLES
  reg,       \* the registry of a session
  live,      \* the content of the worktree now
  refusals   \* removals refused so far

viewsVars == <<reg, live, refusals>>

\* A view, and the binding that is current.
ViewRecord == [tree : Candidate, lineage : Lineage \cup {None}, lenses : BOOLEAN]
CurrentBinding == [lineage : Lineage, token : Token]

ASSUME RegistryAssumption ==
  /\ None \notin Token /\ None \notin Lineage /\ None \notin Candidate
  /\ None \notin ViewRecord /\ None \notin CurrentBinding

\* A method's outcome.
Done(g) == [reg |-> g, ok |-> TRUE]
Throws(g) == [reg |-> g, ok |-> FALSE]

EmptyRegistry ==
  [records     |-> [t \in Token |-> None],
   lineages    |-> [l \in Lineage |-> None],
   projections |-> [l \in Lineage |-> None],
   replays     |-> [k \in ReplayKey |-> None],
   current     |-> None]

ExposedView(tree) == [tree |-> tree, lineage |-> None, lenses |-> FALSE]
Held(g) == {t \in Token : g.records[t] # None}
Unused(g) == Token \ Held(g)

\* The views that still answer for a replay key, without those of token t.
DropReplays(g, t) == [k \in ReplayKey |-> IF g.replays[k] = t THEN None ELSE g.replays[k]]

\* forget(): the record and every map entry that names it; the projection
\* of its lineage stays.
Forget(g, t) ==
  LET l == g.records[t].lineage IN
  [g EXCEPT
     !.records[t] = None,
     !.lineages = [m \in Lineage |-> IF m = l /\ @[m] = t THEN None ELSE @[m]],
     !.current = IF @ # None /\ @.token = t THEN None ELSE @,
     !.replays = DropReplays(g, t)]

\* cleanup(): remove() first, so a refused removal keeps the record.
CleanupView(g, t, rm) ==
  IF t = None \/ g.records[t] = None THEN Done(g)
  ELSE IF rm THEN Done(Forget(g, t)) ELSE Throws(g)

\* cleanupAll(), where `kept' are the views Git refuses to remove.
CleanupAll(g, kept) ==
  [g EXCEPT
     !.records = [t \in Token |-> IF t \in kept THEN @[t] ELSE None],
     !.lineages = [l \in Lineage |-> IF @[l] \in kept THEN @[l] ELSE None],
     !.current = IF @ # None /\ @.token \in kept THEN @ ELSE None,
     !.replays = [k \in ReplayKey |-> IF @[k] \in kept THEN @[k] ELSE None]]

\* cleanupTerminal(): an approved lineage keeps its projection, an escalated
\* one loses it together with its view.
CleanupTerminal(g, l, state, rm) ==
  LET cleaned == CleanupView(g, g.lineages[l], rm) IN
  IF ~cleaned.ok THEN cleaned
  ELSE Done([cleaned.reg EXCEPT !.projections[l] =
               IF state = "escalated" /\ g.lineages[l] # None THEN None ELSE @])

-----------------------------------------------------------------------------
(* Creating and binding.                                                   *)

\* createOrReuse(): the view under this replay key, or a fresh one (t is an
\* unused token) frozen from the present content.
ReusedToken(g, k, t) ==
  IF g.replays[k] # None /\ g.records[g.replays[k]] # None THEN g.replays[k] ELSE t

CreateOrReuse(g, k, t, tree, safe) ==
  IF g.records[ReusedToken(g, k, t)] # None
  THEN IF safe THEN Done(g) ELSE Throws(g)
  ELSE Done([g EXCEPT !.records[t] = ExposedView(tree), !.replays[k] = t])

\* bindRecord(): a view is bound once and a lineage has one view.
BindRecord(g, t, l, lenses, safe) ==
  IF g.records[t] = None \/ g.records[t].lineage # None \/ g.lineages[l] # None \/ ~safe
  THEN Throws(g)
  ELSE Done([g EXCEPT
         !.records[t].lineage = l, !.records[t].lenses = lenses,
         !.lineages[l] = t, !.projections[l] = g.records[t].tree,
         !.replays = DropReplays(g, t)])

MakeCurrent(g, l, t) == [g EXCEPT !.current = [lineage |-> l, token |-> t]]

\* bindCurrent(): the view a retried START made for a lineage that is bound
\* already is dropped as a duplicate when both have the same content.
BindCurrent(g, t, l, safe, rm) ==
  LET old == g.lineages[l]
      duplicate == /\ g.records[t] # None /\ old \notin {None, t}
                   /\ g.records[old] # None /\ g.records[old].lineage = l /\ safe
                   /\ g.records[old].tree = g.records[t].tree
      relensed == [g EXCEPT !.records[old].lenses = TRUE]
      bound == BindRecord(g, t, l, TRUE, safe)
  IN IF duplicate
     THEN IF rm THEN Done(MakeCurrent(Forget(relensed, t), l, old)) ELSE Throws(relensed)
     ELSE IF bound.ok THEN Done(MakeCurrent(bound.reg, l, t)) ELSE bound

\* retain(): a lineage that needs no lens keeps its view for later.
Retain(g, t, l, safe) ==
  LET bound == BindRecord(g, t, l, FALSE, safe)
  IN IF bound.ok THEN Done(MakeCurrent(bound.reg, l, t)) ELSE bound

\* assertCurrentBindingMatchesLiveCandidate(): the content live in the
\* worktree is what the view was frozen from.  (The throw-away view it
\* makes is removed before it returns.)
MatchesLive(g, t, now) == g.records[t].tree = now

\* restoreCurrentFromNativeStart(): a resumed START with nothing current.
RestoreCurrentFromStart(g, t, l, now, safe, rm) ==
  IF \/ g.records[t] = None \/ g.records[t].lineage # None \/ g.current # None
     \/ ~safe \/ ~MatchesLive(g, t, now)
  THEN Throws(g)
  ELSE BindCurrent(g, t, l, safe, rm)

\* completeNativeStart(): what a START that reached the provider does with
\* its view; result is [lineage, lenses, action], action "created",
\* "resumed" or "closed".
CompleteNativeStart(g, t, result, now, safe, rm) ==
  CASE result.lenses /\ result.action = "resumed" /\ g.current = None ->
         RestoreCurrentFromStart(g, t, result.lineage, now, safe, rm)
    [] result.lenses /\ ~(result.action = "resumed" /\ g.current = None) ->
         BindCurrent(g, t, result.lineage, safe, rm)
    [] ~result.lenses /\ result.action \in {"created", "resumed"} ->
         Retain(g, t, result.lineage, safe)
    [] OTHER -> CleanupView(g, t, rm)

-----------------------------------------------------------------------------
(* Restoring what this process does not hold.                              *)

\* restoreProjectionFromNative(): Git's objects must reproduce the
\* provider's projection (`found'); one that is held is never replaced.
RestoreProjection(g, l, tree, found) ==
  IF g.projections[l] # None \/ ~found THEN Throws(g)
  ELSE Done([g EXCEPT !.projections[l] = tree])

\* restoreCurrentForDispatchFromNative(): t is the token of the view it
\* materializes; a failure takes everything back and removes the view.
RestoreForDispatch(g, t, l, tree, now, found, safe) ==
  LET projected == RestoreProjection(g, l, tree, found)
      bound == BindRecord([projected.reg EXCEPT !.records[t] = ExposedView(now)], t, l, TRUE, safe)
  IN IF g.current # None \/ ~projected.ok \/ tree # now \/ ~bound.ok THEN Throws(g)
     ELSE Done(MakeCurrent(bound.reg, l, t))

\* restoreForFinalizeFromNative(): the stale binding is detached, the new
\* view materialized, compared and bound, and the stale view removed.  The
\* failure of any step puts the stale binding back, unless the removal of
\* the new view is refused too: its exception leaves the handler before
\* anything is put back.  The fault never puts the binding back.
RestoreForFinalize_NoUndo(g, t, l, tree, now, found, safe, rmOld, rmNew) ==
  LET detached == [g EXCEPT !.lineages[l] = None, !.projections[l] = None]
      projected == RestoreProjection(detached, l, tree, found)
      bound == BindRecord([projected.reg EXCEPT !.records[t] = ExposedView(now)], t, l, FALSE, safe)
  IN IF projected.ok /\ tree = now /\ bound.ok THEN Done(bound.reg) ELSE Throws(detached)

RestoreForFinalize(g, t, l, tree, now, found, safe, rmOld, rmNew) ==
  LET old == g.lineages[l]
      stale == old # None /\ g.records[old] # None
      detached == [g EXCEPT !.lineages[l] = None, !.projections[l] = None]
      projected == RestoreProjection(detached, l, tree, found)
      bound == BindRecord([projected.reg EXCEPT !.records[t] = ExposedView(now)], t, l, FALSE, safe)
  IN IF ~projected.ok THEN Throws(g)
     ELSE IF tree # now \/ ~bound.ok \/ (stale /\ ~rmOld)
          THEN Throws(IF rmNew THEN g ELSE detached)
     ELSE Done(IF stale THEN Forget(bound.reg, old) ELSE bound.reg)

\* restoreCurrentFromAuthoritativeReviewingStates(): the one reviewing
\* state the provider names must be the live content.
RestoreFromStates(g, t, l, tree, now, safe) ==
  LET bound == BindRecord([g EXCEPT !.records[t] = ExposedView(now)], t, l, TRUE, safe)
  IN IF g.current # None \/ tree # now \/ ~bound.ok THEN Throws(g)
     ELSE Done(MakeCurrent(bound.reg, l, t))

-----------------------------------------------------------------------------
(* Corrections.                                                            *)

\* createCorrected(): a pending view of the corrected content, beside the
\* lineage's view.
CreateCorrected(g, l, k, t, now, safe) ==
  LET old == ReusedToken(g, k, t) IN
  IF g.projections[l] = None \/ ~safe THEN Throws(g)
  ELSE IF old # t
       THEN IF g.records[old].lineage # None THEN Throws(g) ELSE Done(g)
       ELSE Done([g EXCEPT !.records[t] = ExposedView(now), !.replays[k] = t])

\* promoteCorrected(): the corrected view takes the lineage's place before
\* the replaced view is removed; a refused removal keeps the replaced
\* record and throws after the promotion.
PromoteCorrected(g, t, l, safe, rm) ==
  LET old == g.lineages[l]
      promoted ==
        MakeCurrent([g EXCEPT
          !.records[t].lineage = l, !.records[t].lenses = FALSE,
          !.lineages[l] = t, !.projections[l] = g.records[t].tree,
          !.replays = DropReplays(g, t)], l, t)
  IN IF \/ g.records[t] = None \/ g.projections[l] = None \/ ~safe
     THEN Throws(g)
     ELSE IF \/ g.records[t].lineage # None
             \/ old # None /\ (g.records[old] = None \/ g.records[old].lineage # l)
             \/ g.current # None /\ g.current.lineage # l
     THEN Throws(g)
     ELSE IF old = None THEN Done(promoted)
     ELSE IF rm THEN Done(Forget(promoted, old)) ELSE Throws(promoted)

-----------------------------------------------------------------------------
(* The life of one registry over one worktree: any sequence of its methods, *)
(* while the worktree's content changes under it and Git refuses at most    *)
(* MaxRefusals removals.  `found', `safe' and `rm' are what Git and the     *)
(* disk answer.                                                             *)

ViewsInit ==
  /\ reg = EmptyRegistry /\ live \in Candidate /\ refusals = 0

\* A call of the registry; refused counts the removals Git may refuse in it.
Call(result, refused) ==
  /\ reg' = result.reg
  /\ refusals' = refusals + refused /\ refusals' <= MaxRefusals
  /\ UNCHANGED live

Cost(rm) == IF rm THEN 0 ELSE 1

Edit == \E tree \in Candidate \ {live} :
  live' = tree /\ UNCHANGED <<reg, refusals>>

Start(t) ==
  \E k \in ReplayKey : t \in Unused(reg) /\ Call(CreateOrReuse(reg, k, t, live, TRUE), 0)

Complete(t) ==
  \E l \in Lineage, lenses, safe, rm \in BOOLEAN, action \in {"created", "resumed", "closed"} :
    /\ t \in Held(reg)
    /\ Call(CompleteNativeStart(reg, t, [lineage |-> l, lenses |-> lenses, action |-> action],
                                live, safe, rm), Cost(rm))

Hydrate(t) ==
  \E l \in Lineage, tree \in Candidate, found, safe \in BOOLEAN :
    /\ t \in Unused(reg) /\ reg.projections[l] = None
    /\ Call(RestoreForDispatch(reg, t, l, tree, live, found, safe), 0)

Finalize(t) ==
  \E l \in Lineage, tree \in Candidate, found, safe, rmOld, rmNew \in BOOLEAN :
    /\ t \in Unused(reg)
    /\ rmNew \/ UndoRefusable
    /\ Call(RestoreForFinalize(reg, t, l, tree, live, found, safe, rmOld, rmNew),
            Cost(rmOld) + Cost(rmNew))

Reviewing(t) ==
  \E l \in Lineage, tree \in Candidate, safe \in BOOLEAN :
    t \in Unused(reg) /\ Call(RestoreFromStates(reg, t, l, tree, live, safe), 0)

Correct(t) ==
  \E l \in Lineage, k \in ReplayKey, safe \in BOOLEAN :
    t \in Unused(reg) /\ Call(CreateCorrected(reg, l, k, t, live, safe), 0)

Promote(t) ==
  \E l \in Lineage, safe, rm \in BOOLEAN :
    t \in Held(reg) /\ Call(PromoteCorrected(reg, t, l, safe, rm), Cost(rm))

Discard(t) ==
  \E rm \in BOOLEAN : t \in Held(reg) /\ Call(CleanupView(reg, t, rm), Cost(rm))

Terminal(l) ==
  \E state \in {"approved", "escalated"}, rm \in BOOLEAN :
    Call(CleanupTerminal(reg, l, state, rm), Cost(rm))

Shutdown ==
  \E kept \in SUBSET Held(reg) : Call(Done(CleanupAll(reg, kept)), Cardinality(kept))

ViewsNext ==
  \/ Edit \/ Shutdown
  \/ \E l \in Lineage : Terminal(l)
  \/ \E t \in Token :
       \/ Start(t) \/ Complete(t) \/ Hydrate(t) \/ Finalize(t) \/ Reviewing(t)
       \/ Correct(t) \/ Promote(t) \/ Discard(t)

ViewsSpec == ViewsInit /\ [][ViewsNext]_viewsVars

-----------------------------------------------------------------------------
(* Properties.                                                             *)

\* The binding a reviewer would be dispatched through never dangles: it
\* names a held view that is bound to the same lineage in both directions,
\* whatever restores, promotions, duplicates and refused removals came
\* before.  A dangling one is refused as "stale or ambiguous" and also keeps
\* every later hydration out.
CurrentIsBound ==
  reg.current # None =>
    LET t == reg.current.token
    IN /\ reg.records[t] # None /\ reg.records[t].lineage = reg.current.lineage
       /\ reg.lineages[reg.current.lineage] = t

=============================================================================
