----------------------------- MODULE CandidateTree -----------------------------
(***************************************************************************)
(* How a candidate is frozen for review and handed to a reviewer            *)
(* (lib/review-candidate-view.ts): a private Git index is seeded from the   *)
(* live one, refreshed, written as a tree and checked out read-only; the    *)
(* view is verified before every dispatch; the reviewer enumerates the      *)
(* changed scope page by page.                                              *)
(*                                                                         *)
(* Time is in ticks of the file system's clock.  Git is modelled by what it *)
(* trusts: an index entry whose recorded time equals the file's and is      *)
(* older than the index is taken as unchanged without reading the file.     *)
(* Every edit keeps the size of the file.                                   *)
(***************************************************************************)
EXTENDS Integers, Sequences, FiniteSets

CONSTANTS
    FilePath,          \* paths of the contributor's worktree
    IgnoredPath,       \* the ones .gitignore excludes
    LongPath,          \* the ones whose page entry exceeds the page limit
    FileContent,       \* contents of a file
    ReviewLens,        \* lenses of a review
    NoContent,         \* of an absent file
    Backdate,          \* PRIVATE_INDEX_RACY_BACKDATE_NS in ticks
    Granularity,       \* ticks that one file time of the temporary directory spans
    PageEntries,       \* MAX_CANDIDATE_SCOPE_PAGE_ENTRIES
    MaxTreeClock,      \* bound: ticks
    MaxTreeEdits       \* bound: edits by the user and by the reviewer

ASSUME TreeAssumption ==
    /\ IsFiniteSet(FilePath) /\ IgnoredPath \subseteq FilePath /\ LongPath \subseteq FilePath
    /\ Backdate \in Nat /\ Granularity \in Nat \ {0} /\ PageEntries \in Nat \ {0}
    /\ MaxTreeClock \in Nat /\ MaxTreeEdits \in Nat

VARIABLES
    treeClock,         \* now
    edits,             \* edits so far
    head,              \* the tree of HEAD
    disk,              \* the worktree: entry and time of each path
    liveIndex,         \* the contributor's index
    freezing,          \* materializeCandidateView in progress
    frozen,            \* the materialized view
    pages              \* the reviewer's reading of the scope

treeVars == <<treeClock, edits, head, disk, liveIndex, freezing, frozen, pages>>

userVars == <<treeClock, edits, head, disk, liveIndex>>

AbsentEntry == [mode |-> "absent", content |-> NoContent]

PresentEntry == [mode : {"regular", "executable"}, content : FileContent]

Gone(e) == e.mode = "absent"

PathsOf(tree) == {p \in FilePath : ~Gone(tree[p])}

(***************************************************************************)
(* Git's index                                                             *)
(***************************************************************************)

TreeOfIndex(idx) == [p \in FilePath |-> idx.slot[p].entry]

(* An entry that Git reads the file for: its time differs, it is not older
   than the index, or it was marked when an index was written.  *)
MustRead(idx, p) ==
    LET slot == idx.slot[p]
    IN  slot.smudged \/ slot.stat # disk[p].time \/ slot.stat >= idx.time

(* What an update of the index records for a tracked path: a change of mode
   or a removal is always noticed.  *)
Refreshed(idx, p) ==
    IF Gone(disk[p].entry) THEN AbsentEntry
    ELSE IF MustRead(idx, p) THEN disk[p].entry
    ELSE [disk[p].entry EXCEPT !.content = idx.slot[p].entry.content]

NoSlot == [entry |-> AbsentEntry, stat |-> -1, smudged |-> FALSE]

(* git read-tree: entries without recorded times.  *)
ReadTree(tree) == [slot |-> [p \in FilePath |-> [NoSlot EXCEPT !.entry = tree[p]]], time |-> treeClock]

(* git add of some paths.  Writing the index marks the entries that its old
   time cannot vouch for and whose files have changed.  *)
GitAdd(P) ==
    /\ P \subseteq PathsOf([p \in FilePath |-> disk[p].entry]) /\ P # {}
    /\ liveIndex' = [slot |-> [p \in FilePath |->
           IF p \in P THEN [entry |-> disk[p].entry, stat |-> disk[p].time, smudged |-> FALSE]
           ELSE [liveIndex.slot[p] EXCEPT !.smudged =
                   @ \/ (liveIndex.slot[p].stat >= liveIndex.time /\ liveIndex.slot[p].entry # disk[p].entry)]],
         time |-> treeClock]
    /\ UNCHANGED <<treeClock, edits, head, disk, freezing, frozen, pages>>

(***************************************************************************)
(* The contributor                                                         *)
(***************************************************************************)

EditFile(p, e) ==
    /\ edits < MaxTreeEdits /\ edits' = edits + 1
    /\ e # disk[p].entry
    /\ disk' = [disk EXCEPT ![p] = [entry |-> e, time |-> treeClock]]
    /\ UNCHANGED <<treeClock, head, liveIndex, freezing, frozen, pages>>

CommitIndex ==
    /\ head # TreeOfIndex(liveIndex)
    /\ head' = TreeOfIndex(liveIndex)
    /\ UNCHANGED <<treeClock, edits, disk, liveIndex, freezing, frozen, pages>>

ClockTicks ==
    /\ treeClock < MaxTreeClock /\ treeClock' = treeClock + 1
    /\ UNCHANGED <<edits, head, disk, liveIndex, freezing, frozen, pages>>

(***************************************************************************)
(* materializeCandidateView                                                *)
(***************************************************************************)

NotFreezing == [pc |-> "idle"]

(* The request: committedOnly, or an explicit selection of untracked paths,
   or the legacy capture of all of them.  *)
FreezeRequest == [kind : {"committed", "legacy"}, untracked : {{}}]
                    \cup [kind : {"selected"}, untracked : SUBSET FilePath]

EmptyTree == [p \in FilePath |-> AbsentEntry]

Freezing(r, base, commit, expect) ==
    [pc |-> "seed", kind |-> r.kind, untracked |-> r.untracked, base |-> base, expect |-> expect,
     idx |-> ReadTree(commit), seen |-> commit]

(* create(): the base is HEAD or, for a committed range, an older commit
   (here the empty one); the candidate commit is resolved at once.  *)
BeginFreeze(r, base) ==
    /\ freezing.pc = "idle" /\ frozen.pc = "none"
    /\ base = head \/ (r.kind = "committed" /\ base = EmptyTree)
    /\ freezing' = Freezing(r, base, head, <<>>)
    /\ UNCHANGED <<userVars, frozen, pages>>

(* deriveChangedPathManifest: what happened to each path.  *)
DeriveChangedPathManifest(base, tree) ==
    [p \in {q \in FilePath : base[q] # tree[q]} |->
        [status |-> IF Gone(tree[p]) THEN "D" ELSE IF Gone(base[p]) THEN "A" ELSE "M",
         oldMode |-> base[p].mode, newMode |-> tree[p].mode,
         modeOnly |-> base[p].content = tree[p].content]]

AssertManifestMatchesGit(claimed, base, tree) == claimed = DeriveChangedPathManifest(base, tree)

(* restoreProjectionFromNative with the materialization that follows: native
   STATUS names a tree over HEAD and claims a manifest of it, perhaps of
   another.  Whether it calls the projection staged is left out.  *)
BeginRestore(r, tree, claimed) ==
    /\ freezing.pc = "idle" /\ frozen.pc = "none" /\ r.kind = "selected"
    /\ r.untracked \subseteq DOMAIN claimed
    /\ AssertManifestMatchesGit(claimed, head, tree)
    /\ freezing' = Freezing(r, head, head, <<tree, claimed>>)
    /\ UNCHANGED <<userVars, frozen, pages>>

FreezeFails ==
    /\ freezing' = NotFreezing
    /\ UNCHANGED <<userVars, frozen, pages>>

RoundDown(t) == (t \div Granularity) * Granularity

(* The copied index is backdated so that no entry that was too young for the
   live index is old enough for the copy.  *)
PrivateTime == RoundDown(liveIndex.time - Backdate)

SeedPrivateIndex ==
    /\ freezing.pc = "seed"
    /\ IF freezing.kind # "selected"
       THEN freezing' = [freezing EXCEPT !.pc = IF freezing.kind = "committed" THEN "write" ELSE "all",
                                         !.idx.time = treeClock]
       ELSE IF liveIndex.time < Backdate \/ liveIndex.time - PrivateTime < Backdate \div 2
       THEN freezing' = NotFreezing
       ELSE freezing' = [freezing EXCEPT !.pc = "update", !.idx = [liveIndex EXCEPT !.time = PrivateTime]]
    /\ UNCHANGED <<userVars, frozen, pages>>

WithSlots(P) ==
    [freezing EXCEPT !.idx.slot = [p \in FilePath |->
        IF p \in P THEN [entry |-> Refreshed(freezing.idx, p), stat |-> disk[p].time, smudged |-> FALSE]
        ELSE freezing.idx.slot[p]],
      !.seen = [p \in FilePath |-> IF p \in P THEN disk[p].entry
                                   ELSE IF freezing.kind = "selected" /\ freezing.pc = "update" THEN AbsentEntry
                                   ELSE freezing.seen[p]]]

(* git add -u.  *)
AddUpdated ==
    /\ freezing.pc = "update"
    /\ freezing' = [WithSlots(PathsOf(TreeOfIndex(freezing.idx))) EXCEPT !.pc = "intended"]
    /\ UNCHANGED <<userVars, frozen, pages>>

(* git add -- paths: refused when one of them is missing or ignored.  *)
AddIntended ==
    /\ freezing.pc = "intended"
    /\ LET missing == {p \in freezing.untracked : Gone(disk[p].entry)
                          \/ (p \in IgnoredPath /\ Gone(freezing.idx.slot[p].entry))}
       IN  freezing' = IF missing # {} THEN NotFreezing
                       ELSE [WithSlots(freezing.untracked) EXCEPT !.pc = "write"]
    /\ UNCHANGED <<userVars, frozen, pages>>

(* git add -A.  *)
AddAll ==
    /\ freezing.pc = "all"
    /\ freezing' = [WithSlots(PathsOf(TreeOfIndex(freezing.idx)) \cup (FilePath \ IgnoredPath)) EXCEPT !.pc = "write"]
    /\ UNCHANGED <<userVars, frozen, pages>>

(* deriveChangedScope: deleted paths, and the others with their new mode.  *)
DeriveChangedScope(base, tree) ==
    [p \in {q \in FilePath : base[q] # tree[q]} |-> IF Gone(tree[p]) THEN "deleted" ELSE tree[p].mode]

(* checkout-index, then every file and directory loses its write bits.  *)
CheckedOut(tree) == [p \in FilePath |-> [entry |-> tree[p], writable |-> FALSE]]

(* write-tree, the read-only checkout, the record of the view, and the
   comparison with what native STATUS named.  *)
WriteView(lenses) ==
    /\ freezing.pc = "write"
    /\ LET tree == TreeOfIndex(freezing.idx)
       IN  frozen' = IF freezing.expect # <<>> /\ freezing.expect[1] # tree THEN [pc |-> "none"]
                     ELSE [pc |-> "held", kind |-> freezing.kind, untracked |-> freezing.untracked,
                           base |-> freezing.base, tree |-> tree, seen |-> freezing.seen, expect |-> freezing.expect,
                           scope |-> DeriveChangedScope(freezing.base, tree), lenses |-> lenses,
                           index |-> tree, file |-> CheckedOut(tree)]
    /\ freezing' = NotFreezing
    /\ UNCHANGED <<userVars, pages>>

(***************************************************************************)
(* The view                                                                *)
(***************************************************************************)

(* Somebody with a shell in the view: a file is replaced, added or removed,
   with or without write permission left behind, and possibly staged.  *)
TamperView(p, e, open, staged) ==
    /\ frozen.pc = "held" /\ edits < MaxTreeEdits /\ edits' = edits + 1
    /\ frozen' = [frozen EXCEPT !.file[p] = [entry |-> e, writable |-> open],
                                !.index = IF staged THEN [@ EXCEPT ![p] = e] ELSE @]
    /\ UNCHANGED <<treeClock, head, disk, liveIndex, freezing, pages>>

(* ls-files --others --exclude-standard.  *)
InjectedEntries == {p \in FilePath \ IgnoredPath : Gone(frozen.index[p]) /\ ~Gone(frozen.file[p].entry)}

EntrySafe(p) == frozen.file[p] = [entry |-> frozen.tree[p], writable |-> FALSE]

AssertRecordSafe_Fault ==
    /\ InjectedEntries = {}
    /\ \A p \in PathsOf(frozen.tree) : EntrySafe(p)

AssertRecordSafe ==
    /\ InjectedEntries = {}
    /\ frozen.index = frozen.tree
    /\ \A p \in PathsOf(frozen.tree) : EntrySafe(p)

(* The candidate that would be frozen now: the second materialization of
   assertCurrentBindingMatchesLiveCandidate, with nothing in between.  *)
LiveCandidate ==
    IF frozen.kind = "committed" THEN head
    ELSE [p \in FilePath |->
            IF \/ p \in frozen.untracked
               \/ frozen.kind = "selected" /\ ~Gone(liveIndex.slot[p].entry)
               \/ frozen.kind = "legacy" /\ (p \notin IgnoredPath \/ ~Gone(frozen.base[p]))
            THEN disk[p].entry ELSE AbsentEntry]

ModeRank(m) == CASE m = "regular" -> 0 [] m = "executable" -> 1 [] OTHER -> 2

(* Entries of the scope manifest: by mode, then by path.  *)
ScopeOrder == CHOOSE s \in UNION {[1..n -> FilePath] : n \in {Cardinality(DOMAIN frozen.scope)}} :
    /\ {s[i] : i \in DOMAIN s} = DOMAIN frozen.scope
    /\ \A i, j \in DOMAIN s : i < j => ModeRank(frozen.scope[s[i]]) <= ModeRank(frozen.scope[s[j]])

(* The binding is verified, compared with the live candidate, and every
   requested lens must have been selected.  *)
ResolveCurrentForLenses(agents) ==
    AssertRecordSafe /\ LiveCandidate = frozen.tree /\ agents \subseteq frozen.lenses

InjectReviewCandidateView(agents) ==
    /\ frozen.pc = "held" /\ agents # {}
    /\ ResolveCurrentForLenses(agents)
    /\ frozen' = [frozen EXCEPT !.pc = "dispatched"]
    /\ pages' = [pc |-> "reading", order |-> ScopeOrder, cursor |-> 0, read |-> <<>>,
                 file |-> [p \in FilePath |-> frozen.file[p].entry]]
    /\ UNCHANGED <<userVars, freezing>>

(* A page that ends at entry last: the next cursor, or none.  *)
NextCursor(last) == IF last < Len(pages.order) THEN last ELSE -1

(* readCandidateContextManifestPage: a page ends at the entry limit or, by
   its bytes, anywhere before; one entry alone may be too large.  *)
ReadScopePage ==
    /\ pages.pc = "reading"
    /\ IF pages.order = <<>> THEN pages' = [pages EXCEPT !.pc = "done"]
       ELSE \E last \in (pages.cursor + 1)..Len(pages.order) :
          /\ last - pages.cursor <= PageEntries
          /\ LET page == SubSeq(pages.order, pages.cursor + 1, last)
             IN  IF \E i \in DOMAIN page : page[i] \in LongPath
                 THEN /\ last = pages.cursor + 1
                      /\ pages' = [pages EXCEPT !.pc = "refused"]
                 ELSE pages' = [pages EXCEPT !.cursor = NextCursor(last), !.read = @ \o page,
                                             !.pc = IF NextCursor(last) = -1 THEN "done" ELSE @]
    /\ UNCHANGED <<userVars, freezing, frozen>>

(* The review is over and the view removed.  *)
RemoveFrozen ==
    /\ frozen.pc # "none" /\ frozen' = [pc |-> "none"] /\ pages' = [pc |-> "none"]
    /\ UNCHANGED <<userVars, freezing>>

TreeInit ==
    /\ treeClock = Backdate /\ edits = 0
    /\ head \in [FilePath -> PresentEntry \cup {AbsentEntry}]
    /\ disk = [p \in FilePath |-> [entry |-> head[p], time |-> 0]]
    /\ liveIndex = [slot |-> [p \in FilePath |-> [entry |-> head[p], stat |-> 0, smudged |-> FALSE]],
                    time |-> Backdate]
    /\ freezing = NotFreezing /\ frozen = [pc |-> "none"] /\ pages = [pc |-> "none"]

(* Trees that native STATUS may name: what is on disk, staged or committed. *)
NamedTree == {head, TreeOfIndex(liveIndex), [p \in FilePath |-> disk[p].entry]}

ContributorStep ==
    \/ \E p \in FilePath, e \in PresentEntry \cup {AbsentEntry} : EditFile(p, e)
    \/ \E P \in SUBSET FilePath : GitAdd(P)
    \/ CommitIndex \/ ClockTicks

FreezeStep ==
    \/ \E r \in FreezeRequest, base \in {head, EmptyTree} : BeginFreeze(r, base)
    \/ \E r \in FreezeRequest, tree, other \in NamedTree :
          BeginRestore(r, tree, DeriveChangedPathManifest(head, other))
    \/ SeedPrivateIndex \/ AddUpdated \/ AddIntended \/ AddAll
    \/ freezing.pc # "idle" /\ FreezeFails
    \/ \E lenses \in SUBSET ReviewLens \ {{}} : WriteView(lenses)

ViewStep ==
    \/ \E p \in FilePath, e \in PresentEntry \cup {AbsentEntry}, open, staged \in BOOLEAN : TamperView(p, e, open, staged)
    \/ \E agents \in SUBSET ReviewLens : InjectReviewCandidateView(agents)
    \/ ReadScopePage \/ RemoveFrozen

TreeNext == ContributorStep \/ FreezeStep \/ ViewStep

TreeSpec == TreeInit /\ [][TreeNext]_treeVars

(***************************************************************************)
(* Properties                                                              *)
(***************************************************************************)

(* Whatever the user edits, stages and commits around a capture, and however
   close to the last write of the live index, the frozen tree holds of every
   path the content that was on disk when Git updated it: the copied index
   never vouches for a file it has not seen
   (review-candidate-view.ts:858-884, 908-917).  *)
FrozenIsLive == frozen.pc # "none" => frozen.tree = frozen.seen

(* A reviewer is dispatched to files that are exactly the frozen candidate,
   ignored files aside; it is the candidate native STATUS described, when it
   came from there; and one that follows the cursors to the end has seen
   every changed path once
   (review-candidate-view.ts:525-560, 957-1006, 1344-1389, 1790-1826).  *)
ReviewerSeesCandidate ==
    pages.pc # "none" =>
        /\ \A p \in FilePath \ (IgnoredPath \ PathsOf(frozen.tree)) : pages.file[p] = frozen.tree[p]
        /\ frozen.expect # <<>> => frozen.expect[2] = DeriveChangedPathManifest(frozen.base, frozen.tree)
        /\ pages.pc = "done" =>
              /\ Len(pages.read) = Cardinality(DOMAIN frozen.scope)
              /\ {pages.read[i] : i \in DOMAIN pages.read} = DOMAIN frozen.scope

(* What is reviewed is the candidate: frozen as it was on disk, shown as it was
   frozen (review-candidate-view.ts).  *)
ReviewedIsCandidate == FrozenIsLive /\ ReviewerSeesCandidate
=============================================================================
