----------------------------- MODULE ReviewGate -----------------------------
(***************************************************************************)
(* Receipts and publication gates of lib/review-transaction.ts, for one    *)
(* lineage whose life ReviewOutcome describes and ReviewPolicy implements. *)
(* A caller mints a receipt from two reads that take no lock, and gates    *)
(* targets with it later; meanwhile the lineage, other lineages and the    *)
(* repository move on.  A gate runs inside the mutation lock, but the      *)
(* repository does not, and the gate looks at it twice.                    *)
(***************************************************************************)
EXTENDS ReviewOutcome, Naturals

CONSTANTS
  GateCaller, RequestKey, Budget,
  Base,        \* base_tree of the lineage
  NoTree,      \* no tree
  MaxRoot      \* bound on the number of root sets

ASSUME GateAssumption ==
  /\ Base \in Tree
  /\ NoTree \notin Tree
  /\ "none" \notin Budget
  /\ MaxRoot \in Nat

VARIABLES
  root,        \* the current root set, counted from 1
  headRoot,    \* the root set in which the lineage's head event is newest
  claims,      \* child_claims: the budget granted for a changed tree
  journal,     \* the answers of completed gate operations
  receipt,     \* what each caller has read of its receipt
  gateLock,    \* "free", or "gate" between the two looks of a gate
  gateAsked,   \* the gate that holds the lock
  repo         \* the trees the repository and its remote resolve to now

gateVars == <<review, root, headRoot, claims, journal, receipt, gateLock, gateAsked, repo>>

Kind == {"intended-commit", "push-update", "push-create", "push-tag", "pull-request", "release"}

\* old is the tree a push replaces or a pull request starts from.
Target == [kind : Kind, tree : Tree, old : Tree]

\* source: the index, pushed ref, head or tag.  old: the remote ref or the base
\* ref.  parent: what the destination advertises of the pushed commit, its parent
\* for a new branch or itself for a new tag; nothing looks at it when old exists.
Repo ==
  {r \in [source : Tree, old : Tree \cup {NoTree}, parent : Tree \cup {NoTree}] :
     r.old # NoTree => r.parent = NoTree}

Request == [key : RequestKey, target : Target, offer : Budget]

Status == {"allow", "scope-changed", "deny"}

Answer == [key : RequestKey, target : Target, status : Status, budget : Budget \cup {"none"}]

\* AuthoritativeReceiptV1; root 0 while the second read is outstanding.
Receipt == [outcome : {"none", "approved", "escalated"}, tree : Tree \cup {NoTree},
            root : Nat, head : Nat]

NoReceipt == [outcome |-> "none", tree |-> NoTree, root |-> 0, head |-> 0]

NoRequest == [key |-> "none", target |-> "none", offer |-> "none"]

GateInit ==
  /\ OpenInit
  /\ root = 1 /\ headRoot = 1
  /\ claims = [t \in Tree |-> "none"]
  /\ journal = {}
  /\ receipt = [c \in GateCaller |-> NoReceipt]
  /\ gateLock = "free" /\ gateAsked = NoRequest
  /\ repo \in Repo

-----------------------------------------------------------------------------
\* writeGraphState of an operation on this lineage.
PublishRoot ==
  /\ root < MaxRoot
  /\ root' = root + 1
  /\ headRoot' = root + 1

\* A reducer changes the candidate or closes the lineage.
Reduce ==
  /\ gateLock = "free"
  /\ Fix \/ Close
  /\ PublishRoot
  /\ UNCHANGED <<claims, journal, receipt, gateLock, gateAsked, repo>>

\* An operation on another lineage.
OtherLineage ==
  /\ gateLock = "free"
  /\ root < MaxRoot
  /\ root' = root + 1
  /\ UNCHANGED <<review, headRoot, claims, journal, receipt, gateLock, gateAsked, repo>>

\* Commits, pushes and staging by anybody.
RepositoryMoves ==
  /\ repo' \in Repo
  /\ UNCHANGED <<review, root, headRoot, claims, journal, receipt, gateLock, gateAsked>>

-----------------------------------------------------------------------------
\* createAuthoritativeReceipt, read(lineageId) and createReceiptForState: only a
\* terminal state mints.
ReadState(c) ==
  /\ outcome # "open"
  /\ receipt' = [receipt EXCEPT ![c] =
                   [outcome |-> outcome, tree |-> tree, root |-> 0, head |-> 0]]
  /\ UNCHANGED <<review, root, headRoot, claims, journal, gateLock, gateAsked, repo>>

\* createAuthoritativeReceipt, readCurrent(): the root and head it is bound to.
ReadRoot(c) ==
  /\ receipt[c].outcome # "none" /\ receipt[c].root = 0
  /\ receipt' = [receipt EXCEPT ![c].root = root, ![c].head = headRoot]
  /\ UNCHANGED <<review, root, headRoot, claims, journal, gateLock, gateAsked, repo>>

-----------------------------------------------------------------------------
\* inspectPushTarget and inspectGateTarget: the target names what the repository
\* resolves to now, and final is the receipt's final_candidate_tree.
Valid(g, final) ==
  /\ g.tree = repo.source
  /\ g.kind \in {"push-update", "pull-request"} => g.old = repo.old
  /\ g.kind = "push-create" => repo.old = NoTree /\ repo.parent = Base
  /\ g.kind = "push-tag" => repo.old = NoTree /\ repo.parent # NoTree /\ g.tree = final

\* matchesReceipt
Matches(g, final) ==
  /\ g.tree = final
  /\ g.kind \in {"push-update", "pull-request"} => g.old = Base

\* The fault of a gate that any receipt opens.
evaluateGateTarget_Fault(r, g) ==
  IF ~Valid(g, r.tree) THEN "deny"
  ELSE IF Matches(g, r.tree) THEN "allow" ELSE "scope-changed"

evaluateGateTarget(r, g) ==
  IF r.outcome # "approved" \/ ~Valid(g, r.tree) THEN "deny"
  ELSE IF Matches(g, r.tree) THEN "allow" ELSE "scope-changed"

\* The journal entry, and its publication.
Record(q, status, budget) ==
  /\ journal' = journal \cup
       {[key |-> q.key, target |-> q.target, status |-> status, budget |-> budget]}
  /\ PublishRoot

\* The receipt is bound to the current root set and head, and its body is what
\* the authoritative state would mint (assertReceiptMatchesState).
Authoritative(r) ==
  /\ r.root = root /\ r.head = headRoot
  /\ outcome # "open" /\ r.outcome = outcome /\ r.tree = tree

\* validateAuthoritativeGate with a new key, to the first look at the repository.
\* A known key returns its journal entry, or throws if the request differs.
Gate(c, q) ==
  /\ gateLock = "free"
  /\ q.key \notin {x.key : x \in journal}
  /\ Authoritative(receipt[c])
  /\ LET status == evaluateGateTarget(receipt[c], q.target) IN
       \/ /\ status # "scope-changed"
          /\ Record(q, status, "none")
          /\ UNCHANGED <<gateLock, gateAsked>>
       \/ /\ status = "scope-changed"
          /\ gateLock' = "gate" /\ gateAsked' = q
          /\ UNCHANGED <<root, headRoot, journal>>
  /\ UNCHANGED <<review, claims, receipt, repo>>

\* The fault of a claim whose budget every new request refreshes.
ClaimScope_Fault ==
  /\ gateLock = "gate"
  /\ IF Valid(gateAsked.target, tree)
       THEN /\ claims' = [claims EXCEPT ![gateAsked.target.tree] = gateAsked.offer]
            /\ Record(gateAsked, "scope-changed", gateAsked.offer)
       ELSE Record(gateAsked, "deny", "none") /\ UNCHANGED claims
  /\ gateLock' = "free" /\ gateAsked' = NoRequest
  /\ UNCHANGED <<review, receipt, repo>>

\* #validateGate from its second look on: the changed tree gets one child claim,
\* with the budget of whoever asked for it first.
ClaimScope ==
  /\ gateLock = "gate"
  /\ LET t == gateAsked.target.tree
         budget == IF claims[t] = "none" THEN gateAsked.offer ELSE claims[t]
     IN IF Valid(gateAsked.target, tree)
          THEN /\ claims' = [claims EXCEPT ![t] = budget]
               /\ Record(gateAsked, "scope-changed", budget)
          ELSE Record(gateAsked, "deny", "none") /\ UNCHANGED claims
  /\ gateLock' = "free" /\ gateAsked' = NoRequest
  /\ UNCHANGED <<review, receipt, repo>>

\* The gate dies or throws between the two looks; the lock is released.
GateFails ==
  /\ gateLock = "gate"
  /\ gateLock' = "free" /\ gateAsked' = NoRequest
  /\ UNCHANGED <<review, root, headRoot, claims, journal, receipt, repo>>

GateNext ==
  \/ Reduce \/ OtherLineage \/ RepositoryMoves
  \/ \E c \in GateCaller : ReadState(c) \/ ReadRoot(c) \/ \E q \in Request : Gate(c, q)
  \/ ClaimScope \/ GateFails

GateSpec == GateInit /\ [][GateNext]_gateVars

-----------------------------------------------------------------------------
GateTypeOK ==
  /\ outcome \in {"open", "approved", "escalated"} /\ tree \in Tree
  /\ root \in Nat /\ headRoot \in 1 .. root
  /\ claims \in [Tree -> Budget \cup {"none"}]
  /\ journal \subseteq Answer
  /\ receipt \in [GateCaller -> Receipt]
  /\ \/ gateLock = "free" /\ gateAsked = NoRequest
     \/ gateLock = "gate" /\ gateAsked \in Request
  /\ repo \in Repo

\* A gate that allowed was asked about exactly the tree this lineage approved, on
\* the base it reviewed, whatever moved between the reads of the receipt and the
\* gate, and the lineage has not changed since.
AllowIsSound ==
  \A x \in journal : x.status = "allow" =>
    /\ outcome = "approved"
    /\ x.target.tree = tree
    /\ x.target.kind \in {"push-update", "pull-request"} => x.target.old = Base

\* Asking again changes nothing: a key has one answer, and a changed tree has one
\* child lineage, with one budget, under whatever keys it is asked about.
RetriesAgree ==
  \A x, y \in journal :
    /\ x.key = y.key => x = y
    /\ x.status = "scope-changed" /\ y.status = "scope-changed" /\ x.target.tree = y.target.tree
         => x.budget = y.budget

=============================================================================
