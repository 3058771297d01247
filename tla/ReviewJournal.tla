--------------------------- MODULE ReviewJournal ---------------------------
(***************************************************************************)
(* The request journal of a review lineage (ReviewStateV1.request_journal  *)
(* in lib/review-transaction.ts).  A lineage's state is abstracted to its  *)
(* journal: every operation that changes the state appends an entry or     *)
(* completes one, and the empty journal stands for a lineage that has not  *)
(* been created.                                                           *)
(*                                                                         *)
(* A root set is abstracted to a chain: its own lineages (the "heads")     *)
(* after those of all its predecessors, since its identity hashes its body *)
(* and the body names the predecessor.  The empty chain is "no root".      *)
(***************************************************************************)
EXTENDS Naturals, Sequences

CONSTANTS
  Lineage,              \* lineage identifiers
  Key                   \* idempotency keys; a key stands for its exact request

Entry(k, s) == [key |-> k, status |-> s]

Journal == Seq([key : Key, status : {"pending", "completed"}])

Chain == Seq([Lineage -> Journal])

NoLineage == [l \in Lineage |-> <<>>]

\* The lineages of the root set at the end of a chain.
HeadsOf(chain) == IF chain = <<>> THEN NoLineage ELSE chain[Len(chain)]

Keys(journal) == {journal[i].key : i \in DOMAIN journal}

Completed(journal) ==
  {journal[i].key : i \in {n \in DOMAIN journal : journal[n].status = "completed"}}

\* assertNoPendingOperation
HasPending(journal) == \E i \in DOMAIN journal : journal[i].status = "pending"

\* The journal after completeReducerOperation of key k.
Complete(journal, k) ==
  [i \in DOMAIN journal |-> IF journal[i].key = k THEN Entry(k, "completed") ELSE journal[i]]

\* The chain after one lineage's journal became j.
Published(chain, l, j) == Append(chain, [HeadsOf(chain) EXCEPT ![l] = j])

\* How the operation with key k may change the journal of its lineage.
Step(journal, k, next) ==
  \/ /\ journal = <<>>
     /\ next = <<Entry(k, "completed")>>
  \/ /\ journal # <<>> /\ k \notin Keys(journal) /\ ~HasPending(journal)
     /\ \E s \in {"pending", "completed"} : next = Append(journal, Entry(k, s))
  \/ /\ Entry(k, "pending") \in {journal[i] : i \in DOMAIN journal}
     /\ next = Complete(journal, k)

\* Chain d is chain c and one more root set, for one operation on one lineage.
Successor(c, d) ==
  \E l \in Lineage, k \in Key :
    LET next == HeadsOf(d)[l] IN
    Step(HeadsOf(c)[l], k, next) /\ d = Published(c, l, next)

=============================================================================
