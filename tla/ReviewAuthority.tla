-------------------------- MODULE ReviewAuthority --------------------------
(***************************************************************************)
(* What the review store promises: one authority, a chain of root sets     *)
(* that only ever grows, each new root changing one lineage by one         *)
(* operation.  A lineage is created once; a key is applied once; while an  *)
(* operation is pending nothing else happens to its lineage.  ReviewStore  *)
(* is shown to implement this specification.                               *)
(***************************************************************************)
EXTENDS ReviewJournal

VARIABLE chain

Init == chain = <<>>

Next == Successor(chain, chain')

Spec == Init /\ [][Next]_chain

=============================================================================
