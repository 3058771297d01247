--------------------------- MODULE ReviewRepository ----------------------------
(***************************************************************************)
(* The identity of a repository's review authority (lib/review-repository): *)
(* the set of root commits that Git reported when the review store was      *)
(* first resolved, pinned in the IDENTITY file, and the asked-once latch    *)
(* that is found through it (lib/review-consent-latch).                     *)
(*                                                                         *)
(* An identity is the set of root commits; its hash is the identity itself. *)
(* No code removes IDENTITY: only the user could, by hand, and that is left *)
(* out.                                                                     *)
(***************************************************************************)
EXTENDS Naturals, FiniteSets

CONSTANTS
    Resolver,          \* processes that resolve the authority
    RootCommit,        \* root commits that branches may bring
    MissingIdentity, PartialIdentity,
    ReadAttempts,      \* IDENTITY_READ_RETRY_ATTEMPTS
    MaxResolves        \* bound: resolutions begun by a process

Identity == (SUBSET RootCommit) \ {{}}

ASSUME RepositoryAssumption ==
    /\ ReadAttempts \in Nat \ {0} /\ MaxResolves \in Nat
    /\ MissingIdentity # PartialIdentity
    /\ \A i \in Identity : MissingIdentity # i /\ PartialIdentity # i

VARIABLES
    liveRoots,         \* rev-list --max-parents=0 --all
    identityFile,      \* IDENTITY
    foreignWriter,     \* what an older release, creating IDENTITY in place, still has to write
    resolving,         \* per process: the resolution in progress
    resolves,          \* per process: resolutions begun
    opened,            \* per process: the authority its store was opened with
    written,           \* authorities that the records in the store carry
    asked              \* the consent latch

repositoryVars == <<liveRoots, identityFile, foreignWriter, resolving, resolves, opened, written, asked>>

NoResolution == [pc |-> "idle"]

NoIdentity == {}

Pinned(i) == i \in Identity

(* probeLiveRepositoryV1: nothing starts without a root commit.  The purpose
   says who asks: opening a store, writing to an opened one, recording the
   consent latch, or inspecting a broken repository.  *)
Probe(r, purpose) ==
    /\ resolving[r].pc = "idle" /\ resolves[r] < MaxResolves /\ liveRoots # {}
    /\ purpose = "write" => opened[r] # NoIdentity
    /\ resolves' = [resolves EXCEPT ![r] = @ + 1]
    /\ resolving' = [resolving EXCEPT ![r] = [pc |-> "read", purpose |-> purpose, roots |-> liveRoots, tries |-> 0]]
    /\ UNCHANGED <<liveRoots, identityFile, foreignWriter, opened, written, asked>>

(* recordReviewConsentLatch: one-way, and recorded again without harm.  *)
RecordConsentLatch(purpose) == asked' = (asked \/ purpose = "latch")

(* What the caller does with the authority: a write is made only for the
   identity that the store was opened with.  *)
Resolved(r, id) ==
    LET purpose == resolving[r].purpose
    IN  /\ resolving' = [resolving EXCEPT ![r] = NoResolution]
        /\ opened' = IF purpose = "open" THEN [opened EXCEPT ![r] = id] ELSE opened
        /\ written' = IF purpose = "write" /\ id = opened[r] THEN written \cup {id} ELSE written
        /\ RecordConsentLatch(purpose)

Refuse(r) ==
    /\ resolving' = [resolving EXCEPT ![r] = NoResolution]
    /\ UNCHANGED <<opened, written, asked>>

(* readPinnedRepositoryIdentityV1: a file that does not parse is read again
   a bounded number of times.  *)
ReadsPartial(r) ==
    IF resolving[r].tries + 1 < ReadAttempts
    THEN /\ resolving' = [resolving EXCEPT ![r].tries = @ + 1]
         /\ UNCHANGED <<opened, written, asked>>
    ELSE Refuse(r)

(* resolveRepositoryAuthorityV1 up to the first write.  *)
ResolveRepositoryAuthority(r) ==
    /\ resolving[r].pc = "read" /\ resolving[r].purpose # "inspect"
    /\ CASE identityFile = MissingIdentity ->
              /\ resolving' = [resolving EXCEPT ![r].pc = "install"]
              /\ UNCHANGED <<opened, written, asked>>
         [] identityFile = PartialIdentity -> ReadsPartial(r)
         [] OTHER -> IF identityFile \subseteq resolving[r].roots THEN Resolved(r, identityFile) ELSE Refuse(r)
    /\ UNCHANGED <<liveRoots, identityFile, foreignWriter, resolves>>

(* resolveRepositoryAuthorityForRecoveryV1 reports, and never persists.  *)
ResolveForRecovery(r) ==
    /\ resolving[r].pc = "read" /\ resolving[r].purpose = "inspect"
    /\ IF identityFile = PartialIdentity THEN ReadsPartial(r)
       ELSE Resolved(r, IF Pinned(identityFile) /\ identityFile \subseteq resolving[r].roots
                        THEN identityFile ELSE resolving[r].roots)
    /\ UNCHANGED <<liveRoots, identityFile, foreignWriter, resolves>>

(* writePinnedRepositoryIdentityV1: complete bytes are linked to a name that
   must be free.  *)
LinkIdentity(r) ==
    /\ resolving[r].pc = "install"
    /\ IF identityFile = MissingIdentity
       THEN identityFile' = resolving[r].roots /\ Resolved(r, resolving[r].roots)
       ELSE /\ resolving' = [resolving EXCEPT ![r].pc = "lost", ![r].tries = 0]
            /\ UNCHANGED <<identityFile, opened, written, asked>>
    /\ UNCHANGED <<liveRoots, foreignWriter, resolves>>

AdoptWinner_Fault(r) ==
    /\ resolving[r].pc = "lost" /\ Resolved(r, resolving[r].roots)
    /\ UNCHANGED <<liveRoots, identityFile, foreignWriter, resolves>>

(* The loser takes the identity that is there, whatever roots it saw.  *)
AdoptWinner(r) ==
    /\ resolving[r].pc = "lost"
    /\ CASE identityFile = PartialIdentity -> ReadsPartial(r)
         [] Pinned(identityFile) -> Resolved(r, identityFile)
         [] OTHER -> Resolved(r, resolving[r].roots)
    /\ UNCHANGED <<liveRoots, identityFile, foreignWriter, resolves>>

(* A command fails, or the process dies: nothing but IDENTITY and the store
   outlives it.  *)
ResolverDies(r) ==
    /\ resolving[r].pc # "idle" \/ opened[r] # NoIdentity
    /\ resolving' = [resolving EXCEPT ![r] = NoResolution]
    /\ opened' = [opened EXCEPT ![r] = NoIdentity]
    /\ UNCHANGED <<liveRoots, identityFile, foreignWriter, resolves, written, asked>>

(* Orphan branches, subtree merges and deleted branches.  *)
GitChangesRoots(roots) ==
    /\ roots # liveRoots
    /\ liveRoots' = roots
    /\ UNCHANGED <<identityFile, foreignWriter, resolving, resolves, opened, written, asked>>

(* An older release creates IDENTITY and fills it afterwards.  *)
ForeignCreates ==
    /\ identityFile = MissingIdentity /\ foreignWriter = NoIdentity /\ liveRoots # {}
    /\ identityFile' = PartialIdentity /\ foreignWriter' = liveRoots
    /\ UNCHANGED <<liveRoots, resolving, resolves, opened, written, asked>>

ForeignFills ==
    /\ foreignWriter # NoIdentity
    /\ identityFile' = foreignWriter /\ foreignWriter' = NoIdentity
    /\ UNCHANGED <<liveRoots, resolving, resolves, opened, written, asked>>

RepositoryInit ==
    /\ liveRoots \in SUBSET RootCommit
    /\ identityFile = MissingIdentity /\ foreignWriter = NoIdentity
    /\ resolving = [r \in Resolver |-> NoResolution] /\ resolves = [r \in Resolver |-> 0]
    /\ opened = [r \in Resolver |-> NoIdentity] /\ written = {} /\ asked = FALSE

RepositoryNext ==
    \/ \E r \in Resolver :
          \/ \E purpose \in {"open", "write", "latch", "inspect"} : Probe(r, purpose)
          \/ ResolveRepositoryAuthority(r) \/ ResolveForRecovery(r)
          \/ LinkIdentity(r) \/ AdoptWinner(r) \/ ResolverDies(r)
    \/ \E roots \in SUBSET RootCommit : GitChangesRoots(roots)
    \/ ForeignCreates \/ ForeignFills

RepositorySpec == RepositoryInit /\ [][RepositoryNext]_repositoryVars

(* Whatever processes resolve the authority at once for the first time, and
   whatever roots Git gains or loses between their probes and their writes,
   every store is opened under, and every record carries, the one pinned
   identity (review-repository.ts:115-132, 189-232, 265-295;
   review-transaction.ts:1401-1412).  *)
OneIdentity ==
    /\ \A r \in Resolver : opened[r] # NoIdentity => opened[r] = identityFile
    /\ written \subseteq {identityFile}
=============================================================================
