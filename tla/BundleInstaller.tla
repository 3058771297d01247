-------------------------- MODULE BundleInstaller --------------------------
(***************************************************************************)
(* The package-local gentle-ai bundle (scripts/gentle-ai-installer.mjs)    *)
(* and its resolution (lib/gentle-ai-binary.ts).  Installers are           *)
(* processes that share one runtime directory: a lock directory with its   *)
(* owner file, tombstones of released locks, staging directories, backups  *)
(* of a replaced bundle and the live version directory.  A process may die *)
(* between any two file-system calls.  A resolver checks the live bundle   *)
(* call by call while installers work.                                     *)
(*                                                                         *)
(* A bundle is a generation number and whether it carries a binary and a   *)
(* manifest that match the pin.  Downloads, archives, the Go toolchain     *)
(* and hashing are outcomes of the step that uses them.                    *)
(***************************************************************************)
EXTENDS Naturals, FiniteSets

CONSTANTS Installer,     \* installer processes, each runs once
          MaxGenerations \* bundles ever built (bound)

ASSUME BundleAssumption == MaxGenerations \in Nat /\ IsFiniteSet(Installer) /\ "nobody" \notin Installer

VARIABLES source,     \* "signed" (POSIX archives) or "sumdb" (Windows source)
          installLock,\* the lock directory: None, or its maker and owner file
          tombstones, \* locks renamed away and not yet removed, by maker
          live,       \* the version directory: None or a bundle
          backups,    \* replaced bundles, by the installer that moved them
          staging,    \* staging directories, by installer
          built,      \* generations built so far
          installer,  \* the program counter and result of each installer
          override,   \* the dev-binary declaration: "none", "good", "bad"
          resolver    \* the verification in progress

bundleVars == <<source, installLock, tombstones, live, backups, staging,
                built, installer, override, resolver>>

None == [gen |-> 0, good |-> FALSE]
NoLock == [by |-> "nobody", owner |-> FALSE]
Bundle == [gen : 1..MaxGenerations, good : BOOLEAN]

\* Steps of an installer.
Pcs == {"idle", "scanned", "made", "owned", "locked", "recovered", "swept",
        "staged", "verified", "moved", "published", "rollback", "retire",
        "leave", "renamed", "done", "dead"}

BundleTypeOK ==
  /\ source \in {"signed", "sumdb"}
  /\ installLock \in [by : Installer \cup {"nobody"}, owner : BOOLEAN]
  /\ tombstones \subseteq Installer
  /\ live \in Bundle \cup {None}
  /\ backups \in [Installer -> Bundle \cup {None}]
  /\ staging \in [Installer -> Bundle \cup {None, [gen |-> 0, good |-> TRUE]}]
  /\ built \in 0..MaxGenerations
  /\ installer \in [Installer -> [pc : Pcs, result : {"none", "kept", "installed", "failed"},
                                  aside : BOOLEAN]]
  /\ override \in {"none", "good", "bad"}
  /\ resolver \in [pc : {"idle", "stated", "read", "answered"},
                   stat : 0..MaxGenerations, manifest : 0..MaxGenerations,
                   binary : 0..MaxGenerations,
                   answer : {"none", "pinned", "override", "missing", "refused"}]

IdleResolver == [pc |-> "idle", stat |-> 0, manifest |-> 0, binary |-> 0, answer |-> "none"]

\* A first installation, or one over a bundle of this version that is there.
BundleInit ==
  /\ source \in {"signed", "sumdb"}
  /\ installLock = NoLock
  /\ tombstones = {}
  /\ \/ built = 0 /\ live = None
     \/ built = 1 /\ live \in {[gen |-> 1, good |-> TRUE], [gen |-> 1, good |-> FALSE]}
  /\ backups = [i \in Installer |-> None]
  /\ staging = [i \in Installer |-> None]
  /\ installer = [i \in Installer |-> [pc |-> "idle", result |-> "none", aside |-> FALSE]]
  /\ override \in {"none", "good", "bad"}
  /\ resolver = IdleResolver

\* The empty staging directory mkdtemp makes.
Empty == [gen |-> 0, good |-> TRUE]
At(i, pc) == installer[i].pc = pc
Step(i, pc) == installer' = [installer EXCEPT ![i].pc = pc]
\* Every error leaves through the finally blocks.
FailTo(i, pc) == installer' = [installer EXCEPT ![i].pc = pc, ![i].result = "failed"]
Backups == {i \in Installer : backups[i] # None}

\* existingSignedBundleMatches / existingWindowsSourceBundleMatches: TRUE only
\* for a matching bundle; any read or toolchain error answers FALSE.
Judgements(b) == IF b.good THEN BOOLEAN ELSE {FALSE}

----------------------------------------------------------------------------
(* The lock *)

\* acquireInstallLock up to the first tombstone scan.
FirstScan(i) ==
  /\ At(i, "idle")
  /\ IF tombstones = {} THEN Step(i, "scanned") ELSE FailTo(i, "done")
  /\ UNCHANGED <<source, installLock, tombstones, live, backups, staging, built, override, resolver>>

\* mkdir is exclusive: an existing lock blocks this installation.
MakeInstallLock(i) ==
  /\ At(i, "scanned")
  /\ IF installLock = NoLock
     THEN /\ installLock' = [by |-> i, owner |-> FALSE]
          /\ Step(i, "made")
     ELSE FailTo(i, "done") /\ UNCHANGED installLock
  /\ UNCHANGED <<source, tombstones, live, backups, staging, built, override, resolver>>

\* The owner file with this process's nonce.
WriteLockOwner(i) ==
  /\ At(i, "made")
  /\ installLock' = [installLock EXCEPT !.owner = TRUE]
  /\ Step(i, "owned")
  /\ UNCHANGED <<source, tombstones, live, backups, staging, built, override, resolver>>

\* inspectInstallLock reads the nonce back; a tombstone that appeared since the
\* first scan means the lock was released under this acquisition: let go again.
SecondScan(i) ==
  /\ At(i, "owned")
  /\ \/ installLock.by # i /\ FailTo(i, "done")
     \/ installLock.by = i /\ tombstones = {} /\ Step(i, "locked")
     \/ installLock.by = i /\ tombstones # {} /\ FailTo(i, "leave")
  /\ UNCHANGED <<source, installLock, tombstones, live, backups, staging, built, override, resolver>>

\* releaseInstallLock: only an observed own lock is renamed away.
RenameLock(i) ==
  /\ At(i, "leave")
  /\ IF installLock = [by |-> i, owner |-> TRUE]
     THEN /\ installLock' = NoLock
          /\ tombstones' = tombstones \cup {i}
          /\ Step(i, "renamed")
     ELSE Step(i, "done") /\ UNCHANGED <<installLock, tombstones>>
  /\ UNCHANGED <<source, live, backups, staging, built, override, resolver>>

\* The renamed directory is inspected again and removed.
RemoveTombstone(i) ==
  /\ At(i, "renamed")
  /\ tombstones' = tombstones \ {i}
  /\ Step(i, "done")
  /\ UNCHANGED <<source, installLock, live, backups, staging, built, override, resolver>>

----------------------------------------------------------------------------
(* The installation under the lock *)

Unlocked == <<source, installLock, tombstones, override, resolver>>

\* A recovery that takes every backup for a leftover of a finished publication.
RecoverBackup_Fault(i) ==
  /\ live' = live
  /\ backups' = [j \in Installer |-> None]
  /\ Step(i, "recovered")

\* recoverInterruptedPublication: one valid backup is restored when nothing is
\* live, dropped when the live bundle is valid, and anything else is an error
\* for the maintainer.
RecoverBackup(i) ==
  \E judged \in [Backups -> BOOLEAN], liveValid \in Judgements(live) :
    /\ \A j \in Backups : judged[j] \in Judgements(backups[j])
    /\ \/ Backups = {} /\ Step(i, "recovered") /\ UNCHANGED <<live, backups>>
       \/ \E j \in Backups :
            /\ Backups = {j}
            /\ judged[j]
            /\ \/ live = None /\ live' = backups[j]
               \/ live # None /\ liveValid /\ live' = live
            /\ backups' = [backups EXCEPT ![j] = None]
            /\ Step(i, "recovered")
       \/ /\ Backups # {}
          /\ ~ \E j \in Backups : Backups = {j} /\ judged[j] /\ (live = None \/ liveValid)
          /\ FailTo(i, "retire")
          /\ UNCHANGED <<live, backups>>

\* installSignedRelease recovers, then sweeps; the Windows flow has swept and
\* made its staging directory before.
Recover(i) ==
  /\ \/ source = "signed" /\ At(i, "locked")
     \/ source = "sumdb" /\ At(i, "swept")
  /\ RecoverBackup(i)
  /\ UNCHANGED <<staging, built>>
  /\ UNCHANGED Unlocked

\* cleanupStaleStagingBundles removes every staging directory it finds.
Sweep(i) ==
  /\ \/ source = "signed" /\ At(i, "recovered")
     \/ source = "sumdb" /\ At(i, "locked")
  /\ staging' = [[j \in Installer |-> None] EXCEPT
                   ![i] = IF source = "sumdb" THEN Empty ELSE None]
  /\ Step(i, "swept")
  /\ UNCHANGED <<live, backups, built>>
  /\ UNCHANGED Unlocked

\* A bundle that matches is kept; otherwise a staging directory is needed.
JudgeLive(i) ==
  /\ \/ source = "signed" /\ At(i, "swept")
     \/ source = "sumdb" /\ At(i, "recovered")
  /\ \E valid \in Judgements(live) :
       IF live # None /\ valid
       THEN /\ installer' = [installer EXCEPT ![i].pc = "retire", ![i].result = "kept"]
            /\ UNCHANGED staging
       ELSE /\ Step(i, "staged")
            /\ staging' = [staging EXCEPT ![i] = Empty]
  /\ UNCHANGED <<live, backups, built>>
  /\ UNCHANGED Unlocked

\* downloadPinnedGentleAiAsset, mirror and retries included, or go install:
\* what was asked for, something else, or nothing.
Fetched == {"pinned", "other", "nothing"}

\* installSignedRelease: archive checksum, one regular executable in it, binary
\* checksum.
SignedBuild(got) == source = "signed" /\ got = "pinned"

\* installWindowsGentleAiFromGoSumdb: toolchain, build metadata, exact version.
SourceBuild(got) == source = "sumdb" /\ got = "pinned"

\* With every check passed the manifest is written; any failure gives up.
BuildStaging(i) ==
  /\ At(i, "staged")
  /\ \E got \in Fetched :
       IF built < MaxGenerations /\ (SignedBuild(got) \/ SourceBuild(got))
       THEN /\ built' = built + 1
            /\ staging' = [staging EXCEPT ![i] = [gen |-> built + 1, good |-> TRUE]]
            /\ Step(i, "verified")
       ELSE FailTo(i, "retire") /\ UNCHANGED <<built, staging>>
  /\ UNCHANGED <<live, backups>>
  /\ UNCHANGED Unlocked

\* publishBundle: the live directory, if any, is renamed to a backup.
MoveAside(i) ==
  /\ At(i, "verified")
  /\ \/ /\ live # None
        /\ backups' = [backups EXCEPT ![i] = live]
        /\ live' = None
        /\ installer' = [installer EXCEPT ![i].pc = "moved", ![i].aside = TRUE]
     \/ live = None /\ Step(i, "moved") /\ UNCHANGED <<live, backups>>
     \/ FailTo(i, "retire") /\ UNCHANGED <<live, backups>>
  /\ UNCHANGED <<staging, built>>
  /\ UNCHANGED Unlocked

\* The staging directory becomes the live one; a failed rename rolls back.
Publish(i) ==
  /\ At(i, "moved")
  /\ \/ /\ live = None
        /\ live' = staging[i]
        /\ staging' = [staging EXCEPT ![i] = None]
        /\ installer' = [installer EXCEPT ![i].pc = "published", ![i].result = "installed"]
     \/ /\ FailTo(i, IF installer[i].aside THEN "rollback" ELSE "retire")
        /\ UNCHANGED <<live, staging>>
  /\ UNCHANGED <<backups, built>>
  /\ UNCHANGED Unlocked

\* The prior bundle is put back, or stays a backup for the next recovery.
Rollback(i) ==
  /\ At(i, "rollback")
  /\ \/ live = None /\ live' = backups[i] /\ backups' = [backups EXCEPT ![i] = None]
     \/ UNCHANGED <<live, backups>>
  /\ Step(i, "retire")
  /\ UNCHANGED <<staging, built>>
  /\ UNCHANGED Unlocked

\* After publication the replaced bundle is removed.
DropBackup(i) ==
  /\ At(i, "published")
  /\ backups' = IF installer[i].aside THEN [backups EXCEPT ![i] = None] ELSE backups
  /\ Step(i, "retire")
  /\ UNCHANGED <<live, staging, built>>
  /\ UNCHANGED Unlocked

\* The finally block removes this run's staging directory.
RetireStaging(i) ==
  /\ At(i, "retire")
  /\ staging' = [staging EXCEPT ![i] = None]
  /\ Step(i, "leave")
  /\ UNCHANGED <<live, backups, built>>
  /\ UNCHANGED Unlocked

\* The process is killed between two calls; the disk stays as it is.
InstallerDies(i) ==
  /\ installer[i].pc \notin {"idle", "done", "dead"}
  /\ installer' = [installer EXCEPT ![i].pc = "dead"]
  /\ UNCHANGED <<source, installLock, tombstones, live, backups, staging, built, override, resolver>>

\* The maintainer follows the error message: with no installer active, the
\* lock and the tombstones are removed by hand.
ManualCleanup ==
  /\ \A i \in Installer : installer[i].pc \in {"idle", "done", "dead"}
  /\ installLock # NoLock \/ tombstones # {}
  /\ installLock' = NoLock
  /\ tombstones' = {}
  /\ UNCHANGED <<source, live, backups, staging, built, installer, override, resolver>>

----------------------------------------------------------------------------
(* Resolution of the binary *)

\* resolveGentleAiDevBinaryOverride: a declared override decides alone, and an
\* invalid one is an error, never a fall-back to the pin.
DeclaredOverride == IF override = "good" THEN "override" ELSE "refused"

\* resolveGentleAiBinary up to the first stats.
BeginResolve ==
  /\ resolver.pc \in {"idle", "answered"}
  /\ resolver' =
       CASE override # "none" -> [IdleResolver EXCEPT !.pc = "answered", !.answer = DeclaredOverride]
         [] override = "none" /\ live = None ->
              [IdleResolver EXCEPT !.pc = "answered", !.answer = "missing"]
         [] OTHER -> [IdleResolver EXCEPT !.pc = "stated", !.stat = live.gen]
  /\ UNCHANGED <<source, installLock, tombstones, live, backups, staging, built, installer, override>>

\* The manifest is read, then the binary is hashed; either may be of another
\* bundle if the directory was renamed in between.
ReadManifest ==
  /\ resolver.pc = "stated"
  /\ resolver.manifest = 0
  /\ resolver' = IF live = None
                 THEN [resolver EXCEPT !.pc = "answered", !.answer = "missing"]
                 ELSE [resolver EXCEPT !.manifest = live.gen]
  /\ UNCHANGED <<source, installLock, tombstones, live, backups, staging, built, installer, override>>

HashBinary ==
  /\ resolver.pc = "stated"
  /\ resolver.manifest # 0
  /\ resolver' = IF live = None \/ ~live.good
                 THEN [resolver EXCEPT !.pc = "answered", !.answer = "missing"]
                 ELSE [resolver EXCEPT !.pc = "read", !.binary = live.gen]
  /\ UNCHANGED <<source, installLock, tombstones, live, backups, staging, built, installer, override>>

\* The second stats must name the files of the first ones.
EndResolve ==
  /\ resolver.pc = "read"
  /\ resolver' = [resolver EXCEPT !.pc = "answered",
                    !.answer = IF live # None /\ live.gen = resolver.stat
                               THEN "pinned" ELSE "missing"]
  /\ UNCHANGED <<source, installLock, tombstones, live, backups, staging, built, installer, override>>

\* registerGentleAiDevBinary validates before it writes; the registered file
\* may go bad later; unregisterGentleAiDevBinary deletes the registration.
DevBinary ==
  /\ \/ override # "good" /\ override' = "good"
     \/ override = "good" /\ override' = "bad"
     \/ override # "none" /\ override' = "none"
  /\ UNCHANGED <<source, installLock, tombstones, live, backups, staging, built, installer, resolver>>

InstallerStep(i) ==
  \/ FirstScan(i) \/ MakeInstallLock(i) \/ WriteLockOwner(i) \/ SecondScan(i)
  \/ Recover(i) \/ Sweep(i) \/ JudgeLive(i) \/ BuildStaging(i) \/ MoveAside(i)
  \/ Publish(i) \/ Rollback(i) \/ DropBackup(i) \/ RetireStaging(i)
  \/ RenameLock(i) \/ RemoveTombstone(i)

BundleNext ==
  \/ \E i \in Installer : InstallerStep(i) \/ InstallerDies(i)
  \/ ManualCleanup
  \/ BeginResolve \/ ReadManifest \/ HashBinary \/ EndResolve \/ DevBinary

BundleSpec == BundleInit /\ [][BundleNext]_bundleVars

----------------------------------------------------------------------------
(* Properties *)

GoodBundles == {b \in {live} \cup {backups[i] : i \in Installer} : b.good}

\* A matching bundle that is on disk, live or moved aside, is never lost: no
\* order of publication, death, rollback, hand-made cleanup and recovery leaves
\* the package without one again, even when a check of a good bundle fails for
\* a passing reason (publishBundle, recoverInterruptedPublication).
BundleNeverLost == [][GoodBundles # {} => GoodBundles' # {}]_bundleVars

\* resolveGentleAiBinary names the pinned binary only when the manifest it read
\* and the binary it hashed are of one bundle, whatever installers rename in
\* between; and an installation about to report success has a bundle live that
\* passed every check (its staging directory was not swept under it).
ResolvedIsOneBundle ==
  /\ resolver.answer = "pinned" => resolver.binary = resolver.manifest
  /\ \A i \in Installer : At(i, "published") => live.good

\* What concurrent and dying installers owe the package and whoever resolves the
\* binary meanwhile (publishBundle, recoverInterruptedPublication,
\* resolveGentleAiBinary).
BundleIsKept == BundleNeverLost /\ []ResolvedIsOneBundle
=============================================================================
