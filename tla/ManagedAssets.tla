---------------------------- MODULE ManagedAssets ----------------------------
(***************************************************************************)
(* The agents, chains and support files the package installs into the      *)
(* user's agent home.  They are the user's to edit: an install overwrites  *)
(* or deletes only what it can prove it wrote, by the hash a manifest      *)
(* records or by the hashes of legacy versions (which ignore routing).     *)
(* The manifest and the files are several writes under a lock file whose   *)
(* owner may die; the lock is never taken over, only removed by the        *)
(* operator.  The routing sweep rewrites the same agent files, and outside *)
(* the lock when the manifest does not know the text it read.              *)
(* A hash is modelled by the text it is of.                                *)
(***************************************************************************)
EXTENDS Naturals, FiniteSets

CONSTANTS
    Asset,          \* ownership keys
    RetiredAsset,   \* the ones the package no longer ships
    RoutedAsset,    \* agents/*, the ones that carry routing in their text
    KeepsRoute,     \* the ones whose routing survives a refresh (sdd-research)
    AssetVersion,   \* versions of the package that may run
    LegacyVersion,  \* versions whose hashes are known without a manifest
    AssetRoute,     \* routings of an agent
    AssetProcess,   \* processes that install or route
    MaxAssetOps,    \* bound on operations begun
    MaxAssetFaults  \* bound on deaths, failing writes and removed locks

NoRoute == "none"
Text == [body : {"absent", "user"} \cup AssetVersion \cup LegacyVersion, route : AssetRoute \cup {NoRoute}]
AbsentText == [body |-> "absent", route |-> NoRoute]

ASSUME AssetAssumption ==
    /\ RetiredAsset \subseteq Asset /\ RoutedAsset \subseteq Asset /\ KeepsRoute \subseteq RoutedAsset
    /\ {"absent", "user"} \cap (AssetVersion \cup LegacyVersion) = {} /\ "free" \notin AssetProcess
    /\ MaxAssetOps \in Nat /\ MaxAssetFaults \in Nat

VARIABLES
    installed, \* the text of every file
    manifest,  \* the text the manifest records, absent if it records none
    assetLock, \* the process named in the lock file, or "free"
    process,   \* what every process is doing
    fresh,     \* the last forced install that nothing has followed
    assetOps   \* operations and faults so far

assetVars == <<installed, manifest, assetLock, process, fresh, assetOps>>

EmptyManifest == [a \in Asset |-> AbsentText]
IdleProcess == [pc |-> "idle", kind |-> "none", version |-> "none", force |-> FALSE, selected |-> {}, todo |-> {},
                known |-> EmptyManifest, asset |-> "none", before |-> AbsentText, after |-> AbsentText, alone |-> TRUE]
NothingFresh == [version |-> "none", selected |-> {}]

-----------------------------------------------------------------------------
(* Texts.                                                                  *)

\* legacyComparableAssetContent: routing is no edit of an agent.
Comparable(a, text) == IF a \in RoutedAsset THEN [text EXCEPT !.route = NoRoute] ELSE text

\* readLegacyManagedAssetHashes: texts of versions that kept no manifest.
IsLegacy(a, text) == \E v \in LegacyVersion : Comparable(a, text) = [body |-> v, route |-> NoRoute]

Shipped(version) == [body |-> version, route |-> NoRoute]

\* migrateLegacyAssetContent: the text of the package with the routing of the installed one.
MigrateLegacy(a, old, new) == IF a \in RoutedAsset THEN [new EXCEPT !.route = old.route] ELSE new

\* copyDirectoryFiles, one file: whether it is written.  Absent files always are,
\* others only when forced, and only if the manifest or the history proves them ours.
MayWrite(a, p) ==
    \/ installed[a] = AbsentText
    \/ /\ p.force
       /\ IF p.known[a] = AbsentText THEN IsLegacy(a, installed[a]) ELSE p.known[a] = installed[a]

\* The text that is written.
NextSource(a, p) ==
    IF installed[a] # AbsentText /\ (p.known[a] = AbsentText \/ a \in KeepsRoute)
    THEN MigrateLegacy(a, installed[a], Shipped(p.version))
    ELSE Shipped(p.version)

\* packageAssetAudit of a version: managed files whose text is not the package's,
\* and files that are missing; what is not managed is an override of the user.
Stale(a, version) ==
    \/ installed[a] = AbsentText
    \/ manifest[a] = installed[a] /\ Comparable(a, installed[a]) # Shipped(version)

-----------------------------------------------------------------------------
(* The lock.                                                               *)

\* A file changed under an install that is running.
Disturbed == [p \in AssetProcess |-> [process[p] EXCEPT !.alone = (process[p].pc = "idle")]]

Begins == assetOps.begun < MaxAssetOps /\ assetOps' = [assetOps EXCEPT !.begun = @ + 1]
AssetFault == assetOps.faults < MaxAssetFaults /\ assetOps' = [assetOps EXCEPT !.faults = @ + 1]

\* acquireManagedAssetsLock: exclusive creation; nobody is asked whether it lives.
AcquireAssets(p) ==
    /\ process[p].pc = "lock" /\ assetLock = "free"
    /\ assetLock' = p
    /\ process' = [process EXCEPT ![p].pc = IF @ = "lock" /\ process[p].kind = "install" THEN "manifest" ELSE "check"]
    /\ UNCHANGED <<installed, manifest, fresh, assetOps>>

\* The deadline passes: the operation is given up before it changes anything.
LockTimesOut(p) ==
    /\ process[p].pc = "lock" /\ assetLock # "free"
    /\ process' = [process EXCEPT ![p] = IdleProcess]
    /\ UNCHANGED <<installed, manifest, assetLock, fresh, assetOps>>

\* releaseManagedAssetsLock: only the own token is removed.
Released(p) == IF assetLock = p THEN "free" ELSE assetLock

-----------------------------------------------------------------------------
(* installPackageAssets.                                                   *)

BeginInstall(p, version, force, selected) ==
    /\ process[p].pc = "idle" /\ Begins
    /\ process' = [process EXCEPT ![p] = [IdleProcess EXCEPT !.pc = "lock", !.kind = "install",
                     !.version = version, !.force = force, !.selected = selected]]
    /\ UNCHANGED <<installed, manifest, assetLock, fresh>>

ReadAssetManifest(p) ==
    /\ process[p].pc = "manifest"
    /\ process' = [process EXCEPT ![p].pc = "retire", ![p].known = manifest, ![p].todo = @ \cup process[p].selected]
    /\ fresh' = NothingFresh
    /\ UNCHANGED <<installed, manifest, assetLock, assetOps>>

\* removeRetiredManagedAssets: a text proven ours is deleted, and no retired file
\* stays managed.
RetireAsset(p, a) ==
    LET ours == process[p].known[a] = installed[a] \/ IsLegacy(a, installed[a]) IN
    /\ process[p].pc = "retire" /\ a \in process[p].todo \cap RetiredAsset
    /\ installed' = [installed EXCEPT ![a] = IF ours THEN AbsentText ELSE @]
    /\ process' = [process EXCEPT ![p].todo = @ \ {a}, ![p].known[a] = AbsentText]
    /\ UNCHANGED <<manifest, assetLock, fresh, assetOps>>

\* One file is copied, or stays as it is and loses its record.
CopyAsset(p, a) ==
    LET writes == MayWrite(a, process[p])
        next == NextSource(a, process[p]) IN
    /\ process[p].pc = "retire" /\ a \in process[p].todo /\ process[p].todo \cap RetiredAsset = {}
    /\ installed' = [installed EXCEPT ![a] = IF writes THEN next ELSE @]
    /\ process' = [process EXCEPT ![p].todo = @ \ {a},
                     ![p].known[a] = IF writes THEN next ELSE IF process[p].force THEN AbsentText ELSE @]
    /\ UNCHANGED <<manifest, assetLock, fresh, assetOps>>

\* The manifest is written last, in place, and the lock released.
WriteManifest(p) ==
    /\ process[p].pc = "retire" /\ process[p].todo = {}
    /\ manifest' = process[p].known
    /\ assetLock' = Released(p)
    /\ fresh' = IF process[p].force /\ process[p].alone
                THEN [version |-> process[p].version, selected |-> process[p].selected] ELSE NothingFresh
    /\ process' = [process EXCEPT ![p] = IdleProcess]
    /\ UNCHANGED <<installed, assetOps>>

-----------------------------------------------------------------------------
(* updatePackageManagedSddAgentOwnership, as the routing sweep calls it.   *)

\* The sweep reads an agent's file and makes the text with the routing.
BeginRoute(p, a, route) ==
    /\ process[p].pc = "idle" /\ Begins
    /\ a \in RoutedAsset /\ installed[a].body # "absent" /\ installed[a].route # route
    /\ process' = [process EXCEPT ![p] = [IdleProcess EXCEPT !.pc = "lock", !.kind = "route", !.asset = a,
                     !.before = installed[a], !.after = [installed[a] EXCEPT !.route = route]]]
    /\ UNCHANGED <<installed, manifest, assetLock, fresh>>

\* Under the lock: the record must be of the text that was read, and the file
\* still that text (or already the new one); a file that is gone fails the sweep.
Owned_Fault(a, before, after) == installed[a] \in {before, after}

Owned(a, before, after) == manifest[a] = before /\ installed[a] \in {before, after}

CheckOwnership(p) ==
    LET a == process[p].asset
        owned == Owned(a, process[p].before, process[p].after) IN
    /\ process[p].pc = "check"
    /\ installed' = IF owned THEN [installed EXCEPT ![a] = process[p].after] ELSE installed
    /\ process' = IF manifest[a] = process[p].before /\ installed[a] = AbsentText
                  THEN [process EXCEPT ![p] = IdleProcess]
                  ELSE [process EXCEPT ![p].pc = IF owned THEN "record" ELSE "outside"]
    /\ assetLock' = IF owned THEN assetLock ELSE Released(p)
    /\ fresh' = NothingFresh
    /\ UNCHANGED <<manifest, assetOps>>

\* The record follows, by rename; if it cannot be written the file goes back.
RecordOwnership(p) ==
    LET a == process[p].asset IN
    /\ process[p].pc = "record"
    /\ \/ manifest' = [manifest EXCEPT ![a] = process[p].after] /\ UNCHANGED <<installed, assetOps>>
       \/ installed' = [installed EXCEPT ![a] = process[p].before] /\ AssetFault /\ UNCHANGED manifest
    /\ assetLock' = Released(p)
    /\ process' = [process EXCEPT ![p] = IdleProcess]
    /\ UNCHANGED fresh

\* Not ours: the sweep writes the routing into the file itself, without the lock.
WriteOutside(p) ==
    /\ process[p].pc = "outside"
    /\ installed' = [installed EXCEPT ![process[p].asset] = process[p].after]
    /\ process' = [Disturbed EXCEPT ![p] = IdleProcess]
    /\ fresh' = NothingFresh
    /\ UNCHANGED <<manifest, assetLock, assetOps>>

-----------------------------------------------------------------------------
\* A process dies; one that was writing the manifest in place leaves a torn file,
\* which reads as an empty one.
DieInAssets(p) ==
    /\ process[p].pc # "idle" /\ AssetFault
    /\ process' = [process EXCEPT ![p] = IdleProcess]
    /\ fresh' = NothingFresh
    /\ manifest' \in {manifest} \cup
         (IF process[p].pc = "retire" /\ process[p].todo = {} THEN {EmptyManifest} ELSE {})
    /\ UNCHANGED <<installed, assetLock>>

\* The operator removes a lock file, after verifying that its owner is gone.
RemoveAssetLock ==
    /\ assetLock # "free" /\ process[assetLock].pc \in {"idle", "lock"}
    /\ assetLock' = "free"
    /\ UNCHANGED <<installed, manifest, process, fresh, assetOps>>

\* The user edits or deletes a file.
UserEdits(a, body) ==
    /\ Begins /\ body \in {"user", "absent"} /\ installed[a].body # body
    /\ installed' = [installed EXCEPT ![a] = IF body = "absent" THEN AbsentText ELSE [@ EXCEPT !.body = body]]
    /\ process' = Disturbed
    /\ fresh' = NothingFresh
    /\ UNCHANGED <<manifest, assetLock>>

AssetInit ==
    /\ installed \in [Asset -> {AbsentText} \cup {[body |-> v, route |-> NoRoute] : v \in LegacyVersion}]
    /\ manifest = EmptyManifest
    /\ assetLock = "free"
    /\ process = [p \in AssetProcess |-> IdleProcess]
    /\ fresh = NothingFresh
    /\ assetOps = [begun |-> 0, faults |-> 0]

InstallStep(p) ==
    \/ ReadAssetManifest(p) \/ WriteManifest(p)
    \/ \E a \in Asset : RetireAsset(p, a) \/ CopyAsset(p, a)

AssetNext ==
    \/ \E p \in AssetProcess :
         \/ \E v \in AssetVersion, force \in BOOLEAN, s \in (SUBSET Asset) \ {{}} : BeginInstall(p, v, force, s)
         \/ \E a \in RoutedAsset, r \in AssetRoute \cup {NoRoute} : BeginRoute(p, a, r)
         \/ AcquireAssets(p) \/ LockTimesOut(p) \/ InstallStep(p)
         \/ CheckOwnership(p) \/ RecordOwnership(p) \/ WriteOutside(p) \/ DieInAssets(p)
    \/ RemoveAssetLock
    \/ \E a \in Asset, body \in {"user", "absent"} : UserEdits(a, body)

AssetSpec == AssetInit /\ [][AssetNext]_assetVars

-----------------------------------------------------------------------------
AssetTypeOK ==
    /\ installed \in [Asset -> Text] /\ manifest \in [Asset -> Text]
    /\ assetLock \in AssetProcess \cup {"free"}

\* Whatever crashed, was routed or was installed before, no install overwrites or
\* deletes a text the user wrote: it is never recorded as the package's own
\* (copyDirectoryFiles, removeRetiredManagedAssets, updatePackageManagedSddAgentOwnership).
UserTextKept ==
    [][\A a \in Asset, p \in AssetProcess :
          InstallStep(p) /\ installed[a].body = "user" => installed'[a] = installed[a]]_assetVars

\* After a forced install, until something else touches the files, the audit of
\* that version finds nothing stale among the files it selected: each is current
\* or an override, and a retired file is gone or the user's (packageAssetAudit).
InstallLeavesFresh ==
    \A a \in fresh.selected :
        IF a \in RetiredAsset THEN manifest[a] = AbsentText ELSE ~Stale(a, fresh.version)

\* What installs owe the user and the audit, whatever crashed, was routed or was
\* edited before (copyDirectoryFiles, packageAssetAudit).
AssetsAreKept == UserTextKept /\ []InstallLeavesFresh
=============================================================================
