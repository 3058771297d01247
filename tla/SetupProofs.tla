----------------------------- MODULE SetupProofs ------------------------------
(***************************************************************************)
(* Proofs about what installing, launching and configuring leave on disk:   *)
(* the assets of the SDD (ManagedAssets), the installed bundle              *)
(* (BundleInstaller), the homes of the launcher (ShellLauncher), the        *)
(* routing of models to agents (AgentRouting) and the registry of skills    *)
(* (SkillRegistry), for any sets of assets, versions, installers, calls,    *)
(* homes, agents, models, writers, files and regenerations.                 *)
(***************************************************************************)
EXTENDS ManagedAssets, BundleInstaller, ShellLauncher, AgentRouting, SkillRegistry, FiniteSetTheorems,
        WellFoundedInduction, TLAPS

-----------------------------------------------------------------------------
(* The assets.                                                             *)

Record ==
  [pc : {"idle", "lock", "manifest", "check", "retire", "record", "outside"},
   kind : {"none", "install", "route"}, version : AssetVersion \cup {"none"}, force : BOOLEAN,
   selected : SUBSET Asset, todo : SUBSET Asset, known : [Asset -> Text],
   asset : Asset \cup {"none"}, before : Text, after : Text, alone : BOOLEAN]

Texts == [Asset -> Text]

\* The record of a file is never a text of the user.
Ours(texts) == \A a \in Asset : texts[a].body # "user"

\* What an install has made of a file it is done with.
Settled(r, a) ==
  IF a \in RetiredAsset THEN r.known[a] = AbsentText
  ELSE /\ installed[a] # AbsentText
       /\ r.known[a] = installed[a] => Comparable(a, installed[a]) = Shipped(r.version)

\* Where process p may be: it holds the lock while it installs or records,
\* knows no text of the user as the package's, and has settled what it is
\* done with if nobody else wrote meanwhile.
Sound(p, r) ==
  /\ r.pc \in {"manifest", "retire", "check", "record"} => assetLock = p
  /\ r.pc \in {"lock", "manifest"} => r.todo = {}
  /\ r.pc = "lock" => r.kind # "none"
  /\ r.kind = "install" => r.version \in AssetVersion
  /\ r.kind = "route" => r.asset \in Asset /\ r.after.body = r.before.body
  /\ r.pc \in {"manifest", "retire"} => r.kind = "install"
  /\ r.pc \in {"check", "record", "outside"} => r.kind = "route"
  /\ r.pc = "record" => r.after.body # "user"
  /\ r.pc = "retire" =>
       /\ Ours(r.known)
       /\ r.force /\ r.alone => \A a \in r.selected \ r.todo : Settled(r, a)
       /\ fresh = NothingFresh
  /\ r.pc = "record" => fresh = NothingFresh

AssetInv ==
  /\ installed \in Texts /\ manifest \in Texts /\ assetLock \in AssetProcess \cup {"free"}
  /\ process \in [AssetProcess -> Record]
  /\ Ours(manifest)
  /\ \A p \in AssetProcess : Sound(p, process[p])
  /\ InstallLeavesFresh

\* A process at rest promises nothing.
LEMMA IdleIsSound == ASSUME NEW p PROVE IdleProcess \in Record /\ Sound(p, IdleProcess)
<1>1. EmptyManifest \in Texts
  BY DEF EmptyManifest, Texts, Text, AbsentText, NoRoute
<1>2. IdleProcess \in Record
  BY <1>1 DEF IdleProcess, Record, Text, Texts, AbsentText, NoRoute
<1> QED
  BY <1>2 DEF IdleProcess, Sound

\* What a step writes into a process is a process again.
LEMMA MovesAreRecords ==
  ASSUME NEW r \in Record
  PROVE  /\ \A pc \in {"idle", "lock", "manifest", "check", "retire", "record", "outside"} :
              [r EXCEPT !.pc = pc] \in Record
         /\ \A known \in Texts, todo \in SUBSET Asset :
              [r EXCEPT !.pc = "retire", !.known = known, !.todo = todo] \in Record
         /\ \A alone \in BOOLEAN : [r EXCEPT !.alone = alone] \in Record
BY Zenon DEF Record, Texts

\* What holds the lock is alone in holding it.
LEMMA OneHolder ==
  ASSUME AssetInv, NEW p \in AssetProcess, NEW q \in AssetProcess, q # p,
         process[p].pc \in {"manifest", "retire", "check", "record"}
  PROVE  process[q].pc \notin {"manifest", "retire", "check", "record"}
BY DEF AssetInv, Sound

\* A process that another one's step leaves as it was stays sound.
LEMMA BystanderIsSound ==
  ASSUME AssetInv, NEW q \in AssetProcess, process'[q] = process[q],
         process[q].pc \in {"manifest", "retire", "check", "record"} =>
           assetLock' = assetLock /\ installed' = installed /\ (fresh' = fresh \/ fresh' = NothingFresh)
  PROVE  Sound(q, process[q])'
BY DEF AssetInv, Sound, Settled, Ours

\* An installation starts.
LEMMA BeginInstallKeeps ==
  ASSUME AssetInv, NEW p \in AssetProcess, NEW v \in AssetVersion, NEW force \in BOOLEAN,
         NEW s \in SUBSET Asset, BeginInstall(p, v, force, s)
  PROVE  AssetInv'
<1>1. process' = [process EXCEPT ![p] = process'[p]] /\ process'[p] \in Record
  <2>1. process'[p] = [IdleProcess EXCEPT !.pc = "lock", !.kind = "install",
                         !.version = v, !.force = force, !.selected = s]
    BY DEF AssetInv, BeginInstall
  <2>2. process'[p] \in Record
    BY <2>1, IdleIsSound, Zenon DEF Record
  <2> QED
    BY <2>1, <2>2 DEF AssetInv, BeginInstall
<1>3. Sound(p, process[p])'
  BY DEF AssetInv, BeginInstall, IdleProcess, Sound
<1>2. ASSUME NEW q \in AssetProcess PROVE Sound(q, process[q])'
  BY <1>1, <1>3, BystanderIsSound, q = p \/ process'[q] = process[q] DEF AssetInv, BeginInstall
<1> QED
  BY <1>1, <1>2 DEF AssetInv, BeginInstall, InstallLeavesFresh, Stale, Ours

\* A routing change starts, with the text it will write.
LEMMA BeginRouteKeeps ==
  ASSUME AssetInv, NEW p \in AssetProcess, NEW a \in RoutedAsset, NEW route \in AssetRoute \cup {NoRoute},
         BeginRoute(p, a, route)
  PROVE  AssetInv'
<1>1. a \in Asset /\ installed[a] \in Text /\ [installed[a] EXCEPT !.route = route] \in Text
  BY AssetAssumption DEF AssetInv, Texts, Text
<1>2. process' = [process EXCEPT ![p] = process'[p]] /\ process'[p] \in Record
  BY <1>1, IdleIsSound DEF AssetInv, BeginRoute, IdleProcess, Record
<1>3. Sound(p, process[p])'
  BY <1>1 DEF AssetInv, BeginRoute, IdleProcess, Sound, Text
<1>4. ASSUME NEW q \in AssetProcess PROVE Sound(q, process[q])'
  BY <1>2, <1>3, BystanderIsSound, q = p \/ process'[q] = process[q] DEF AssetInv, BeginRoute
<1> QED
  BY <1>2, <1>4 DEF AssetInv, BeginRoute, InstallLeavesFresh, Stale, Ours

\* The lock is taken, waited for in vain, or left behind by a death.
LEMMA LocksKeep ==
  ASSUME AssetInv, NEW p \in AssetProcess, AcquireAssets(p) \/ LockTimesOut(p) \/ DieInAssets(p)
  PROVE  AssetInv'
<1>0. EmptyManifest \in Texts /\ Ours(EmptyManifest)
  BY DEF EmptyManifest, Texts, Text, AbsentText, NoRoute, Ours
<1>1. CASE AcquireAssets(p)
  <2>1. process' = [process EXCEPT ![p] = process'[p]] /\ process'[p] \in Record
    <3>1. PICK pc \in {"manifest", "check"} : process'[p] = [process[p] EXCEPT !.pc = pc]
      BY <1>1 DEF AssetInv, AcquireAssets
    <3> QED
      BY <1>1, <3>1, MovesAreRecords DEF AssetInv, AcquireAssets
  <2>2. Sound(p, process[p])'
    BY <1>1 DEF AssetInv, AcquireAssets, Record, Sound
  <2>3. ASSUME NEW q \in AssetProcess PROVE Sound(q, process[q])'
    <3>1. process[q].pc \notin {"manifest", "retire", "check", "record"}
      BY <1>1, AssetAssumption DEF AssetInv, AcquireAssets, Sound
    <3> QED
      BY <2>1, <2>2, <3>1, BystanderIsSound, q = p \/ process'[q] = process[q] DEF AssetInv
  <2> QED
    BY <1>1, <2>1, <2>3 DEF AssetInv, AcquireAssets, InstallLeavesFresh, Stale, Ours
<1>2. CASE LockTimesOut(p) \/ DieInAssets(p)
  <2>1. process' = [process EXCEPT ![p] = IdleProcess] /\ process'[p] = IdleProcess
    BY <1>2 DEF AssetInv, LockTimesOut, DieInAssets
  <2>2. Sound(p, process[p])'
    BY <2>1 DEF IdleProcess, Sound
  <2>3. ASSUME NEW q \in AssetProcess PROVE Sound(q, process[q])'
    BY <1>2, <2>1, <2>2, BystanderIsSound, q = p \/ process'[q] = process[q]
    DEF AssetInv, LockTimesOut, DieInAssets
  <2>4. manifest' \in Texts /\ Ours(manifest)'
    BY <1>0, <1>2 DEF AssetInv, LockTimesOut, DieInAssets, Ours
  <2>5. InstallLeavesFresh'
    BY <1>2 DEF AssetInv, LockTimesOut, DieInAssets, InstallLeavesFresh, NothingFresh, Stale
  <2> QED
    BY <1>2, <2>1, <2>3, <2>4, <2>5, IdleIsSound DEF AssetInv, LockTimesOut, DieInAssets
<1> QED
  BY <1>1, <1>2

\* The manifest is read under the lock.
LEMMA ReadAssetManifestKeeps ==
  ASSUME AssetInv, NEW p \in AssetProcess, ReadAssetManifest(p)
  PROVE  AssetInv'
<1>1. process' = [process EXCEPT ![p] = process'[p]] /\ process'[p] \in Record
  <2>1. process[p] \in Record /\ process[p].todo \cup process[p].selected \in SUBSET Asset /\ manifest \in Texts
    BY DEF AssetInv, Record
  <2>2. process'[p] = [process[p] EXCEPT !.pc = "retire", !.known = manifest,
                                         !.todo = process[p].todo \cup process[p].selected]
    BY DEF AssetInv, ReadAssetManifest
  <2>3. [process[p] EXCEPT !.pc = "retire", !.known = manifest,
                           !.todo = process[p].todo \cup process[p].selected] \in Record
    BY <2>1, MovesAreRecords
  <2> QED
    BY <2>2, <2>3 DEF AssetInv, ReadAssetManifest
<1>2. Sound(p, process[p])'
  BY DEF AssetInv, ReadAssetManifest, Record, Sound, Ours
<1>3. ASSUME NEW q \in AssetProcess PROVE Sound(q, process[q])'
  BY <1>1, <1>2, BystanderIsSound, q = p \/ process'[q] = process[q] DEF AssetInv, ReadAssetManifest
<1> QED
  BY <1>1, <1>3 DEF AssetInv, ReadAssetManifest, InstallLeavesFresh, NothingFresh, Ours

\* An install that retires or copies a file settles it, as the package's own
\* text or as one that is not recorded.
LEMMA RetireAssetKeeps ==
  ASSUME AssetInv, NEW p \in AssetProcess, NEW a \in Asset, RetireAsset(p, a)
  PROVE  AssetInv'
<1>0. process[p] \in Record /\ installed \in Texts /\ process[p].known \in Texts
  BY DEF AssetInv, Record, Texts
<1>a. AbsentText \in Text /\ AbsentText.body = "absent"
  BY DEF AbsentText, Text
<1>1. process'[p] = [process[p] EXCEPT !.pc = "retire", !.known = [process[p].known EXCEPT ![a] = AbsentText],
                                       !.todo = process[p].todo \ {a}]
  BY <1>0 DEF AssetInv, RetireAsset, Record
<1>2. process' = [process EXCEPT ![p] = process'[p]] /\ process'[p] \in Record
  <2>1. [process[p].known EXCEPT ![a] = AbsentText] \in Texts /\ process[p].todo \ {a} \in SUBSET Asset
    BY <1>0, <1>a DEF Texts, Record
  <2>2. [process[p] EXCEPT !.pc = "retire", !.known = [process[p].known EXCEPT ![a] = AbsentText],
                           !.todo = process[p].todo \ {a}] \in Record
    BY <1>0, <2>1, MovesAreRecords
  <2> QED
    BY <1>1, <2>2 DEF AssetInv, RetireAsset
<1>3. installed' \in Texts /\ \A b \in Asset \ {a} : installed'[b] = installed[b]
  BY <1>0, <1>a DEF RetireAsset, Texts
<1>4. Sound(p, process[p])'
  <2>1. \A b \in Asset \ {a} : process'[p].known[b] = process[p].known[b]
    BY <1>0, <1>1 DEF Texts, Record
  <2>2. process'[p].known[a] = AbsentText
    BY <1>0, <1>1 DEF Texts, Record
  <2>3. Ours(process'[p].known)
    BY <1>a, <2>1, <2>2 DEF AssetInv, Sound, RetireAsset, Ours
  <2>4. ASSUME process'[p].force, process'[p].alone, NEW b \in process'[p].selected \ process'[p].todo
        PROVE  Settled(process[p], b)'
    <3>1. CASE b = a
      BY <2>2, <3>1 DEF RetireAsset, Settled
    <3>2. CASE b # a
      <4>1. b \in Asset \ {a} /\ Settled(process[p], b)
        BY <1>0, <1>1, <2>4, <3>2 DEF AssetInv, Sound, RetireAsset, Record
      <4> QED
        BY <1>0, <1>1, <1>3, <2>1, <4>1 DEF Settled, Record
    <3> QED
      BY <3>1, <3>2
  <2> QED
    BY <1>0, <1>1, <2>3, <2>4 DEF AssetInv, Sound, RetireAsset, Record
<1>5. ASSUME NEW q \in AssetProcess PROVE Sound(q, process[q])'
  BY <1>2, <1>4, OneHolder, BystanderIsSound, q = p \/ process'[q] = process[q] DEF AssetInv, RetireAsset
<1>6. InstallLeavesFresh'
  BY DEF AssetInv, Sound, RetireAsset, InstallLeavesFresh, NothingFresh
<1> QED
  BY <1>2, <1>3, <1>5, <1>6 DEF AssetInv, RetireAsset

\* An installation writes the shipped text with the route the asset has.
LEMMA WhatIsWritten ==
  ASSUME NEW a \in Asset, NEW r \in Record, r.version \in AssetVersion, installed \in Texts
  PROVE  /\ NextSource(a, r) \in Text
         /\ NextSource(a, r).body = r.version
         /\ Comparable(a, NextSource(a, r)) = Shipped(r.version)
<1>1. Shipped(r.version) \in Text /\ installed[a] \in Text
  BY DEF Shipped, Text, Texts
<1>2. MigrateLegacy(a, installed[a], Shipped(r.version)) \in Text
  BY <1>1 DEF MigrateLegacy, Shipped, Text
<1> QED
  BY <1>1, <1>2 DEF NextSource, MigrateLegacy, Comparable, Shipped, Text

\* One asset is examined, and written if it may be.
LEMMA CopyAssetKeeps ==
  ASSUME AssetInv, NEW p \in AssetProcess, NEW a \in Asset, CopyAsset(p, a)
  PROVE  AssetInv'
<1> DEFINE writes == MayWrite(a, process[p])
           next == NextSource(a, process[p])
           record == IF writes THEN next ELSE IF process[p].force THEN AbsentText ELSE process[p].known[a]
<1>0. process[p] \in Record /\ installed \in Texts /\ process[p].known \in Texts
  BY DEF AssetInv, Record, Texts
<1>a. AbsentText \in Text /\ AbsentText.body = "absent"
  BY DEF AbsentText, Text
<1>b. /\ process[p].pc = "retire" /\ process[p].kind = "install" /\ process[p].version \in AssetVersion
      /\ a \in process[p].todo /\ a \notin RetiredAsset
  BY DEF AssetInv, CopyAsset, Sound
<1>c. next \in Text /\ next.body = process[p].version /\ Comparable(a, next) = Shipped(process[p].version)
  BY <1>0, <1>b, WhatIsWritten
<1>d. process[p].version \notin {"user", "absent"}
  BY <1>b, AssetAssumption
<1>1. /\ process'[p] = [process[p] EXCEPT !.pc = "retire", !.known = [process[p].known EXCEPT ![a] = record],
                                          !.todo = process[p].todo \ {a}]
      /\ process' = [process EXCEPT ![p] = process'[p]]
      /\ installed' = [installed EXCEPT ![a] = IF writes THEN next ELSE installed[a]]
  BY <1>0 DEF AssetInv, CopyAsset, Record
<1>e. record \in Text
  BY <1>0, <1>a, <1>c DEF Texts
<1> HIDE DEF next, writes
<1>2. process'[p] \in Record
  <2>1. [process[p].known EXCEPT ![a] = record] \in Texts /\ process[p].todo \ {a} \in SUBSET Asset
    BY <1>0, <1>e DEF Texts, Record
  <2>2. [process[p] EXCEPT !.pc = "retire", !.known = [process[p].known EXCEPT ![a] = record],
                           !.todo = process[p].todo \ {a}] \in Record
    BY <1>0, <2>1, MovesAreRecords
  <2> QED
    BY <1>1, <2>2
<1>3. /\ installed' \in Texts /\ \A b \in Asset \ {a} : installed'[b] = installed[b]
      /\ installed'[a] = IF writes THEN next ELSE installed[a]
  BY <1>0, <1>1, <1>c DEF Texts
<1>4. Sound(p, process[p])'
  <2>1. \A b \in Asset \ {a} : process'[p].known[b] = process[p].known[b]
    BY <1>0, <1>1 DEF Texts, Record
  <2>2. process'[p].known[a] = record
    BY <1>0, <1>1 DEF Texts, Record
  <2>3. Ours(process'[p].known)
    BY <1>a, <1>b, <1>c, <1>d, <2>1, <2>2 DEF AssetInv, Sound, Ours
  <2>4. ASSUME process'[p].force, process'[p].alone, NEW b \in process'[p].selected \ process'[p].todo
        PROVE  Settled(process[p], b)'
    <3>0. process[p].force /\ process[p].alone /\ process'[p].version = process[p].version
      BY <1>0, <1>1, <2>4 DEF Record
    <3>1. CASE b = a /\ writes
      BY <1>b, <1>c, <1>d, <1>a, <1>3, <2>2, <3>0, <3>1 DEF Settled
    <3>2. CASE b = a /\ ~writes
      <4>1. installed[a] # AbsentText
        BY <3>2 DEF writes, MayWrite
      <4> QED
        BY <1>b, <1>3, <2>2, <3>0, <3>2, <4>1 DEF Settled
    <3>3. CASE b # a
      <4>1. b \in Asset \ {a} /\ Settled(process[p], b)
        BY <1>0, <1>1, <1>b, <2>4, <3>0, <3>3 DEF AssetInv, Sound, Record
      <4> QED
        BY <1>3, <2>1, <3>0, <4>1 DEF Settled
    <3> QED
      BY <3>1, <3>2, <3>3
  <2>5. process'[p].pc = "retire" /\ process'[p].kind = "install" /\ process'[p].version = process[p].version
    BY <1>0, <1>1, <1>b DEF Record
  <2>7. assetLock' = assetLock /\ fresh' = fresh
    BY DEF CopyAsset
  <2>6. assetLock = p /\ fresh = NothingFresh
    BY <1>b DEF AssetInv, Sound
  <2> QED
    BY <1>b, <2>3, <2>4, <2>5, <2>6, <2>7 DEF Sound
<1>5. ASSUME NEW q \in AssetProcess PROVE Sound(q, process[q])'
  BY <1>1, <1>4, <1>b, OneHolder, BystanderIsSound, q = p \/ process'[q] = process[q] DEF AssetInv
<1>6. InstallLeavesFresh'
  BY <1>b DEF AssetInv, Sound, CopyAsset, InstallLeavesFresh, NothingFresh
<1> QED
  BY <1>1, <1>2, <1>3, <1>5, <1>6 DEF AssetInv, CopyAsset

\* The manifest is written and the lock is given back.
LEMMA WriteManifestKeeps ==
  ASSUME AssetInv, NEW p \in AssetProcess, WriteManifest(p)
  PROVE  AssetInv'
<1>0. process[p] \in Record /\ process[p].known \in Texts /\ Ours(process[p].known) /\ assetLock = p
  BY DEF AssetInv, WriteManifest, Sound, Record, Texts
<1>1. /\ process' = [process EXCEPT ![p] = IdleProcess] /\ process'[p] = IdleProcess
      /\ manifest' = process[p].known /\ installed' = installed /\ assetLock' = "free"
  BY <1>0 DEF AssetInv, WriteManifest, Released
<1>2. ASSUME NEW q \in AssetProcess PROVE Sound(q, process[q])'
  <2>1. CASE q = p
    BY <1>1, <2>1 DEF IdleProcess, Sound
  <2>2. CASE q # p
    BY <1>1, <2>2, OneHolder, BystanderIsSound DEF AssetInv, WriteManifest
  <2> QED
    BY <2>1, <2>2
<1>3. InstallLeavesFresh'
  <2>1. CASE process[p].force /\ process[p].alone
    <3>1. \A a \in process[p].selected : Settled(process[p], a)
      BY <1>0, <2>1 DEF AssetInv, Sound, WriteManifest, Record
    <3>2. fresh' = [version |-> process[p].version, selected |-> process[p].selected]
      BY <2>1 DEF WriteManifest
    <3> QED
      BY <1>1, <3>1, <3>2 DEF InstallLeavesFresh, Settled, Stale
  <2>2. CASE ~(process[p].force /\ process[p].alone)
    BY <2>2 DEF WriteManifest, InstallLeavesFresh, NothingFresh
  <2> QED
    BY <2>1, <2>2
<1> QED
  BY <1>0, <1>1, <1>2, <1>3, IdleIsSound DEF AssetInv, Ours

\* The sweep records the routing of a text the package owns, so never of a user's.
LEMMA CheckOwnershipKeeps ==
  ASSUME AssetInv, NEW p \in AssetProcess, CheckOwnership(p)
  PROVE  AssetInv'
<1>0. /\ process[p] \in Record /\ installed \in Texts /\ process[p].asset \in Asset /\ assetLock = p
      /\ process[p].after \in Text /\ process[p].after.body = process[p].before.body
      /\ process[p].pc = "check" /\ process[p].kind = "route"
  BY DEF AssetInv, CheckOwnership, Sound, Record
<1> DEFINE owned == Owned(process[p].asset, process[p].before, process[p].after)
<1>1. owned => process[p].after.body # "user"
  BY <1>0 DEF Owned, AssetInv, Ours
<1> HIDE DEF owned
<1>2. PICK pc \in {"record", "outside", "idle"} :
        /\ process'[p] = IF pc = "idle" THEN IdleProcess ELSE [process[p] EXCEPT !.pc = pc]
        /\ process' = [process EXCEPT ![p] = process'[p]]
        /\ pc = "record" => owned /\ assetLock' = p
  BY <1>0 DEF AssetInv, CheckOwnership, owned, Released
<1>3. /\ process'[p] \in Record /\ installed' \in Texts /\ assetLock' \in AssetProcess \cup {"free"}
      /\ manifest' = manifest /\ fresh' = NothingFresh
  <2>1. process'[p] \in Record
    BY <1>0, <1>2, MovesAreRecords, IdleIsSound
  <2>2. installed' \in Texts
    BY <1>0 DEF CheckOwnership, Texts
  <2> QED
    BY <1>0, <2>1, <2>2 DEF CheckOwnership, Released
<1>4. Sound(p, process[p])'
  <2>1. CASE pc = "idle"
    BY <1>2, <2>1 DEF IdleProcess, Sound
  <2>2. CASE pc # "idle"
    BY <1>0, <1>1, <1>2, <1>3, <2>2 DEF Sound, Record
  <2> QED
    BY <2>1, <2>2
<1>5. ASSUME NEW q \in AssetProcess PROVE Sound(q, process[q])'
  BY <1>0, <1>2, <1>4, OneHolder, BystanderIsSound, q = p \/ process'[q] = process[q] DEF AssetInv
<1> QED
  BY <1>2, <1>3, <1>5 DEF AssetInv, InstallLeavesFresh, NothingFresh, Ours

\* A routing change records the text it wrote, or puts the old one back.
LEMMA RecordOwnershipKeeps ==
  ASSUME AssetInv, NEW p \in AssetProcess, RecordOwnership(p)
  PROVE  AssetInv'
<1>0. /\ process[p] \in Record /\ process[p].asset \in Asset /\ assetLock = p /\ fresh = NothingFresh
      /\ process[p].after \in Text /\ process[p].before \in Text /\ process[p].after.body # "user"
      /\ process[p].pc = "record"
  BY DEF AssetInv, RecordOwnership, Sound, Record
<1>1. process' = [process EXCEPT ![p] = IdleProcess] /\ process'[p] = IdleProcess /\ assetLock' = "free"
  BY <1>0 DEF AssetInv, RecordOwnership, Released
<1>2. installed' \in Texts /\ manifest' \in Texts /\ Ours(manifest')
  BY <1>0 DEF AssetInv, RecordOwnership, Texts, Ours
<1>3. ASSUME NEW q \in AssetProcess PROVE Sound(q, process[q])'
  <2>1. CASE q = p
    BY <1>1, <2>1 DEF IdleProcess, Sound
  <2>2. CASE q # p
    BY <1>0, <1>1, <2>2, OneHolder, BystanderIsSound DEF AssetInv
  <2> QED
    BY <2>1, <2>2
<1> QED
  BY <1>0, <1>1, <1>2, <1>3, IdleIsSound DEF AssetInv, RecordOwnership, InstallLeavesFresh, NothingFresh, Ours

\* A write outside the lock is seen by every install that is running.
LEMMA OutsideKeeps ==
  ASSUME AssetInv, NEW D \in SUBSET AssetProcess, installed' \in Texts,
         process' = [q \in AssetProcess |-> IF q \in D THEN IdleProcess ELSE Disturbed[q]],
         fresh' = NothingFresh, UNCHANGED <<manifest, assetLock>>
  PROVE  AssetInv'
<1>1. ASSUME NEW q \in AssetProcess PROVE process'[q] \in Record /\ Sound(q, process[q])'
  <2>1. CASE q \in D
    BY <2>1, IdleIsSound DEF IdleProcess, Sound
  <2>2. CASE q \notin D
    <3>1. process[q] \in Record
      BY DEF AssetInv
    <3>2. PICK b \in BOOLEAN : b = (process[q].pc = "idle")
      BY Zenon
    <3>3. process'[q] = [process[q] EXCEPT !.alone = b]
      BY <2>2, <3>2, Zenon DEF Disturbed
    <3>4. process'[q] \in Record
      BY <3>1, <3>2, <3>3, MovesAreRecords, Zenon
    <3>5. /\ process'[q].pc = process[q].pc /\ process'[q].kind = process[q].kind /\ process'[q].alone = b
          /\ process'[q].version = process[q].version /\ process'[q].todo = process[q].todo
          /\ process'[q].known = process[q].known /\ process'[q].asset = process[q].asset
          /\ process'[q].before = process[q].before /\ process'[q].after = process[q].after
      BY <3>1, <3>3 DEF Record
    <3>6. process[q].pc # "idle" => ~b
      BY <3>2, Zenon
    <3>7. Sound(q, process[q])'
      BY <3>5, <3>6 DEF AssetInv, Sound, Ours
    <3> QED
      BY <3>4, <3>7
  <2> QED
    BY <2>1, <2>2
<1> QED
  BY <1>1 DEF AssetInv, InstallLeavesFresh, NothingFresh, Ours

\* A write outside the lock, or an edit of the user.
LEMMA TextsOfOthersKeep ==
  ASSUME AssetInv,
         \/ \E p \in AssetProcess : WriteOutside(p)
         \/ \E a \in Asset, body \in {"user", "absent"} : UserEdits(a, body)
  PROVE  AssetInv'
<1>1. ASSUME NEW p \in AssetProcess, WriteOutside(p) PROVE AssetInv'
  <2>1. process[p].asset \in Asset /\ process[p].after \in Text /\ installed \in Texts
    BY <1>1 DEF AssetInv, WriteOutside, Sound, Record
  <2>2. installed' \in Texts
    BY <1>1, <2>1 DEF WriteOutside, Texts
  <2>3. process' = [q \in AssetProcess |-> IF q \in {p} THEN IdleProcess ELSE Disturbed[q]]
    BY <1>1 DEF WriteOutside, Disturbed
  <2>4. {p} \in SUBSET AssetProcess
    OBVIOUS
  <2> QED
    BY <1>1, <2>2, <2>3, <2>4, OutsideKeeps DEF WriteOutside
<1>2. ASSUME NEW a \in Asset, NEW body \in {"user", "absent"}, UserEdits(a, body) PROVE AssetInv'
  <2>1. installed' \in Texts
    BY <1>2 DEF AssetInv, UserEdits, Texts, Text, AbsentText
  <2>2. process' = [q \in AssetProcess |-> IF q \in {} THEN IdleProcess ELSE Disturbed[q]]
    BY <1>2 DEF UserEdits, Disturbed
  <2>3. {} \in SUBSET AssetProcess
    OBVIOUS
  <2> QED
    BY <1>2, <2>1, <2>2, <2>3, OutsideKeeps DEF UserEdits
<1> QED
  BY <1>1, <1>2

\* A lock that nobody holds is removed.
LEMMA RemoveAssetLockKeeps ==
  ASSUME AssetInv, RemoveAssetLock
  PROVE  AssetInv'
<1>1. ASSUME NEW q \in AssetProcess PROVE Sound(q, process[q])'
  <2>1. process[q].pc \notin {"manifest", "retire", "check", "record"}
    BY DEF AssetInv, RemoveAssetLock, Sound
  <2> QED
    BY <2>1, BystanderIsSound DEF RemoveAssetLock
<1> QED
  BY <1>1 DEF AssetInv, RemoveAssetLock, InstallLeavesFresh, Stale, Ours

-----------------------------------------------------------------------------
\* Nothing is installed at first.
LEMMA AssetsStart == AssetInit => AssetInv
<1> SUFFICES ASSUME AssetInit PROVE AssetInv
  OBVIOUS
<1>1. EmptyManifest \in Texts /\ Ours(EmptyManifest)
  BY DEF EmptyManifest, Texts, Text, AbsentText, NoRoute, Ours
<1>2. AbsentText \in Text /\ \A v \in LegacyVersion : [body |-> v, route |-> NoRoute] \in Text
  BY DEF Text, AbsentText
<1>3. installed \in Texts
  BY <1>2 DEF AssetInit, Texts
<1> QED
  BY <1>1, <1>3, IdleIsSound DEF AssetInit, AssetInv, InstallLeavesFresh, NothingFresh

\* The invariant is inductive.
LEMMA AssetsKeep == AssetInv /\ [AssetNext]_assetVars => AssetInv'
<1> SUFFICES ASSUME AssetInv, [AssetNext]_assetVars PROVE AssetInv'
  OBVIOUS
<1>1. ASSUME NEW p \in AssetProcess, InstallStep(p) PROVE AssetInv'
  BY <1>1, ReadAssetManifestKeeps, WriteManifestKeeps, RetireAssetKeeps, CopyAssetKeeps DEF InstallStep
<1>2. ASSUME NEW p \in AssetProcess, NEW v \in AssetVersion, NEW force \in BOOLEAN,
             NEW s \in (SUBSET Asset) \ {{}}, BeginInstall(p, v, force, s)
      PROVE  AssetInv'
  BY <1>2, BeginInstallKeeps
<1>3. ASSUME NEW p \in AssetProcess, NEW a \in RoutedAsset, NEW r \in AssetRoute \cup {NoRoute}, BeginRoute(p, a, r)
      PROVE  AssetInv'
  BY <1>3, BeginRouteKeeps
<1>4. CASE UNCHANGED assetVars
  BY <1>4 DEF assetVars, AssetInv, Sound, Settled, Ours, InstallLeavesFresh, Stale
<1> QED
  BY <1>1, <1>2, <1>3, <1>4, LocksKeep, CheckOwnershipKeeps, RecordOwnershipKeeps, TextsOfOthersKeep,
     RemoveAssetLockKeeps DEF AssetNext

\* Whatever an installation does to an asset, a text of the user stays.
LEMMA InstallsSpareTheUser ==
  ASSUME AssetInv, NEW p \in AssetProcess, NEW a \in Asset, InstallStep(p), installed[a].body = "user"
  PROVE  installed'[a] = installed[a]
<1>0. installed[a] # AbsentText /\ Comparable(a, installed[a]).body = "user"
  BY DEF AssetInv, Texts, Text, Comparable, AbsentText
<1>1. ~IsLegacy(a, installed[a]) /\ installed[a] # AbsentText
  <2>1. ASSUME NEW v \in LegacyVersion, Comparable(a, installed[a]) = [body |-> v, route |-> NoRoute] PROVE FALSE
    <3>1. v = "user"
      BY <1>0, <2>1
    <3> QED
      BY <2>1, <3>1, AssetAssumption
  <2> QED
    BY <1>0, <2>1 DEF IsLegacy
<1>2. CASE ReadAssetManifest(p) \/ WriteManifest(p)
  BY <1>2 DEF ReadAssetManifest, WriteManifest
<1>3. ASSUME NEW b \in Asset, RetireAsset(p, b) \/ CopyAsset(p, b) PROVE installed'[a] = installed[a]
  <2>1. process[p].known[a].body # "user"
    BY <1>3 DEF RetireAsset, CopyAsset, AssetInv, Sound, Ours
  <2>2. installed' = [installed EXCEPT ![b] = installed'[b]] /\ (b = a => installed'[b] = installed[b])
    BY <1>1, <1>3, <2>1 DEF RetireAsset, CopyAsset, MayWrite, AssetInv, Texts
  <2> QED
    BY <2>2 DEF AssetInv, Texts
<1> QED
  BY <1>2, <1>3 DEF InstallStep

\* Whatever crashed, was routed or was edited before, no install overwrites or deletes a
\* text the user wrote, and a forced install that nothing disturbed leaves nothing the
\* audit of its version calls stale (copyDirectoryFiles, removeRetiredManagedAssets,
\* packageAssetAudit).
THEOREM AssetsStayKept == AssetSpec => AssetsAreKept
<1>1. AssetSpec => []AssetInv
  BY AssetsStart, AssetsKeep, PTL DEF AssetSpec
<1>2. AssetInv => InstallLeavesFresh
  BY DEF AssetInv
<1>3. AssetInv /\ [AssetNext]_assetVars =>
        [\A a \in Asset, p \in AssetProcess :
           InstallStep(p) /\ installed[a].body = "user" => installed'[a] = installed[a]]_assetVars
  BY InstallsSpareTheUser
<1> QED
  BY <1>1, <1>2, <1>3, PTL DEF AssetSpec, AssetsAreKept, UserTextKept

-----------------------------------------------------------------------------
(* The bundle.                                                             *)

AnyBundle == [gen : Nat, good : BOOLEAN]
Results == {"none", "kept", "installed", "failed"}
Run == [pc : Pcs, result : Results, aside : BOOLEAN]
Resolution == [pc : {"idle", "stated", "read", "answered"}, stat : Nat, manifest : Nat, binary : Nat,
               answer : {"none", "pinned", "override", "missing", "refused"}]

\* Between making the lock and letting go of it.
Held == {"made", "owned", "locked", "recovered", "swept", "staged", "verified", "moved",
         "published", "rollback", "retire", "leave"}

\* Before it moves anything aside.
Early == {"idle", "scanned", "made", "owned", "locked", "recovered", "swept", "staged", "verified"}

\* What installer k knows at its place: it holds the lock alone, has left no
\* backup yet, found none when it recovered, and is about to publish a bundle
\* that is newer than every other.
InstallerSound(k) ==
  /\ installer[k].pc \in Held => installLock.by = k
  /\ installer[k].pc \in Early => backups[k] = None
  /\ installer[k].pc \in {"recovered", "staged", "verified"} \/ (installer[k].pc = "swept" /\ source = "signed") =>
       \A j \in Installer : backups[j] = None
  /\ installer[k].pc \in {"moved", "published", "rollback"} => \A j \in Installer \ {k} : backups[j] = None
  /\ installer[k].pc \in {"moved", "rollback"} => live = None
  /\ installer[k].pc \in {"verified", "moved"} =>
       /\ staging[k].good /\ staging[k].gen = built /\ live.gen < built
       /\ \A j \in Installer : backups[j].gen < built
  /\ installer[k].pc = "published" => live.good

\* A generation no younger than the live bundle, or than the one moved aside for the next.
Seen(g) ==
  \/ live # None /\ g <= live.gen
  \/ live = None /\ \E j \in Installer : backups[j] # None /\ g <= backups[j].gen

ResolverSound ==
  /\ resolver \in Resolution
  /\ resolver.pc = "stated" =>
       Seen(resolver.stat) /\ (resolver.manifest # 0 => resolver.stat <= resolver.manifest /\ Seen(resolver.manifest))
  /\ resolver.pc = "read" =>
       resolver.stat <= resolver.manifest /\ resolver.manifest <= resolver.binary /\ Seen(resolver.binary)
  /\ resolver.answer = "pinned" => resolver.pc = "answered" /\ resolver.binary = resolver.manifest

DiskInv ==
  /\ source \in {"signed", "sumdb"} /\ built \in Nat /\ live \in AnyBundle
  /\ installLock \in [by : Installer \cup {"nobody"}, owner : BOOLEAN]
  /\ backups \in [Installer -> AnyBundle] /\ staging \in [Installer -> AnyBundle]
  /\ installer \in [Installer -> Run]
  /\ live.gen <= built /\ \A j \in Installer : backups[j].gen <= built
  /\ \A j, k \in Installer : backups[j] # None /\ backups[k] # None => j = k
  /\ \A k \in Installer : InstallerSound(k)

BundleInv == DiskInv /\ ResolverSound

\* What a step writes into a run is a run again.
LEMMA MovesAreRuns ==
  ASSUME NEW r \in Run
  PROVE  /\ \A pc \in Pcs : [r EXCEPT !.pc = pc] \in Run
         /\ \A pc \in Pcs, result \in Results : [r EXCEPT !.pc = pc, !.result = result] \in Run
         /\ \A pc \in Pcs : [r EXCEPT !.pc = pc, !.aside = TRUE] \in Run
BY Zenon DEF Run

\* No bundle and an empty directory are not good ones.
LEMMA NoBundle == None \in AnyBundle /\ Empty \in AnyBundle /\ ~None.good /\ None.gen = 0
BY DEF None, Empty, AnyBundle

\* A step of installer i under the lock: what it must show of the disk.
LEMMA UnderLock ==
  ASSUME DiskInv, NEW i \in Installer, installer[i].pc \in Held,
         installLock' = installLock, source' = source,
         NEW r \in Run, installer' = [installer EXCEPT ![i] = r],
         live' \in AnyBundle, built' \in Nat, built <= built',
         backups' \in [Installer -> AnyBundle], staging' \in [Installer -> AnyBundle],
         live'.gen <= built', \A j \in Installer : backups'[j].gen <= built',
         \A j \in Installer \ {i} : backups'[j] \in {backups[j], None},
         \A j, k \in Installer : backups'[j] # None /\ backups'[k] # None => j = k,
         InstallerSound(i)'
  PROVE  DiskInv'
<1>1. ASSUME NEW k \in Installer \ {i} PROVE InstallerSound(k)'
  <2>1. installer'[k] = installer[k] /\ installer[k].pc \notin Held
    BY DEF DiskInv, InstallerSound
  <2>2. installer[k].pc \notin {"recovered", "swept", "staged", "verified", "moved", "published", "rollback"}
    BY <2>1 DEF Held
  <2>3. installer[k].pc \in Early => backups'[k] = None
    BY DEF DiskInv, InstallerSound
  <2> QED
    BY <2>1, <2>2, <2>3 DEF InstallerSound
<1>2. installer' \in [Installer -> Run]
  BY DEF DiskInv
<1> QED
  BY <1>1, <1>2 DEF DiskInv

\* Steps around the lock leave the bundles alone.
LEMMA LockStepsKeep ==
  ASSUME DiskInv, NEW i \in Installer,
         \/ FirstScan(i) \/ MakeInstallLock(i) \/ WriteLockOwner(i) \/ SecondScan(i)
         \/ RenameLock(i) \/ RemoveTombstone(i) \/ InstallerDies(i)
  PROVE  DiskInv'
<1>1. UNCHANGED <<source, live, backups, staging, built>>
  BY DEF FirstScan, MakeInstallLock, WriteLockOwner, SecondScan, RenameLock, RemoveTombstone, InstallerDies
<1>2. PICK r \in Run : /\ installer' = [installer EXCEPT ![i] = r] /\ installer'[i] = r
                       /\ r.pc \in {"scanned", "made", "owned", "locked", "leave", "renamed", "done", "dead"}
                       /\ r.pc \in {"scanned", "made", "owned", "locked"} => installer[i].pc \in Early
  <2>1. PICK pc \in {"scanned", "made", "owned", "locked", "leave", "renamed", "done", "dead"}, result \in Results :
          /\ installer' = [installer EXCEPT ![i].pc = pc, ![i].result = result]
             \/ installer' = [installer EXCEPT ![i].pc = pc]
          /\ pc \in {"scanned", "made", "owned", "locked"} => installer[i].pc \in Early
    BY DEF FirstScan, MakeInstallLock, WriteLockOwner, SecondScan, RenameLock, RemoveTombstone, InstallerDies,
           Step, FailTo, At, Results, Early
  <2>2. installer[i] \in Run /\ pc \in Pcs
    BY DEF DiskInv, Pcs
  <2>3. [installer[i] EXCEPT !.pc = pc, !.result = result] \in Run /\ [installer[i] EXCEPT !.pc = pc] \in Run
    BY <2>2, MovesAreRuns
  <2>4. \/ installer' = [installer EXCEPT ![i] = [installer[i] EXCEPT !.pc = pc, !.result = result]]
        \/ installer' = [installer EXCEPT ![i] = [installer[i] EXCEPT !.pc = pc]]
    BY <2>1 DEF DiskInv
  <2>5. /\ [installer[i] EXCEPT !.pc = pc, !.result = result].pc = pc
        /\ [installer[i] EXCEPT !.pc = pc].pc = pc
    BY <2>2 DEF Run
  <2> QED
    BY <2>1, <2>3, <2>4, <2>5 DEF DiskInv
<1>3. /\ \/ installLock' = installLock
         \/ installLock = NoLock /\ installLock' = [by |-> i, owner |-> FALSE]
         \/ installer[i].pc = "made" /\ installLock' = [installLock EXCEPT !.owner = TRUE]
         \/ installLock.by = i /\ installLock' = NoLock /\ r.pc = "renamed"
      /\ r.pc \in Held => \/ installer[i].pc \in Held /\ installLock' = installLock
                          \/ installLock' = [by |-> i, owner |-> FALSE]
                          \/ installer[i].pc = "made" /\ installLock' = [installLock EXCEPT !.owner = TRUE]
                          \/ installLock.by = i /\ installLock' = installLock
  <2>1. CASE FirstScan(i) \/ SecondScan(i) \/ RemoveTombstone(i) \/ InstallerDies(i)
    BY <1>2, <2>1 DEF FirstScan, SecondScan, RemoveTombstone, InstallerDies, Step, FailTo, At, Held, DiskInv, Run
  <2>2. CASE MakeInstallLock(i)
    BY <1>2, <2>2 DEF MakeInstallLock, Step, FailTo, At, Held, DiskInv, Run
  <2>3. CASE WriteLockOwner(i)
    BY <1>2, <2>3 DEF WriteLockOwner, Step, FailTo, At, Held, DiskInv, Run
  <2>4. CASE RenameLock(i)
    BY <1>2, <2>4 DEF RenameLock, Step, FailTo, At, Held, DiskInv, Run
  <2> QED
    BY <2>1, <2>2, <2>3, <2>4
<1>4. [installLock EXCEPT !.owner = TRUE] \in [by : Installer \cup {"nobody"}, owner : BOOLEAN]
  BY Zenon DEF DiskInv
<1>6. /\ installLock' \in [by : Installer \cup {"nobody"}, owner : BOOLEAN]
      /\ r.pc \in Held => installLock'.by = i
  <2>1. installLock' \in [by : Installer \cup {"nobody"}, owner : BOOLEAN]
    <3>1. /\ installLock \in [by : Installer \cup {"nobody"}, owner : BOOLEAN]
          /\ NoLock \in [by : Installer \cup {"nobody"}, owner : BOOLEAN]
          /\ [by |-> i, owner |-> FALSE] \in [by : Installer \cup {"nobody"}, owner : BOOLEAN]
      BY DEF DiskInv, NoLock
    <3> QED
      BY <1>3, <1>4, <3>1, Zenon
  <2>2. installer[i].pc \in Held => installLock.by = i
    BY DEF DiskInv, InstallerSound
  <2> QED
    BY <1>3, <2>1, <2>2 DEF DiskInv, Held
<1>7. ASSUME NEW k \in Installer \ {i}, installer[k].pc \in Held PROVE installLock'.by = k
  <2>1. installLock.by = k /\ k # "nobody"
    BY <1>7, BundleAssumption DEF DiskInv, InstallerSound
  <2>2. installer[i].pc # "made"
    BY <2>1 DEF DiskInv, InstallerSound, Held
  <2> QED
    BY <1>3, <2>1, <2>2 DEF NoLock
<1>5. ASSUME NEW k \in Installer PROVE InstallerSound(k)'
  <2>1. CASE k = i
    <3>1. r.pc \in Early => backups[i] = None
      BY <1>2 DEF DiskInv, InstallerSound, Early
    <3> QED
      BY <1>1, <1>2, <1>6, <2>1, <3>1 DEF InstallerSound
  <2>2. CASE k # i
    BY <1>1, <1>2, <1>7, <2>2 DEF DiskInv, InstallerSound
  <2> QED
    BY <2>1, <2>2
<1> QED
  BY <1>1, <1>2, <1>5, <1>6 DEF DiskInv

\* The run after a step, by name.
LEMMA RunOfStep ==
  ASSUME DiskInv, NEW i \in Installer, NEW pc \in Pcs,
         \/ Step(i, pc) \/ FailTo(i, pc)
         \/ \E result \in Results : installer' = [installer EXCEPT ![i].pc = pc, ![i].result = result]
         \/ installer' = [installer EXCEPT ![i].pc = pc, ![i].aside = TRUE]
  PROVE  \E r \in Run : installer' = [installer EXCEPT ![i] = r] /\ installer'[i] = r /\ r.pc = pc
<1>1. installer[i] \in Run
  BY DEF DiskInv
<1>2. CASE Step(i, pc)
  <2>1. [installer[i] EXCEPT !.pc = pc] \in Run /\ [installer[i] EXCEPT !.pc = pc].pc = pc
    BY <1>1, MovesAreRuns DEF Run
  <2> QED
    BY <1>2, <2>1 DEF Step, DiskInv
<1>3. CASE FailTo(i, pc) \/ \E result \in Results : installer' = [installer EXCEPT ![i].pc = pc, ![i].result = result]
  <2>1. PICK result \in Results : installer' = [installer EXCEPT ![i].pc = pc, ![i].result = result]
    BY <1>3 DEF FailTo, Results
  <2>2. /\ [installer[i] EXCEPT !.pc = pc, !.result = result] \in Run
        /\ [installer[i] EXCEPT !.pc = pc, !.result = result].pc = pc
    BY <1>1, MovesAreRuns DEF Run
  <2> QED
    BY <2>1, <2>2 DEF DiskInv
<1>4. CASE installer' = [installer EXCEPT ![i].pc = pc, ![i].aside = TRUE]
  <2>1. /\ [installer[i] EXCEPT !.pc = pc, !.aside = TRUE] \in Run
        /\ [installer[i] EXCEPT !.pc = pc, !.aside = TRUE].pc = pc
    BY <1>1, MovesAreRuns DEF Run
  <2> QED
    BY <1>4, <2>1 DEF DiskInv
<1> QED
  BY <1>2, <1>3, <1>4

HasGood == live.good \/ \E j \in Installer : backups[j].good

\* What every step keeps of the disk: its order, a good bundle, and what a resolver has seen.
DiskKept ==
  /\ DiskInv'
  /\ HasGood => HasGood'
  /\ \A g \in Nat : Seen(g) => Seen(g)'

\* A step under the lock that moves no bundle.
LEMMA QuietUnderLock ==
  ASSUME DiskInv, NEW i \in Installer, installer[i].pc \in Held,
         UNCHANGED <<source, installLock, live, backups>>,
         NEW r \in Run, installer' = [installer EXCEPT ![i] = r],
         built' \in Nat, built <= built', staging' \in [Installer -> AnyBundle],
         InstallerSound(i)'
  PROVE  DiskKept
<1>1. /\ live' \in AnyBundle /\ backups' \in [Installer -> AnyBundle]
      /\ live'.gen <= built' /\ \A j \in Installer : backups'[j].gen <= built'
      /\ \A j, k \in Installer : backups'[j] # None /\ backups'[k] # None => j = k
      /\ \A j \in Installer \ {i} : backups'[j] \in {backups[j], None}
  BY DEF DiskInv, AnyBundle
<1>2. DiskInv'
  BY <1>1, UnderLock
<1> QED
  BY <1>2 DEF DiskKept, HasGood, Seen

\* Steps under the lock that leave the bundles where they are.
LEMMA QuietStepsKeep ==
  ASSUME DiskInv, NEW i \in Installer,
         Sweep(i) \/ JudgeLive(i) \/ BuildStaging(i) \/ RetireStaging(i)
  PROVE  DiskKept
<1>1. UNCHANGED <<source, installLock, live, backups>>
  BY DEF Sweep, JudgeLive, BuildStaging, RetireStaging, Unlocked
<1>2. built \in Nat /\ built <= built
  BY DEF DiskInv
<1>3. installer[i].pc \in Held /\ installLock.by = i
  BY DEF Sweep, JudgeLive, BuildStaging, RetireStaging, At, Held, DiskInv, InstallerSound
<1>4. None \in AnyBundle /\ Empty \in AnyBundle
  BY NoBundle
<1>5. CASE Sweep(i)
  <2>1. PICK r \in Run : installer' = [installer EXCEPT ![i] = r] /\ installer'[i] = r /\ r.pc = "swept"
    BY <1>5, RunOfStep, "swept" \in Pcs DEF Sweep, Pcs
  <2>2. staging' \in [Installer -> AnyBundle] /\ built' = built
    BY <1>4, <1>5 DEF Sweep
  <2>3. InstallerSound(i)'
    BY <1>1, <1>3, <1>5, <2>1 DEF Sweep, At, DiskInv, InstallerSound, Early
  <2> QED
    BY <1>1, <1>2, <1>3, <2>1, <2>2, <2>3, QuietUnderLock
<1>6. CASE JudgeLive(i)
  <2>1. PICK pc \in {"retire", "staged"}, r \in Run :
          installer' = [installer EXCEPT ![i] = r] /\ installer'[i] = r /\ r.pc = pc
    BY <1>6, RunOfStep, "retire" \in Pcs, "staged" \in Pcs DEF JudgeLive, Pcs, Results
  <2>2. staging' \in [Installer -> AnyBundle] /\ built' = built
    BY <1>4, <1>6 DEF JudgeLive, DiskInv
  <2>3. InstallerSound(i)'
    BY <1>1, <1>3, <1>6, <2>1 DEF JudgeLive, At, DiskInv, InstallerSound, Early
  <2> QED
    BY <1>1, <1>2, <1>3, <2>1, <2>2, <2>3, QuietUnderLock
<1>7. CASE BuildStaging(i)
  <2>1. PICK pc \in {"verified", "retire"}, r \in Run :
          /\ installer' = [installer EXCEPT ![i] = r] /\ installer'[i] = r /\ r.pc = pc
          /\ \/ /\ pc = "verified" /\ built' = built + 1
                /\ staging' = [staging EXCEPT ![i] = [gen |-> built + 1, good |-> TRUE]]
             \/ pc = "retire" /\ built' = built /\ staging' = staging
    <3>1. CASE /\ built' = built + 1 /\ Step(i, "verified")
               /\ staging' = [staging EXCEPT ![i] = [gen |-> built + 1, good |-> TRUE]]
      <4>1. PICK r \in Run : installer' = [installer EXCEPT ![i] = r] /\ installer'[i] = r /\ r.pc = "verified"
        BY <3>1, RunOfStep, "verified" \in Pcs DEF Pcs
      <4> QED
        BY <3>1, <4>1
    <3>2. CASE FailTo(i, "retire") /\ built' = built /\ staging' = staging
      <4>1. PICK r \in Run : installer' = [installer EXCEPT ![i] = r] /\ installer'[i] = r /\ r.pc = "retire"
        BY <3>2, RunOfStep, "retire" \in Pcs DEF Pcs
      <4> QED
        BY <3>2, <4>1
    <3> QED
      BY <1>7, <3>1, <3>2 DEF BuildStaging
  <2>2. [gen |-> built + 1, good |-> TRUE] \in AnyBundle
    BY DEF DiskInv, AnyBundle
  <2>3. staging' \in [Installer -> AnyBundle] /\ built' \in Nat /\ built <= built'
    <3>1. staging \in [Installer -> AnyBundle] /\ built \in Nat
      BY DEF DiskInv
    <3>2. [staging EXCEPT ![i] = [gen |-> built + 1, good |-> TRUE]] \in [Installer -> AnyBundle]
      BY <2>2, <3>1
    <3>3. CASE pc = "verified"
      <4>1. staging' \in [Installer -> AnyBundle]
        BY <2>1, <3>2, <3>3
      <4>2. built' = built + 1
        BY <2>1, <3>3
      <4> QED
        BY <3>1, <4>1, <4>2
    <3>4. CASE pc = "retire"
      <4>1. staging' = staging /\ built' = built
        BY <2>1, <3>4
      <4> QED
        BY <3>1, <4>1
    <3> QED
      BY <3>3, <3>4
  <2>4. InstallerSound(i)'
    <3>1. CASE pc = "verified"
      <4>1. staging'[i] = [gen |-> built + 1, good |-> TRUE]
        BY <2>1, <3>1 DEF DiskInv
      <4>2. live.gen < built + 1 /\ \A j \in Installer : backups[j].gen < built + 1
        BY DEF DiskInv, AnyBundle
      <4> QED
        BY <1>1, <1>3, <1>7, <2>1, <3>1, <4>1, <4>2 DEF BuildStaging, At, DiskInv, InstallerSound, Early
    <3>2. CASE pc = "retire"
      BY <1>1, <1>3, <2>1, <3>2 DEF InstallerSound, Early
    <3> QED
      BY <3>1, <3>2, <2>1
  <2> QED
    BY <1>1, <1>2, <1>3, <2>1, <2>3, <2>4, QuietUnderLock
<1>8. CASE RetireStaging(i)
  <2>1. PICK r \in Run : installer' = [installer EXCEPT ![i] = r] /\ installer'[i] = r /\ r.pc = "leave"
    BY <1>8, RunOfStep, "leave" \in Pcs DEF RetireStaging, Pcs
  <2>2. staging' \in [Installer -> AnyBundle] /\ built' = built
    BY <1>4, <1>8 DEF RetireStaging, DiskInv
  <2>3. InstallerSound(i)'
    BY <1>1, <1>3, <2>1 DEF InstallerSound, Early
  <2> QED
    BY <1>1, <1>2, <1>3, <2>1, <2>2, <2>3, QuietUnderLock
<1> QED
  BY <1>5, <1>6, <1>7, <1>8

\* Publication: the live bundle goes aside, the next one takes its place, and
\* only then is the one before removed.
LEMMA MoveAsideKeeps ==
  ASSUME DiskInv, NEW i \in Installer, MoveAside(i)
  PROVE  DiskKept
<1>1. /\ installer[i].pc \in Held /\ installer[i].pc = "verified" /\ UNCHANGED <<source, installLock, staging, built>>
      /\ installLock.by = i
  BY DEF MoveAside, At, Held, Unlocked, DiskInv, InstallerSound
<1>2. /\ \A j \in Installer : backups[j] = None
      /\ staging[i].good /\ staging[i].gen = built /\ live.gen < built
  BY <1>1 DEF DiskInv, InstallerSound
<1>3. /\ live \in AnyBundle /\ built \in Nat /\ backups \in [Installer -> AnyBundle] /\ staging \in [Installer -> AnyBundle]
      /\ live.gen <= built /\ \A j \in Installer : backups[j].gen <= built
  BY DEF DiskInv
<1>4. None \in AnyBundle /\ ~None.good /\ None.gen = 0 /\ 0 < built
  BY <1>2, <1>3, NoBundle DEF AnyBundle
<1>5. CASE live # None /\ backups' = [backups EXCEPT ![i] = live] /\ live' = None
           /\ installer' = [installer EXCEPT ![i].pc = "moved", ![i].aside = TRUE]
  <2>1. PICK r \in Run : installer' = [installer EXCEPT ![i] = r] /\ installer'[i] = r /\ r.pc = "moved"
    BY <1>5, RunOfStep, "moved" \in Pcs DEF Pcs
  <2>2. /\ backups' \in [Installer -> AnyBundle] /\ backups'[i] = live
        /\ \A j \in Installer \ {i} : backups'[j] = None
    BY <1>2, <1>3, <1>5
  <2>3. /\ live'.gen <= built' /\ \A j \in Installer : backups'[j].gen < built' /\ backups'[j].gen <= built'
        /\ built' \in Nat /\ built <= built' /\ live'.gen < built'
    BY <1>1, <1>2, <1>3, <1>4, <1>5, <2>2 DEF AnyBundle
  <2>4. InstallerSound(i)'
    BY <1>1, <1>2, <1>4, <1>5, <2>1, <2>2, <2>3 DEF InstallerSound, Early
  <2>5. /\ \A j, k \in Installer : backups'[j] # None /\ backups'[k] # None => j = k
        /\ \A j \in Installer \ {i} : backups'[j] \in {backups[j], None}
        /\ live' \in AnyBundle /\ staging' \in [Installer -> AnyBundle]
    BY <1>1, <1>3, <1>4, <1>5, <2>2
  <2>6. DiskInv'
    BY <1>1, <2>1, <2>2, <2>3, <2>4, <2>5, UnderLock
  <2>7. HasGood => HasGood'
    BY <1>2, <1>4, <2>2 DEF HasGood
  <2>8. \A g \in Nat : Seen(g) => Seen(g)'
    BY <1>2, <1>5, <2>2 DEF Seen
  <2> QED
    BY <2>6, <2>7, <2>8 DEF DiskKept
<1>6. CASE UNCHANGED <<live, backups>> /\ ((Step(i, "moved") /\ live = None) \/ FailTo(i, "retire"))
  <2>1. PICK r \in Run : /\ installer' = [installer EXCEPT ![i] = r] /\ installer'[i] = r
                         /\ ((r.pc = "moved" /\ live = None) \/ r.pc = "retire")
    <3>1. CASE Step(i, "moved")
      <4>1. PICK r \in Run : installer' = [installer EXCEPT ![i] = r] /\ installer'[i] = r /\ r.pc = "moved"
        BY <3>1, RunOfStep, "moved" \in Pcs DEF Pcs
      <4> QED
        BY <1>6, <3>1, <4>1 DEF FailTo, DiskInv, Run
    <3>2. CASE FailTo(i, "retire")
      <4>1. PICK r \in Run : installer' = [installer EXCEPT ![i] = r] /\ installer'[i] = r /\ r.pc = "retire"
        BY <3>2, RunOfStep, "retire" \in Pcs DEF Pcs
      <4> QED
        BY <4>1
    <3> QED
      BY <1>6, <3>1, <3>2
  <2>2. InstallerSound(i)'
    BY <1>1, <1>2, <1>4, <1>6, <2>1 DEF InstallerSound, Early
  <2>3. built' \in Nat /\ built <= built' /\ staging' \in [Installer -> AnyBundle]
    BY <1>1, <1>3
  <2> QED
    BY <1>1, <1>6, <2>1, <2>2, <2>3, QuietUnderLock
<1> QED
  BY <1>5, <1>6 DEF MoveAside

\* The staged bundle becomes the live one.
LEMMA PublishKeeps ==
  ASSUME DiskInv, NEW i \in Installer, Publish(i)
  PROVE  DiskKept
<1>1. /\ installer[i].pc \in Held /\ installer[i].pc = "moved" /\ UNCHANGED <<source, installLock, backups, built>>
      /\ installLock.by = i
  BY DEF Publish, At, Held, Unlocked, DiskInv, InstallerSound
<1>2. /\ \A j \in Installer \ {i} : backups[j] = None
      /\ staging[i].good /\ staging[i].gen = built /\ live = None
      /\ \A j \in Installer : backups[j].gen < built
  BY <1>1 DEF DiskInv, InstallerSound
<1>3. /\ live \in AnyBundle /\ built \in Nat /\ backups \in [Installer -> AnyBundle] /\ staging \in [Installer -> AnyBundle]
      /\ \A j \in Installer : backups[j].gen <= built
      /\ \A j, k \in Installer : backups[j] # None /\ backups[k] # None => j = k
  BY DEF DiskInv
<1>4. None \in AnyBundle /\ ~None.good /\ None.gen = 0
  BY NoBundle
<1>5. CASE live' = staging[i] /\ staging' = [staging EXCEPT ![i] = None]
           /\ installer' = [installer EXCEPT ![i].pc = "published", ![i].result = "installed"]
  <2>1. PICK r \in Run : installer' = [installer EXCEPT ![i] = r] /\ installer'[i] = r /\ r.pc = "published"
    <3>1. \E result \in Results : installer' = [installer EXCEPT ![i].pc = "published", ![i].result = result]
      BY <1>5 DEF Results
    <3> QED
      BY <3>1, RunOfStep, "published" \in Pcs DEF Pcs
  <2>2. /\ live' \in AnyBundle /\ staging' \in [Installer -> AnyBundle] /\ live'.gen <= built' /\ built' \in Nat
        /\ built <= built' /\ backups' \in [Installer -> AnyBundle]
    BY <1>1, <1>2, <1>3, <1>4, <1>5
  <2>3. InstallerSound(i)'
    BY <1>1, <1>2, <1>5, <2>1 DEF InstallerSound, Early
  <2>4. /\ \A j, k \in Installer : backups'[j] # None /\ backups'[k] # None => j = k
        /\ \A j \in Installer \ {i} : backups'[j] \in {backups[j], None}
        /\ \A j \in Installer : backups'[j].gen <= built'
    BY <1>1, <1>3
  <2>5. DiskInv'
    BY <1>1, <2>1, <2>2, <2>3, <2>4, UnderLock
  <2>6. HasGood'
    BY <1>2, <1>5 DEF HasGood
  <2>7. ASSUME NEW g \in Nat, Seen(g) PROVE Seen(g)'
    <3>1. live' # None /\ live'.gen = built
      BY <1>2, <1>4, <1>5
    <3>2. g <= built
      BY <1>2, <1>3, <2>7 DEF Seen, AnyBundle
    <3> QED
      BY <3>1, <3>2 DEF Seen
  <2> QED
    BY <2>5, <2>6, <2>7 DEF DiskKept
<1>6. CASE UNCHANGED <<live, staging>> /\ FailTo(i, IF installer[i].aside THEN "rollback" ELSE "retire")
  <2>1. PICK pc \in {"rollback", "retire"} : FailTo(i, pc)
    <3>1. CASE installer[i].aside
      BY <1>6, <3>1, Zenon
    <3>2. CASE ~installer[i].aside
      BY <1>6, <3>2, Zenon
    <3> QED
      BY <3>1, <3>2
  <2>2. PICK r \in Run : installer' = [installer EXCEPT ![i] = r] /\ installer'[i] = r /\ r.pc = pc
    <3>1. pc \in Pcs
      BY DEF Pcs
    <3> QED
      BY <2>1, <3>1, RunOfStep, Zenon
  <2>3. InstallerSound(i)'
    BY <1>1, <1>2, <1>6, <2>1, <2>2 DEF InstallerSound, Early
  <2>4. built' \in Nat /\ built <= built' /\ staging' \in [Installer -> AnyBundle]
    BY <1>1, <1>3, <1>6
  <2> QED
    BY <1>1, <1>6, <2>2, <2>3, <2>4, QuietUnderLock
<1> QED
  BY <1>5, <1>6 DEF Publish

\* A rollback, and the removal of the bundle before.
LEMMA RollbackKeeps ==
  ASSUME DiskInv, NEW i \in Installer, Rollback(i)
  PROVE  DiskKept
<1>1. /\ installer[i].pc \in Held /\ installer[i].pc = "rollback" /\ UNCHANGED <<source, installLock, staging, built>>
      /\ installLock.by = i
  BY DEF Rollback, At, Held, Unlocked, DiskInv, InstallerSound
<1>2. (\A j \in Installer \ {i} : backups[j] = None) /\ live = None
  BY <1>1 DEF DiskInv, InstallerSound
<1>3. /\ built \in Nat /\ backups \in [Installer -> AnyBundle] /\ staging \in [Installer -> AnyBundle]
      /\ \A j \in Installer : backups[j].gen <= built
  BY DEF DiskInv
<1>4. None \in AnyBundle /\ ~None.good /\ None.gen = 0 /\ 0 <= built
  BY <1>3, NoBundle
<1>5. PICK r \in Run : installer' = [installer EXCEPT ![i] = r] /\ installer'[i] = r /\ r.pc = "retire"
  BY RunOfStep, "retire" \in Pcs DEF Rollback, Pcs
<1>6. built' \in Nat /\ built <= built' /\ staging' \in [Installer -> AnyBundle]
  BY <1>1, <1>3
<1>7. InstallerSound(i)'
  BY <1>1, <1>5 DEF InstallerSound, Early
<1>8. CASE live' = backups[i] /\ backups' = [backups EXCEPT ![i] = None]
  <2>1. /\ backups' \in [Installer -> AnyBundle] /\ live' \in AnyBundle
        /\ \A j \in Installer : backups'[j] = None
    BY <1>2, <1>3, <1>4, <1>8
  <2>2. live'.gen <= built' /\ \A j \in Installer : backups'[j].gen <= built'
    BY <1>1, <1>3, <1>4, <1>8, <2>1
  <2>3. DiskInv'
    BY <1>1, <1>5, <1>6, <1>7, <2>1, <2>2, UnderLock
  <2>4. HasGood => HasGood'
    BY <1>2, <1>4, <1>8 DEF HasGood
  <2>5. \A g \in Nat : Seen(g) => Seen(g)'
    BY <1>2, <1>8 DEF Seen
  <2> QED
    BY <2>3, <2>4, <2>5 DEF DiskKept
<1>9. CASE UNCHANGED <<live, backups>>
  BY <1>1, <1>5, <1>6, <1>7, <1>9, QuietUnderLock
<1> QED
  BY <1>8, <1>9 DEF Rollback

\* The backup goes once the new bundle is live.
LEMMA DropBackupKeeps ==
  ASSUME DiskInv, NEW i \in Installer, DropBackup(i)
  PROVE  DiskKept
<1>1. /\ installer[i].pc \in Held /\ installer[i].pc = "published" /\ UNCHANGED <<source, installLock, live, staging, built>>
      /\ installLock.by = i
  BY DEF DropBackup, At, Held, Unlocked, DiskInv, InstallerSound
<1>2. live.good
  BY <1>1 DEF DiskInv, InstallerSound
<1>3. /\ built \in Nat /\ backups \in [Installer -> AnyBundle] /\ staging \in [Installer -> AnyBundle]
      /\ live \in AnyBundle /\ live.gen <= built /\ \A j \in Installer : backups[j].gen <= built
      /\ \A j, k \in Installer : backups[j] # None /\ backups[k] # None => j = k
  BY DEF DiskInv
<1>4. None \in AnyBundle /\ ~None.good /\ None.gen = 0 /\ 0 <= built
  BY <1>3, NoBundle
<1>5. PICK r \in Run : installer' = [installer EXCEPT ![i] = r] /\ installer'[i] = r /\ r.pc = "retire"
  BY RunOfStep, "retire" \in Pcs DEF DropBackup, Pcs
<1>6. built' \in Nat /\ built <= built' /\ staging' \in [Installer -> AnyBundle]
  BY <1>1, <1>3
<1>7. InstallerSound(i)'
  BY <1>1, <1>5 DEF InstallerSound, Early
<1>8. \/ backups' = [backups EXCEPT ![i] = None]
      \/ backups' = backups
  BY Zenon DEF DropBackup
<1>9. /\ backups' \in [Installer -> AnyBundle]
      /\ \A j \in Installer : backups'[j] \in {backups[j], None}
  BY <1>3, <1>4, <1>8
<1>10. /\ live' \in AnyBundle /\ live'.gen <= built' /\ \A j \in Installer : backups'[j].gen <= built'
       /\ \A j, k \in Installer : backups'[j] # None /\ backups'[k] # None => j = k
  BY <1>1, <1>3, <1>4, <1>9
<1>11. DiskInv'
  BY <1>1, <1>5, <1>6, <1>7, <1>9, <1>10, UnderLock
<1>12. HasGood' /\ live # None
  BY <1>1, <1>2, <1>4 DEF HasGood
<1>13. \A g \in Nat : Seen(g) => Seen(g)'
  BY <1>1, <1>12 DEF Seen
<1> QED
  BY <1>11, <1>12, <1>13 DEF DiskKept

\* Recovery: the one backup comes back when nothing is live, and goes when a good bundle is.
LEMMA RecoverKeeps ==
  ASSUME DiskInv, NEW i \in Installer, Recover(i)
  PROVE  DiskKept
<1>1. /\ installer[i].pc \in Held /\ installer[i].pc \in {"locked", "swept"} /\ UNCHANGED <<source, installLock, staging, built>>
      /\ installLock.by = i /\ backups[i] = None
  BY DEF Recover, At, Held, Unlocked, DiskInv, InstallerSound, Early
<1>3. /\ built \in Nat /\ backups \in [Installer -> AnyBundle] /\ staging \in [Installer -> AnyBundle]
      /\ live \in AnyBundle /\ live.gen <= built /\ \A j \in Installer : backups[j].gen <= built
      /\ \A j, k \in Installer : backups[j] # None /\ backups[k] # None => j = k
  BY DEF DiskInv
<1>4. None \in AnyBundle /\ ~None.good /\ None.gen = 0 /\ 0 <= built
  BY <1>3, NoBundle
<1>6. built' \in Nat /\ built <= built' /\ staging' \in [Installer -> AnyBundle]
  BY <1>1, <1>3
<1>7. PICK judged \in [Backups -> BOOLEAN], liveValid \in Judgements(live) :
        /\ \A j \in Backups : judged[j] \in Judgements(backups[j])
        /\ \/ Backups = {} /\ Step(i, "recovered") /\ UNCHANGED <<live, backups>>
           \/ \E j \in Backups :
                /\ Backups = {j}
                /\ judged[j]
                /\ \/ live = None /\ live' = backups[j]
                   \/ live # None /\ liveValid /\ live' = live
                /\ backups' = [backups EXCEPT ![j] = None]
                /\ Step(i, "recovered")
           \/ /\ Backups # {}
              /\ ~ \E j \in Backups : Backups = {j} /\ judged[j] /\ (live = None \/ liveValid)
              /\ FailTo(i, "retire")
              /\ UNCHANGED <<live, backups>>
  BY Zenon DEF Recover, RecoverBackup
<1>a. liveValid => live.good
  BY Zenon DEF Judgements
<1>8. CASE UNCHANGED <<live, backups>> /\ Backups = {} /\ Step(i, "recovered")
  <2>1. PICK r \in Run : installer' = [installer EXCEPT ![i] = r] /\ installer'[i] = r /\ r.pc = "recovered"
    BY <1>8, RunOfStep, "recovered" \in Pcs DEF Pcs
  <2>2. \A j \in Installer : backups[j] = None
    BY <1>8 DEF Backups
  <2>3. InstallerSound(i)'
    BY <1>1, <1>8, <2>1, <2>2 DEF InstallerSound, Early
  <2> QED
    BY <1>1, <1>6, <1>8, <2>1, <2>3, QuietUnderLock
<1>9. CASE UNCHANGED <<live, backups>> /\ FailTo(i, "retire")
  <2>1. PICK r \in Run : installer' = [installer EXCEPT ![i] = r] /\ installer'[i] = r /\ r.pc = "retire"
    BY <1>9, RunOfStep, "retire" \in Pcs DEF Pcs
  <2>3. InstallerSound(i)'
    BY <1>1, <2>1 DEF InstallerSound, Early
  <2> QED
    BY <1>1, <1>6, <1>9, <2>1, <2>3, QuietUnderLock
<1>10. ASSUME NEW j \in Backups, Backups = {j}, judged[j],
              \/ live = None /\ live' = backups[j]
              \/ live # None /\ liveValid /\ live' = live,
              backups' = [backups EXCEPT ![j] = None], Step(i, "recovered")
       PROVE  DiskKept
  <2>1. PICK r \in Run : installer' = [installer EXCEPT ![i] = r] /\ installer'[i] = r /\ r.pc = "recovered"
    BY <1>10, RunOfStep, "recovered" \in Pcs DEF Pcs
  <2>2. j \in Installer /\ \A k \in Installer \ {j} : backups[k] = None
    BY <1>10 DEF Backups
  <2>3. /\ backups' \in [Installer -> AnyBundle] /\ live' \in AnyBundle
        /\ \A k \in Installer : backups'[k] = None
    BY <1>3, <1>4, <1>10, <2>2
  <2>4. live'.gen <= built' /\ \A k \in Installer : backups'[k].gen <= built'
    BY <1>1, <1>3, <1>4, <1>10, <2>2, <2>3
  <2>5. InstallerSound(i)'
    BY <1>1, <2>1, <2>3 DEF InstallerSound, Early
  <2>6. DiskInv'
    BY <1>1, <1>6, <2>1, <2>3, <2>4, <2>5, UnderLock
  <2>7. HasGood => HasGood'
    BY <1>4, <1>a, <1>10, <2>2 DEF HasGood
  <2>8. \A g \in Nat : Seen(g) => Seen(g)'
    <3>1. backups[j] # None
      BY DEF Backups
    <3>2. live = None => live' = backups[j] /\ live' # None
      BY <1>10, <3>1
    <3> QED
      BY <1>10, <2>2, <3>2 DEF Seen
  <2> QED
    BY <2>6, <2>7, <2>8 DEF DiskKept
<1> QED
  BY <1>7, <1>8, <1>9, <1>10

-----------------------------------------------------------------------------
\* The invariant holds at first.
LEMMA DiskStarts == BundleInit => DiskInv
<1> SUFFICES ASSUME BundleInit PROVE DiskInv
  OBVIOUS
<1>1. None \in AnyBundle /\ None.gen = 0
  BY NoBundle
<1>2. live \in AnyBundle /\ built \in Nat /\ live.gen <= built
  <2>1. [gen |-> 1, good |-> TRUE] \in AnyBundle /\ [gen |-> 1, good |-> FALSE] \in AnyBundle
    BY DEF AnyBundle
  <2>2. CASE built = 0 /\ live = None
    BY <1>1, <2>2
  <2>3. CASE built = 1 /\ live = [gen |-> 1, good |-> TRUE]
    BY <2>1, <2>3
  <2>4. CASE built = 1 /\ live = [gen |-> 1, good |-> FALSE]
    BY <2>1, <2>4
  <2> QED
    BY <2>2, <2>3, <2>4 DEF BundleInit
<1>3. \A i \in Installer : installer[i] \in Run /\ installer[i].pc = "idle"
  BY DEF BundleInit, Run, Pcs, Results
<1>4. ASSUME NEW k \in Installer PROVE InstallerSound(k)
  BY <1>3 DEF BundleInit, InstallerSound, Held
<1> QED
  BY <1>1, <1>2, <1>3, <1>4 DEF BundleInit, DiskInv, NoLock

\* What a step that does not touch the disk keeps.
LEMMA DiskUntouched ==
  ASSUME DiskInv, UNCHANGED <<source, installLock, live, backups, staging, built, installer>>
  PROVE  DiskKept
BY DEF DiskInv, DiskKept, HasGood, Seen, InstallerSound

\* The steps of an installer, by where it is.
LEMMA InstallersKeep ==
  ASSUME DiskInv, NEW i \in Installer, InstallerStep(i) \/ InstallerDies(i)
  PROVE  DiskKept
<1>1. CASE \/ FirstScan(i) \/ MakeInstallLock(i) \/ WriteLockOwner(i) \/ SecondScan(i)
           \/ RenameLock(i) \/ RemoveTombstone(i) \/ InstallerDies(i)
  <2>1. UNCHANGED <<live, backups>>
    BY <1>1 DEF FirstScan, MakeInstallLock, WriteLockOwner, SecondScan, RenameLock, RemoveTombstone, InstallerDies
  <2>2. DiskInv'
    BY <1>1, LockStepsKeep
  <2> QED
    BY <2>1, <2>2 DEF DiskKept, HasGood, Seen
<1> QED
  BY <1>1, QuietStepsKeep, MoveAsideKeeps, PublishKeeps, RollbackKeeps, DropBackupKeeps, RecoverKeeps DEF InstallerStep

\* A lock of dead installers is removed by hand.
LEMMA CleanupKeeps ==
  ASSUME DiskInv, ManualCleanup
  PROVE  DiskKept
<1>1. UNCHANGED <<source, live, backups, staging, built, installer>> /\ installLock' = NoLock
  BY DEF ManualCleanup
<1>2. \A k \in Installer : installer[k].pc \notin Held
  BY DEF ManualCleanup, Held
<1>3. \A k \in Installer : InstallerSound(k)'
  BY <1>1, <1>2 DEF DiskInv, InstallerSound
<1>4. DiskInv'
  BY <1>1, <1>3 DEF DiskInv, NoLock
<1> QED
  BY <1>1, <1>4 DEF DiskKept, HasGood, Seen

\* What a resolver has seen stays no younger than what it can see next.
LEMMA ResolverKeeps ==
  ASSUME BundleInv, BeginResolve \/ ReadManifest \/ HashBinary \/ EndResolve
  PROVE  BundleInv' /\ DiskKept
<1>1. UNCHANGED <<source, installLock, live, backups, staging, built, installer>>
  BY DEF BeginResolve, ReadManifest, HashBinary, EndResolve
<1>2. DiskKept
  BY <1>1, DiskUntouched DEF BundleInv
<1>3. live \in AnyBundle /\ resolver \in Resolution /\ ResolverSound
  BY DEF BundleInv, DiskInv, ResolverSound
<1>4. live # None => Seen(live.gen)
  BY <1>3 DEF Seen, AnyBundle
<1>5. \A g : Seen(g)' <=> Seen(g)
  BY <1>1 DEF Seen
<1>6. CASE BeginResolve
  <2>1. resolver' \in Resolution
    BY <1>3, <1>6 DEF BeginResolve, DeclaredOverride, IdleResolver, Resolution, AnyBundle
  <2> QED
    BY <1>2, <1>3, <1>4, <1>5, <1>6, <2>1
    DEF BeginResolve, DeclaredOverride, IdleResolver, Resolution, ResolverSound, BundleInv, DiskKept
<1>7. CASE ReadManifest
  <2>1. resolver' \in Resolution
    BY <1>3, <1>7 DEF ReadManifest, Resolution, AnyBundle
  <2>2. live # None => resolver.stat <= live.gen
    BY <1>3, <1>7 DEF ReadManifest, ResolverSound, Seen
  <2> QED
    BY <1>2, <1>3, <1>4, <1>5, <1>7, <2>1, <2>2 DEF ReadManifest, Resolution, ResolverSound, BundleInv, DiskKept
<1>8. CASE HashBinary
  <2>1. resolver' \in Resolution
    BY <1>3, <1>8 DEF HashBinary, Resolution, AnyBundle
  <2>2. /\ resolver.pc = "stated" /\ resolver.manifest # 0 /\ resolver.stat <= resolver.manifest
        /\ live # None => resolver.manifest <= live.gen
    BY <1>3, <1>8 DEF HashBinary, ResolverSound, Seen
  <2> QED
    BY <1>2, <1>3, <1>4, <1>5, <1>8, <2>1, <2>2 DEF HashBinary, Resolution, ResolverSound, BundleInv, DiskKept
<1>9. CASE EndResolve
  <2>1. resolver' \in Resolution
    BY <1>3, <1>9 DEF EndResolve, Resolution
  <2>2. live # None => resolver.binary <= live.gen
    BY <1>3, <1>9 DEF EndResolve, ResolverSound, Seen
  <2>3. live # None /\ live.gen = resolver.stat => resolver.binary = resolver.manifest
    BY <1>3, <1>9, <2>2 DEF EndResolve, ResolverSound, Resolution
  <2> QED
    BY <1>2, <1>3, <1>9, <2>1, <2>3 DEF EndResolve, Resolution, ResolverSound, BundleInv, DiskKept
<1> QED
  BY <1>6, <1>7, <1>8, <1>9, <1>2

\* The invariant is inductive, and a good bundle on disk stays on disk.
LEMMA BundleKeeps == BundleInv /\ [BundleNext]_bundleVars => BundleInv' /\ (HasGood => HasGood')
<1> SUFFICES ASSUME BundleInv, [BundleNext]_bundleVars PROVE BundleInv' /\ (HasGood => HasGood')
  OBVIOUS
<1>1. ASSUME DiskKept, resolver' = resolver PROVE BundleInv' /\ (HasGood => HasGood')
  <2>1. ResolverSound'
    BY <1>1 DEF BundleInv, ResolverSound, DiskKept, Resolution
  <2> QED
    BY <1>1, <2>1 DEF BundleInv, DiskKept
<1>2. ASSUME NEW i \in Installer, InstallerStep(i) \/ InstallerDies(i) PROVE BundleInv' /\ (HasGood => HasGood')
  <2>1. resolver' = resolver
    BY <1>2 DEF InstallerStep, InstallerDies, FirstScan, MakeInstallLock, WriteLockOwner, SecondScan, RenameLock,
       RemoveTombstone, Recover, Sweep, JudgeLive, BuildStaging, MoveAside, Publish, Rollback, DropBackup,
       RetireStaging, Unlocked
  <2> QED
    BY <1>1, <1>2, <2>1, InstallersKeep DEF BundleInv
<1>3. CASE ManualCleanup
  BY <1>1, <1>3, CleanupKeeps DEF BundleInv, ManualCleanup
<1>4. CASE BeginResolve \/ ReadManifest \/ HashBinary \/ EndResolve
  BY <1>4, ResolverKeeps DEF DiskKept
<1>5. CASE DevBinary \/ UNCHANGED bundleVars
  BY <1>1, <1>5, DiskUntouched DEF BundleInv, DevBinary, bundleVars
<1> QED
  BY <1>2, <1>3, <1>4, <1>5 DEF BundleNext

\* A matching bundle that is on disk, live or moved aside, is never lost, and the binary
\* a resolver names is of the bundle whose manifest it read, however installers publish,
\* die, roll back and recover meanwhile (publishBundle, recoverInterruptedPublication,
\* resolveGentleAiBinary).
THEOREM BundleStaysKept == BundleSpec => BundleIsKept
<1>1. BundleInit => BundleInv
  <2>1. ASSUME BundleInit PROVE ResolverSound
    BY <2>1 DEF BundleInit, ResolverSound, IdleResolver, Resolution
  <2> QED
    BY <2>1, DiskStarts DEF BundleInv
<1>2. BundleSpec => []BundleInv
  BY <1>1, BundleKeeps, PTL DEF BundleSpec
<1>3. BundleInv => ResolvedIsOneBundle
  BY DEF BundleInv, DiskInv, InstallerSound, ResolverSound, ResolvedIsOneBundle, At
<1>4. HasGood <=> GoodBundles # {}
  BY DEF HasGood, GoodBundles
<1>5. HasGood' <=> GoodBundles' # {}
  BY DEF HasGood, GoodBundles
<1>6. BundleInv /\ [BundleNext]_bundleVars => [GoodBundles # {} => GoodBundles' # {}]_bundleVars
  BY <1>4, <1>5, BundleKeeps
<1> QED
  BY <1>2, <1>3, <1>6, PTL DEF BundleSpec, BundleIsKept, BundleNeverLost

-----------------------------------------------------------------------------
(* The launcher.                                                           *)

Files == [SharedFile -> FileText]
Marks == [Home -> Release \cup {"none"}]
Config == [marks : Marks, home : Home]
Copy == Package \cup LooseEntries \cup {"root"}
Result == {"none", "ok", "failed", "interrupted"}
Saved == [SharedFile -> FileText \cup {"unread"}]
Launch ==
  [pc : Pcs2, home : Home \cup {"none"}, mode : {"none", "isolated", "link", "path"}, release : Release \cup {"none"},
   command : Commands, root : BOOLEAN, full : BOOLEAN, auto : BOOLEAN, saved : Saved, theme : Theme,
   result : Result, config : Config, packages : SUBSET Package,
   copies : SUBSET Copy, discovers : BOOLEAN, raced : BOOLEAN]

Setups == {"install", "written", "restore"}
Landed(r) == IF r.pc = "exited" THEN [Rest EXCEPT !.pc = "exited"] ELSE r
Alive(r) == r.pc \notin {"idle", "exited"}

\* Homes that may be provisioned without being asked.
Fair(h) == h = IsolatedHome \/ (h # PiHome /\ ~homes[h].foreign)

\* What was there before any launcher shows, and is never marked as gentle-shell's.
DirSound(d) == (d.foreign => d.exists /\ d.content) /\ (d.owned => ~d.foreign)
Follows(e, d) == e \in Directory /\ e.foreign = d.foreign /\ DirSound(e)

\* What is loaded when the settings declare the packages of r.
Taken(r) == {"root"} \cup OtherPackages(r.packages) \cup LooseEntries
Added(r) == IF Declaration(r.packages) = "none" THEN {"root"} ELSE {}

LaunchSound(r) ==
  /\ Alive(r) => r.home \in Home /\ r.mode \in Modes(r.home)
  /\ r.auto => Alive(r)
  /\ r.auto \/ r.pc \in {"examine", "again", "remove", "create"} => Fair(r.home)
  /\ r.pc \in {"record", "write"} => r.auto
  /\ r.pc \in {"make", "seed", "own"} => ~homes[r.home].foreign
  /\ r.pc \in {"bootstrap", "make", "seed", "own", "decide"} /\ r.mode = "path" /\ ~r.full => ~homes[r.home].foreign
  /\ \A h \in Home : r.config.marks[h] # "none" => Fair(h)
  /\ r.pc = "spawn" /\ r.command = "run" =>
       (~r.discovers /\ r.copies = Taken(r)) \/ (r.discovers /\ r.copies = Added(r))
  /\ r.pc = "running" /\ r.command = "run" /\ ~r.raced =>
       (~r.discovers /\ r.copies = Taken(r)) \/ (r.discovers /\ r.copies = Added(r) \cup r.packages \cup LooseEntries)

\* A shared file with this text is the user's, or is not theirs to miss.
Kept(f, text) == text = original[f] \/ (f = "digest" /\ original[f] = "absent")

SetupSound ==
  \A f \in SharedFile \ disturbed :
    /\ \A l, k \in Launcher : InSetup(l) /\ InSetup(k) => l = k
    /\ (\A l \in Launcher : ~InSetup(l)) => Kept(f, shared[f])
    /\ \A l \in Launcher : InSetup(l) => launch[l].saved[f] # "unread" /\ Kept(f, launch[l].saved[f])

LauncherInv ==
  /\ marks \in Marks /\ chosen \in Home /\ homes \in [Home -> Directory] /\ shared \in Files /\ original \in Files
  /\ launch \in [Launcher -> Launch]
  /\ \A h \in Home : DirSound(homes[h])
  /\ \A h \in Home : marks[h] # "none" => Fair(h)
  /\ \A l \in Launcher : LaunchSound(launch[l])
  /\ SetupSound

\* A launcher at rest.
LEMMA RestIsLaunch ==
  /\ Rest \in Launch /\ \A pc \in Pcs2 : [Rest EXCEPT !.pc = pc] \in Launch
  /\ Rest.saved \in Saved /\ Rest.config \in Config /\ Rest.auto = FALSE
  /\ \A h \in Home : Rest.config.marks[h] = "none"
<1>1. IsolatedHome \in Home
  BY LauncherAssumption
<1>2. [f \in SharedFile |-> "absent"] \in Saved
  BY DEF Saved, FileText
<1>3. [marks |-> [h \in Home |-> "none"], home |-> IsolatedHome] \in Config
  BY <1>1 DEF Config, Marks
<1>4. Rest \in Launch
  BY <1>2, <1>3 DEF Rest, Launch, Pcs2, Commands, Theme, Result
<1>5. \A pc \in Pcs2 : [Rest EXCEPT !.pc = pc] \in Launch
  BY <1>4, Zenon DEF Launch
<1> QED
  BY <1>2, <1>3, <1>4, <1>5 DEF Rest

\* What a step writes into a launcher is a launcher again.
LEMMA MovesAreLaunches ==
  ASSUME NEW r \in Launch, NEW pc \in Pcs2
  PROVE  /\ [r EXCEPT !.pc = pc] \in Launch
         /\ [r EXCEPT !.pc = pc, !.auto = TRUE] \in Launch
         /\ \A result \in Result : [r EXCEPT !.pc = pc, !.result = result] \in Launch
         /\ \A saved \in Saved, theme \in Theme : [r EXCEPT !.pc = pc, !.saved = saved, !.theme = theme] \in Launch
         /\ \A config \in Config : [r EXCEPT !.pc = pc, !.config = config] \in Launch
BY Zenon DEF Launch

\* What a step writes into a home is a home again, no less and no more the user's.
LEMMA DirectoriesKeep ==
  ASSUME NEW d \in Directory, DirSound(d)
  PROVE  /\ \A lock \in LockState : Follows([d EXCEPT !.lock = lock], d)
         /\ \A theme \in Theme : Follows([d EXCEPT !.theme = theme], d)
         /\ \A packages \in SUBSET Package : Follows([d EXCEPT !.packages = packages], d)
         /\ Follows([d EXCEPT !.exists = TRUE], d)
         /\ ~d.foreign => Follows([d EXCEPT !.owned = TRUE], d)
         /\ \A theme \in Theme : Follows([d EXCEPT !.content = TRUE, !.theme = theme], d)
         /\ \A theme \in Theme, packages \in SUBSET Package :
              Follows([d EXCEPT !.exists = TRUE, !.content = TRUE, !.theme = theme, !.packages = packages], d)
<1>1. /\ \A lock \in LockState : [d EXCEPT !.lock = lock] \in Directory
      /\ \A theme \in Theme : [d EXCEPT !.theme = theme] \in Directory
      /\ \A packages \in SUBSET Package : [d EXCEPT !.packages = packages] \in Directory
      /\ [d EXCEPT !.exists = TRUE] \in Directory
      /\ [d EXCEPT !.owned = TRUE] \in Directory
      /\ \A theme \in Theme : [d EXCEPT !.content = TRUE, !.theme = theme] \in Directory
      /\ \A theme \in Theme, packages \in SUBSET Package :
           [d EXCEPT !.exists = TRUE, !.content = TRUE, !.theme = theme, !.packages = packages] \in Directory
  BY Zenon DEF Directory
<1>2. ASSUME NEW e \in Directory, e.foreign = d.foreign, d.exists => e.exists, d.content => e.content,
             e.owned = d.owned \/ ~d.foreign
      PROVE  Follows(e, d)
  BY <1>2 DEF Follows, DirSound
<1>3. ASSUME NEW lock \in LockState PROVE Follows([d EXCEPT !.lock = lock], d)
  <2>1. PICK e \in Directory : e = [d EXCEPT !.lock = lock]
    BY <1>1
  <2>2. e.foreign = d.foreign /\ (d.exists => e.exists) /\ (d.content => e.content) /\ e.owned = d.owned
    BY <2>1 DEF Directory
  <2> QED
    BY <1>2, <2>1, <2>2
<1>4. ASSUME NEW theme \in Theme PROVE Follows([d EXCEPT !.theme = theme], d)
  <2>1. PICK e \in Directory : e = [d EXCEPT !.theme = theme]
    BY <1>1
  <2>2. e.foreign = d.foreign /\ (d.exists => e.exists) /\ (d.content => e.content) /\ e.owned = d.owned
    BY <2>1 DEF Directory
  <2> QED
    BY <1>2, <2>1, <2>2
<1>5. ASSUME NEW theme \in Theme PROVE Follows([d EXCEPT !.content = TRUE, !.theme = theme], d)
  <2>1. PICK e \in Directory : e = [d EXCEPT !.content = TRUE, !.theme = theme]
    BY <1>1
  <2>2. e.foreign = d.foreign /\ (d.exists => e.exists) /\ (d.content => e.content) /\ e.owned = d.owned
    BY <2>1 DEF Directory
  <2> QED
    BY <1>2, <2>1, <2>2
<1>6. ASSUME NEW packages \in SUBSET Package PROVE Follows([d EXCEPT !.packages = packages], d)
  <2>1. PICK e \in Directory : e = [d EXCEPT !.packages = packages]
    BY <1>1
  <2>2. e.foreign = d.foreign /\ (d.exists => e.exists) /\ (d.content => e.content) /\ e.owned = d.owned
    BY <2>1 DEF Directory
  <2> QED
    BY <1>2, <2>1, <2>2
<1>7. ASSUME NEW theme \in Theme, NEW packages \in SUBSET Package
      PROVE Follows([d EXCEPT !.exists = TRUE, !.content = TRUE, !.theme = theme, !.packages = packages], d)
  <2>1. PICK e \in Directory : e = [d EXCEPT !.exists = TRUE, !.content = TRUE, !.theme = theme, !.packages = packages]
    BY <1>1
  <2>2. e.foreign = d.foreign /\ (d.exists => e.exists) /\ (d.content => e.content) /\ e.owned = d.owned
    BY <2>1 DEF Directory
  <2> QED
    BY <1>2, <2>1, <2>2
<1>8. Follows([d EXCEPT !.exists = TRUE], d)
  <2>1. PICK e \in Directory : e = [d EXCEPT !.exists = TRUE]
    BY <1>1
  <2>2. e.foreign = d.foreign /\ (d.exists => e.exists) /\ (d.content => e.content) /\ e.owned = d.owned
    BY <2>1 DEF Directory
  <2> QED
    BY <1>2, <2>1, <2>2
<1>9. ASSUME ~d.foreign PROVE Follows([d EXCEPT !.owned = TRUE], d)
  <2>1. PICK e \in Directory : e = [d EXCEPT !.owned = TRUE]
    BY <1>1
  <2>2. e.foreign = d.foreign /\ (d.exists => e.exists) /\ (d.content => e.content) /\ e.owned = TRUE
    BY <2>1 DEF Directory
  <2> QED
    BY <1>2, <1>9, <2>1, <2>2
<1> QED
  BY <1>3, <1>4, <1>5, <1>6, <1>7, <1>8, <1>9

\* A launcher that has ended forgets what it knew, and promises nothing.
LEMMA LandedIsLaunch ==
  ASSUME NEW r \in Launch
  PROVE  /\ Landed(r) \in Launch /\ Landed(r).pc = r.pc
         /\ r.pc = "exited" \/ LaunchSound(r) => LaunchSound(Landed(r))
<1>1. CASE r.pc = "exited"
  <2>1. Landed(r) = [Rest EXCEPT !.pc = "exited"] /\ "exited" \in Pcs2
    BY <1>1 DEF Landed, Pcs2
  <2>2. Landed(r).pc = "exited" /\ ~Landed(r).auto /\ Landed(r).config = Rest.config
    BY <2>1 DEF Rest
  <2>3. LaunchSound(Landed(r))
    BY <2>2, RestIsLaunch DEF LaunchSound, Alive
  <2> QED
    BY <1>1, <2>1, <2>2, <2>3, RestIsLaunch
<1>2. CASE r.pc # "exited"
  BY <1>2 DEF Landed
<1> QED
  BY <1>1, <1>2

HomesFollow ==
  homes' \in [Home -> Directory] /\ \A h \in Home : homes'[h].foreign = homes[h].foreign /\ DirSound(homes'[h])

\* What a launcher promises stays true as long as the user's homes are still the same ones.
LEMMA SoundLater ==
  ASSUME NEW r, LaunchSound(r), HomesFollow
  PROVE  LaunchSound(r)'
<1>1. \A h \in Home : Fair(h)' <=> Fair(h)
  BY DEF Fair, HomesFollow
<1>2. Alive(r) => r.home \in Home
  BY DEF LaunchSound
<1>3. r.auto \/ r.pc \in {"examine", "again", "remove", "create"} => r.home \in Home /\ Fair(r.home)'
  BY <1>1, <1>2 DEF LaunchSound, Alive
<1>4. r.pc \in {"bootstrap", "make", "seed", "own", "decide"} =>
        r.home \in Home /\ homes'[r.home].foreign = homes[r.home].foreign
  BY <1>2 DEF Alive, HomesFollow
<1> QED
  BY <1>1, <1>3, <1>4 DEF LaunchSound, Alive

\* The step of one launcher: what it must show of itself and of what is shared.
LEMMA LaunchStep ==
  ASSUME LauncherInv, NEW l \in Launcher, NEW r \in Launch, launch' = [launch EXCEPT ![l] = Landed(r)],
         HomesFollow, marks' \in Marks, chosen' \in Home, shared' \in Files, original' = original,
         \A h \in Home : marks'[h] # "none" => Fair(h),
         r.pc = "exited" \/ LaunchSound(r), SetupSound'
  PROVE  LauncherInv'
<1>1. Landed(r) \in Launch /\ LaunchSound(Landed(r))
  BY LandedIsLaunch
<1>2. launch' \in [Launcher -> Launch] /\ launch'[l] = Landed(r)
  BY <1>1 DEF LauncherInv
<1>3. ASSUME NEW k \in Launcher PROVE LaunchSound(launch[k])'
  <2>1. LaunchSound(launch'[k])
    BY <1>1, <1>2 DEF LauncherInv
  <2>2. PICK q : q = launch'[k]
    OBVIOUS
  <2>3. LaunchSound(q)'
    BY <2>1, <2>2, SoundLater
  <2> QED
    BY <2>2, <2>3 DEF LaunchSound
<1>4. \A h \in Home : Fair(h)' <=> Fair(h)
  BY DEF Fair, HomesFollow
<1>5. \A h \in Home : marks'[h] # "none" => Fair(h)'
  BY <1>4
<1>6. homes' \in [Home -> Directory] /\ \A h \in Home : DirSound(homes'[h])
  BY DEF HomesFollow
<1>7. original' \in Files
  BY DEF LauncherInv
<1>8. (\A h \in Home : DirSound(homes[h]))'
  BY <1>6 DEF DirSound
<1>9. (\A h \in Home : marks[h] # "none" => Fair(h))'
  BY <1>5 DEF Fair
<1> QED
  BY <1>2, <1>3, <1>6, <1>7, <1>8, <1>9 DEF LauncherInv

\* Homes that nobody wrote, or of which one was.
LEMMA HomesStay ==
  ASSUME LauncherInv
  PROVE  /\ homes' = homes => HomesFollow
         /\ \A d : \A h \in Home : Follows(d, homes[h]) /\ homes' = [homes EXCEPT ![h] = d] => HomesFollow
<1>1. ASSUME NEW h \in Home, NEW d, Follows(d, homes[h]), homes' = [homes EXCEPT ![h] = d]
      PROVE  HomesFollow
  <2>1. d \in Directory /\ homes' \in [Home -> Directory] /\ homes'[h] = d
    BY <1>1 DEF LauncherInv, Follows
  <2>2. \A k \in Home : homes'[k].foreign = homes[k].foreign /\ DirSound(homes'[k])
    BY <1>1, <2>1 DEF LauncherInv, Follows
  <2> QED
    BY <2>1, <2>2 DEF HomesFollow
<1>2. homes' = homes => HomesFollow
  BY DEF LauncherInv, HomesFollow
<1> QED
  BY <1>1, <1>2

\* Steps outside a setup leave what the setups rely on.
LEMMA OutsideSetup ==
  ASSUME LauncherInv, NEW l \in Launcher, NEW r \in Launch, launch' = [launch EXCEPT ![l] = Landed(r)],
         launch[l].pc \notin Setups, r.pc \notin Setups, UNCHANGED <<shared, original>>, disturbed \subseteq disturbed'
  PROVE  SetupSound'
<1>1. Landed(r).pc = r.pc /\ Landed(r) \in Launch
  BY LandedIsLaunch
<1>2. \A k \in Launcher : InSetup(k)' <=> InSetup(k)
  BY <1>1 DEF LauncherInv, InSetup, Setups
<1>3. \A k \in Launcher : InSetup(k) => launch'[k] = launch[k]
  BY DEF LauncherInv, InSetup, Setups
<1> QED
  BY <1>2, <1>3 DEF LauncherInv, SetupSound, Kept

\* A step of one launcher that is not setting up: it touches no home, or its own.
LEMMA HomeStep ==
  ASSUME LauncherInv, NEW l \in Launcher, NEW r \in Launch, launch' = [launch EXCEPT ![l] = Landed(r)],
         launch[l].pc \notin Setups, r.pc \notin Setups, UNCHANGED <<marks, shared, original, disturbed>>,
         HomesFollow, chosen' \in Home, r.pc = "exited" \/ LaunchSound(r)
  PROVE  LauncherInv'
<1>1. SetupSound'
  BY OutsideSetup
<1>2. marks' \in Marks /\ shared' \in Files /\ original' = original /\ \A h \in Home : marks'[h] # "none" => Fair(h)
  BY DEF LauncherInv
<1> QED
  BY <1>1, <1>2, LaunchStep

\* The fields a move keeps.
Alike(r, q) ==
  /\ r.home = q.home /\ r.mode = q.mode /\ r.auto = q.auto /\ r.full = q.full /\ r.command = q.command
  /\ r.config = q.config

\* The launcher after a step, by name.
LEMMA Moved ==
  ASSUME LauncherInv, NEW l \in Launcher, NEW pc \in Pcs2,
         \/ GoTo(l, pc)
         \/ \E result \in Result : Go(l, [launch[l] EXCEPT !.pc = pc, !.result = result])
         \/ \E saved \in Saved, theme \in Theme : Go(l, [launch[l] EXCEPT !.pc = pc, !.saved = saved, !.theme = theme])
  PROVE  \E r \in Launch : launch' = [launch EXCEPT ![l] = Landed(r)] /\ r.pc = pc /\ Alike(r, launch[l])
<1>0. launch[l] \in Launch
  BY DEF LauncherInv
<1>1. CASE GoTo(l, pc)
  <2> DEFINE r == [launch[l] EXCEPT !.pc = pc]
  <2>1. r \in Launch
    BY <1>0, MovesAreLaunches
  <2>2. r.pc = pc /\ Alike(r, launch[l])
    BY <1>0 DEF Launch, Alike
  <2>3. launch' = [launch EXCEPT ![l] = Landed(r)]
    BY <1>1 DEF GoTo, Go, Landed
  <2> QED
    BY <2>1, <2>2, <2>3
<1>2. ASSUME NEW result \in Result, Go(l, [launch[l] EXCEPT !.pc = pc, !.result = result])
      PROVE  \E r \in Launch : launch' = [launch EXCEPT ![l] = Landed(r)] /\ r.pc = pc /\ Alike(r, launch[l])
  <2> DEFINE r == [launch[l] EXCEPT !.pc = pc, !.result = result]
  <2>1. r \in Launch
    BY <1>0, MovesAreLaunches
  <2>2. r.pc = pc /\ Alike(r, launch[l])
    BY <1>0 DEF Launch, Alike
  <2>3. launch' = [launch EXCEPT ![l] = Landed(r)]
    BY <1>2 DEF Go, Landed
  <2> QED
    BY <2>1, <2>2, <2>3
<1>3. ASSUME NEW saved \in Saved, NEW theme \in Theme,
             Go(l, [launch[l] EXCEPT !.pc = pc, !.saved = saved, !.theme = theme])
      PROVE  \E r \in Launch : launch' = [launch EXCEPT ![l] = Landed(r)] /\ r.pc = pc /\ Alike(r, launch[l])
  <2> DEFINE r == [launch[l] EXCEPT !.pc = pc, !.saved = saved, !.theme = theme]
  <2>1. r \in Launch
    BY <1>0, MovesAreLaunches
  <2>2. r.pc = pc /\ Alike(r, launch[l])
    BY <1>0 DEF Launch, Alike
  <2>3. launch' = [launch EXCEPT ![l] = Landed(r)]
    BY <1>3 DEF Go, Landed
  <2> QED
    BY <2>1, <2>2, <2>3
<1> QED
  BY <1>1, <1>2, <1>3

Plain == {"ensure", "install", "written", "restore", "cleanup", "release", "plan"}

\* A launcher on its way promises only its home.
LEMMA PlainMove ==
  ASSUME LauncherInv, NEW l \in Launcher, NEW r \in Launch, Alike(r, launch[l]), Alive(launch[l]), r.pc \in Plain
  PROVE  LaunchSound(r)
BY DEF LauncherInv, LaunchSound, Alike, Plain, Alive

\* The home of a launcher that runs.
LEMMA DirectoryOf ==
  ASSUME LauncherInv, NEW l \in Launcher, Alive(launch[l])
  PROVE  /\ launch[l] \in Launch /\ LaunchSound(launch[l]) /\ launch[l].home \in Home
         /\ launch[l].mode \in Modes(launch[l].home)
         /\ Dir(l) = homes[launch[l].home] /\ Dir(l) \in Directory /\ DirSound(Dir(l))
BY DEF LauncherInv, LaunchSound, Dir

\* The end of a run before, after or instead of pi.
LEMMA EndingsKeep ==
  ASSUME LauncherInv, NEW l \in Launcher, Refused(l) \/ PersistHome(l) \/ PiExits(l) \/ BootstrapFails(l)
  PROVE  LauncherInv'
<1>1. PICK r \in Launch : launch' = [launch EXCEPT ![l] = Landed(r)] /\ r.pc = "exited"
  <2>1. GoTo(l, "exited") /\ "exited" \in Pcs2
    BY DEF Refused, PersistHome, PiExits, BootstrapFails, Pcs2
  <2> QED
    BY <2>1, Moved
<1>2. /\ launch[l].pc \notin Setups /\ UNCHANGED <<marks, homes, shared, original, disturbed>> /\ chosen' \in Home
  BY DEF Refused, PersistHome, PiExits, BootstrapFails, At2, Setups, LauncherInv
<1> QED
  BY <1>1, <1>2, HomesStay, HomeStep DEF Setups

\* A launcher that takes the lock, or goes on without one, provisions.
LEMMA AcquiredKeeps ==
  ASSUME LauncherInv, NEW l \in Launcher, Alive(launch[l]), launch[l].pc \notin Setups, Fair(launch[l].home),
         CreatesLock(l) \/ (Acquired(l) /\ UNCHANGED homes),
         UNCHANGED <<marks, chosen, shared, original, disturbed>>
  PROVE  LauncherInv'
<1>0. /\ launch[l] \in Launch /\ LaunchSound(launch[l]) /\ launch[l].home \in Home
      /\ Dir(l) = homes[launch[l].home] /\ Dir(l) \in Directory /\ DirSound(Dir(l)) /\ chosen' \in Home
  BY DirectoryOf DEF LauncherInv
<1>1. PICK r \in Launch : r = [launch[l] EXCEPT !.pc = "ensure", !.auto = TRUE]
  BY <1>0, MovesAreLaunches, "ensure" \in Pcs2 DEF Pcs2
<1>2. r.pc = "ensure" /\ r.home = launch[l].home /\ r.mode = launch[l].mode /\ r.config = launch[l].config
  BY <1>0, <1>1 DEF Launch
<1>3. launch' = [launch EXCEPT ![l] = Landed(r)]
  BY <1>1 DEF CreatesLock, Acquired, Go, Landed
<1>4. HomesFollow
  <2>1. CASE CreatesLock(l)
    <3>1. [by |-> l, stale |-> FALSE] \in LockState
      BY DEF LockState
    <3>2. Follows([Dir(l) EXCEPT !.lock = [by |-> l, stale |-> FALSE]], homes[launch[l].home])
      BY <1>0, <3>1, DirectoriesKeep
    <3> QED
      BY <1>0, <2>1, <3>2, HomesStay DEF CreatesLock, SetDir
  <2> QED
    BY <2>1, HomesStay
<1>5. LaunchSound(r)
  BY <1>0, <1>2 DEF LaunchSound, Alive
<1> QED
  BY <1>0, <1>2, <1>3, <1>4, <1>5, HomeStep DEF Setups


\* A run begins: the user's content is seen before anything is made.
LEMMA BeginKeeps ==
  ASSUME LauncherInv, NEW l \in Launcher, Begin(l)
  PROVE  LauncherInv'
<1>0. PICK h \in Home, c \in Commands, rel \in Release, root \in BOOLEAN : \E m \in Modes(h) :
        Go(l, [Rest EXCEPT !.home = h, !.mode = m, !.command = c, !.release = rel, !.root = root,
                 !.full = homes[h].exists /\ HasContent(h),
                 !.pc = IF m = "link" THEN "decide" ELSE "bootstrap"])
  BY Zenon DEF Begin
<1>1. PICK m \in Modes(h) :
        Go(l, [Rest EXCEPT !.home = h, !.mode = m, !.command = c, !.release = rel, !.root = root,
                 !.full = homes[h].exists /\ HasContent(h),
                 !.pc = IF m = "link" THEN "decide" ELSE "bootstrap"])
  BY <1>0, Zenon
<1>2. PICK full \in BOOLEAN : full = (homes[h].exists /\ HasContent(h))
  BY Zenon
<1>3. PICK pc \in {"bootstrap", "decide"} : pc = IF m = "link" THEN "decide" ELSE "bootstrap"
  BY Zenon
<1>4. m \in {"none", "isolated", "link", "path"}
  BY DEF Modes
<1>5. [Rest EXCEPT !.home = h, !.mode = m, !.command = c, !.release = rel, !.root = root,
                   !.full = full, !.pc = pc] \in Launch
  <2>1. Rest \in Launch /\ pc \in Pcs2 /\ h \in Home \cup {"none"} /\ rel \in Release \cup {"none"}
    BY RestIsLaunch DEF Pcs2
  <2> QED
    BY <1>4, <2>1, Zenon DEF Launch
<1>6. PICK r \in Launch : r = [Rest EXCEPT !.home = h, !.mode = m, !.command = c, !.release = rel, !.root = root,
                                           !.full = full, !.pc = pc]
  BY <1>5
<1>7. /\ r.pc = pc /\ r.home = h /\ r.mode = m /\ ~r.auto /\ r.config = Rest.config /\ r.full = full
  BY <1>6 DEF Rest
<1>8. Go(l, r)
  BY <1>1, <1>2, <1>3, <1>6, Zenon
<1>9. launch' = [launch EXCEPT ![l] = Landed(r)]
  BY <1>8 DEF Go, Landed
<1>10. homes[h].foreign => full
  <2>1. homes[h].foreign => homes[h].exists /\ homes[h].content
    BY DEF LauncherInv, DirSound
  <2> QED
    BY <1>2, <2>1, Zenon DEF HasContent
<1>11. LaunchSound(r)
  BY <1>3, <1>7, <1>10, RestIsLaunch DEF LaunchSound, Alive
<1>12. UNCHANGED <<marks, homes, shared, original, disturbed>> /\ chosen' \in Home /\ launch[l].pc \notin Setups
  BY DEF Begin, LauncherInv, At2, Setups
<1> QED
  BY <1>7, <1>9, <1>11, <1>12, HomesStay, HomeStep DEF Setups

\* The bootstrap: only a home that was not there is made and marked as gentle-shell's own.
LEMMA BootstrapKeeps ==
  ASSUME LauncherInv, NEW l \in Launcher, BootstrapHome(l) \/ MakeHome(l) \/ Seed(l) \/ MarkOwned(l)
  PROVE  LauncherInv'
<1>0. /\ launch[l].pc \in {"bootstrap", "make", "seed", "own"} /\ Alive(launch[l])
      /\ UNCHANGED <<marks, chosen, shared, original, disturbed>> /\ chosen' \in Home
  BY DEF BootstrapHome, MakeHome, Seed, MarkOwned, At2, Alive, LauncherInv
<1>1. /\ launch[l] \in Launch /\ LaunchSound(launch[l]) /\ launch[l].home \in Home
      /\ Dir(l) = homes[launch[l].home] /\ Dir(l) \in Directory /\ DirSound(Dir(l))
  BY <1>0, DirectoryOf
<1>2. PICK pc \in {"make", "seed", "own", "decide"} :
        /\ GoTo(l, pc)
        /\ launch[l].pc = "bootstrap" => (pc = "make" /\ ~Dir(l).exists) \/ pc = "decide"
        /\ launch[l].pc # "bootstrap" => pc # "make"
  <2>1. CASE BootstrapHome(l)
    BY <2>1 DEF BootstrapHome, At2
  <2>2. CASE MakeHome(l) \/ Seed(l) \/ MarkOwned(l)
    BY <2>2 DEF MakeHome, Seed, MarkOwned, At2
  <2> QED
    BY <2>1, <2>2
<1>3. PICK r \in Launch : launch' = [launch EXCEPT ![l] = Landed(r)] /\ r.pc = pc /\ Alike(r, launch[l])
  <2>1. pc \in Pcs2
    BY DEF Pcs2
  <2> QED
    BY <1>2, <2>1, Moved, Zenon
<1>4. ~(r.pc = "decide" /\ launch[l].pc = "bootstrap") => ~Dir(l).foreign
  BY <1>0, <1>1, <1>2, <1>3 DEF LaunchSound, DirSound
<1>5. LaunchSound(r)
  BY <1>0, <1>1, <1>2, <1>3, <1>4 DEF LaunchSound, Alike, Alive
<1>6. HomesFollow
  <2>1. CASE BootstrapHome(l)
    BY <2>1, HomesStay DEF BootstrapHome
  <2>2. CASE MakeHome(l)
    BY <1>1, <2>2, DirectoriesKeep, HomesStay DEF MakeHome, SetDir
  <2>3. CASE Seed(l)
    <3>1. PICK theme \in Theme : theme = SeededTheme(Dir(l).theme)
      BY <1>1 DEF SeededTheme, Directory, Theme
    <3>2. homes' = [homes EXCEPT ![launch[l].home] = [Dir(l) EXCEPT !.content = TRUE, !.theme = theme]]
      BY <1>1, <2>3, <3>1 DEF Seed, SetDir, Directory
    <3>3. Follows([Dir(l) EXCEPT !.content = TRUE, !.theme = theme], Dir(l))
      BY <1>1, DirectoriesKeep
    <3> QED
      BY <1>1, <3>2, <3>3, HomesStay
  <2>4. CASE MarkOwned(l)
    <3>1. ~Dir(l).foreign
      BY <1>1, <2>4 DEF MarkOwned, At2, LaunchSound
    <3>2. Follows([Dir(l) EXCEPT !.owned = TRUE], homes[launch[l].home])
      BY <1>1, <3>1, DirectoriesKeep
    <3> QED
      BY <1>1, <2>4, <3>2, HomesStay DEF MarkOwned, SetDir
  <2> QED
    BY <2>1, <2>2, <2>3, <2>4
<1>7. launch[l].pc \notin Setups /\ r.pc \notin Setups
  BY <1>0, <1>3 DEF Setups
<1> QED
  BY <1>0, <1>3, <1>5, <1>6, <1>7, HomeStep

\* Whoever goes for the lock may provision the home.
LEMMA AutoIsFair ==
  ASSUME LauncherInv, NEW l \in Launcher, launch[l].pc = "decide", Mode(l) # "link", ~HomeIsForeign(l)
  PROVE  Fair(launch[l].home)
<1>1. /\ launch[l].home \in Home /\ launch[l].mode \in Modes(launch[l].home) /\ launch[l].mode # "link"
      /\ LaunchSound(launch[l]) /\ Dir(l) = homes[launch[l].home] /\ DirSound(Dir(l))
  BY DirectoryOf DEF Mode, Alive
<1>2. CASE launch[l].mode = "path"
  <2>1. marks[launch[l].home] # "none" => Fair(launch[l].home)
    BY <1>1 DEF LauncherInv
  <2>2. ~launch[l].full => ~homes[launch[l].home].foreign
    BY <1>1, <1>2 DEF LaunchSound
  <2>3. Dir(l).owned => ~homes[launch[l].home].foreign
    BY <1>1 DEF DirSound
  <2> QED
    BY <1>2, <2>1, <2>2, <2>3 DEF HomeIsForeign, Mode, Fair
<1>3. CASE launch[l].mode # "path"
  BY <1>1, <1>3 DEF Modes, Fair
<1> QED
  BY <1>2, <1>3

\* A launcher moves on and writes nothing.
LEMMA QuietMove ==
  ASSUME LauncherInv, NEW l \in Launcher, Alive(launch[l]), launch[l].pc \notin Setups,
         NEW pc \in {"ensure", "plan", "examine", "again", "remove", "create"}, GoTo(l, pc), HomesFollow,
         pc \in {"ensure", "plan"} \/ Fair(launch[l].home), UNCHANGED <<marks, chosen, shared, original, disturbed>>
  PROVE  LauncherInv'
<1>1. launch[l] \in Launch /\ LaunchSound(launch[l]) /\ chosen' \in Home /\ pc \in Pcs2
  BY DEF LauncherInv, Pcs2
<1>2. PICK r \in Launch : launch' = [launch EXCEPT ![l] = Landed(r)] /\ r.pc = pc /\ Alike(r, launch[l])
  BY <1>1, Moved, Zenon
<1>3. LaunchSound(r)
  BY <1>1, <1>2 DEF LaunchSound, Alike, Alive
<1> QED
  BY <1>1, <1>2, <1>3, HomeStep DEF Setups

\* The lock is taken, found held, examined, removed as stale and created again.
LEMMA LockPathKeeps ==
  ASSUME LauncherInv, NEW l \in Launcher,
         Decide(l) \/ ExamineLock(l) \/ ExamineAgain(l) \/ RemoveStaleLock(l) \/ CreateLockAgain(l)
  PROVE  LauncherInv'
<1>0. /\ launch[l].pc \in {"decide", "examine", "again", "remove", "create"}
      /\ UNCHANGED <<marks, chosen, shared, original, disturbed>>
  BY DEF Decide, ExamineLock, ExamineAgain, RemoveStaleLock, CreateLockAgain, At2
<1>1. Alive(launch[l]) /\ launch[l].pc \notin Setups
  BY <1>0 DEF Alive, Setups
<1>2. /\ launch[l] \in Launch /\ LaunchSound(launch[l]) /\ launch[l].home \in Home
      /\ Dir(l) = homes[launch[l].home] /\ Dir(l) \in Directory /\ DirSound(Dir(l))
  BY <1>1, DirectoryOf
<1>3. launch[l].pc # "decide" => Fair(launch[l].home)
  BY <1>0, <1>2 DEF LaunchSound
<1>4. CASE Decide(l)
  <2>1. \/ \E pc \in {"ensure", "plan"} : GoTo(l, pc) /\ homes' = homes
        \/ /\ Mode(l) # "link" /\ ~HomeIsForeign(l)
           /\ \/ CreatesLock(l)
              \/ Acquired(l) /\ homes' = homes
              \/ GoTo(l, "examine") /\ homes' = homes
    BY <1>4, Zenon DEF Decide
  <2>2. Mode(l) # "link" /\ ~HomeIsForeign(l) => Fair(launch[l].home)
    BY <1>4, AutoIsFair DEF Decide, At2
  <2>3. CASE \E pc \in {"ensure", "plan"} : GoTo(l, pc) /\ homes' = homes
    BY <1>0, <1>1, <2>3, QuietMove, HomesStay
  <2>4. CASE Fair(launch[l].home) /\ GoTo(l, "examine") /\ homes' = homes
    BY <1>0, <1>1, <2>4, QuietMove, HomesStay
  <2>5. CASE Fair(launch[l].home) /\ (CreatesLock(l) \/ (Acquired(l) /\ homes' = homes))
    BY <1>0, <1>1, <2>5, AcquiredKeeps
  <2> QED
    BY <2>1, <2>2, <2>3, <2>4, <2>5, Zenon
<1>5. CASE ExamineLock(l)
  <2>1. homes' = homes /\ Fair(launch[l].home) /\ (Acquired(l) \/ \E pc \in {"again", "plan"} : GoTo(l, pc))
    BY <1>3, <1>5, Zenon DEF ExamineLock, At2
  <2> QED
    BY <1>0, <1>1, <2>1, AcquiredKeeps, QuietMove, HomesStay
<1>6. CASE ExamineAgain(l)
  <2>1. homes' = homes /\ Fair(launch[l].home) /\ \E pc \in {"remove", "plan"} : GoTo(l, pc)
    BY <1>3, <1>6, Zenon DEF ExamineAgain, At2
  <2> QED
    BY <1>0, <1>1, <2>1, QuietMove, HomesStay
<1>7. CASE RemoveStaleLock(l)
  <2>1. Fair(launch[l].home)
    BY <1>3, <1>7 DEF RemoveStaleLock, At2
  <2>2. CASE GoTo(l, "plan") /\ homes' = homes
    BY <1>0, <1>1, <2>2, QuietMove, HomesStay
  <2>3. CASE SetDir(l, [Dir(l) EXCEPT !.lock = NoSetupLock]) /\ GoTo(l, "create")
    <3>1. NoSetupLock \in LockState
      BY DEF LockState, NoSetupLock
    <3>2. Follows([Dir(l) EXCEPT !.lock = NoSetupLock], homes[launch[l].home])
      BY <1>2, <3>1, DirectoriesKeep
    <3>3. HomesFollow
      BY <1>2, <2>3, <3>2, HomesStay DEF SetDir
    <3> QED
      BY <1>0, <1>1, <2>1, <2>3, <3>3, QuietMove
  <2> QED
    BY <1>7, <2>2, <2>3 DEF RemoveStaleLock
<1>8. CASE CreateLockAgain(l)
  <2>1. Fair(launch[l].home) /\ (CreatesLock(l) \/ (GoTo(l, "plan") /\ homes' = homes))
    BY <1>3, <1>8, Zenon DEF CreateLockAgain, At2
  <2> QED
    BY <1>0, <1>1, <2>1, AcquiredKeeps, QuietMove, HomesStay
<1> QED
  BY <1>4, <1>5, <1>6, <1>7, <1>8

\* A step that changes homes and no launcher.
LEMMA DirectoryStep ==
  ASSUME LauncherInv, HomesFollow, UNCHANGED <<marks, chosen, shared, launch, original, disturbed>>
  PROVE  LauncherInv'
<1>1. \A h \in Home : Fair(h)' <=> Fair(h)
  BY DEF Fair, HomesFollow
<1>2. ASSUME NEW k \in Launcher PROVE LaunchSound(launch[k])'
  <2>1. LaunchSound(launch[k]) /\ launch'[k] = launch[k]
    BY DEF LauncherInv
  <2>2. PICK q : q = launch[k]
    OBVIOUS
  <2>3. LaunchSound(q)'
    BY <2>1, <2>2, SoundLater
  <2> QED
    BY <2>1, <2>2, <2>3 DEF LaunchSound
<1>3. SetupSound'
  BY DEF LauncherInv, SetupSound, InSetup, Kept
<1>4. (\A h \in Home : DirSound(homes[h]))'
  BY DEF HomesFollow, DirSound
<1>5. (\A h \in Home : marks[h] # "none" => Fair(h))'
  BY <1>1 DEF LauncherInv, Fair
<1> QED
  BY <1>2, <1>3, <1>4, <1>5 DEF LauncherInv, HomesFollow

\* A lock ages, or is given back.
LEMMA LockKeeps ==
  ASSUME LauncherInv
  PROVE  /\ \A h \in Home : LockAges(h) => LauncherInv'
         /\ \A l \in Launcher : ReleaseSetupLock(l) => LauncherInv'
<1>1. ASSUME NEW h \in Home, LockAges(h) PROVE LauncherInv'
  <2>1. homes[h] \in Directory /\ DirSound(homes[h]) /\ homes[h].lock \in LockState
    BY DEF LauncherInv, Directory
  <2>2. [homes[h].lock EXCEPT !.stale = TRUE] \in LockState
    BY <2>1, Zenon DEF LockState
  <2>3. Follows([homes[h] EXCEPT !.lock = [homes[h].lock EXCEPT !.stale = TRUE]], homes[h])
    BY <2>1, <2>2, DirectoriesKeep
  <2>4. homes' = [homes EXCEPT ![h] = [homes[h] EXCEPT !.lock = [homes[h].lock EXCEPT !.stale = TRUE]]]
    BY <1>1, <2>1 DEF LockAges, LauncherInv, Directory
  <2>5. UNCHANGED <<marks, chosen, shared, launch, original, disturbed>>
    BY <1>1 DEF LockAges
  <2> QED
    BY <2>3, <2>4, <2>5, HomesStay, DirectoryStep
<1>2. ASSUME NEW l \in Launcher, ReleaseSetupLock(l) PROVE LauncherInv'
  <2>0. launch[l].pc = "release" /\ UNCHANGED <<marks, chosen, shared, original, disturbed>> /\ chosen' \in Home
    BY <1>2 DEF ReleaseSetupLock, At2, LauncherInv
  <2>1. /\ Alive(launch[l]) /\ launch[l].home \in Home
        /\ Dir(l) = homes[launch[l].home] /\ Dir(l) \in Directory /\ DirSound(Dir(l))
    <3>1. Alive(launch[l])
      BY <2>0 DEF Alive
    <3> QED
      BY <3>1, DirectoryOf
  <2>2. PICK pc \in {"exited", "plan"} : GoTo(l, pc)
    BY <1>2 DEF ReleaseSetupLock
  <2>3. PICK r \in Launch : launch' = [launch EXCEPT ![l] = Landed(r)] /\ r.pc = pc /\ Alike(r, launch[l])
    <3>1. pc \in Pcs2
      BY DEF Pcs2
    <3> QED
      BY <2>2, <3>1, Moved, Zenon
  <2>4. HomesFollow
    <3>1. NoSetupLock \in LockState
      BY DEF LockState, NoSetupLock
    <3>2. Follows([Dir(l) EXCEPT !.lock = NoSetupLock], homes[launch[l].home])
      BY <2>1, <3>1, DirectoriesKeep
    <3>3. SetDir(l, [Dir(l) EXCEPT !.lock = NoSetupLock]) \/ homes' = homes
      BY <1>2, Zenon DEF ReleaseSetupLock
    <3> QED
      BY <2>1, <3>2, <3>3, HomesStay DEF SetDir
  <2>5. r.pc = "exited" \/ LaunchSound(r)
    BY <2>1, <2>3, PlainMove DEF Plain
  <2>6. launch[l].pc \notin Setups /\ r.pc \notin Setups
    BY <2>0, <2>3 DEF Setups
  <2> QED
    BY <2>0, <2>3, <2>4, <2>5, <2>6, HomeStep
<1> QED
  BY <1>1, <1>2

\* The marks: only a home that may be provisioned is ever recorded, also in a
\* config that was read before another launcher wrote its own.
LEMMA MarksKeep ==
  ASSUME LauncherInv, NEW l \in Launcher, ReadMarks(l) \/ WriteMarks(l)
  PROVE  LauncherInv'
<1>0. /\ launch[l].pc \in {"record", "write"} /\ launch[l] \in Launch /\ LaunchSound(launch[l]) /\ launch[l].home \in Home
      /\ launch[l].auto /\ Fair(launch[l].home) /\ UNCHANGED <<homes, shared, original, disturbed>>
  BY DEF LauncherInv, LaunchSound, ReadMarks, WriteMarks, At2, Alive
<1>1. CASE ReadMarks(l)
  <2>1. [marks |-> marks, home |-> chosen] \in Config /\ "write" \in Pcs2
    BY DEF LauncherInv, Config, Pcs2
  <2>2. PICK r \in Launch : r = [launch[l] EXCEPT !.pc = "write", !.config = [marks |-> marks, home |-> chosen]]
    BY <1>0, <2>1, MovesAreLaunches
  <2>3. /\ r.pc = "write" /\ r.home = launch[l].home /\ r.mode = launch[l].mode /\ r.auto = launch[l].auto
        /\ r.config.marks = marks
    BY <1>0, <2>2 DEF Launch
  <2>4. launch' = [launch EXCEPT ![l] = Landed(r)]
    BY <1>1, <2>2 DEF ReadMarks, Go, Landed
  <2>5. \A h \in Home : marks[h] # "none" => Fair(h)
    BY DEF LauncherInv
  <2>6. LaunchSound(r)
    BY <1>0, <2>3, <2>5 DEF LaunchSound, Alive
  <2>7. marks' = marks /\ chosen' \in Home
    BY <1>1 DEF ReadMarks, LauncherInv
  <2> QED
    BY <1>0, <2>3, <2>4, <2>6, <2>7, HomesStay, HomeStep DEF Setups
<1>2. CASE WriteMarks(l)
  <2>1. Rest.config \in Config /\ "release" \in Pcs2
    BY RestIsLaunch DEF Pcs2
  <2>2. PICK r \in Launch : r = [launch[l] EXCEPT !.pc = "release", !.config = Rest.config]
    BY <1>0, <2>1, MovesAreLaunches
  <2>3. /\ r.pc = "release" /\ r.home = launch[l].home /\ r.mode = launch[l].mode /\ r.auto = launch[l].auto
        /\ r.config = Rest.config
    BY <1>0, <2>2 DEF Launch
  <2>4. launch' = [launch EXCEPT ![l] = Landed(r)]
    BY <1>2, <2>2 DEF WriteMarks, Go, Landed
  <2>5. LaunchSound(r)
    BY <1>0, <2>3, RestIsLaunch DEF LaunchSound, Alive
  <2>6. launch[l].config \in Config /\ launch[l].release \in Release \cup {"none"}
    BY <1>0 DEF Launch
  <2>7. /\ marks' \in Marks /\ chosen' \in Home
        /\ \A h \in Home : marks'[h] # "none" =>
             h = launch[l].home \/ launch[l].config.marks[h] # "none" \/ marks[h] # "none"
    <3>1. CASE UNCHANGED <<marks, chosen>>
      BY <3>1 DEF LauncherInv
    <3>2. CASE /\ marks' = [launch[l].config.marks EXCEPT ![launch[l].home] = launch[l].release]
               /\ chosen' = launch[l].config.home
      BY <1>0, <2>6, <3>2 DEF Marks, Config
    <3> QED
      BY <1>2, <3>1, <3>2 DEF WriteMarks
  <2>8. \A h \in Home : marks'[h] # "none" => Fair(h)
    BY <1>0, <2>7 DEF LaunchSound, LauncherInv
  <2>9. SetupSound'
    BY <1>0, <2>3, <2>4, OutsideSetup DEF Setups
  <2>10. HomesFollow /\ shared' \in Files /\ original' = original
    BY <1>0, HomesStay DEF LauncherInv
  <2> QED
    BY <2>4, <2>5, <2>7, <2>8, <2>9, <2>10, LaunchStep
<1> QED
  BY <1>1, <1>2


\* What a run loads: the command line names the copies that pi would not discover itself.
LEMMA LaunchesKeep ==
  ASSUME LauncherInv, NEW l \in Launcher, PlanRun(l) \/ SpawnPi(l)
  PROVE  LauncherInv'
<1>0. /\ launch[l].pc \in {"plan", "spawn"} /\ launch[l] \in Launch /\ LaunchSound(launch[l]) /\ launch[l].home \in Home
      /\ Dir(l) = homes[launch[l].home] /\ Dir(l) \in Directory
      /\ UNCHANGED <<marks, homes, shared, original, disturbed>> /\ chosen' \in Home
  <2>1. launch[l].pc \in {"plan", "spawn"} /\ UNCHANGED <<marks, homes, shared, original, disturbed>> /\ chosen' = chosen
    BY DEF PlanRun, SpawnPi, At2
  <2>2. Alive(launch[l])
    BY <2>1 DEF Alive
  <2> QED
    BY <2>1, <2>2, DirectoryOf DEF LauncherInv
<1>a. Dir(l).packages \in SUBSET Package /\ Package \subseteq Copy /\ LooseEntries \subseteq Copy /\ {"root"} \subseteq Copy
  BY <1>0 DEF Directory, Copy
<1>1. CASE PlanRun(l)
  <2> DEFINE ps == Dir(l).packages
  <2>1. PICK takes \in BOOLEAN : takes = (TakeOver(l, ps) /\ launch[l].command # "subcommand")
    BY Zenon
  <2>2. PICK copies \in SUBSET Copy :
          copies = IF launch[l].command = "subcommand" THEN {}
                   ELSE Injected(l, ps) \cup (IF takes THEN OtherPackages(ps) \cup LooseEntries ELSE {})
    BY <1>a DEF Injected, OtherPackages, LooseEntries
  <2>3. PICK discovers \in BOOLEAN : discovers = ~takes
    BY Zenon
  <2>4. [launch[l] EXCEPT !.pc = "spawn", !.packages = ps, !.copies = copies, !.discovers = discovers] \in Launch
    <3>1. launch[l] \in Launch /\ "spawn" \in Pcs2
      BY <1>0 DEF Pcs2
    <3> QED
      BY <1>a, <3>1, Zenon DEF Launch
  <2>5. PICK r \in Launch : r = [launch[l] EXCEPT !.pc = "spawn", !.packages = ps, !.copies = copies, !.discovers = discovers]
    BY <2>4
  <2>6. /\ r.pc = "spawn" /\ r.home = launch[l].home /\ r.mode = launch[l].mode /\ r.auto = launch[l].auto
        /\ r.config = launch[l].config /\ r.packages = ps /\ r.copies = copies /\ r.discovers = discovers
        /\ r.command = launch[l].command /\ Alive(r)
    BY <1>0, <2>5 DEF Launch, Alive
  <2>7. Go(l, r)
    BY <1>1, <2>1, <2>2, <2>3, <2>5, Zenon DEF PlanRun
  <2>8. launch' = [launch EXCEPT ![l] = Landed(r)]
    BY <2>7 DEF Go, Landed
  <2>9. r.command = "run" =>
          (~r.discovers /\ r.copies = Taken(r)) \/ (r.discovers /\ r.copies = Added(r))
    <3>1. CASE r.command = "run" /\ takes
      <4>1. TakeOver(l, ps) /\ ~discovers
        BY <2>1, <2>3, <3>1, Zenon
      <4>2. Injected(l, ps) = {"root"}
        BY <4>1, Zenon DEF Injected
      <4>3. copies = {"root"} \cup OtherPackages(ps) \cup LooseEntries
        BY <2>2, <2>6, <3>1, <4>2
      <4>4. r.copies = Taken(r)
        BY <2>6, <4>3 DEF Taken
      <4> QED
        BY <2>6, <4>1, <4>4
    <3>2. CASE r.command = "run" /\ ~takes
      <4>1. ~TakeOver(l, ps) /\ discovers
        <5>1. launch[l].command # "subcommand"
          BY <2>6, <3>2
        <5> QED
          BY <2>1, <2>3, <3>2, <5>1, Zenon
      <4> QED
        BY <2>2, <2>6, <3>2, <4>1 DEF Added, Injected
    <3> QED
      BY <3>1, <3>2
  <2>10. LaunchSound(r)
    BY <1>0, <2>6, <2>9 DEF LaunchSound, Alive
  <2> QED
    BY <1>0, <2>6, <2>8, <2>10, HomesStay, HomeStep DEF Setups
<1>2. CASE SpawnPi(l)
  <2>1. PICK raced \in BOOLEAN : raced = (Dir(l).packages # launch[l].packages)
    BY Zenon
  <2>2. PICK copies \in SUBSET Copy :
          copies = IF launch[l].discovers THEN launch[l].copies \cup Dir(l).packages \cup LooseEntries ELSE launch[l].copies
    BY <1>0, <1>a DEF Launch
  <2>4. [launch[l] EXCEPT !.pc = "running", !.release = "none", !.full = FALSE, !.auto = FALSE, !.result = "none",
                          !.copies = copies, !.raced = raced] \in Launch
    <3>1. /\ launch[l] \in Launch /\ "running" \in Pcs2 /\ "none" \in Release \cup {"none"}
          /\ "none" \in Result /\ FALSE \in BOOLEAN
      BY <1>0 DEF Pcs2, Result
    <3> QED
      BY <3>1, Zenon DEF Launch
  <2>5. PICK r \in Launch :
          r = [launch[l] EXCEPT !.pc = "running", !.release = "none", !.full = FALSE, !.auto = FALSE, !.result = "none",
                                !.copies = copies, !.raced = raced]
    BY <2>4
  <2>6. /\ r.pc = "running" /\ r.home = launch[l].home /\ r.mode = launch[l].mode /\ ~r.auto
        /\ r.config = launch[l].config /\ r.packages = launch[l].packages /\ r.copies = copies /\ r.raced = raced
        /\ r.discovers = launch[l].discovers
        /\ r.command = launch[l].command /\ Alive(r)
    BY <1>0, <2>5 DEF Launch, Alive
  <2>7. Go(l, r)
    <3>1. Go(l, [launch[l] EXCEPT !.pc = "running", !.release = "none", !.full = FALSE, !.auto = FALSE, !.result = "none",
              !.copies = IF launch[l].discovers THEN launch[l].copies \cup Dir(l).packages \cup LooseEntries ELSE launch[l].copies,
              !.raced = Dir(l).packages # launch[l].packages])
      BY <1>0, <1>2 DEF SpawnPi, Launch
    <3> QED
      BY <2>1, <2>2, <2>5, <3>1, Zenon
  <2>8. launch' = [launch EXCEPT ![l] = Landed(r)]
    BY <2>7 DEF Go, Landed
  <2>9. r.command = "run" /\ ~r.raced =>
          (~r.discovers /\ r.copies = Taken(r)) \/ (r.discovers /\ r.copies = Added(r) \cup r.packages \cup LooseEntries)
    <3>1. ~r.raced => Dir(l).packages = launch[l].packages
      BY <2>1, <2>6, Zenon
    <3>2. launch[l].command = "run" => \/ ~launch[l].discovers /\ launch[l].copies = Taken(launch[l])
                                       \/ launch[l].discovers /\ launch[l].copies = Added(launch[l])
      BY <1>2 DEF SpawnPi, At2, LauncherInv, LaunchSound
    <3>3. Taken(r) = Taken(launch[l]) /\ Added(r) = Added(launch[l])
      BY <2>6 DEF Taken, Added
    <3> QED
      BY <2>2, <2>6, <3>1, <3>2, <3>3
  <2>10. LaunchSound(r)
    BY <1>0, <2>6, <2>9 DEF LaunchSound, Alive
  <2> QED
    BY <1>0, <2>6, <2>8, <2>10, HomesStay, HomeStep DEF Setups
<1> QED
  BY <1>1, <1>2


-----------------------------------------------------------------------------
\* The setup flow.

\* The launcher after a failure, by name.
LEMMA FailsIs ==
  ASSUME LauncherInv, NEW l \in Launcher, Alive(launch[l]), NEW how \in {"failed", "interrupted"}, Fails(l, how)
  PROVE  \E r \in Launch : /\ launch' = [launch EXCEPT ![l] = Landed(r)] /\ r.pc \in {"release", "exited"}
                           /\ r.pc = "exited" \/ LaunchSound(r)
<1>1. PICK pc \in {"release", "exited"} : Go(l, [launch[l] EXCEPT !.pc = pc, !.result = how])
  BY DEF Fails, Leave
<1>2. pc \in Pcs2 /\ how \in Result
  BY DEF Pcs2, Result
<1>3. PICK r \in Launch : launch' = [launch EXCEPT ![l] = Landed(r)] /\ r.pc = pc /\ Alike(r, launch[l])
  BY <1>1, <1>2, Moved
<1>4. r.pc = "exited" \/ LaunchSound(r)
  BY <1>3, PlainMove DEF Plain
<1> QED
  BY <1>3, <1>4

\* The shared files are saved before an installation, as far as they can be read.
LEMMA SnapshotKeeps ==
  ASSUME LauncherInv, NEW l \in Launcher, Snapshot(l)
  PROVE  LauncherInv'
<1>0. launch[l].pc = "ensure" /\ UNCHANGED <<marks, chosen, homes, shared, original>>
  BY DEF Snapshot, At2
<1>1. /\ Alive(launch[l]) /\ launch[l] \in Launch /\ Dir(l).theme \in Theme /\ shared \in Files /\ chosen' \in Home
  <2>1. Alive(launch[l])
    BY <1>0 DEF Alive
  <2> QED
    BY <1>0, <2>1, DirectoryOf DEF LauncherInv, Directory
<1>2. CASE Fails(l, "failed") /\ disturbed' = disturbed
  BY <1>0, <1>1, <1>2, FailsIs, HomesStay, HomeStep DEF Setups
<1>3. ASSUME NEW unread \in SUBSET Restorable,
             Go(l, [launch[l] EXCEPT !.pc = "install",
                      !.saved = [f \in SharedFile |-> IF f \in unread THEN "unread" ELSE shared[f]],
                      !.theme = IF "theme" \in unread THEN "absent" ELSE Dir(l).theme]),
             disturbed' = IF \E k \in Launcher \ {l} : InSetup(k) THEN SharedFile
                          ELSE disturbed \cup (unread \cap SharedFile)
      PROVE  LauncherInv'
  <2>1. PICK saved \in Saved : saved = [f \in SharedFile |-> IF f \in unread THEN "unread" ELSE shared[f]]
    BY <1>1 DEF Saved, Files
  <2>2. PICK theme \in Theme : theme = IF "theme" \in unread THEN "absent" ELSE Dir(l).theme
    BY <1>1 DEF Theme
  <2>3. PICK r \in Launch : r = [launch[l] EXCEPT !.pc = "install", !.saved = saved, !.theme = theme]
    BY <1>1, MovesAreLaunches, "install" \in Pcs2 DEF Pcs2
  <2>4. r.pc = "install" /\ Alike(r, launch[l]) /\ r.saved = saved
    BY <1>1, <2>3 DEF Launch, Alike
  <2>5. launch' = [launch EXCEPT ![l] = Landed(r)] /\ Landed(r) = r
    <3>1. Go(l, r)
      BY <1>3, <2>1, <2>2, <2>3, Zenon
    <3> QED
      BY <2>4, <3>1 DEF Go, Landed
  <2>6. LaunchSound(r)
    BY <1>1, <2>4, PlainMove DEF Plain
  <2>7. ASSUME NEW f \in SharedFile \ disturbed'
        PROVE  f \notin disturbed /\ f \notin unread /\ \A k \in Launcher \ {l} : ~InSetup(k)
    <3>1. ~ \E k \in Launcher \ {l} : InSetup(k)
      BY <1>3, <2>7, Zenon
    <3> QED
      BY <1>3, <3>1, <2>7
  <2>8. \A k \in Launcher : IF k = l THEN InSetup(k)' /\ launch'[k].saved = saved ELSE InSetup(k)' = InSetup(k)
    BY <2>4, <2>5 DEF LauncherInv, InSetup
  <2>9. ~InSetup(l)
    BY <1>0 DEF InSetup
  <2>10. SetupSound'
    <3>1. ASSUME NEW f \in SharedFile \ disturbed'
          PROVE  /\ \A j, k \in Launcher : InSetup(j)' /\ InSetup(k)' => j = k
                 /\ (\A k \in Launcher : ~InSetup(k)') => Kept(f, shared[f])'
                 /\ \A k \in Launcher : InSetup(k)' => launch'[k].saved[f] # "unread" /\ Kept(f, launch[k].saved[f])'
      <4>1. f \notin disturbed /\ f \notin unread /\ \A k \in Launcher : ~InSetup(k)
        BY <2>7, <2>9
      <4>2. Kept(f, shared[f]) /\ saved[f] = shared[f] /\ shared[f] # "unread"
        BY <1>1, <2>1, <4>1 DEF LauncherInv, SetupSound, Files, FileText
      <4> QED
        BY <1>0, <2>8, <4>1, <4>2 DEF Kept
    <3> QED
      BY <3>1 DEF SetupSound
  <2>11. /\ HomesFollow /\ marks' \in Marks /\ shared' \in Files /\ original' = original
         /\ \A h \in Home : marks'[h] # "none" => Fair(h)
    BY <1>0, HomesStay DEF LauncherInv
  <2> QED
    BY <1>1, <2>5, <2>6, <2>10, <2>11, LaunchStep
<1> QED
  BY <1>2, <1>3, Zenon DEF Snapshot

\* A setup that goes on keeps what it saved.
LEMMA InsideSetup ==
  ASSUME LauncherInv, NEW l \in Launcher, NEW r \in Launch, launch' = [launch EXCEPT ![l] = Landed(r)],
         launch[l].pc \in Setups, r.pc \in Setups, r.saved = launch[l].saved, UNCHANGED <<original, disturbed>>
  PROVE  SetupSound'
<1>1. Landed(r) = r
  BY DEF Landed, Setups
<1>2. \A k \in Launcher : (InSetup(k)' <=> InSetup(k)) /\ launch'[k].saved = launch[k].saved
  BY <1>1 DEF LauncherInv, InSetup, Setups
<1>3. InSetup(l)
  BY DEF InSetup, Setups
<1> QED
  BY <1>2, <1>3 DEF LauncherInv, SetupSound, Kept

\* An installation writes to the home or to the shared files, and ends.
LEMMA InstallKeeps ==
  ASSUME LauncherInv, NEW l \in Launcher, ToolWrites(l) \/ ChildExits(l)
  PROVE  LauncherInv'
<1>0. /\ launch[l].pc \in {"install", "written"} /\ UNCHANGED <<marks, chosen, original, disturbed>>
      /\ Alive(launch[l])
  BY DEF ToolWrites, ChildExits, At2, Alive
<1>1. /\ launch[l] \in Launch /\ launch[l].home \in Home
      /\ Dir(l) = homes[launch[l].home] /\ Dir(l) \in Directory /\ DirSound(Dir(l)) /\ chosen' \in Home
      /\ marks' \in Marks /\ original' = original /\ \A h \in Home : marks'[h] # "none" => Fair(h)
  BY <1>0, DirectoryOf DEF LauncherInv
<1>2. CASE ToolWrites(l)
  <2>1. PICK r \in Launch : r = [launch[l] EXCEPT !.pc = "written"]
    BY <1>1, MovesAreLaunches, "written" \in Pcs2 DEF Pcs2
  <2>2. r.pc = "written" /\ Alike(r, launch[l]) /\ r.saved = launch[l].saved
    BY <1>1, <2>1 DEF Launch, Alike
  <2>3. launch' = [launch EXCEPT ![l] = Landed(r)]
    BY <1>2, <2>1 DEF ToolWrites, GoTo, Go, Landed
  <2>4. PICK packages \in SUBSET Package : packages = Dir(l).packages \cup Conflicting
    BY <1>1 DEF Directory, Package, Declares, Conflicting
  <2>5. Follows([Dir(l) EXCEPT !.exists = TRUE, !.content = TRUE, !.theme = "tool", !.packages = packages], Dir(l))
    BY <1>1, <2>4, DirectoriesKeep, "tool" \in Theme DEF Theme
  <2>6. homes' = [homes EXCEPT ![launch[l].home] =
                    [Dir(l) EXCEPT !.exists = TRUE, !.content = TRUE, !.theme = "tool", !.packages = packages]]
    BY <1>1, <1>2, <2>4 DEF ToolWrites, SetDir, Directory
  <2>7. HomesFollow /\ shared' \in Files
    BY <1>1, <1>2, <2>5, <2>6, HomesStay DEF ToolWrites, Files, FileText
  <2>8. SetupSound'
    BY <1>0, <2>2, <2>3, InsideSetup DEF Setups
  <2>9. LaunchSound(r)
    BY <1>0, <2>2, PlainMove DEF Plain
  <2> QED
    BY <1>1, <2>3, <2>7, <2>8, <2>9, LaunchStep
<1>3. CASE ChildExits(l)
  <2>1. PICK how \in {"ok", "failed", "interrupted"} : Go(l, [launch[l] EXCEPT !.pc = "restore", !.result = how])
    BY <1>3 DEF ChildExits
  <2>2. how \in Result /\ "restore" \in Pcs2
    BY DEF Pcs2, Result
  <2>3. PICK r \in Launch : r = [launch[l] EXCEPT !.pc = "restore", !.result = how]
    BY <1>1, <2>2, MovesAreLaunches
  <2>4. r.pc = "restore" /\ Alike(r, launch[l]) /\ r.saved = launch[l].saved
    BY <1>1, <2>3 DEF Launch, Alike
  <2>5. launch' = [launch EXCEPT ![l] = Landed(r)]
    BY <2>1, <2>3 DEF Go, Landed
  <2>6. SetupSound'
    BY <1>0, <2>4, <2>5, InsideSetup DEF Setups
  <2>7. HomesFollow /\ shared' \in Files
    BY <1>3, HomesStay DEF LauncherInv, ChildExits
  <2>8. LaunchSound(r)
    BY <1>0, <2>4, PlainMove DEF Plain
  <2> QED
    BY <1>1, <2>5, <2>6, <2>7, <2>8, LaunchStep
<1> QED
  BY <1>2, <1>3

\* Whatever way the install ended, the files come back as they were saved, each on its own.
LEMMA RestoreKeeps ==
  ASSUME LauncherInv, NEW l \in Launcher, Restore(l)
  PROVE  LauncherInv'
<1>0. launch[l].pc = "restore" /\ UNCHANGED <<marks, chosen, original>> /\ Alive(launch[l])
  BY DEF Restore, At2, Alive
<1>1. /\ launch[l] \in Launch /\ launch[l].home \in Home
      /\ Dir(l) = homes[launch[l].home] /\ Dir(l) \in Directory /\ DirSound(Dir(l)) /\ chosen' \in Home
      /\ launch[l].saved \in Saved /\ launch[l].theme \in Theme /\ shared \in Files
      /\ marks' \in Marks /\ original' = original /\ \A h \in Home : marks'[h] # "none" => Fair(h)
  BY <1>0, DirectoryOf DEF LauncherInv, Launch
<1>2. PICK failed \in SUBSET Restorable :
        PutBack(l, Restorable \ failed) /\ disturbed' = disturbed \cup (failed \cap SharedFile)
  BY Zenon DEF Restore
<1>3. PICK pc \in {"cleanup", "release", "exited"} :
        Go(l, [launch[l] EXCEPT !.pc = pc, !.saved = Rest.saved, !.theme = "absent"])
  BY DEF Restore, AfterRestore, Leave
<1>4. PICK r \in Launch : launch' = [launch EXCEPT ![l] = Landed(r)] /\ r.pc = pc /\ Alike(r, launch[l])
  <2>1. pc \in Pcs2 /\ "absent" \in Theme /\ Rest.saved \in Saved
    BY RestIsLaunch DEF Pcs2, Theme
  <2> QED
    BY <1>3, <2>1, Moved
<1>5. HomesFollow
  <2>1. PICK theme \in Theme : theme = IF "theme" \in Restorable \ failed THEN RestoredTheme(l) ELSE Dir(l).theme
    BY <1>1 DEF RestoredTheme, RestoredField, DefaultedTheme, Directory, Theme
  <2>2. Follows([Dir(l) EXCEPT !.theme = theme], Dir(l))
    BY <1>1, DirectoriesKeep
  <2>3. homes' = [homes EXCEPT ![launch[l].home] = [Dir(l) EXCEPT !.theme = theme]]
    BY <1>1, <1>2, <2>1 DEF PutBack, SetDir, Directory
  <2> QED
    BY <1>1, <2>2, <2>3, HomesStay
<1>6. \A f \in SharedFile :
        /\ f \in failed => shared'[f] = shared[f]
        /\ f \notin failed => shared'[f] = IF f = "persona" THEN RestoredPersona(l) ELSE RestoredDigest(l)
  BY <1>2 DEF PutBack, Restorable
<1>7. ASSUME NEW f \in SharedFile
      PROVE  /\ shared'[f] \in FileText
             /\ f \notin disturbed' => Kept(f, shared'[f])
  <2>1. f \notin disturbed' => f \notin disturbed /\ f \notin failed
    BY <1>2
  <2>2. f \notin disturbed => launch[l].saved[f] # "unread" /\ Kept(f, launch[l].saved[f])
    BY <1>0 DEF LauncherInv, SetupSound, InSetup
  <2>3. f = "persona" \/ f = "digest"
    BY DEF SharedFile
  <2>4. shared[f] \in FileText /\ launch[l].saved[f] \in FileText \cup {"unread"}
    BY <1>1 DEF Files, Saved
  <2>5. CASE f = "persona"
    BY <1>6, <2>1, <2>2, <2>4, <2>5 DEF RestoredPersona
  <2>6. CASE f = "digest"
    BY <1>6, <2>1, <2>2, <2>4, <2>6 DEF RestoredDigest, RestoredField, Kept
  <2> QED
    BY <2>3, <2>5, <2>6
<1>8. shared' \in Files
  BY <1>2, <1>7 DEF PutBack, Files
<1>9. SetupSound'
  <2>1. InSetup(l) /\ \A k \in Launcher : IF k = l THEN ~InSetup(k)' ELSE InSetup(k)' = InSetup(k) /\ launch'[k] = launch[k]
    BY <1>0, <1>4, LandedIsLaunch DEF LauncherInv, InSetup
  <2>2. ASSUME NEW f \in SharedFile \ disturbed'
        PROVE  /\ \A k \in Launcher : ~InSetup(k)'
               /\ Kept(f, shared[f])'
    <3>1. f \notin disturbed
      BY <1>2
    <3>2. \A k \in Launcher : InSetup(k) => k = l
      BY <2>1, <3>1 DEF LauncherInv, SetupSound
    <3> QED
      BY <1>0, <1>7, <2>1, <3>2 DEF Kept
  <2> QED
    BY <2>2 DEF SetupSound
<1>10. r.pc = "exited" \/ LaunchSound(r)
  BY <1>0, <1>4, PlainMove DEF Plain
<1> QED
  BY <1>1, <1>4, <1>5, <1>8, <1>9, <1>10, LaunchStep

\* What a failed setup wrote is removed.
LEMMA RemovalsKeep ==
  ASSUME LauncherInv, NEW l \in Launcher, Cleanup(l)
  PROVE  LauncherInv'
<1>0. launch[l].pc = "cleanup" /\ UNCHANGED <<marks, chosen, shared, original, disturbed>> /\ Alive(launch[l])
  BY DEF Cleanup, At2, Alive
<1>1. /\ launch[l] \in Launch /\ LaunchSound(launch[l]) /\ launch[l].home \in Home
      /\ Dir(l) = homes[launch[l].home] /\ Dir(l) \in Directory /\ DirSound(Dir(l)) /\ chosen' \in Home
  BY <1>0, DirectoryOf DEF LauncherInv
<1>2. CASE homes' = homes /\ GoTo(l, IF launch[l].auto THEN "record" ELSE "exited")
  <2>1. PICK pc \in {"record", "exited"} : GoTo(l, pc) /\ (pc = "record" => launch[l].auto)
    <3>1. CASE launch[l].auto
      BY <1>2, <3>1, Zenon
    <3>2. CASE ~launch[l].auto
      BY <1>2, <3>2, "exited" # "record"
    <3> QED
      BY <3>1, <3>2
  <2>2. pc \in Pcs2
    BY DEF Pcs2
  <2>3. PICK r \in Launch : launch' = [launch EXCEPT ![l] = Landed(r)] /\ r.pc = pc /\ Alike(r, launch[l])
    BY <2>1, <2>2, Moved, Zenon
  <2>4. r.pc = "exited" \/ LaunchSound(r)
    BY <1>0, <1>1, <2>1, <2>3 DEF LaunchSound, Alike, Alive
  <2> QED
    BY <1>0, <1>1, <1>2, <2>3, <2>4, HomesStay, HomeStep DEF Setups
<1>3. ASSUME NEW p \in PostInstallRemovals(l), SetDir(l, [Dir(l) EXCEPT !.packages = @ \ {p}]), launch' = launch
      PROVE  LauncherInv'
  <2>1. PICK packages \in SUBSET Package : packages = Dir(l).packages \ {p}
    BY <1>1 DEF Directory
  <2>2. Follows([Dir(l) EXCEPT !.packages = packages], homes[launch[l].home])
    BY <1>1, DirectoriesKeep
  <2>3. homes' = [homes EXCEPT ![launch[l].home] = [Dir(l) EXCEPT !.packages = packages]]
    BY <1>1, <1>3, <2>1 DEF SetDir, Directory
  <2>4. HomesFollow
    BY <1>1, <2>2, <2>3, HomesStay
  <2> QED
    BY <1>0, <1>3, <2>4, DirectoryStep
<1>4. ASSUME NEW how \in {"failed", "interrupted"}, Fails(l, how), homes' = homes
      PROVE  LauncherInv'
  BY <1>0, <1>1, <1>4, FailsIs, HomesStay, HomeStep DEF Setups
<1> QED
  BY <1>2, <1>3, <1>4, Zenon DEF Cleanup

\* A launcher dies.
LEMMA LauncherDiesKeeps ==
  ASSUME LauncherInv, NEW l \in Launcher, LauncherDies(l)
  PROVE  LauncherInv'
<1>0. GoTo(l, "exited") /\ "exited" \in Pcs2 /\ UNCHANGED <<marks, chosen, homes, shared, original>>
  BY DEF LauncherDies, Pcs2
<1>1. PICK r \in Launch : launch' = [launch EXCEPT ![l] = Landed(r)] /\ r.pc = "exited"
  BY <1>0, Moved
<1>2. disturbed' = IF InSetup(l) THEN SharedFile ELSE disturbed
  BY DEF LauncherDies
<1>3. SetupSound'
  <2>1. CASE InSetup(l)
    BY <1>2, <2>1 DEF SetupSound
  <2>2. CASE ~InSetup(l)
    BY <1>0, <1>1, <1>2, <2>2, OutsideSetup DEF InSetup, Setups
  <2> QED
    BY <2>1, <2>2
<1>4. /\ HomesFollow /\ marks' \in Marks /\ chosen' \in Home /\ shared' \in Files /\ original' = original
      /\ \A h \in Home : marks'[h] # "none" => Fair(h)
  BY <1>0, HomesStay DEF LauncherInv
<1> QED
  BY <1>1, <1>3, <1>4, LaunchStep

-----------------------------------------------------------------------------
\* The invariant holds at first.
LEMMA LaunchersStart == LauncherInit => LauncherInv
<1> SUFFICES ASSUME LauncherInit PROVE LauncherInv
  OBVIOUS
<1>1. IsolatedHome \in Home
  BY LauncherAssumption
<1>2. Absent2 \in Directory /\ DirSound(Absent2) /\ Empty2 \in Directory /\ DirSound(Empty2)
  BY DEF Absent2, Empty2, Directory, Theme, LockState, NoSetupLock, DirSound
<1>3. LeftBehind \in Directory /\ DirSound(LeftBehind)
  <2>1. [by |-> "left", stale |-> TRUE] \in LockState /\ "default" \in Theme
    BY DEF LockState, Theme
  <2> QED
    BY <1>2, <2>1 DEF LeftBehind, Empty2, Absent2, Directory, DirSound
<1>4. ASSUME NEW ps \in UserPackages PROVE Filled(ps) \in Directory /\ DirSound(Filled(ps))
  <2>1. ps \in SUBSET Package /\ "user" \in Theme
    BY DEF UserPackages, Package, Declares, NotADirectory, Theme
  <2>2. NoSetupLock \in LockState
    BY DEF LockState, NoSetupLock
  <2> QED
    BY <2>1, <2>2 DEF Filled, Empty2, Absent2, Directory, DirSound
<1>5. homes \in [Home -> Directory] /\ \A h \in Home : DirSound(homes[h])
  <2>1. homes \in [Home -> {Absent2, Empty2, LeftBehind} \cup {Filled(ps) : ps \in UserPackages}]
    BY DEF LauncherInit
  <2>2. \A d \in {Absent2, Empty2, LeftBehind} \cup {Filled(ps) : ps \in UserPackages} : d \in Directory /\ DirSound(d)
    BY <1>2, <1>3, <1>4
  <2> QED
    BY <2>1, <2>2
<1>6. shared \in Files /\ original = shared
  BY DEF LauncherInit, Files, FileText
<1>7. \A l \in Launcher : launch[l] = Rest
  BY DEF LauncherInit
<1>8. LaunchSound(Rest)
  <2>1. Rest.pc = "idle" /\ ~Rest.auto
    BY DEF Rest
  <2> QED
    BY <2>1, RestIsLaunch DEF LaunchSound, Alive
<1>9. launch \in [Launcher -> Launch]
  BY RestIsLaunch DEF LauncherInit
<1>10. marks \in Marks /\ \A h \in Home : marks[h] = "none"
  BY DEF LauncherInit, Marks
<1>11. SetupSound
  <2>1. \A l \in Launcher : ~InSetup(l)
    BY <1>7 DEF InSetup, Rest
  <2> QED
    BY <1>6, <2>1 DEF SetupSound, Kept
<1>12. chosen \in Home
  BY <1>1 DEF LauncherInit
<1> QED
  BY <1>5, <1>6, <1>7, <1>8, <1>9, <1>10, <1>11, <1>12 DEF LauncherInv

\* The invariant is inductive.
LEMMA LaunchersKeep == LauncherInv /\ [LauncherNext]_launcherVars => LauncherInv'
<1> SUFFICES ASSUME LauncherInv, [LauncherNext]_launcherVars PROVE LauncherInv'
  OBVIOUS
<1>1. ASSUME NEW l \in Launcher, LauncherStep(l) PROVE LauncherInv'
  BY <1>1, EndingsKeep, BeginKeeps, BootstrapKeeps, LockPathKeeps, SnapshotKeeps, InstallKeeps,
     RestoreKeeps, RemovalsKeep, MarksKeep, LockKeeps, LaunchesKeep DEF LauncherStep
<1>2. CASE UNCHANGED launcherVars
  BY <1>2, HomesStay, DirectoryStep DEF launcherVars
<1> QED
  BY <1>1, <1>2, LauncherDiesKeeps, LockKeeps DEF LauncherNext


\* A package list that is counted is finite.
LEMMA DeclaresIsFinite ==
  /\ IsFiniteSet(Declares)
  /\ \A S : IsFiniteSet(S \cap Declares) /\ Cardinality(S \cap Declares) \in Nat
<1>1. IsFiniteSet({"npm"})
  BY FS_Singleton
<1>2. IsFiniteSet({"npm"} \cup {"same"})
  BY <1>1, FS_AddElement
<1>3. IsFiniteSet(({"npm"} \cup {"same"}) \cup {"other"})
  BY <1>2, FS_AddElement
<1>4. Declares = ({"npm"} \cup {"same"}) \cup {"other"}
  BY DEF Declares
<1>5. IsFiniteSet(Declares)
  BY <1>3, <1>4
<1>6. ASSUME NEW S PROVE IsFiniteSet(S \cap Declares) /\ Cardinality(S \cap Declares) \in Nat
  <2>1. S \cap Declares \in SUBSET Declares
    OBVIOUS
  <2> QED
    BY <1>5, <2>1, FS_Subset, FS_CardinalityType
<1> QED
  BY <1>5, <1>6

\* A set that counts at most one has no two members.
LEMMA AtMostOne ==
  ASSUME NEW S, IsFiniteSet(S), Cardinality(S) <= 1
  PROVE  \A x, y \in S : x = y
<1>1. ASSUME NEW x \in S, NEW y \in S, x # y PROVE FALSE
  <2>1. {x, y} \subseteq S
    BY <1>1
  <2>2. Cardinality({x, y}) = 2
    <3>1. IsFiniteSet({x}) /\ Cardinality({x}) = 1
      BY FS_Singleton
    <3>2. Cardinality({x} \cup {y}) = 1 + 1
      BY <1>1, <3>1, FS_AddElement
    <3>3. {x} \cup {y} = {x, y}
      OBVIOUS
    <3> QED
      BY <3>2, <3>3
  <2>3. Cardinality({x, y}) <= Cardinality(S) /\ Cardinality(S) \in Nat
    BY <2>1, FS_Subset, FS_CardinalityType
  <2> QED
    BY <2>2, <2>3
<1> QED
  BY <1>1

\* With at most one copy declared, what is loaded holds exactly one.
LEMMA OneCopy ==
  ASSUME NEW r \in Launch, Cardinality(r.packages \cap Declares) <= 1,
         \/ ~r.discovers /\ r.copies = Taken(r)
         \/ r.discovers /\ r.copies = Added(r) \cup r.packages \cup LooseEntries,
         NEW left, left = IF r.discovers THEN {} ELSE NotADirectory
  PROVE  /\ Cardinality(r.copies \cap (Declares \cup {"root"})) = 1
         /\ ((r.packages \ Declares) \ left) \cup LooseEntries \subseteq r.copies
         /\ r.copies \cap left = {}
<1>0. r.packages \subseteq Package /\ r.discovers \in BOOLEAN
  BY DEF Launch
<1>1. IsFiniteSet(Declares) /\ IsFiniteSet(r.packages \cap Declares)
  BY DeclaresIsFinite
<1>2. \A x, y \in r.packages \cap Declares : x = y
  BY <1>1, AtMostOne
<1>3. r.packages \cap Declares = IF Declaration(r.packages) = "none" THEN {} ELSE {Declaration(r.packages)}
  BY <1>2 DEF Declaration, Declares
<1>4. CASE ~r.discovers /\ r.copies = Taken(r)
  <2>1. r.copies \cap (Declares \cup {"root"}) = {"root"}
    BY <1>0, <1>3, <1>4 DEF Taken, OtherPackages, LooseEntries, Declares, Package
  <2>2. /\ ((r.packages \ Declares) \ left) \cup LooseEntries \subseteq r.copies
        /\ r.copies \cap left = {}
    BY <1>0, <1>3, <1>4 DEF Taken, OtherPackages, LooseEntries, Declares, Package, NotADirectory
  <2> QED
    BY <2>1, <2>2, FS_Singleton
<1>5. CASE r.discovers /\ r.copies = Added(r) \cup r.packages \cup LooseEntries
  <2>1. r.copies \cap (Declares \cup {"root"}) \in {{"root"}, {Declaration(r.packages)}}
    BY <1>0, <1>3, <1>5 DEF Added, LooseEntries, Declares, Package, NotADirectory
  <2>2. /\ ((r.packages \ Declares) \ left) \cup LooseEntries \subseteq r.copies
        /\ r.copies \cap left = {}
    BY <1>5
  <2> QED
    BY <2>1, <2>2, FS_Singleton
<1> QED
  BY <1>4, <1>5

\* Whichever launchers overlap, die, fail to read or write or outlive their lock, a run loads
\* exactly one copy of gentle-pi and all else the home has, the shared files come back after a
\* setup, and no home with content of the user's is provisioned unasked (buildPiInvocation,
\* runSetupFlow, homeIsForeign).
THEOREM HomesAreRespected == LauncherSpec => []HomeIsRespected
<1>1. LauncherSpec => []LauncherInv
  BY LaunchersStart, LaunchersKeep, PTL DEF LauncherSpec
<1>2. LauncherInv => LoadedOnce
  <2>1. ASSUME LauncherInv, NEW l \in Launcher, At2(l, "running"), launch[l].command = "run", ~launch[l].raced,
               ~(Cardinality(launch[l].packages \cap Declares) > 1),
               NEW left, left = IF launch[l].discovers THEN {} ELSE NotADirectory
        PROVE  /\ Cardinality(launch[l].copies \cap (Declares \cup {"root"})) = 1
               /\ ((launch[l].packages \ Declares) \ left) \cup LooseEntries \subseteq launch[l].copies
               /\ launch[l].copies \cap left = {}
    <3>1. /\ launch[l] \in Launch
          /\ \/ ~launch[l].discovers /\ launch[l].copies = Taken(launch[l])
             \/ launch[l].discovers /\ launch[l].copies = Added(launch[l]) \cup launch[l].packages \cup LooseEntries
      BY <2>1 DEF LauncherInv, LaunchSound, At2
    <3>2. Cardinality(launch[l].packages \cap Declares) \in Nat
      BY DeclaresIsFinite
    <3>3. Cardinality(launch[l].packages \cap Declares) <= 1
      BY <2>1, <3>2
    <3> QED
      BY <2>1, <3>1, <3>3, OneCopy
  <2> QED
    BY <2>1 DEF LoadedOnce
<1>3. LauncherInv => SharedFilesKept
  BY DEF LauncherInv, SetupSound, SharedFilesKept, Kept
<1>4. LauncherInv => AutoOnlyOwned
  <2>1. ASSUME LauncherInv, NEW l \in Launcher, launch[l].auto, InSetup(l)
        PROVE  Mode(l) = "isolated" \/ (launch[l].home # PiHome /\ ~Dir(l).foreign)
    BY <2>1 DEF LauncherInv, LaunchSound, Fair, Modes, Mode, Dir
  <2> QED
    BY <2>1 DEF AutoOnlyOwned
<1>5. LauncherInv => HomeIsRespected
  BY <1>2, <1>3, <1>4 DEF HomeIsRespected
<1> QED
  BY <1>1, <1>5, PTL

-----------------------------------------------------------------------------
(* The routing.                                                            *)


Model == ModelId \cup {Inherit}
Profiles == UNION {[N -> Routing] : N \in SUBSET ProfileName}
StoreFile == [here : BOOLEAN, active : ProfileName \cup {"none"}, of : Profiles]
Routes == [front : [RoutedAgent -> Model], global : [RoutedAgent -> Model], project : [RoutedAgent -> Model]]
SettledRouting == [kind : {"none", "saved", "applied", "reverted", "pinned"}, name : ProfileName \cup {"none"}, routing : Routing]
WriterPc == {"idle", "models", "open", "asking", "following", "claimed", "apply", "read", "write", "revert", "unclaim"}
Work ==
  [pc : WriterPc, kind : {"none", "start", "models", "profile", "revert"}, name : ProfileName \cup {"none"},
   from : ProfileName \cup {"none"}, file : StoreFile, want : Routing, todo : SUBSET RoutedAgent,
   seen : {[a \in {} |-> Inherit]} \cup [RoutedAgent -> Model], alone : BOOLEAN]

\* A writer between its first write and its last one, and one that materializes.
Active(k) == k.pc \notin {"idle", "models", "open", "asking", "following"}
Applying(k) == k.pc \in {"apply", "read", "write"}
Following(k) == CHOOSE a \in k.todo : TRUE

\* What is materialized for an agent in these files.
HeldFor(r, a) == IF r[FileOf(a)][a] # Inherit THEN r[FileOf(a)][a] ELSE r.front[a]

\* What a writer works on is the routing it will report.
WorkSound(k) ==
  /\ k.pc \in {"read", "write"} => k.todo # {}
  /\ Applying(k) => k.todo \subseteq ToMaterialize(k.want) /\ k.kind # "none"
  /\ Applying(k) /\ k.kind = "profile" => k.name \in DOMAIN k.file.of /\ k.want = WithOmittedCleared(k.file.of[k.name])
  /\ Applying(k) /\ k.kind = "revert" =>
       k.file.active \in DOMAIN k.file.of /\ k.want = WithOmittedCleared(k.file.of[k.file.active])
  /\ k.pc = "claimed" => k.name \in DOMAIN k.file.of /\ k.kind = "profile"
  /\ k.pc \in {"claimed", "revert", "unclaim"} => k.kind \in {"profile", "revert"}
  /\ k.pc = "write" => k.seen \in [RoutedAgent -> Model]

\* What a writer that is alone has materialized so far is there.
Progress(k, r) ==
  k.alone /\ Applying(k) =>
    /\ \A a \in (ToMaterialize(k.want) \cap Installed) \ k.todo : HeldFor(r, a) = k.want[a]
    /\ k.pc \in {"read", "write"} /\ Following(k) \in Installed => r.front[Following(k)] = k.want[Following(k)]
    /\ k.pc = "write" => k.seen = r[FileOf(Following(k))]

\* Files of the right form.
FilesOK ==
  /\ models \in [status : {"missing", "invalid", "valid"}, routing : Routing]
  /\ overrides \in [RoutedAgent -> Model \cup {Malformed}]
  /\ profiles \in StoreFile
  /\ pins \in [local : ProfileName \cup {"none"}, repo : ProfileName \cup {"none", "invalid"}]
  /\ orchestrator \in ModelId \cup {"unset"}

WritersOK ==
  /\ writer \in [RoutingWriter -> Work]
  /\ \A w \in RoutingWriter : WorkSound(writer[w]) /\ Progress(writer[w], routes)
  /\ \A w, v \in RoutingWriter : Active(writer[w]) /\ writer[w].alone /\ Active(writer[v]) => v = w

\* A routing that is settled was materialized, and nobody has begun to change it.
SettledOK ==
  /\ settled \in SettledRouting
  /\ settled.kind \in {"saved", "applied", "reverted"} => \A w \in RoutingWriter : ~Active(writer[w])
  /\ \A a \in Installed \ ProviderRole :
       /\ settled.kind \in {"applied", "reverted"} => HeldFor(routes, a) = Entry(settled.routing, a)
       /\ settled.kind = "saved" /\ a \in DOMAIN settled.routing => HeldFor(routes, a) = settled.routing[a]
  /\ settled.kind = "pinned" => pins.local = settled.name

RoutingInv == FilesOK /\ routes \in Routes /\ WritersOK /\ SettledOK

-----------------------------------------------------------------------------
\* A routing is a function on some of the keys.
LEMMA RoutingIs ==
  /\ \A r \in Routing : DOMAIN r \subseteq RoutingKey /\ r \in [DOMAIN r -> Model]
  /\ \A K \in SUBSET RoutingKey : \A r \in [K -> Model] : r \in Routing
  /\ EmptyRouting \in Routing /\ DOMAIN EmptyRouting = {}
<1>1. \A r \in Routing : DOMAIN r \subseteq RoutingKey /\ r \in [DOMAIN r -> Model]
  <2>1. ASSUME NEW r \in Routing PROVE DOMAIN r \subseteq RoutingKey /\ r \in [DOMAIN r -> Model]
    <3>1. PICK K \in SUBSET RoutingKey : r \in [K -> Model]
      BY <2>1 DEF Routing, Model
    <3> QED
      BY <3>1
  <2> QED
    BY <2>1
<1>2. ASSUME NEW K \in SUBSET RoutingKey, NEW r \in [K -> Model] PROVE r \in Routing
  BY DEF Routing, Model
<1>3. EmptyRouting \in [{} -> Model] /\ {} \in SUBSET RoutingKey /\ DOMAIN EmptyRouting = {}
  BY DEF EmptyRouting
<1> QED
  BY <1>1, <1>2, <1>3

\* A store of profiles is a function on some of the names.
LEMMA ProfilesAre ==
  /\ \A f \in Profiles : DOMAIN f \subseteq ProfileName /\ f \in [DOMAIN f -> Routing]
  /\ \A N \in SUBSET ProfileName : \A f \in [N -> Routing] : f \in Profiles
  /\ NoStore \in StoreFile /\ DOMAIN NoStore.of = {} /\ ~NoStore.here
<1>1. \A f \in Profiles : DOMAIN f \subseteq ProfileName /\ f \in [DOMAIN f -> Routing]
  <2>1. ASSUME NEW f \in Profiles PROVE DOMAIN f \subseteq ProfileName /\ f \in [DOMAIN f -> Routing]
    <3>1. PICK N \in SUBSET ProfileName : f \in [N -> Routing]
      BY <2>1 DEF Profiles
    <3> QED
      BY <3>1
  <2> QED
    BY <2>1
<1>2. \A N \in SUBSET ProfileName : \A f \in [N -> Routing] : f \in Profiles
  <2>1. ASSUME NEW N \in SUBSET ProfileName, NEW f \in [N -> Routing] PROVE f \in Profiles
    BY DEF Profiles
  <2> QED
    BY <2>1
<1>3. [n \in {} |-> EmptyRouting] \in [{} -> Routing] /\ {} \in SUBSET ProfileName
  OBVIOUS
<1>4. [n \in {} |-> EmptyRouting] \in Profiles
  BY <1>2, <1>3
<1>5. NoStore \in StoreFile /\ DOMAIN NoStore.of = {} /\ ~NoStore.here
  BY <1>4 DEF NoStore, StoreFile
<1> QED
  BY <1>1, <1>2, <1>5

\* A writer at rest has nothing to show.
LEMMA IdleIsWork ==
  /\ IdleWriter \in Work /\ IdleWriter.pc = "idle" /\ IdleWriter.kind = "none" /\ IdleWriter.file = NoStore
  /\ NothingSettled \in SettledRouting /\ NothingSettled.kind = "none"
<1>1. IdleWriter \in Work
  BY RoutingIs, ProfilesAre DEF IdleWriter, Work, WriterPc
<1> QED
  BY <1>1, RoutingIs DEF IdleWriter, NothingSettled, SettledRouting

\* What a step writes into a writer is a writer again.
LEMMA MovesAreWork ==
  ASSUME NEW k \in Work
  PROVE  /\ \A pc \in WriterPc : [k EXCEPT !.pc = pc] \in Work
         /\ \A b \in BOOLEAN : [k EXCEPT !.alone = b] \in Work
         /\ \A pc \in WriterPc, s \in [RoutedAgent -> Model] : [k EXCEPT !.pc = pc, !.seen = s] \in Work
         /\ \A pc \in WriterPc, t \in SUBSET RoutedAgent : [k EXCEPT !.pc = pc, !.todo = t] \in Work
         /\ \A pc \in WriterPc, f \in StoreFile : [k EXCEPT !.pc = pc, !.file = f] \in Work
         /\ \A pc \in WriterPc, n \in ProfileName : [k EXCEPT !.pc = pc, !.name = n] \in Work
         /\ \A pc \in WriterPc, n \in ProfileName, m \in ProfileName, f \in StoreFile :
              [k EXCEPT !.pc = pc, !.name = n, !.from = m, !.file = f] \in Work
         /\ \A pc \in WriterPc : [k EXCEPT !.pc = pc, !.from = "none"] \in Work
         /\ \A pc \in WriterPc, n \in ProfileName : [k EXCEPT !.pc = pc, !.kind = "profile", !.name = n] \in Work
         /\ \A pc \in WriterPc, r \in Routing, t \in SUBSET RoutedAgent :
              [k EXCEPT !.pc = pc, !.want = r, !.todo = t] \in Work
         /\ \A pc \in WriterPc, kind \in {"start", "models", "revert"}, r \in Routing, t \in SUBSET RoutedAgent :
              [k EXCEPT !.pc = pc, !.kind = kind, !.want = r, !.todo = t] \in Work
BY Zenon DEF Work

\* The installed agents a routing mentions are agents.
LEMMA ToMaterializeIs ==
  ASSUME NEW r \in Routing
  PROVE  /\ ToMaterialize(r) \in SUBSET RoutedAgent
         /\ \A a \in (Installed \ ProviderRole) \cap DOMAIN r : a \in ToMaterialize(r)
         /\ \A a \in ToMaterialize(r) : a \in DOMAIN r /\ r[a] \in Model
<1>1. DOMAIN r \subseteq RoutingKey /\ r \in [DOMAIN r -> Model]
  BY RoutingIs
<1>2. ToMaterialize(r) \subseteq RoutedAgent /\ \A a \in ToMaterialize(r) : a \in DOMAIN r
  BY <1>1 DEF ToMaterialize, RoutingKey
<1>3. \A a \in (Installed \ ProviderRole) \cap DOMAIN r : a \in ToMaterialize(r)
  BY RoutingAssumption DEF ToMaterialize
<1> QED
  BY <1>1, <1>2, <1>3

\* A padded routing says of every agent what the profile says, or inherit.
LEMMA OmittedAreCleared ==
  ASSUME NEW r \in Routing
  PROVE  /\ WithOmittedCleared(r) \in Routing
         /\ \A a \in Installed \ ProviderRole :
              a \in DOMAIN WithOmittedCleared(r) /\ WithOmittedCleared(r)[a] = Entry(r, a)
<1>1. DOMAIN r \subseteq RoutingKey /\ r \in [DOMAIN r -> Model]
  BY RoutingIs
<1>2. \A a : Entry(r, a) \in Model
  BY <1>1 DEF Entry, Model
<1>3. DOMAIN r \cup (Installed \ ProviderRole) \in SUBSET RoutingKey
  BY <1>1, RoutingAssumption DEF RoutingKey
<1>4. WithOmittedCleared(r) \in [DOMAIN r \cup (Installed \ ProviderRole) -> Model]
  BY <1>2 DEF WithOmittedCleared
<1> QED
  BY <1>3, <1>4, RoutingIs DEF WithOmittedCleared

-----------------------------------------------------------------------------
\* What is settled stays so while nobody begins and nothing is written behind it.
LEMMA SettledStays ==
  ASSUME RoutingInv, settled' = settled, routes' \in Routes,
         settled.kind = "pinned" => pins'.local = pins.local,
         routes' = routes \/ \E w \in RoutingWriter : Active(writer[w]),
         \A w \in RoutingWriter : Active(writer'[w]) => Active(writer[w])
  PROVE  SettledOK'
<1>1. CASE settled.kind \in {"saved", "applied", "reverted"}
  <2>1. routes' = routes
    BY <1>1 DEF RoutingInv, SettledOK
  <2> QED
    BY <1>1, <2>1 DEF RoutingInv, SettledOK, HeldFor
<1>2. CASE settled.kind \notin {"saved", "applied", "reverted"}
  BY <1>2 DEF RoutingInv, SettledOK
<1> QED
  BY <1>1, <1>2

\* Nothing is settled when a routing begins to change.
LEMMA NothingIsSettled == settled' = NothingSettled => SettledOK'
BY IdleIsWork DEF SettledOK

\* One writer moves on; only a writer at work changes what is materialized.
LEMMA WriterMoves ==
  ASSUME RoutingInv, NEW w \in RoutingWriter, NEW k \in Work, writer' = [writer EXCEPT ![w] = k],
         FilesOK', SettledOK', routes' \in Routes, routes' = routes \/ Active(writer[w]),
         WorkSound(k), Progress(k, routes'), Active(k) => Active(writer[w]) /\ k.alone = writer[w].alone
  PROVE  RoutingInv'
<1>1. writer' \in [RoutingWriter -> Work] /\ writer'[w] = k /\ \A v \in RoutingWriter \ {w} : writer'[v] = writer[v]
  BY DEF RoutingInv, WritersOK
<1>2. ASSUME NEW v \in RoutingWriter PROVE WorkSound(writer'[v]) /\ Progress(writer'[v], routes')
  <2>1. CASE v = w
    BY <1>1, <2>1
  <2>2. CASE v # w
    <3>1. writer'[v] = writer[v] /\ WorkSound(writer[v]) /\ Progress(writer[v], routes)
      BY <1>1, <2>2 DEF RoutingInv, WritersOK
    <3>2. CASE routes' = routes
      BY <3>1, <3>2
    <3>3. CASE Active(writer[w])
      <4>1. ~(writer[v].alone /\ Active(writer[v]))
        BY <2>2, <3>3 DEF RoutingInv, WritersOK
      <4> QED
        BY <3>1, <4>1 DEF Progress, Applying, Active
    <3> QED
      BY <3>2, <3>3
  <2> QED
    BY <2>1, <2>2
<1>3. ASSUME NEW u \in RoutingWriter, NEW v \in RoutingWriter,
             Active(writer'[u]), writer'[u].alone, Active(writer'[v])
      PROVE  v = u
  <2>1. Active(writer[u]) /\ writer[u].alone /\ Active(writer[v])
    BY <1>1, <1>3
  <2> QED
    BY <2>1 DEF RoutingInv, WritersOK
<1>4. WritersOK'
  BY <1>1, <1>2, <1>3 DEF WritersOK
<1> QED
  BY <1>4 DEF RoutingInv

\* A writer begins: nothing is settled and nobody else is alone.
LEMMA RoutingBegins ==
  ASSUME RoutingInv, NEW w \in RoutingWriter, NEW k \in Work, BeginWriting(w, k),
         FilesOK', routes' \in Routes, WorkSound(k), k.pc \notin {"read", "write"},
         k.pc = "apply" => k.todo = ToMaterialize(k.want)
  PROVE  RoutingInv'
<1> DEFINE others == {v \in RoutingWriter \ {w} : Running(v)}
<1>0. \A v \in RoutingWriter : Running(v) <=> Active(writer[v])
  BY DEF Running, Active
<1>1. PICK b \in BOOLEAN : b = (others = {})
  OBVIOUS
<1>2. /\ writer' = [v \in RoutingWriter |->
                      IF v = w THEN [k EXCEPT !.alone = b]
                      ELSE IF v \in others THEN [writer[v] EXCEPT !.alone = FALSE] ELSE writer[v]]
      /\ settled' = NothingSettled
  BY <1>1 DEF BeginWriting
<1> HIDE DEF others
<1>3. ASSUME NEW v \in RoutingWriter PROVE [writer[v] EXCEPT !.alone = FALSE] \in Work /\ writer[v] \in Work
  BY MovesAreWork DEF RoutingInv, WritersOK
<1>4. [k EXCEPT !.alone = b] \in Work
  BY MovesAreWork
<1>5. writer' \in [RoutingWriter -> Work]
  BY <1>2, <1>3, <1>4
<1>6. WorkSound([k EXCEPT !.alone = b]) /\ Progress([k EXCEPT !.alone = b], routes')
  <2> DEFINE j == [k EXCEPT !.alone = b]
  <2>1. /\ j.pc = k.pc /\ j.kind = k.kind /\ j.name = k.name /\ j.file = k.file /\ j.want = k.want
        /\ j.todo = k.todo /\ j.seen = k.seen
    BY DEF Work
  <2> HIDE DEF j
  <2>2. WorkSound(j)
    BY <2>1 DEF WorkSound, Applying
  <2>3. Progress(j, routes')
    BY <2>1 DEF Progress, Applying
  <2> QED
    BY <2>2, <2>3 DEF j
<1>7. ASSUME NEW v \in RoutingWriter PROVE WorkSound(writer'[v]) /\ Progress(writer'[v], routes')
  <2>1. CASE v = w
    BY <1>2, <1>6, <2>1
  <2>2. CASE v # w /\ v \in others
    <3> DEFINE j == [writer[v] EXCEPT !.alone = FALSE]
    <3>1. /\ j.pc = writer[v].pc /\ j.kind = writer[v].kind /\ j.name = writer[v].name /\ j.file = writer[v].file
          /\ j.want = writer[v].want /\ j.todo = writer[v].todo /\ j.seen = writer[v].seen /\ j.alone = FALSE
      BY <1>3 DEF Work
    <3>2. writer'[v] = j /\ WorkSound(writer[v])
      BY <1>2, <2>2 DEF RoutingInv, WritersOK
    <3> HIDE DEF j
    <3>3. WorkSound(j)
      BY <3>1, <3>2 DEF WorkSound, Applying
    <3> QED
      BY <3>1, <3>2, <3>3 DEF Progress
  <2>3. CASE v # w /\ v \notin others
    <3>1. writer'[v] = writer[v] /\ ~Active(writer[v]) /\ WorkSound(writer[v])
      BY <1>0, <1>2, <2>3 DEF others, RoutingInv, WritersOK
    <3> QED
      BY <3>1 DEF Progress, Applying, Active
  <2> QED
    BY <2>1, <2>2, <2>3
<1>8. ASSUME NEW u \in RoutingWriter, NEW v \in RoutingWriter,
             Active(writer'[u]), writer'[u].alone, Active(writer'[v])
      PROVE  v = u
  <2>1. \A x \in RoutingWriter \ {w} : Active(writer'[x]) => x \in others
    <3>1. ASSUME NEW x \in RoutingWriter \ {w}, x \notin others PROVE ~Active(writer'[x])
      BY <1>0, <1>2, <3>1 DEF others
    <3> QED
      BY <3>1
  <2>2. \A x \in others : x \in RoutingWriter \ {w} /\ writer'[x].alone = FALSE
    BY <1>2, <1>3 DEF others, Work
  <2>3. u = w
    BY <1>8, <2>1, <2>2
  <2>4. writer'[w].alone = b
    BY <1>2 DEF Work
  <2>5. others = {}
    BY <1>1, <1>8, <2>3, <2>4
  <2> QED
    BY <1>8, <2>1, <2>3, <2>5
<1> QED
  BY <1>2, <1>5, <1>7, <1>8, NothingIsSettled DEF RoutingInv, WritersOK

-----------------------------------------------------------------------------
\* What is known of one writer.
LEMMA OfWriter ==
  ASSUME RoutingInv, NEW w \in RoutingWriter
  PROVE  writer[w] \in Work /\ WorkSound(writer[w]) /\ Progress(writer[w], routes) /\ routes \in Routes
BY DEF RoutingInv, WritersOK

\* The agent a writer materializes next.
LEMMA NextIsFollowing ==
  ASSUME RoutingInv, NEW w \in RoutingWriter, Applying(writer[w]), writer[w].todo # {}
  PROVE  /\ NextAgent(w) = Following(writer[w]) /\ NextAgent(w) \in writer[w].todo
         /\ NextAgent(w) \in RoutedAgent /\ writer[w].want[NextAgent(w)] \in Model
<1>1. writer[w] \in Work /\ writer[w].todo \subseteq ToMaterialize(writer[w].want)
  BY OfWriter DEF WorkSound
<1>2. writer[w].want \in Routing /\ writer[w].todo \subseteq RoutedAgent
  BY <1>1 DEF Work
<1>3. NextAgent(w) = Following(writer[w]) /\ NextAgent(w) \in writer[w].todo
  BY DEF NextAgent, Following
<1> QED
  BY <1>1, <1>2, <1>3, ToMaterializeIs

\* One agent file, one model profile, read and written.
LEMMA MaterializingKeeps ==
  ASSUME RoutingInv, NEW w \in RoutingWriter, WriteFrontmatter(w) \/ ReadProfiles(w) \/ WriteProfile(w)
  PROVE  RoutingInv'
<1> DEFINE a == NextAgent(w)
<1>1. /\ writer[w] \in Work /\ WorkSound(writer[w]) /\ Progress(writer[w], routes) /\ routes \in Routes
      /\ Applying(writer[w]) /\ Active(writer[w]) /\ writer[w].todo # {}
  BY OfWriter DEF WriteFrontmatter, ReadProfiles, WriteProfile, Applying, Active, WorkSound
<1>2. a = Following(writer[w]) /\ a \in writer[w].todo /\ a \in RoutedAgent /\ writer[w].want[a] \in Model
  BY <1>1, NextIsFollowing
<1> HIDE DEF a
<1>3. UNCHANGED <<models, overrides, profiles, pins, orchestrator, settled>>
  BY DEF WriteFrontmatter, ReadProfiles, WriteProfile
<1>4. FilesOK'
  BY <1>3 DEF RoutingInv, FilesOK
<1>5. ASSUME NEW k \in Work, writer' = [writer EXCEPT ![w] = k], routes' \in Routes, k.alone = writer[w].alone,
             k.pc \in {"apply", "read", "write"}, k.kind = writer[w].kind, k.name = writer[w].name,
             k.file = writer[w].file, k.want = writer[w].want, k.todo \subseteq writer[w].todo,
             k.pc \in {"read", "write"} => k.todo # {}, k.pc = "write" => k.seen \in [RoutedAgent -> Model],
             Progress(k, routes')
      PROVE  RoutingInv'
  <2>1. WorkSound(k)
    BY <1>1, <1>5 DEF WorkSound, Applying
  <2>2. \A v \in RoutingWriter : Active(writer'[v]) => Active(writer[v])
    BY <1>1, <1>5 DEF RoutingInv, WritersOK
  <2>3. SettledOK'
    BY <1>1, <1>3, <1>5, <2>2, SettledStays
  <2> QED
    BY <1>1, <1>4, <1>5, <2>1, <2>3, WriterMoves
<1>6. CASE WriteFrontmatter(w)
  <2> DEFINE k == [writer[w] EXCEPT !.pc = "read"]
  <2>1. k \in Work
    BY <1>1, MovesAreWork DEF WriterPc
  <2>2. /\ k.pc = "read" /\ k.kind = writer[w].kind /\ k.name = writer[w].name /\ k.file = writer[w].file
        /\ k.want = writer[w].want /\ k.todo = writer[w].todo /\ k.alone = writer[w].alone
    BY <1>1 DEF Work
  <2>3. writer' = [writer EXCEPT ![w] = k]
    BY <1>6 DEF WriteFrontmatter
  <2>4. routes' = IF a \in Installed THEN [routes EXCEPT !.front[a] = writer[w].want[a]] ELSE routes
    BY <1>6 DEF WriteFrontmatter, a
  <2> HIDE DEF k
  <2>5. /\ routes' \in Routes /\ routes'.global = routes.global /\ routes'.project = routes.project
        /\ \A b \in RoutedAgent : b # a => routes'.front[b] = routes.front[b]
        /\ a \in Installed => routes'.front[a] = writer[w].want[a]
    BY <1>1, <1>2, <2>4 DEF Routes
  <2>6. \A b \in Installed \ writer[w].todo : HeldFor(routes', b) = HeldFor(routes, b)
    BY <1>2, <2>5, RoutingAssumption DEF HeldFor, FileOf
  <2>7. Following(k) = a
    BY <1>2, <2>2 DEF Following
  <2>8. Progress(k, routes')
    BY <1>1, <2>2, <2>5, <2>6, <2>7 DEF Progress, Applying
  <2> QED
    BY <1>1, <1>5, <2>1, <2>2, <2>3, <2>5, <2>8
<1>7. CASE ReadProfiles(w)
  <2> DEFINE k == [writer[w] EXCEPT !.pc = "write", !.seen = routes[FileOf(a)]]
  <2>0. routes[FileOf(a)] \in [RoutedAgent -> Model]
    BY <1>1 DEF Routes, FileOf
  <2>1. k \in Work
    BY <1>1, <2>0, MovesAreWork DEF WriterPc
  <2>2. /\ k.pc = "write" /\ k.kind = writer[w].kind /\ k.name = writer[w].name /\ k.file = writer[w].file
        /\ k.want = writer[w].want /\ k.todo = writer[w].todo /\ k.alone = writer[w].alone /\ k.seen = routes[FileOf(a)]
    BY <1>1 DEF Work
  <2>3. writer' = [writer EXCEPT ![w] = k] /\ routes' = routes /\ writer[w].pc = "read"
    BY <1>7 DEF ReadProfiles, a
  <2> HIDE DEF k
  <2>7. Following(k) = Following(writer[w]) /\ Following(k) = a
    BY <1>2, <2>2 DEF Following
  <2>8. Progress(k, routes')
    BY <1>1, <2>2, <2>3, <2>7 DEF Progress, Applying
  <2> QED
    BY <1>1, <1>5, <2>0, <2>1, <2>2, <2>3, <2>8
<1>8. CASE WriteProfile(w)
  <2> DEFINE t == writer[w].todo \ {a}
             k == [writer[w] EXCEPT !.pc = "apply", !.todo = t]
  <2>0. t \in SUBSET RoutedAgent
    BY <1>1 DEF Work
  <2>3. writer' = [writer EXCEPT ![w] = k] /\ writer[w].pc = "write"
    BY <1>8 DEF WriteProfile, a
  <2>4. routes' = IF writer[w].seen[a] = writer[w].want[a] THEN routes
                  ELSE [routes EXCEPT ![FileOf(a)] = [writer[w].seen EXCEPT ![a] = writer[w].want[a]]]
    BY <1>8 DEF WriteProfile, a
  <2>1. k \in Work
    BY <1>1, <2>0, MovesAreWork DEF WriterPc
  <2>2. /\ k.pc = "apply" /\ k.kind = writer[w].kind /\ k.name = writer[w].name /\ k.file = writer[w].file
        /\ k.want = writer[w].want /\ k.todo = t /\ k.alone = writer[w].alone
    BY <1>1 DEF Work
  <2> HIDE DEF k, t
  <2>5. writer[w].seen \in [RoutedAgent -> Model]
    BY <1>1, <2>3 DEF WorkSound
  <2>6. [writer[w].seen EXCEPT ![a] = writer[w].want[a]] \in [RoutedAgent -> Model]
    BY <1>2, <2>5
  <2>7. /\ routes' \in Routes /\ routes'.front = routes.front
        /\ \A file \in {"global", "project"} : file # FileOf(a) => routes'[file] = routes[file]
    <3>1. CASE FileOf(a) = "project"
      BY <1>1, <2>4, <2>6, <3>1 DEF Routes
    <3>2. CASE FileOf(a) = "global"
      BY <1>1, <2>4, <2>6, <3>2 DEF Routes
    <3> QED
      BY <3>1, <3>2 DEF FileOf
  <2>8. Progress(k, routes')
    <3>1. SUFFICES ASSUME writer[w].alone
                   PROVE  \A b \in (ToMaterialize(writer[w].want) \cap Installed) \ t : HeldFor(routes', b) = writer[w].want[b]
      BY <2>2 DEF Progress
    <3>2. /\ \A b \in (ToMaterialize(writer[w].want) \cap Installed) \ writer[w].todo : HeldFor(routes, b) = writer[w].want[b]
          /\ a \in Installed => routes.front[a] = writer[w].want[a]
          /\ writer[w].seen = routes[FileOf(a)]
      BY <1>1, <1>2, <2>3, <3>1 DEF Progress, Applying
    <3>3. /\ routes'[FileOf(a)][a] = writer[w].want[a]
          /\ \A b \in RoutedAgent : b # a => routes'[FileOf(a)][b] = routes[FileOf(a)][b]
      <4>1. CASE FileOf(a) = "project"
        BY <1>1, <1>2, <2>4, <2>5, <3>2, <4>1 DEF Routes
      <4>2. CASE FileOf(a) = "global"
        BY <1>1, <1>2, <2>4, <2>5, <3>2, <4>2 DEF Routes
      <4> QED
        BY <4>1, <4>2 DEF FileOf
    <3>4. ASSUME NEW b \in (ToMaterialize(writer[w].want) \cap Installed) \ t
          PROVE  HeldFor(routes', b) = writer[w].want[b]
      <4>1. b \in RoutedAgent
        BY RoutingAssumption
      <4>2. CASE b = a
        BY <2>7, <3>2, <3>3, <4>2 DEF HeldFor
      <4>3. CASE b # a
        <5>1. FileOf(b) \in {"global", "project"}
          BY DEF FileOf
        <5>2. routes'[FileOf(b)][b] = routes[FileOf(b)][b] /\ routes'.front[b] = routes.front[b]
          BY <2>7, <3>3, <4>1, <4>3, <5>1
        <5> QED
          BY <3>2, <4>3, <5>2 DEF HeldFor, t
      <4> QED
        BY <4>2, <4>3
    <3> QED
      BY <3>4
  <2>9. t \subseteq writer[w].todo
    BY DEF t
  <2> QED
    BY <1>1, <1>5, <2>1, <2>2, <2>3, <2>7, <2>8, <2>9
<1> QED
  BY <1>6, <1>7, <1>8

-----------------------------------------------------------------------------
\* A writer that is not at work promises nothing.
LEMMA Rests ==
  ASSUME RoutingInv, NEW w \in RoutingWriter, NEW k \in Work, writer' = [writer EXCEPT ![w] = k], ~Active(k),
         FilesOK', SettledOK', routes' = routes
  PROVE  RoutingInv'
<1>1. WorkSound(k) /\ Progress(k, routes')
  BY DEF WorkSound, Progress, Applying, Active
<1> QED
  BY <1>1, OfWriter, WriterMoves

\* A writer rests and what was settled stays.
LEMMA RestsQuietly ==
  ASSUME RoutingInv, NEW w \in RoutingWriter, NEW k \in Work, writer' = [writer EXCEPT ![w] = k], ~Active(k),
         FilesOK', pins'.local = pins.local, UNCHANGED <<routes, settled>>
  PROVE  RoutingInv'
<1>1. \A v \in RoutingWriter : Active(writer'[v]) => Active(writer[v])
  BY DEF RoutingInv, WritersOK
<1>2. routes' \in Routes
  BY OfWriter
<1>3. SettledOK'
  BY <1>1, <1>2, SettledStays
<1> QED
  BY <1>3, Rests

\* A writer that has written everything reports what is there.
LEMMA WriterSettles ==
  ASSUME RoutingInv, NEW w \in RoutingWriter, NEW k \in Work, writer' = [writer EXCEPT ![w] = k], ~Active(k),
         writer[w].pc = "apply", writer[w].todo = {}, routes' = routes, pins'.local = pins.local,
         NEW kind \in {"saved", "applied", "reverted"}, NEW name \in ProfileName \cup {"none"}, NEW r \in Routing,
         Settle(w, kind, name, r),
         kind = "saved" => r = writer[w].want,
         kind # "saved" => writer[w].want = WithOmittedCleared(r)
  PROVE  SettledOK'
<1>1. /\ writer[w] \in Work /\ Progress(writer[w], routes) /\ Applying(writer[w]) /\ Active(writer[w]) /\ routes' \in Routes
  BY OfWriter DEF Applying, Active
<1>2. \A v \in RoutingWriter : Active(writer'[v]) => v # w /\ Active(writer[v])
  BY DEF RoutingInv, WritersOK
<1>3. CASE ~writer[w].alone
  <2>1. settled' = settled
    BY <1>3 DEF Settle
  <2> QED
    BY <1>1, <1>2, <2>1, SettledStays
<1>4. CASE writer[w].alone
  <2>1. settled' = [kind |-> kind, name |-> name, routing |-> r]
    BY <1>4 DEF Settle
  <2>2. settled' \in SettledRouting /\ settled'.kind = kind /\ settled'.routing = r
    BY <2>1 DEF SettledRouting
  <2>3. \A v \in RoutingWriter : ~Active(writer'[v])
    BY <1>1, <1>2, <1>4 DEF RoutingInv, WritersOK
  <2>4. \A a \in ToMaterialize(writer[w].want) \cap Installed : HeldFor(routes, a) = writer[w].want[a]
    BY <1>1, <1>4 DEF Progress
  <2>5. writer[w].want \in Routing
    BY <1>1 DEF Work
  <2>6. \A a \in (Installed \ ProviderRole) \cap DOMAIN writer[w].want : HeldFor(routes, a) = writer[w].want[a]
    BY <2>4, <2>5, ToMaterializeIs
  <2>7. kind # "saved" => \A a \in Installed \ ProviderRole : HeldFor(routes, a) = Entry(r, a)
    BY <2>6, OmittedAreCleared
  <2>8. kind = "saved" => \A a \in Installed \ ProviderRole : a \in DOMAIN r => HeldFor(routes, a) = r[a]
    BY <2>6
  <2> QED
    BY <2>2, <2>3, <2>7, <2>8 DEF SettledOK
<1> QED
  BY <1>3, <1>4

\* A store that is written is a store.
LEMMA StoresAre ==
  ASSUME NEW f \in StoreFile
  PROVE  /\ DOMAIN f.of \subseteq ProfileName /\ \A n \in DOMAIN f.of : f.of[n] \in Routing
         /\ \A n \in ProfileName : [f EXCEPT !.active = n] \in StoreFile
         /\ \A g \in Profiles : [f EXCEPT !.of = g] \in StoreFile
         /\ \A n \in DOMAIN f.of, r \in Routing : [f EXCEPT !.of[n] = r] \in StoreFile
<1>1. f.of \in Profiles
  BY DEF StoreFile
<1>2. DOMAIN f.of \in SUBSET ProfileName /\ f.of \in [DOMAIN f.of -> Routing]
  BY <1>1, ProfilesAre
<1>3. \A n \in ProfileName : [f EXCEPT !.active = n] \in StoreFile
  BY Zenon DEF StoreFile
<1>4. \A g \in Profiles : [f EXCEPT !.of = g] \in StoreFile
  BY Zenon DEF StoreFile
<1>5. ASSUME NEW n \in DOMAIN f.of, NEW r \in Routing PROVE [f EXCEPT !.of[n] = r] \in StoreFile
  <2>1. [f.of EXCEPT ![n] = r] \in [DOMAIN f.of -> Routing]
    BY <1>2
  <2>2. [f.of EXCEPT ![n] = r] \in Profiles
    BY <1>2, <2>1, ProfilesAre
  <2>3. [f EXCEPT !.of[n] = r] = [f EXCEPT !.of = [f.of EXCEPT ![n] = r]]
    OBVIOUS
  <2> QED
    BY <1>4, <2>2, <2>3
<1> QED
  BY <1>2, <1>3, <1>4, <1>5

\* What the panels read and keep is a routing.
LEMMA ReadingsAreRoutings ==
  ASSUME RoutingInv
  PROVE  /\ GlobalEffective \in Routing /\ Effective \in Routing
         /\ \A r \in Routing : ProfileSnapshot(r) \in Routing /\ Bootstrap(r) \in StoreFile
<1>1. /\ models.routing \in Routing /\ profiles \in StoreFile /\ orchestrator \in ModelId \cup {"unset"}
      /\ \A file \in {"front", "global", "project"} : routes[file] \in [RoutedAgent -> Model]
  BY DEF RoutingInv, FilesOK, Routes
<1>2. GlobalEffective \in Routing
  <2> DEFINE read == IF models.status = "valid" THEN models.routing ELSE EmptyRouting
             materialized == {a \in Installed \ (ProviderRole \cup DOMAIN read) : Materialized(a) # Inherit}
  <2>1. DOMAIN read \subseteq RoutingKey /\ read \in [DOMAIN read -> Model]
    BY <1>1, RoutingIs
  <2>2. \A a \in RoutedAgent : Materialized(a) \in Model
    BY <1>1 DEF Materialized, FileOf
  <2>3. materialized \subseteq RoutedAgent
    BY RoutingAssumption
  <2> HIDE DEF read, materialized
  <2>4. [a \in DOMAIN read \cup materialized |-> IF a \in DOMAIN read THEN read[a] ELSE Materialized(a)]
          \in [DOMAIN read \cup materialized -> Model]
    BY <2>1, <2>2, <2>3
  <2>5. DOMAIN read \cup materialized \in SUBSET RoutingKey
    BY <2>1, <2>3 DEF RoutingKey
  <2>6. GlobalEffective = [a \in DOMAIN read \cup materialized |-> IF a \in DOMAIN read THEN read[a] ELSE Materialized(a)]
    BY DEF GlobalEffective, read, materialized
  <2> QED
    BY <2>4, <2>5, <2>6, RoutingIs
<1>3. Effective \in Routing
  <2> DEFINE name == PinWinner(pins, profiles)
             r == profiles.of[name]
  <2>1. CASE name = "none"
    BY <1>2, <2>1 DEF Effective
  <2>2. CASE name # "none"
    <3>1. name \in DOMAIN profiles.of
      BY <2>2 DEF PinWinner
    <3>2. r \in Routing
      BY <1>1, <3>1, StoresAre
    <3>3. DOMAIN r \subseteq RoutingKey /\ r \in [DOMAIN r -> Model]
      BY <3>2, RoutingIs
    <3>4. Effective = [a \in DOMAIN r \ {Orchestrator} |-> r[a]]
      BY <2>2 DEF Effective
    <3> HIDE DEF r
    <3>5. [a \in DOMAIN r \ {Orchestrator} |-> r[a]] \in [DOMAIN r \ {Orchestrator} -> Model]
      BY <3>3
    <3>6. DOMAIN r \ {Orchestrator} \in SUBSET RoutingKey
      BY <3>3
    <3> QED
      BY <3>4, <3>5, <3>6, RoutingIs
  <2> QED
    BY <2>1, <2>2
<1>4. ASSUME NEW r \in Routing PROVE ProfileSnapshot(r) \in Routing /\ Bootstrap(r) \in StoreFile
  <2>1. DOMAIN r \subseteq RoutingKey /\ r \in [DOMAIN r -> Model]
    BY RoutingIs
  <2>2. Bootstrap(r) \in StoreFile
    <3>1. [n \in {"current"} |-> r] \in [{"current"} -> Routing] /\ {"current"} \in SUBSET ProfileName
      BY RoutingAssumption
    <3>2. [n \in {"current"} |-> r] \in Profiles
      BY <3>1, ProfilesAre
    <3> QED
      BY <3>2, RoutingAssumption DEF Bootstrap, StoreFile
  <2>3. CASE orchestrator \in PairModel
    <3>1. orchestrator \in Model
      BY <2>3, RoutingAssumption DEF Model
    <3>2. [a \in DOMAIN r \cup {Orchestrator} |-> IF a = Orchestrator THEN orchestrator ELSE r[a]]
            \in [DOMAIN r \cup {Orchestrator} -> Model]
      BY <2>1, <3>1
    <3>3. DOMAIN r \cup {Orchestrator} \in SUBSET RoutingKey
      BY <2>1 DEF RoutingKey
    <3> QED
      BY <2>3, <3>2, <3>3, RoutingIs, <2>2 DEF ProfileSnapshot
  <2>4. CASE orchestrator \notin PairModel
    BY <2>4, <2>2 DEF ProfileSnapshot
  <2> QED
    BY <2>3, <2>4
<1> QED
  BY <1>2, <1>3, <1>4

\* Entries that are not a routing are dropped.
LEMMA NormalizedIsRouting ==
  ASSUME NEW raw \in RoutingTried
  PROVE  Normalize(raw) \in Routing
<1>1. PICK K \in SUBSET RoutingKey : raw \in [K -> ModelId \cup {Inherit, Malformed}]
  BY RoutingAssumption
<1> DEFINE D == {x \in DOMAIN raw : raw[x] # Malformed}
<1>2. D \in SUBSET RoutingKey /\ [a \in D |-> raw[a]] \in [D -> Model]
  BY <1>1 DEF Model
<1> QED
  BY <1>2, RoutingIs DEF Normalize

\* A writer that has not written stays idle, or opens a panel over a store.
LEMMA ResumedIsWork ==
  /\ \A pc \in WriterPc : [IdleWriter EXCEPT !.pc = pc] \in Work
  /\ \A f \in StoreFile : [IdleWriter EXCEPT !.pc = "open", !.file = f] \in Work
  /\ \A kind \in {"start", "models"}, r \in Routing, t \in SUBSET RoutedAgent :
       /\ [IdleWriter EXCEPT !.pc = "apply", !.kind = kind, !.want = r, !.todo = t] \in Work
<1>1. IdleWriter \in Work /\ "open" \in WriterPc /\ "apply" \in WriterPc
  BY IdleIsWork DEF WriterPc
<1> QED
  BY <1>1, MovesAreWork

\* A writer that starts to apply a routing it was given.
LEMMA FirstApplyIsSound ==
  ASSUME NEW kind \in {"start", "models"}, NEW r \in Routing
  PROVE  LET k == [IdleWriter EXCEPT !.pc = "apply", !.kind = kind, !.want = r, !.todo = ToMaterialize(r)]
         IN  k \in Work /\ WorkSound(k) /\ k.pc = "apply" /\ k.todo = ToMaterialize(k.want)
<1> DEFINE k == [IdleWriter EXCEPT !.pc = "apply", !.kind = kind, !.want = r, !.todo = ToMaterialize(r)]
<1>1. k \in Work
  BY ResumedIsWork, ToMaterializeIs
<1>2. k.pc = "apply" /\ k.kind = kind /\ k.want = r /\ k.todo = ToMaterialize(r)
  BY DEF IdleWriter
<1> HIDE DEF k
<1>3. WorkSound(k)
  BY <1>2 DEF WorkSound, Applying
<1> QED
  BY <1>1, <1>2, <1>3 DEF k

\* Legacy overrides move into model profiles.
LEMMA MigratedAre ==
  ASSUME RoutingInv, NEW file \in {"global", "project"}
  PROVE  Migrated(file) \in [RoutedAgent -> Model]
<1>1. overrides \in [RoutedAgent -> Model \cup {Malformed}] /\ routes[file] \in [RoutedAgent -> Model]
  BY DEF RoutingInv, FilesOK, Routes
<1>2. \A a \in RoutedAgent : overrides[a] \in ModelId => overrides[a] \in Model
  BY DEF Model
<1> QED
  BY <1>1, <1>2 DEF Migrated

\* The sweep of a session that starts.
LEMMA BeginStartKeeps ==
  ASSUME RoutingInv, NEW w \in RoutingWriter, BeginStart(w)
  PROVE  RoutingInv'
<1> DEFINE read == IF models.status = "valid" THEN models.routing ELSE EmptyRouting
<1>1. read \in Routing
  BY RoutingIs DEF RoutingInv, FilesOK
<1>2. /\ routes' = [front |-> [a \in RoutedAgent |-> IF a \in Packaged THEN Inherit ELSE routes.front[a]],
                    global |-> Migrated("global"), project |-> Migrated("project")]
      /\ overrides' = [a \in RoutedAgent |-> Inherit]
      /\ UNCHANGED <<models, profiles, pins, orchestrator>>
      /\ IF models.status = "invalid" THEN BeginWriting(w, IdleWriter)
         ELSE BeginWriting(w, [IdleWriter EXCEPT !.pc = "apply", !.kind = "start", !.want = read, !.todo = ToMaterialize(read)])
  BY DEF BeginStart
<1> HIDE DEF read
<1>3. routes' \in Routes
  <2>1. Migrated("global") \in [RoutedAgent -> Model] /\ Migrated("project") \in [RoutedAgent -> Model]
    BY MigratedAre
  <2>2. [a \in RoutedAgent |-> IF a \in Packaged THEN Inherit ELSE routes.front[a]] \in [RoutedAgent -> Model]
    BY OfWriter DEF Routes, Model
  <2> QED
    BY <1>2, <2>1, <2>2 DEF Routes
<1>4. FilesOK'
  BY <1>2 DEF RoutingInv, FilesOK, Model
<1>5. CASE BeginWriting(w, IdleWriter)
  <2>1. WorkSound(IdleWriter)
    BY IdleIsWork DEF WorkSound, Applying
  <2> QED
    BY <1>3, <1>4, <1>5, <2>1, IdleIsWork, RoutingBegins
<1>6. CASE BeginWriting(w, [IdleWriter EXCEPT !.pc = "apply", !.kind = "start", !.want = read, !.todo = ToMaterialize(read)])
  BY <1>1, <1>3, <1>4, <1>6, FirstApplyIsSound, RoutingBegins
<1> QED
  BY <1>2, <1>5, <1>6

\* The models panel is saved.
LEMMA SaveModelsKeeps ==
  ASSUME RoutingInv, NEW w \in RoutingWriter, NEW raw \in RoutingTried, SaveModels(w, raw)
  PROVE  RoutingInv'
<1> DEFINE r == Normalize(raw)
<1>1. r \in Routing
  BY NormalizedIsRouting
<1>2. /\ models' = [status |-> "valid", routing |-> r]
      /\ UNCHANGED <<routes, overrides, profiles, pins, orchestrator>>
      /\ BeginWriting(w, [IdleWriter EXCEPT !.pc = "apply", !.kind = "models", !.want = r, !.todo = ToMaterialize(r)])
  BY DEF SaveModels
<1> HIDE DEF r
<1>3. FilesOK'
  BY <1>1, <1>2 DEF RoutingInv, FilesOK
<1>4. routes' \in Routes
  BY <1>2, OfWriter
<1> QED
  BY <1>1, <1>2, <1>3, <1>4, FirstApplyIsSound, RoutingBegins

\* A sweep or a save ends, is kept in a profile too, or is given up; a process dies.
LEMMA RoutingEndingsKeep ==
  ASSUME RoutingInv, NEW w \in RoutingWriter,
         EndStart(w) \/ SaveToProfile(w) \/ AbandonApply(w) \/ CrashWriter(w) \/ ClosePanel(w)
  PROVE  RoutingInv'
<1>1. /\ IdleWriter \in Work /\ ~Active(IdleWriter) /\ writer' = [writer EXCEPT ![w] = IdleWriter]
      /\ UNCHANGED <<models, routes, overrides, pins, orchestrator>>
  BY IdleIsWork DEF EndStart, SaveToProfile, AbandonApply, CrashWriter, ClosePanel, Active
<1>2. profiles' \in StoreFile
  <2>1. CASE profiles' = profiles
    BY <2>1 DEF RoutingInv, FilesOK
  <2>2. CASE SaveToProfile(w)
    <3>1. profiles \in StoreFile /\ ProfileSnapshot(GlobalEffective) \in Routing /\ Bootstrap(ProfileSnapshot(GlobalEffective)) \in StoreFile
      BY ReadingsAreRoutings DEF RoutingInv, FilesOK
    <3>2. PICK target : profiles' = IF target \in DOMAIN profiles.of
                   THEN [profiles EXCEPT !.of[target] = ProfileSnapshot(GlobalEffective)]
                   ELSE IF profiles.here THEN profiles ELSE Bootstrap(ProfileSnapshot(GlobalEffective))
      BY <2>2 DEF SaveToProfile
    <3> QED
      BY <3>1, <3>2, StoresAre
  <2> QED
    BY <2>1, <2>2 DEF EndStart, AbandonApply, CrashWriter, ClosePanel
<1>3. FilesOK'
  BY <1>1, <1>2 DEF RoutingInv, FilesOK
<1>4. CASE AbandonApply(w) \/ CrashWriter(w) \/ ClosePanel(w)
  <2>1. settled' = settled
    BY <1>4 DEF AbandonApply, CrashWriter, ClosePanel
  <2> QED
    BY <1>1, <1>3, <2>1, RestsQuietly
<1>5. CASE EndStart(w) \/ SaveToProfile(w)
  <2>1. /\ writer[w].pc = "apply" /\ writer[w].todo = {} /\ Settle(w, "saved", "none", writer[w].want)
    BY <1>5 DEF EndStart, SaveToProfile
  <2>2. writer[w].want \in Routing
    BY OfWriter DEF Work
  <2>3. SettledOK'
    BY <1>1, <2>1, <2>2, WriterSettles
  <2> QED
    BY <1>1, <1>3, <2>3, Rests
<1> QED
  BY <1>4, <1>5

-----------------------------------------------------------------------------
\* A writer that is no longer alone still knows what it reports.
LEMMA SolitudeEnds ==
  ASSUME NEW k \in Work, WorkSound(k)
  PROVE  [k EXCEPT !.alone = FALSE] \in Work /\ WorkSound([k EXCEPT !.alone = FALSE]) /\ ~[k EXCEPT !.alone = FALSE].alone
<1> DEFINE j == [k EXCEPT !.alone = FALSE]
<1>1. /\ j.pc = k.pc /\ j.kind = k.kind /\ j.name = k.name /\ j.file = k.file
      /\ j.want = k.want /\ j.todo = k.todo /\ j.seen = k.seen /\ j.alone = FALSE
  BY DEF Work
<1>2. j \in Work
  BY MovesAreWork
<1> HIDE DEF j
<1>3. WorkSound(j)
  BY <1>1 DEF WorkSound, Applying
<1> QED
  BY <1>1, <1>2, <1>3 DEF j

\* What changes behind every writer's back.
LEMMA Interrupted ==
  ASSUME RoutingInv, routes' \in Routes, FilesOK', settled' = NothingSettled,
         writer' \in [RoutingWriter -> Work],
         \A v \in RoutingWriter : WorkSound(writer'[v]) /\ (Active(writer'[v]) => ~writer'[v].alone)
  PROVE  RoutingInv'
<1>1. \A v \in RoutingWriter : Progress(writer'[v], routes')
  BY DEF Progress, Applying, Active
<1> QED
  BY <1>1, NothingIsSettled DEF RoutingInv, WritersOK

\* The user edits a file by hand.
LEMMA HandEditKeeps == ASSUME RoutingInv, HandEdit PROVE RoutingInv'
<1>1. /\ settled' = NothingSettled /\ UNCHANGED <<overrides, profiles, orchestrator>>
      /\ writer' = [v \in RoutingWriter |-> IF Running(v) THEN [writer[v] EXCEPT !.alone = FALSE] ELSE writer[v]]
  BY DEF HandEdit
<1>2. ASSUME NEW v \in RoutingWriter
      PROVE  writer'[v] \in Work /\ WorkSound(writer'[v]) /\ (Active(writer'[v]) => ~writer'[v].alone)
  <2>1. writer[v] \in Work /\ WorkSound(writer[v])
    BY OfWriter
  <2>2. CASE Running(v)
    BY <1>1, <2>1, <2>2, SolitudeEnds
  <2>3. CASE ~Running(v)
    BY <1>1, <2>1, <2>3 DEF Running, Active
  <2> QED
    BY <2>2, <2>3
<1>3. writer' \in [RoutingWriter -> Work]
  BY <1>1, <1>2
<1>4. FilesOK' /\ routes' \in Routes
  <2>1. FilesOK /\ routes \in Routes
    BY DEF RoutingInv
  <2>2. CASE UNCHANGED <<routes, pins>> /\ \E s \in {"missing", "invalid"} : models' = [status |-> s, routing |-> EmptyRouting]
    BY <1>1, <2>1, <2>2, RoutingIs DEF FilesOK
  <2>3. CASE UNCHANGED <<models, pins>> /\ \E a \in Installed, m \in ModelId : routes' = [routes EXCEPT !.front[a] = m]
    <3>1. PICK a \in Installed, m \in ModelId : routes' = [routes EXCEPT !.front[a] = m]
      BY <2>3
    <3>2. [routes.front EXCEPT ![a] = m] \in [RoutedAgent -> Model]
      BY <2>1 DEF Routes, Model
    <3>3. routes' \in Routes
      BY <2>1, <3>1, <3>2 DEF Routes
    <3> QED
      BY <1>1, <2>1, <2>3, <3>3 DEF FilesOK
  <2>4. CASE UNCHANGED <<models, routes>> /\ \E n \in ProfileName \cup {"none", "invalid"} : pins' = [pins EXCEPT !.repo = n]
    BY <1>1, <2>1, <2>4 DEF FilesOK
  <2> QED
    BY <2>2, <2>3, <2>4 DEF HandEdit
<1> QED
  BY <1>1, <1>2, <1>3, <1>4, Interrupted

\* The models panel opens, after the legacy overrides have moved.
LEMMA OpenModelsKeeps ==
  ASSUME RoutingInv, NEW w \in RoutingWriter, OpenModels(w)
  PROVE  RoutingInv'
<1>1. PICK pc \in {"idle", "models"} : pc = IF models.status = "invalid" THEN "idle" ELSE "models"
  OBVIOUS
<1> DEFINE k == [IdleWriter EXCEPT !.pc = pc]
<1>2. k \in Work /\ k.pc = pc
  BY ResumedIsWork DEF WriterPc, IdleWriter
<1>3. /\ routes' = [routes EXCEPT !.global = Migrated("global"), !.project = Migrated("project")]
      /\ overrides' = [a \in RoutedAgent |-> Inherit]
      /\ settled' = IF routes' = routes THEN settled ELSE NothingSettled
      /\ writer' = [v \in RoutingWriter |->
                      IF v = w THEN k
                      ELSE IF Running(v) /\ routes' # routes THEN [writer[v] EXCEPT !.alone = FALSE]
                      ELSE writer[v]]
      /\ UNCHANGED <<models, profiles, pins, orchestrator>>
  BY <1>1 DEF OpenModels
<1> HIDE DEF k
<1>4. FilesOK'
  BY <1>3 DEF RoutingInv, FilesOK, Model
<1>5. routes' \in Routes
  <2>1. Migrated("global") \in [RoutedAgent -> Model] /\ Migrated("project") \in [RoutedAgent -> Model]
    BY MigratedAre
  <2> QED
    BY <1>3, <2>1, OfWriter DEF Routes
<1>6. ~Active(k) /\ WorkSound(k)
  BY <1>2 DEF Active, WorkSound, Applying
<1>7. CASE routes' = routes
  <2>2. writer' = [writer EXCEPT ![w] = k]
    BY <1>3, <1>7 DEF RoutingInv, WritersOK
  <2> QED
    BY <1>2, <1>3, <1>4, <1>6, <1>7, <2>2, RestsQuietly
<1>8. CASE routes' # routes
  <2>1. ASSUME NEW v \in RoutingWriter
        PROVE  writer'[v] \in Work /\ WorkSound(writer'[v]) /\ (Active(writer'[v]) => ~writer'[v].alone)
    <3>1. writer[v] \in Work /\ WorkSound(writer[v])
      BY OfWriter
    <3>2. CASE v = w
      BY <1>2, <1>3, <1>6, <3>2
    <3>3. CASE v # w /\ Running(v)
      BY <1>3, <1>8, <3>1, <3>3, SolitudeEnds
    <3>4. CASE v # w /\ ~Running(v)
      BY <1>3, <3>1, <3>4 DEF Running, Active
    <3> QED
      BY <3>2, <3>3, <3>4
  <2>2. writer' \in [RoutingWriter -> Work]
    BY <1>3, <2>1
  <2> QED
    BY <1>3, <1>4, <1>5, <1>8, <2>1, <2>2, Interrupted
<1> QED
  BY <1>7, <1>8

\* A step of a panel after which this writer rests and what was settled stays or is gone.
LEMMA UnsettledRests ==
  ASSUME RoutingInv, NEW w \in RoutingWriter, NEW k \in Work, writer' = [writer EXCEPT ![w] = k], ~Active(k),
         FilesOK', UNCHANGED routes, UnsettlePinned
  PROVE  RoutingInv'
<1>1. routes' \in Routes
  BY OfWriter
<1>2. \A v \in RoutingWriter : Active(writer'[v]) => Active(writer[v])
  BY DEF RoutingInv, WritersOK
<1>3. SettledOK'
  <2>1. CASE settled.kind = "pinned"
    BY <2>1, NothingIsSettled DEF UnsettlePinned
  <2>2. CASE settled.kind # "pinned"
    BY <1>1, <1>2, <2>2, SettledStays DEF UnsettlePinned
  <2> QED
    BY <2>1, <2>2
<1> QED
  BY <1>3, Rests

\* An action of a panel writes the store.
LEMMA StoreKeeps ==
  ASSUME RoutingInv, NEW w \in RoutingWriter, NEW f \in StoreFile, Store(w, f), FilesOK'
  PROVE  RoutingInv'
<1> DEFINE k == [writer[w] EXCEPT !.pc = "open", !.file = f]
<1>0. writer[w] \in Work /\ "open" \in WriterPc
  BY OfWriter DEF WriterPc
<1>1. k \in Work /\ k.pc = "open"
  <2>1. k \in Work
    BY <1>0, MovesAreWork
  <2>2. k.pc = "open"
    BY <1>0 DEF Work
  <2> QED
    BY <2>1, <2>2
<1>2. /\ writer' = [writer EXCEPT ![w] = k] /\ routes' = routes
      /\ settled' = IF settled.kind = "pinned" THEN NothingSettled ELSE settled
  BY DEF Store, UnsettlePinned
<1> HIDE DEF k
<1>3. ~Active(k)
  BY <1>1 DEF Active
<1> QED
  BY <1>1, <1>2, <1>3, UnsettledRests DEF UnsettlePinned

\* A name is written or taken away.
LEMMA WithAndWithout ==
  ASSUME NEW f \in StoreFile, NEW n \in ProfileName
  PROVE  /\ \A r \in Routing : With(f, n, r) \in StoreFile
         /\ Without(f, n) \in StoreFile
         /\ \A m \in DOMAIN f.of : Renamed(f, m, n) \in StoreFile
<1>1. DOMAIN f.of \subseteq ProfileName /\ \A m \in DOMAIN f.of : f.of[m] \in Routing
  BY StoresAre
<1>2. ASSUME NEW r \in Routing PROVE With(f, n, r) \in StoreFile
  <2> DEFINE g == [m \in DOMAIN f.of \cup {n} |-> IF m = n THEN r ELSE f.of[m]]
  <2>1. g \in [DOMAIN f.of \cup {n} -> Routing] /\ DOMAIN f.of \cup {n} \in SUBSET ProfileName
    BY <1>1
  <2>2. g \in Profiles
    BY <2>1, ProfilesAre
  <2>3. With(f, n, r) = [f EXCEPT !.of = g]
    BY DEF With
  <2> QED
    BY <2>2, <2>3, StoresAre
<1>3. Without(f, n) \in StoreFile
  <2> DEFINE g == [m \in DOMAIN f.of \ {n} |-> f.of[m]]
  <2>1. g \in [DOMAIN f.of \ {n} -> Routing] /\ DOMAIN f.of \ {n} \in SUBSET ProfileName
    BY <1>1
  <2>2. g \in Profiles
    BY <2>1, ProfilesAre
  <2>3. Without(f, n) = [f EXCEPT !.of = g]
    BY DEF Without
  <2> QED
    BY <2>2, <2>3, StoresAre
<1>4. ASSUME NEW m \in DOMAIN f.of PROVE Renamed(f, m, n) \in StoreFile
  <2> DEFINE g == [x \in (DOMAIN f.of \ {m}) \cup {n} |-> IF x = n THEN f.of[m] ELSE f.of[x]]
  <2>1. g \in [(DOMAIN f.of \ {m}) \cup {n} -> Routing] /\ (DOMAIN f.of \ {m}) \cup {n} \in SUBSET ProfileName
    BY <1>1
  <2>2. g \in Profiles
    BY <2>1, ProfilesAre
  <2>3. f.active \in ProfileName \cup {"none"}
    BY DEF StoreFile
  <2> HIDE DEF g
  <2>4. Renamed(f, m, n) = [here |-> TRUE, active |-> IF f.active = m THEN n ELSE f.active, of |-> g]
    BY DEF Renamed, g
  <2> QED
    BY <2>2, <2>3, <2>4 DEF StoreFile
<1> QED
  BY <1>2, <1>3, <1>4

\* The panel opens, over the store or over a seeded one.
LEMMA OpenPanelKeeps ==
  ASSUME RoutingInv, NEW w \in RoutingWriter, OpenPanel(w)
  PROVE  RoutingInv'
<1> DEFINE store == IF profiles.here THEN profiles ELSE Bootstrap(Effective)
           k == [IdleWriter EXCEPT !.pc = "open", !.file = store]
<1>1. store \in StoreFile
  BY ReadingsAreRoutings DEF RoutingInv, FilesOK
<1>2. profiles' = store /\ writer' = [writer EXCEPT ![w] = k]
      /\ UNCHANGED <<models, routes, overrides, pins, orchestrator, settled>>
  BY DEF OpenPanel
<1> HIDE DEF store
<1>3. k \in Work
  BY <1>1, ResumedIsWork
<1>4. k.pc = "open"
  BY DEF IdleWriter
<1>5. FilesOK'
  BY <1>1, <1>2 DEF RoutingInv, FilesOK
<1> QED
  BY <1>2, <1>3, <1>4, <1>5, RestsQuietly DEF Active

\* A profile is renamed in the store, and then the pin follows, or does not.
LEMMA RenamesKeep ==
  ASSUME RoutingInv, NEW w \in RoutingWriter,
         FollowRenamedPin(w) \/ \E from \in ProfileName, to \in ProfileName : RenameProfile(w, from, to)
  PROVE  RoutingInv'
<1>1. writer[w] \in Work /\ writer[w].file \in StoreFile /\ writer[w].name \in ProfileName \cup {"none"}
  BY OfWriter DEF Work
<1>2. FilesOK
  BY DEF RoutingInv
<1>3. ASSUME NEW from \in ProfileName, NEW to \in ProfileName, RenameProfile(w, from, to)
      PROVE  RoutingInv'
  <2> DEFINE f == Renamed(writer[w].file, from, to)
             k == [writer[w] EXCEPT !.pc = "following", !.name = to, !.from = from, !.file = f]
  <2>1. /\ writer' = [writer EXCEPT ![w] = k] /\ profiles' = f /\ UnsettlePinned
        /\ from \in DOMAIN writer[w].file.of /\ UNCHANGED <<models, routes, overrides, pins, orchestrator>>
    <3>1. writer' = [writer EXCEPT ![w].pc = "following", ![w].name = to, ![w].from = from, ![w].file = f]
      BY <1>3, Zenon DEF RenameProfile
    <3>2. writer' = [writer EXCEPT ![w] = k]
      <4> HIDE DEF f
      <4>1. ASSUME NEW v \in RoutingWriter PROVE writer'[v] = IF v = w THEN k ELSE writer[v]
        BY <3>1 DEF RoutingInv, WritersOK
      <4>2. writer' \in [RoutingWriter -> {writer'[v] : v \in RoutingWriter}] /\ writer \in [RoutingWriter -> Work]
        BY <3>1 DEF RoutingInv, WritersOK
      <4> HIDE DEF k
      <4> QED
        BY <4>1, <4>2
    <3>3. profiles' = f /\ UnsettlePinned /\ from \in DOMAIN writer[w].file.of
          /\ UNCHANGED <<models, routes, overrides, pins, orchestrator>>
      BY <1>3, Zenon DEF RenameProfile
    <3> QED
      BY <3>2, <3>3
  <2>2. f \in StoreFile
    BY <1>1, <2>1, WithAndWithout
  <2> HIDE DEF f
  <2>3. k \in Work
    BY <1>1, <2>2, MovesAreWork DEF WriterPc
  <2>4. k.pc = "following"
    BY <1>1 DEF Work
  <2>5. FilesOK'
    BY <1>2, <2>1, <2>2 DEF FilesOK
  <2> HIDE DEF k
  <2> QED
    BY <2>1, <2>3, <2>4, <2>5, UnsettledRests DEF Active
<1>4. CASE FollowRenamedPin(w)
  <2> DEFINE k == [writer[w] EXCEPT !.pc = "open", !.from = "none"]
  <2>1. /\ writer' = [writer EXCEPT ![w] = k] /\ UNCHANGED <<models, routes, overrides, profiles, orchestrator>>
        /\ \/ pins' = [pins EXCEPT !.local = writer[w].name] /\ UnsettlePinned
           \/ UNCHANGED <<pins, settled>>
    BY <1>4 DEF FollowRenamedPin
  <2>2. k \in Work
    BY <1>1, MovesAreWork DEF WriterPc
  <2>3. k.pc = "open"
    BY <1>1 DEF Work
  <2>4. FilesOK'
    BY <1>1, <1>2, <2>1 DEF FilesOK
  <2> HIDE DEF k
  <2>5. CASE UnsettlePinned
    BY <2>1, <2>2, <2>3, <2>4, <2>5, UnsettledRests DEF Active
  <2>6. CASE UNCHANGED <<pins, settled>>
    BY <2>1, <2>2, <2>3, <2>4, <2>6, RestsQuietly DEF Active
  <2> QED
    BY <2>1, <2>5, <2>6
<1> QED
  BY <1>3, <1>4

\* A profile is created, updated, duplicated, imported or deleted.
LEMMA PanelWritesKeep ==
  ASSUME RoutingInv, NEW w \in RoutingWriter,
         \/ \E n \in ProfileName, how \in {"create", "update", "duplicate", "import"} : PutProfile(w, n, how)
         \/ \E yes \in BOOLEAN : DeleteAnswered(w, yes)
  PROVE  RoutingInv'
<1>1. writer[w] \in Work /\ writer[w].file \in StoreFile /\ writer[w].name \in ProfileName \cup {"none"}
  BY OfWriter DEF Work
<1>2. ASSUME NEW f \in StoreFile, Store(w, f), pins' \in [local : ProfileName \cup {"none"}, repo : ProfileName \cup {"none", "invalid"}]
      PROVE  RoutingInv'
  <2>1. FilesOK'
    BY <1>2 DEF Store, RoutingInv, FilesOK
  <2> QED
    BY <1>2, <2>1, StoreKeeps
<1>3. pins \in [local : ProfileName \cup {"none"}, repo : ProfileName \cup {"none", "invalid"}]
  BY DEF RoutingInv, FilesOK
<1>4. ASSUME NEW n \in ProfileName, NEW how \in {"create", "update", "duplicate", "import"}, PutProfile(w, n, how)
      PROVE  RoutingInv'
  <2>1. PICK r \in Routing : Store(w, With(writer[w].file, n, r))
    <3>1. CASE how = "create"
      BY <1>4, <3>1, RoutingIs DEF PutProfile
    <3>2. CASE how = "update"
      <4>1. Effective \in Routing /\ ProfileSnapshot(Effective) \in Routing
        BY ReadingsAreRoutings
      <4> QED
        BY <1>4, <3>2, <4>1 DEF PutProfile
    <3>3. CASE how = "duplicate"
      <4>1. PICK from \in DOMAIN writer[w].file.of : Store(w, With(writer[w].file, n, writer[w].file.of[from]))
        BY <1>4, <3>3 DEF PutProfile
      <4> QED
        BY <1>1, <4>1, StoresAre
    <3>4. CASE how = "import"
      <4>1. PICK raw \in RoutingTried : Store(w, With(writer[w].file, n, Normalize(raw)))
        BY <1>4, <3>4 DEF PutProfile
      <4> QED
        BY <4>1, NormalizedIsRouting
    <3> QED
      BY <3>1, <3>2, <3>3, <3>4
  <2>2. pins' = pins
    BY <1>4 DEF PutProfile
  <2> QED
    BY <1>1, <1>2, <1>3, <2>1, <2>2, WithAndWithout
<1>5. ASSUME NEW yes \in BOOLEAN, DeleteAnswered(w, yes)
      PROVE  RoutingInv'
  <2>1. writer[w].pc = "asking" /\ pins' = pins
    BY <1>5 DEF DeleteAnswered
  <2>2. CASE Store(w, Without(writer[w].file, writer[w].name))
    <3>1. CASE writer[w].name \in ProfileName
      BY <1>1, <1>2, <1>3, <2>1, <2>2, <3>1, WithAndWithout
    <3>2. CASE writer[w].name \notin ProfileName
      <4>1. DOMAIN writer[w].file.of \ {writer[w].name} = DOMAIN writer[w].file.of
        BY <1>1, <3>2, StoresAre
      <4>2. writer[w].file.of \in Profiles
        BY <1>1 DEF StoreFile
      <4>3. Without(writer[w].file, writer[w].name) \in StoreFile
        <5>1. [x \in DOMAIN writer[w].file.of |-> writer[w].file.of[x]] = writer[w].file.of
          BY <4>2, ProfilesAre
        <5>2. Without(writer[w].file, writer[w].name) = [writer[w].file EXCEPT !.of = writer[w].file.of]
          BY <4>1, <5>1 DEF Without
        <5> QED
          BY <1>1, <4>2, <5>2, StoresAre
      <4> QED
        BY <1>2, <1>3, <2>1, <2>2, <4>3
    <3> QED
      BY <3>1, <3>2
  <2>3. CASE writer' = [writer EXCEPT ![w].pc = "open"] /\ UNCHANGED <<models, routes, overrides, profiles, orchestrator, settled>>
    <3> DEFINE k == [writer[w] EXCEPT !.pc = "open"]
    <3>1. k \in Work
      BY <1>1, MovesAreWork DEF WriterPc
    <3>2. k.pc = "open"
      BY <1>1 DEF Work
    <3>3. writer' = [writer EXCEPT ![w] = k]
      BY <2>3
    <3>4. FilesOK'
      BY <2>1, <2>3 DEF RoutingInv, FilesOK
    <3> HIDE DEF k
    <3> QED
      BY <2>1, <2>3, <3>1, <3>2, <3>3, <3>4, RestsQuietly DEF Active
  <2> QED
    BY <1>5, <2>2, <2>3 DEF DeleteAnswered
<1> QED
  BY <1>4, <1>5

\* A delete is asked about; a pin is toggled, or moved by an apply.
LEMMA PinsKeep ==
  ASSUME RoutingInv, NEW w \in RoutingWriter, NEW n \in ProfileName,
         AskDelete(w, n) \/ ApplyPinned(w, n) \/ \E layer \in {"local", "repo"} : TogglePin(w, n, layer)
  PROVE  RoutingInv'
<1>1. pins \in [local : ProfileName \cup {"none"}, repo : ProfileName \cup {"none", "invalid"}]
  BY DEF RoutingInv, FilesOK
<1>2. ASSUME writer' = writer, UNCHANGED <<models, routes, overrides, profiles, orchestrator>>, SettledOK',
             pins' \in [local : ProfileName \cup {"none"}, repo : ProfileName \cup {"none", "invalid"}]
      PROVE  RoutingInv'
  <2>1. FilesOK'
    BY <1>2 DEF RoutingInv, FilesOK
  <2>2. WritersOK'
    BY <1>2 DEF RoutingInv, WritersOK
  <2> QED
    BY <1>2, <2>1, <2>2 DEF RoutingInv
<1>3. CASE AskDelete(w, n)
  <2> DEFINE k == [writer[w] EXCEPT !.pc = "asking", !.name = n]
  <2>0. writer[w] \in Work /\ "asking" \in WriterPc
    BY OfWriter DEF WriterPc
  <2>1. k \in Work
    BY <2>0, MovesAreWork
  <2>2. k.pc = "asking"
    BY <2>0 DEF Work
  <2>3. writer' = [writer EXCEPT ![w] = k] /\ UNCHANGED <<models, routes, overrides, profiles, pins, orchestrator, settled>>
    BY <1>3 DEF AskDelete
  <2>4. FilesOK'
    BY <2>3 DEF RoutingInv, FilesOK
  <2> HIDE DEF k
  <2> QED
    BY <2>1, <2>2, <2>3, <2>4, RestsQuietly DEF Active
<1>4. CASE ApplyPinned(w, n)
  <2>1. /\ settled' = [kind |-> "pinned", name |-> n, routing |-> EmptyRouting] /\ pins' = [pins EXCEPT !.local = n]
        /\ writer' = writer /\ UNCHANGED <<models, routes, overrides, profiles, orchestrator>>
    BY <1>4 DEF ApplyPinned
  <2>2. SettledOK'
    BY <1>1, <2>1, RoutingIs DEF SettledOK, SettledRouting
  <2> QED
    BY <1>1, <1>2, <2>1, <2>2
<1>5. ASSUME NEW layer \in {"local", "repo"}, TogglePin(w, n, layer) PROVE RoutingInv'
  <2>1. /\ settled' = IF settled.kind = "pinned" THEN NothingSettled ELSE settled
        /\ writer' = writer /\ UNCHANGED <<models, routes, overrides, profiles, orchestrator>>
    BY <1>5 DEF TogglePin, UnsettlePinned
  <2>2. PICK v \in ProfileName \cup {"none"} : pins' = [pins EXCEPT ![layer] = v]
    BY <1>5 DEF TogglePin
  <2>3. pins' \in [local : ProfileName \cup {"none"}, repo : ProfileName \cup {"none", "invalid"}]
    <3>1. CASE layer = "local"
      BY <1>1, <2>2, <3>1
    <3>2. CASE layer = "repo"
      BY <1>1, <2>2, <3>2
    <3> QED
      BY <3>1, <3>2
  <2>4. SettledOK'
    <3>1. CASE settled.kind = "pinned"
      BY <2>1, <3>1, NothingIsSettled
    <3>2. CASE settled.kind # "pinned"
      BY <2>1, <3>2, SettledStays DEF RoutingInv
    <3> QED
      BY <3>1, <3>2
  <2> QED
    BY <1>2, <2>1, <2>3, <2>4
<1> QED
  BY <1>3, <1>4, <1>5

\* An apply claims the profile first.
LEMMA ClaimProfileKeeps ==
  ASSUME RoutingInv, NEW w \in RoutingWriter, NEW n \in ProfileName, ClaimProfile(w, n)
  PROVE  RoutingInv'
<1> DEFINE k == [writer[w] EXCEPT !.pc = "claimed", !.kind = "profile", !.name = n]
<1>0. writer[w] \in Work /\ "claimed" \in WriterPc /\ writer[w].file \in StoreFile
  BY OfWriter DEF WriterPc, Work
<1>1. k \in Work
  BY <1>0, MovesAreWork
<1>2. k.pc = "claimed" /\ k.kind = "profile" /\ k.name = n /\ k.file = writer[w].file
  BY <1>0 DEF Work
<1>3. /\ BeginWriting(w, k) /\ n \in DOMAIN writer[w].file.of /\ profiles' = [writer[w].file EXCEPT !.active = n]
      /\ UNCHANGED <<models, routes, overrides, pins, orchestrator>>
  BY DEF ClaimProfile
<1> HIDE DEF k
<1>4. WorkSound(k)
  BY <1>2, <1>3 DEF WorkSound, Applying
<1>5. profiles' \in StoreFile
  BY <1>0, <1>3, StoresAre
<1>6. FilesOK' /\ routes' \in Routes
  BY <1>3, <1>5 DEF RoutingInv, FilesOK
<1> QED
  BY <1>1, <1>2, <1>3, <1>4, <1>6, RoutingBegins

\* A writer at work takes another turn and materializes nothing yet.
LEMMA WorksOn ==
  ASSUME RoutingInv, NEW w \in RoutingWriter, NEW k \in Work, writer' = [writer EXCEPT ![w] = k],
         Active(writer[w]), k.alone = writer[w].alone, WorkSound(k),
         Applying(k) => k.pc = "apply" /\ k.todo = ToMaterialize(k.want),
         models' \in [status : {"missing", "invalid", "valid"}, routing : Routing],
         UNCHANGED <<routes, overrides, profiles, pins, orchestrator, settled>>
  PROVE  RoutingInv'
<1>1. FilesOK' /\ routes' \in Routes
  BY DEF RoutingInv, FilesOK
<1>2. \A v \in RoutingWriter : Active(writer'[v]) => Active(writer[v])
  BY DEF RoutingInv, WritersOK
<1>3. SettledOK'
  BY <1>1, <1>2, SettledStays
<1>4. Progress(k, routes')
  BY DEF Progress, Applying
<1> QED
  BY <1>1, <1>3, <1>4, WriterMoves

\* models.json holds the profile, and what is padded will be materialized.
LEMMA PaddedWorks ==
  ASSUME RoutingInv, NEW w \in RoutingWriter, NEW n \in DOMAIN writer[w].file.of, NEW kind \in {"profile", "revert"},
         Active(writer[w]),
         LET r == writer[w].file.of[n] IN
           /\ writer' = [writer EXCEPT ![w] = [writer[w] EXCEPT !.pc = "apply", !.kind = kind,
                           !.want = WithOmittedCleared(r), !.todo = ToMaterialize(WithOmittedCleared(r))]]
           /\ models' = [status |-> "valid", routing |-> r],
         kind = "profile" => n = writer[w].name,
         kind = "revert" => n = writer[w].file.active,
         UNCHANGED <<routes, overrides, profiles, pins, orchestrator, settled>>
  PROVE  RoutingInv'
<1> DEFINE r == writer[w].file.of[n]
           want == WithOmittedCleared(r)
           k == [writer[w] EXCEPT !.pc = "apply", !.kind = kind, !.want = want, !.todo = ToMaterialize(want)]
<1>1. writer[w] \in Work /\ writer[w].file \in StoreFile
  BY OfWriter DEF Work
<1>2. r \in Routing
  BY <1>1, StoresAre
<1>3. want \in Routing /\ ToMaterialize(want) \in SUBSET RoutedAgent
  BY <1>2, OmittedAreCleared, ToMaterializeIs
<1> HIDE DEF want
<1>4. k \in Work /\ k.pc = "apply" /\ k.kind = kind /\ k.want = want /\ k.todo = ToMaterialize(want)
      /\ k.name = writer[w].name /\ k.file = writer[w].file /\ k.alone = writer[w].alone
  BY <1>1, <1>3 DEF Work, WriterPc
<1>5. writer' = [writer EXCEPT ![w] = k] /\ models' = [status |-> "valid", routing |-> r]
  BY DEF want
<1> HIDE DEF k
<1>6. WorkSound(k)
  BY <1>4 DEF WorkSound, Applying, want
<1>7. models' \in [status : {"missing", "invalid", "valid"}, routing : Routing]
  BY <1>2, <1>5
<1>8. UNCHANGED <<routes, overrides, profiles, pins, orchestrator, settled>>
  OBVIOUS
<1> QED
  BY <1>4, <1>5, <1>6, <1>7, <1>8, WorksOn

\* models.json is written after the claim, or again by the compensation.
LEMMA ModelsAreWritten ==
  ASSUME RoutingInv, NEW w \in RoutingWriter, WriteModels(w) \/ BeginRevert(w)
  PROVE  RoutingInv'
<1>1. writer[w] \in Work /\ WorkSound(writer[w]) /\ Active(writer[w])
  BY OfWriter DEF WriteModels, BeginRevert, Active
<1>2. CASE WriteModels(w)
  <2>1. writer[w].kind = "profile" /\ writer[w].name \in DOMAIN writer[w].file.of
    BY <1>1, <1>2 DEF WriteModels, WorkSound
  <2> DEFINE want == WithOmittedCleared(writer[w].file.of[writer[w].name])
  <2>2. [writer[w] EXCEPT !.pc = "apply", !.want = want, !.todo = ToMaterialize(want)]
          = [writer[w] EXCEPT !.pc = "apply", !.kind = "profile", !.want = want, !.todo = ToMaterialize(want)]
    BY <1>1, <2>1 DEF Work
  <2>3. /\ writer' = [writer EXCEPT ![w] = [writer[w] EXCEPT !.pc = "apply", !.want = want, !.todo = ToMaterialize(want)]]
        /\ models' = [status |-> "valid", routing |-> writer[w].file.of[writer[w].name]]
        /\ UNCHANGED <<routes, overrides, profiles, pins, orchestrator, settled>>
    BY <1>2 DEF WriteModels
  <2> QED
    BY <1>1, <2>1, <2>2, <2>3, PaddedWorks
<1>3. CASE BeginRevert(w)
  <2> DEFINE want == WithOmittedCleared(writer[w].file.of[writer[w].file.active])
  <2>0. UNCHANGED <<routes, overrides, profiles, pins, orchestrator, settled>>
    BY <1>3 DEF BeginRevert
  <2>1. CASE writer[w].file.active \in DOMAIN writer[w].file.of
    <3>1. /\ writer' = [writer EXCEPT ![w] = [writer[w] EXCEPT !.pc = "apply", !.kind = "revert", !.want = want, !.todo = ToMaterialize(want)]]
          /\ models' = [status |-> "valid", routing |-> writer[w].file.of[writer[w].file.active]]
      BY <1>3, <2>1 DEF BeginRevert
    <3> QED
      BY <1>1, <2>0, <2>1, <3>1, PaddedWorks
  <2>2. CASE writer[w].file.active \notin DOMAIN writer[w].file.of
    <3> DEFINE k == [writer[w] EXCEPT !.pc = "unclaim"]
    <3>1. writer' = [writer EXCEPT ![w] = k] /\ models' = models /\ writer[w].pc = "revert"
      BY <1>3, <2>2 DEF BeginRevert
    <3>2. k \in Work
      BY <1>1, MovesAreWork DEF WriterPc
    <3>3. k.pc = "unclaim" /\ k.kind = writer[w].kind /\ k.alone = writer[w].alone
      BY <1>1 DEF Work
    <3> HIDE DEF k
    <3>4. WorkSound(k) /\ ~Applying(k)
      BY <1>1, <3>1, <3>3 DEF WorkSound, Applying
    <3>5. models' \in [status : {"missing", "invalid", "valid"}, routing : Routing]
      BY <3>1 DEF RoutingInv, FilesOK
    <3> QED
      BY <1>1, <2>0, <3>1, <3>2, <3>3, <3>4, <3>5, WorksOn
  <2> QED
    BY <2>1, <2>2
<1> QED
  BY <1>2, <1>3

\* An apply or its compensation fails.
LEMMA FailuresKeep ==
  ASSUME RoutingInv, NEW w \in RoutingWriter, ApplyFails(w) \/ RevertFails(w)
  PROVE  RoutingInv'
<1>1. writer[w] \in Work /\ WorkSound(writer[w]) /\ Active(writer[w]) /\ writer[w].kind \in {"profile", "revert"}
  BY OfWriter DEF ApplyFails, RevertFails, Active, WorkSound
<1>2. PICK pc \in {"unclaim", "revert"} : writer' = [writer EXCEPT ![w] = [writer[w] EXCEPT !.pc = pc]]
  <2>1. CASE ApplyFails(w) /\ writer[w].pc = "claimed"
    BY <2>1 DEF ApplyFails
  <2>2. CASE ApplyFails(w) /\ writer[w].pc # "claimed"
    BY <2>2 DEF ApplyFails
  <2>3. CASE RevertFails(w)
    BY <2>3 DEF RevertFails
  <2> QED
    BY <2>1, <2>2, <2>3
<1>3. UNCHANGED <<models, routes, overrides, profiles, pins, orchestrator, settled>>
  BY DEF ApplyFails, RevertFails
<1> DEFINE k == [writer[w] EXCEPT !.pc = pc]
<1>4. k \in Work
  BY <1>1, MovesAreWork DEF WriterPc
<1>5. k.pc = pc /\ k.kind = writer[w].kind /\ k.alone = writer[w].alone
  BY <1>1 DEF Work
<1>6. writer' = [writer EXCEPT ![w] = k]
  BY <1>2
<1> HIDE DEF k
<1>7. WorkSound(k) /\ ~Applying(k)
  BY <1>1, <1>5 DEF WorkSound, Applying
<1>8. models' \in [status : {"missing", "invalid", "valid"}, routing : Routing]
  BY <1>3 DEF RoutingInv, FilesOK
<1> QED
  BY <1>1, <1>3, <1>4, <1>5, <1>6, <1>7, <1>8, WorksOn

\* The orchestrator comes last; an apply or a compensation is over.
LEMMA AppliesEnd ==
  ASSUME RoutingInv, NEW w \in RoutingWriter, ApplyOrchestrator(w) \/ Unclaim(w)
  PROVE  RoutingInv'
<1>1. /\ writer[w] \in Work /\ WorkSound(writer[w]) /\ Active(writer[w])
      /\ writer[w].file \in StoreFile /\ writer[w].name \in ProfileName \cup {"none"}
      /\ writer[w].file.active \in ProfileName \cup {"none"}
  BY OfWriter DEF ApplyOrchestrator, Unclaim, Active, Work, StoreFile
<1>2. FilesOK
  BY DEF RoutingInv
<1>3. ASSUME NEW f \in StoreFile, writer' = [writer EXCEPT ![w] = [IdleWriter EXCEPT !.pc = "open", !.file = f]],
             FilesOK', SettledOK', routes' = routes
      PROVE  RoutingInv'
  <2> DEFINE k == [IdleWriter EXCEPT !.pc = "open", !.file = f]
  <2>1. k \in Work
    BY ResumedIsWork
  <2>2. k.pc = "open"
    BY DEF IdleWriter
  <2> HIDE DEF k
  <2>3. ~Active(k)
    BY <2>2 DEF Active
  <2>4. writer' = [writer EXCEPT ![w] = k]
    BY <1>3 DEF k
  <2> QED
    BY <1>3, <2>1, <2>3, <2>4, Rests
<1>4. CASE ApplyOrchestrator(w)
  <2> DEFINE r == writer[w].file.of[writer[w].name]
             o == Entry(r, Orchestrator)
  <2>0. /\ writer[w].pc = "apply" /\ writer[w].kind = "profile" /\ writer[w].todo = {}
        /\ UNCHANGED <<models, routes, overrides, profiles, pins, budget>>
    BY <1>4 DEF ApplyOrchestrator
  <2>1. /\ writer[w].name \in DOMAIN writer[w].file.of /\ writer[w].want = WithOmittedCleared(r)
    BY <1>1, <2>0 DEF WorkSound, Applying
  <2>2. r \in Routing /\ writer[w].name \in ProfileName
    BY <1>1, <2>1, StoresAre
  <2>3. CASE o \in ModelId \ PairModel
    <3> DEFINE k == [writer[w] EXCEPT !.pc = "revert"]
    <3>1. writer' = [writer EXCEPT ![w] = k] /\ UNCHANGED <<orchestrator, settled>>
      BY <1>4, <2>3 DEF ApplyOrchestrator
    <3>2. k \in Work
      BY <1>1, MovesAreWork DEF WriterPc
    <3>3. k.pc = "revert" /\ k.kind = writer[w].kind /\ k.alone = writer[w].alone
      BY <1>1 DEF Work
    <3> HIDE DEF k
    <3>4. WorkSound(k) /\ ~Applying(k)
      BY <2>0, <3>3 DEF WorkSound, Applying
    <3>5. models' \in [status : {"missing", "invalid", "valid"}, routing : Routing]
      BY <1>2, <2>0 DEF FilesOK
    <3> QED
      BY <1>1, <2>0, <3>1, <3>2, <3>3, <3>4, <3>5, WorksOn
  <2>4. CASE o \notin ModelId \ PairModel
    <3> DEFINE f == [writer[w].file EXCEPT !.active = writer[w].name]
               k == [IdleWriter EXCEPT !.pc = "open", !.file = f]
    <3>1. /\ orchestrator' = IF o = Inherit THEN orchestrator ELSE o
          /\ writer' = [writer EXCEPT ![w] = k] /\ Settle(w, "applied", writer[w].name, r)
      BY <1>4, <2>4 DEF ApplyOrchestrator
    <3>2. f \in StoreFile
      BY <1>1, <2>2, StoresAre
    <3>3. o \in Model
      BY <2>2, RoutingIs DEF Entry, Model
    <3>4. orchestrator' \in ModelId \cup {"unset"}
      BY <1>2, <3>1, <3>3 DEF FilesOK, Model
    <3>5. FilesOK'
      BY <1>2, <2>0, <3>4 DEF FilesOK
    <3> HIDE DEF r, o, f
    <3>6. k \in Work
      BY <3>2, ResumedIsWork
    <3>7. ~Active(k)
      BY DEF Active, IdleWriter
    <3>8. SettledOK'
      <4> HIDE DEF k
      <4> QED
        BY <2>0, <2>1, <2>2, <3>1, <3>6, <3>7, WriterSettles
    <3> QED
      BY <1>3, <2>0, <3>1, <3>2, <3>5, <3>8
  <2> QED
    BY <2>3, <2>4
<1>5. CASE Unclaim(w)
  <2> DEFINE f == writer[w].file
             k == [IdleWriter EXCEPT !.pc = "open", !.file = f]
  <2>1. /\ writer' = [writer EXCEPT ![w] = k] /\ (profiles' = f \/ profiles' = profiles)
        /\ UNCHANGED <<models, routes, overrides, pins, orchestrator>>
    BY <1>5 DEF Unclaim
  <2>2. FilesOK'
    BY <1>1, <1>2, <2>1 DEF FilesOK
  <2>3. k \in Work
    BY <1>1, ResumedIsWork
  <2>4. ~Active(k)
    BY DEF Active, IdleWriter
  <2>5. SettledOK'
    <3>1. CASE writer[w].pc = "unclaim"
      <4>1. settled' = settled
        BY <1>5, <3>1 DEF Unclaim
      <4> HIDE DEF k
      <4>2. \A v \in RoutingWriter : Active(writer'[v]) => Active(writer[v])
        BY <2>1, <2>4 DEF RoutingInv, WritersOK
      <4>3. routes' \in Routes
        BY <2>1, OfWriter
      <4> QED
        BY <2>1, <4>1, <4>2, <4>3, SettledStays
    <3>2. CASE writer[w].pc # "unclaim"
      <4>1. /\ writer[w].pc = "apply" /\ writer[w].kind = "revert" /\ writer[w].todo = {}
            /\ Settle(w, "reverted", f.active, f.of[f.active])
        BY <1>5, <3>2 DEF Unclaim
      <4>2. f.active \in DOMAIN f.of /\ writer[w].want = WithOmittedCleared(f.of[f.active])
        BY <1>1, <4>1 DEF WorkSound, Applying
      <4>3. f.of[f.active] \in Routing
        BY <1>1, <4>2, StoresAre
      <4> HIDE DEF k
      <4> QED
        BY <1>1, <2>1, <2>3, <2>4, <4>1, <4>2, <4>3, WriterSettles
    <3> QED
      BY <3>1, <3>2
  <2> QED
    BY <1>1, <1>3, <2>1, <2>2, <2>5
<1> QED
  BY <1>4, <1>5

-----------------------------------------------------------------------------
\* At first nothing is materialized and nobody writes.
LEMMA RoutingStarts == RoutingInit => RoutingInv
<1> SUFFICES ASSUME RoutingInit PROVE RoutingInv
  OBVIOUS
<1>1. profiles \in StoreFile
  <2>1. CASE profiles = NoStore
    BY <2>1, ProfilesAre
  <2>2. CASE profiles # NoStore
    <3>1. PICK f \in [ProfileName -> {Normalize(r) : r \in RoutingTried}] : profiles = [here |-> TRUE, active |-> "current", of |-> f]
      BY <2>2 DEF RoutingInit
    <3>2. {Normalize(r) : r \in RoutingTried} \subseteq Routing
      BY NormalizedIsRouting
    <3>3. f \in [ProfileName -> Routing] /\ ProfileName \in SUBSET ProfileName
      BY <3>2
    <3>4. f \in Profiles
      BY <3>3, ProfilesAre
    <3> QED
      BY <3>1, <3>4, RoutingAssumption DEF StoreFile
  <2> QED
    BY <2>1, <2>2
<1>2. FilesOK
  BY <1>1, RoutingIs DEF RoutingInit, FilesOK, Model
<1>3. routes \in Routes
  <2>1. PICK file \in {"global", "project"}, a \in RoutedAgent, m \in Model :
          routes = [[front |-> NoRoutes, global |-> NoRoutes, project |-> NoRoutes] EXCEPT ![file][a] = m]
    BY DEF RoutingInit, Model
  <2>2. NoRoutes \in [RoutedAgent -> Model] /\ [NoRoutes EXCEPT ![a] = m] \in [RoutedAgent -> Model]
    BY DEF NoRoutes, Model
  <2>3. CASE file = "global"
    <3>1. routes = [front |-> NoRoutes, global |-> [NoRoutes EXCEPT ![a] = m], project |-> NoRoutes]
      BY <2>1, <2>3
    <3> QED
      BY <2>2, <3>1 DEF Routes
  <2>4. CASE file = "project"
    <3>1. routes = [front |-> NoRoutes, global |-> NoRoutes, project |-> [NoRoutes EXCEPT ![a] = m]]
      BY <2>1, <2>4
    <3> QED
      BY <2>2, <3>1 DEF Routes
  <2> QED
    BY <2>3, <2>4
<1>4. WorkSound(IdleWriter) /\ Progress(IdleWriter, routes) /\ ~Active(IdleWriter)
  BY IdleIsWork DEF WorkSound, Progress, Applying, Active
<1>5. WritersOK
  BY <1>4, IdleIsWork DEF RoutingInit, WritersOK
<1>6. SettledOK
  BY IdleIsWork DEF RoutingInit, SettledOK
<1> QED
  BY <1>2, <1>3, <1>5, <1>6 DEF RoutingInv

\* The invariant is inductive.
LEMMA RoutingKeeps == RoutingInv /\ [RoutingNext]_routingVars => RoutingInv'
<1> SUFFICES ASSUME RoutingInv, [RoutingNext]_routingVars PROVE RoutingInv'
  OBVIOUS
<1>1. ASSUME NEW w \in RoutingWriter,
             \/ BeginStart(w) \/ EndStart(w) \/ AbandonApply(w) \/ OpenModels(w) \/ SaveToProfile(w)
             \/ \E r \in RoutingTried : SaveModels(w, r)
      PROVE  RoutingInv'
  BY <1>1, BeginStartKeeps, RoutingEndingsKeep, OpenModelsKeeps, SaveModelsKeeps
<1>2. ASSUME NEW w \in RoutingWriter, PanelStep(w) PROVE RoutingInv'
  <2>1. CASE OpenPanel(w) \/ ClosePanel(w)
    BY <2>1, OpenPanelKeeps, RoutingEndingsKeep
  <2>2. ASSUME NEW n \in ProfileName, AskDelete(w, n) \/ ApplyPinned(w, n) \/ \E layer \in {"local", "repo"} : TogglePin(w, n, layer)
        PROVE  RoutingInv'
    BY <2>2, PinsKeep
  <2>3. ASSUME NEW n \in ProfileName, ClaimProfile(w, n) PROVE RoutingInv'
    BY <2>3, ClaimProfileKeeps
  <2>4. CASE \/ \E n \in ProfileName, how \in {"create", "update", "duplicate", "import"} : PutProfile(w, n, how)
             \/ \E yes \in BOOLEAN : DeleteAnswered(w, yes)
    BY <2>4, PanelWritesKeep
  <2>5. CASE FollowRenamedPin(w) \/ \E n \in ProfileName, m \in ProfileName : RenameProfile(w, n, m)
    BY <2>5, RenamesKeep
  <2> QED
    BY <1>2, <2>1, <2>2, <2>3, <2>4, <2>5 DEF PanelStep
<1>3. ASSUME NEW w \in RoutingWriter, ApplyStep(w) PROVE RoutingInv'
  BY <1>3, MaterializingKeeps, ModelsAreWritten, FailuresKeep, AppliesEnd DEF ApplyStep
<1>4. ASSUME NEW w \in RoutingWriter, CrashWriter(w) PROVE RoutingInv'
  BY <1>4, RoutingEndingsKeep
<1>5. CASE HandEdit
  BY <1>5, HandEditKeeps
<1>6. CASE UNCHANGED routingVars
  BY <1>6 DEF routingVars, RoutingInv, FilesOK, WritersOK, SettledOK, Active, HeldFor, Progress
<1> QED
  BY <1>1, <1>2, <1>3, <1>4, <1>5, <1>6 DEF RoutingNext

\* What is settled is what is materialized, and what the agents are launched with.
LEMMA InvSettles == RoutingInv => RoutingSettles
<1> DEFINE left(a, m) ==
             /\ Materialized(a) = m
             /\ PinWinner(pins, profiles) = "none" /\ routes[Other(FileOf(a))][a] = Inherit => Launched(a) = m
<1> SUFFICES ASSUME RoutingInv, NEW a \in Installed \ ProviderRole
             PROVE  /\ settled.kind \in {"applied", "reverted"} => left(a, Entry(settled.routing, a))
                    /\ settled.kind = "saved" /\ a \in DOMAIN settled.routing => left(a, settled.routing[a])
                    /\ settled.kind = "pinned" /\ settled.name \in DOMAIN profiles.of => PinWinner(pins, profiles) = settled.name
  BY DEF RoutingSettles
<1>1. Materialized(a) = HeldFor(routes, a)
  BY DEF Materialized, HeldFor
<1>2. settled.kind = "pinned" => pins.local = settled.name
  BY DEF RoutingInv, SettledOK
<1>3. ASSUME PinWinner(pins, profiles) = "none", routes[Other(FileOf(a))][a] = Inherit
      PROVE  Launched(a) = Materialized(a)
  <2>1. Merged(a) = routes[FileOf(a)][a]
    BY <1>3 DEF Merged, Other, FileOf
  <2> QED
    BY <1>3, <2>1 DEF Launched, Materialized
<1>4. ASSUME NEW m, HeldFor(routes, a) = m PROVE left(a, m)
  BY <1>1, <1>3, <1>4
<1> HIDE DEF left
<1>5. settled.kind \in {"applied", "reverted"} => left(a, Entry(settled.routing, a))
  BY <1>4 DEF RoutingInv, SettledOK
<1>6. settled.kind = "saved" /\ a \in DOMAIN settled.routing => left(a, settled.routing[a])
  BY <1>4 DEF RoutingInv, SettledOK
<1>7. settled.kind = "pinned" /\ settled.name \in DOMAIN profiles.of => PinWinner(pins, profiles) = settled.name
  BY <1>2 DEF PinWinner
<1> QED
  BY <1>5, <1>6, <1>7

\* Whatever else was written before, and whatever failed: a writer that was
\* alone leaves the routing it reported, for any agents, models, profiles and
\* writers (runProfilesPanelAction, revertClaim, applyModelConfigAsync).
THEOREM RoutingAlwaysSettles == RoutingSpec => []RoutingSettles
BY RoutingStarts, RoutingKeeps, InvSettles, PTL DEF RoutingSpec


-----------------------------------------------------------------------------
\* A writer that works on its copy of the store.
InPanel(w) ==
  \/ writer[w].pc \in {"open", "asking", "following"}
  \/ Active(writer[w]) /\ writer[w].kind \in {"profile", "revert"}

\* A store is there whenever a panel is open.  While nobody has gone adrift, the
\* pin names a profile, nobody asks about deleting the pinned one, and whoever
\* has renamed a profile finds the new name in the store.
PinInv ==
  /\ profiles.here \/ DOMAIN profiles.of = {}
  /\ \A w \in RoutingWriter : InPanel(w) => profiles.here /\ writer[w].file.here
  /\ PinResolves
  /\ ~adrift => \A w \in RoutingWriter :
       /\ writer[w].pc = "asking" /\ pins.local = writer[w].name => pins.local = "none"
       /\ Renaming(w) => writer[w].name \in DOMAIN profiles.of

\* What the pins depend on of a writer.
SameWork(j, k) == j.pc = k.pc /\ j.kind = k.kind /\ j.name = k.name /\ j.from = k.from /\ j.file = k.file

\* One step of one writer.
WriterStep(w) ==
  \/ BeginStart(w) \/ EndStart(w) \/ AbandonApply(w) \/ OpenModels(w) \/ SaveToProfile(w)
  \/ (\E r \in RoutingTried : SaveModels(w, r)) \/ PanelStep(w) \/ ApplyStep(w) \/ CrashWriter(w)

\* It takes nothing from another writer but its solitude.
LEMMA OthersStay ==
  ASSUME RoutingInv, NEW w \in RoutingWriter, WriterStep(w)
  PROVE  \A v \in RoutingWriter \ {w} : SameWork(writer'[v], writer[v])
<1> SUFFICES ASSUME NEW v \in RoutingWriter, v # w PROVE SameWork(writer'[v], writer[v])
  OBVIOUS
<1>1. writer \in [RoutingWriter -> Work] /\ writer[v] \in Work
  BY DEF RoutingInv, WritersOK
<1>2. SameWork([writer[v] EXCEPT !.alone = FALSE], writer[v]) /\ SameWork(writer[v], writer[v])
  BY <1>1 DEF Work, SameWork
<1>3. CASE OpenModels(w)
  BY <1>2, <1>3 DEF OpenModels
<1>4. ASSUME NEW k, BeginWriting(w, k) PROVE SameWork(writer'[v], writer[v])
  BY <1>2, <1>4 DEF BeginWriting
<1>5. CASE BeginStart(w) \/ (\E r \in RoutingTried : SaveModels(w, r)) \/ \E n \in ProfileName : ClaimProfile(w, n)
  BY <1>4, <1>5 DEF BeginStart, SaveModels, ClaimProfile
<1>6. CASE EndStart(w) \/ AbandonApply(w) \/ SaveToProfile(w) \/ CrashWriter(w) \/ OpenPanel(w) \/ ClosePanel(w)
  BY <1>1, <1>2, <1>6 DEF EndStart, AbandonApply, SaveToProfile, CrashWriter, OpenPanel, ClosePanel
<1>7. ASSUME NEW n \in ProfileName, AskDelete(w, n) \/ ApplyPinned(w, n) \/ \E layer \in {"local", "repo"} : TogglePin(w, n, layer)
      PROVE  SameWork(writer'[v], writer[v])
  BY <1>1, <1>2, <1>7 DEF AskDelete, ApplyPinned, TogglePin
<1>8. ASSUME NEW f, Store(w, f) PROVE SameWork(writer'[v], writer[v])
  BY <1>1, <1>2, <1>8 DEF Store
<1>9. ASSUME NEW n \in ProfileName, NEW how \in {"create", "update", "duplicate", "import"}, PutProfile(w, n, how)
      PROVE  SameWork(writer'[v], writer[v])
  BY <1>8, <1>9 DEF PutProfile
<1>10. ASSUME NEW yes \in BOOLEAN, DeleteAnswered(w, yes) PROVE SameWork(writer'[v], writer[v])
  BY <1>1, <1>2, <1>8, <1>10 DEF DeleteAnswered
<1>11. CASE FollowRenamedPin(w) \/ \E n \in ProfileName, m \in ProfileName : RenameProfile(w, n, m)
  BY <1>1, <1>2, <1>11 DEF FollowRenamedPin, RenameProfile
<1>12. CASE WriteFrontmatter(w) \/ ReadProfiles(w) \/ WriteProfile(w) \/ WriteModels(w)
  BY <1>1, <1>2, <1>12 DEF WriteFrontmatter, ReadProfiles, WriteProfile, WriteModels
<1>13. CASE ApplyOrchestrator(w) \/ ApplyFails(w) \/ BeginRevert(w) \/ RevertFails(w) \/ Unclaim(w)
  BY <1>1, <1>2, <1>13 DEF ApplyOrchestrator, ApplyFails, BeginRevert, RevertFails, Unclaim
<1> QED
  BY <1>3, <1>5, <1>6, <1>7, <1>9, <1>10, <1>11, <1>12, <1>13 DEF WriterStep, PanelStep, ApplyStep

\* What a step of one writer has to leave.
LEMMA PinStep ==
  ASSUME RoutingInv, PinInv, NEW w \in RoutingWriter,
         \A v \in RoutingWriter \ {w} : SameWork(writer'[v], writer[v]),
         profiles'.here \/ (profiles'.here = profiles.here /\ DOMAIN profiles'.of = DOMAIN profiles.of),
         InPanel(w)' => profiles'.here /\ writer'[w].file.here,
         PinResolves',
         ~adrift' =>
           /\ writer'[w].pc = "asking" /\ pins'.local = writer'[w].name => pins'.local = "none"
           /\ writer'[w].pc = "following" => writer'[w].name \in DOMAIN profiles'.of
           /\ \A v \in RoutingWriter \ {w} :
                /\ writer[v].pc = "asking" /\ pins'.local = writer[v].name => pins'.local = "none"
                /\ Renaming(v) => writer[v].name \in DOMAIN profiles'.of
  PROVE  PinInv'
<1>1. profiles'.here \/ DOMAIN profiles'.of = {}
  BY DEF PinInv
<1>2. ASSUME NEW v \in RoutingWriter, InPanel(v)' PROVE profiles'.here /\ writer'[v].file.here
  <2>1. CASE v = w
    BY <1>2, <2>1
  <2>2. CASE v # w
    <3>1. SameWork(writer'[v], writer[v]) /\ InPanel(v)
      BY <1>2, <2>2 DEF InPanel, Active, SameWork
    <3> QED
      BY <3>1 DEF PinInv, SameWork
  <2> QED
    BY <2>1, <2>2
<1>3. ASSUME ~adrift', NEW v \in RoutingWriter
      PROVE  /\ writer'[v].pc = "asking" /\ pins'.local = writer'[v].name => pins'.local = "none"
             /\ Renaming(v)' => writer'[v].name \in DOMAIN profiles'.of
  <2>1. CASE v = w
    BY <1>3, <2>1 DEF Renaming
  <2>2. CASE v # w
    BY <1>3, <2>2 DEF Renaming, SameWork
  <2> QED
    BY <2>1, <2>2
<1> QED
  BY <1>1, <1>2, <1>3 DEF PinInv

\* A step that leaves the names of the store and the pin alone, and is no rename.
LEMMA PinRests ==
  ASSUME RoutingInv, PinInv, NEW w \in RoutingWriter,
         \A v \in RoutingWriter \ {w} : SameWork(writer'[v], writer[v]),
         DOMAIN profiles'.of = DOMAIN profiles.of, profiles'.here = profiles.here,
         pins'.local = pins.local, adrift' <=> adrift,
         InPanel(w)' => profiles'.here /\ writer'[w].file.here,
         writer'[w].pc = "asking" /\ pins.local = writer'[w].name => pins.local = "none",
         writer'[w].pc # "following", ~Renaming(w)
  PROVE  PinInv'
<1>1. PinResolves'
  <2>1. ASSUME NEW v \in RoutingWriter, Renaming(v), writer[v].from = pins.local PROVE PinResolves'
    BY <2>1 DEF PinResolves, Renaming, SameWork
  <2> QED
    BY <2>1 DEF PinInv, PinResolves
<1> QED
  BY <1>1, PinStep DEF PinInv

\* Nobody has the pin on the way when a store is first made.
LEMMA PinSeeds ==
  ASSUME RoutingInv, PinInv, NEW w \in RoutingWriter,
         \A v \in RoutingWriter \ {w} : SameWork(writer'[v], writer[v]),
         ~profiles.here, profiles'.here, pins'.local = pins.local, adrift' = adrift,
         InPanel(w)' => writer'[w].file.here, writer'[w].pc \notin {"asking", "following"}
  PROVE  PinInv'
<1>1. DOMAIN profiles.of = {}
  BY DEF PinInv
<1>2. ~adrift => pins.local = "none" /\ \A v \in RoutingWriter : ~Renaming(v)
  BY <1>1 DEF PinInv, PinResolves
<1>3. PinResolves'
  BY <1>2 DEF PinResolves
<1> QED
  BY <1>2, <1>3, PinStep DEF PinInv

\* A panel writes the store: what it takes away is not the pinned name, unless it
\* is renaming it.
LEMMA PinStores ==
  ASSUME RoutingInv, PinInv, NEW w \in RoutingWriter,
         \A v \in RoutingWriter \ {w} : SameWork(writer'[v], writer[v]),
         profiles'.here, writer'[w].file.here, pins'.local = pins.local, ~Renaming(w), writer'[w].pc # "asking",
         adrift' = (adrift \/ StoreDrifts(w)),
         ~adrift /\ pins.local # "none" /\ pins.local \in DOMAIN writer[w].file.of =>
           \/ pins.local \in DOMAIN profiles'.of
           \/ writer'[w].pc = "following" /\ writer'[w].from = pins.local,
         writer'[w].pc = "following" => writer'[w].name \in DOMAIN profiles'.of
  PROVE  PinInv'
<1>1. CASE adrift'
  BY <1>1, PinStep DEF PinResolves
<1>2. CASE ~adrift'
  <2>1. ~adrift /\ DOMAIN writer[w].file.of = DOMAIN profiles.of /\ \A v \in RoutingWriter : ~Renaming(v)
    BY <1>2 DEF StoreDrifts, Outdated
  <2>2. PinResolves'
    BY <2>1 DEF PinInv, PinResolves, Renaming
  <2> QED
    BY <2>1, <2>2, PinStep DEF PinInv
<1> QED
  BY <1>1, <1>2

\* A panel writes the pin: a name its copy has, that nobody is deleting.
LEMMA PinMoves ==
  ASSUME RoutingInv, PinInv, NEW w \in RoutingWriter, NEW n,
         \A v \in RoutingWriter \ {w} : SameWork(writer'[v], writer[v]),
         InPanel(w), InPanel(w)', writer'[w].file = writer[w].file, writer'[w].pc \notin {"asking", "following"},
         profiles' = profiles, pins'.local = n \/ pins'.local = "none",
         pins'.local = n => adrift' = (adrift \/ PinDrifts(w, n)) /\ (~adrift' => n \in DOMAIN profiles.of),
         ~adrift' => ~adrift
  PROVE  PinInv'
<1>1. profiles'.here /\ writer'[w].file.here
  BY DEF PinInv
<1>2. PinResolves'
  BY DEF PinResolves
<1>3. ~adrift' => \A v \in RoutingWriter : writer[v].pc = "asking" /\ pins'.local = writer[v].name => pins'.local = "none"
  BY DEF PinDrifts
<1> QED
  BY <1>1, <1>2, <1>3, PinStep DEF PinInv

-----------------------------------------------------------------------------
\* Outside the panels the names of the store and the pin stay, but for a first store.
LEMMA OutsidePanels ==
  ASSUME RoutingInv, PinInv, NEW w \in RoutingWriter,
         \/ BeginStart(w) \/ EndStart(w) \/ AbandonApply(w) \/ OpenModels(w) \/ SaveToProfile(w)
         \/ (\E r \in RoutingTried : SaveModels(w, r)) \/ CrashWriter(w) \/ ClosePanel(w)
  PROVE  PinInv'
<1>0. IdleWriter \in Work /\ IdleWriter.pc = "idle" /\ writer \in [RoutingWriter -> Work]
  BY IdleIsWork DEF RoutingInv, WritersOK
<1>1. \A v \in RoutingWriter \ {w} : SameWork(writer'[v], writer[v])
  BY OthersStay DEF WriterStep, PanelStep
<1>2. ASSUME NEW k \in Work, BeginWriting(w, k) PROVE writer'[w].pc = k.pc /\ writer'[w].kind = k.kind
  BY <1>2 DEF BeginWriting, Work
<1>3. ASSUME UNCHANGED <<profiles, adrift>>, pins' = pins, ~Renaming(w),
             writer'[w].pc \in {"idle", "models"} \/ (writer'[w].pc = "apply" /\ writer'[w].kind \in {"start", "models"})
      PROVE  PinInv'
  <2>1. ~InPanel(w)'
    BY <1>3 DEF InPanel, Active
  <2> QED
    BY <1>1, <1>3, <2>1, PinRests
<1>4. CASE BeginStart(w)
  <2> DEFINE read == IF models.status = "valid" THEN models.routing ELSE EmptyRouting
             k == [IdleWriter EXCEPT !.pc = "apply", !.kind = "start", !.want = read, !.todo = ToMaterialize(read)]
  <2>1. read \in Routing
    BY RoutingIs DEF RoutingInv, FilesOK
  <2>2. UNCHANGED <<profiles, pins, adrift>> /\ (BeginWriting(w, IdleWriter) \/ BeginWriting(w, k)) /\ ~Renaming(w)
    BY <1>4 DEF BeginStart, Renaming
  <2> HIDE DEF read
  <2>3. k \in Work /\ k.pc = "apply"
    BY <2>1, FirstApplyIsSound
  <2>4. k.kind = "start"
    BY DEF IdleWriter
  <2> QED
    BY <1>0, <1>2, <1>3, <2>2, <2>3, <2>4
<1>5. ASSUME NEW raw \in RoutingTried, SaveModels(w, raw) PROVE PinInv'
  <2> DEFINE r == Normalize(raw)
             k == [IdleWriter EXCEPT !.pc = "apply", !.kind = "models", !.want = r, !.todo = ToMaterialize(r)]
  <2>1. r \in Routing
    BY NormalizedIsRouting
  <2>2. UNCHANGED <<profiles, pins, adrift>> /\ BeginWriting(w, k) /\ ~Renaming(w)
    BY <1>5 DEF SaveModels, Renaming
  <2> HIDE DEF r
  <2>3. k \in Work /\ k.pc = "apply"
    BY <2>1, FirstApplyIsSound
  <2>4. k.kind = "models"
    BY DEF IdleWriter
  <2> QED
    BY <1>2, <1>3, <2>2, <2>3, <2>4
<1>6. CASE EndStart(w) \/ AbandonApply(w) \/ ClosePanel(w)
  <2>1. writer' = [writer EXCEPT ![w] = IdleWriter] /\ UNCHANGED <<profiles, pins, adrift>> /\ ~Renaming(w)
    BY <1>6 DEF EndStart, AbandonApply, ClosePanel, Renaming
  <2>2. writer'[w].pc = "idle"
    BY <1>0, <2>1
  <2> QED
    BY <1>3, <2>1, <2>2
<1>7. CASE OpenModels(w)
  <2>1. UNCHANGED <<profiles, pins, adrift>> /\ ~Renaming(w)
    BY <1>7 DEF OpenModels, Renaming
  <2>2. writer'[w].pc \in {"idle", "models"}
    BY <1>7 DEF OpenModels, IdleWriter
  <2> QED
    BY <1>3, <2>1, <2>2
<1>8. CASE CrashWriter(w)
  <2>1. /\ writer' = [writer EXCEPT ![w] = IdleWriter] /\ UNCHANGED <<profiles, pins>>
        /\ adrift' = (adrift \/ (Renaming(w) /\ pins.local = writer[w].from))
    BY <1>8 DEF CrashWriter
  <2>2. writer'[w].pc = "idle" /\ ~InPanel(w)'
    BY <1>0, <2>1 DEF InPanel, Active
  <2>3. PinResolves'
    <3>1. CASE adrift'
      BY <3>1 DEF PinResolves
    <3>2. CASE ~adrift'
      <4>1. ASSUME NEW v \in RoutingWriter, Renaming(v), writer[v].from = pins.local PROVE PinResolves'
        <5>1. v # w
          BY <2>1, <3>2, <4>1
        <5>2. SameWork(writer'[v], writer[v])
          BY <1>1, <5>1
        <5>3. Renaming(v)' /\ writer'[v].from = pins'.local
          BY <2>1, <4>1, <5>2 DEF Renaming, SameWork
        <5> QED
          BY <5>3 DEF PinResolves
      <4> QED
        BY <2>1, <3>2, <4>1 DEF PinInv, PinResolves
    <3> QED
      BY <3>1, <3>2
  <2> QED
    BY <1>1, <2>1, <2>2, <2>3, PinStep DEF PinInv
<1>9. CASE SaveToProfile(w)
  <2>1. pins' = pins /\ writer' = [writer EXCEPT ![w] = IdleWriter] /\ adrift' = adrift /\ ~Renaming(w)
    BY <1>9 DEF SaveToProfile, Renaming
  <2>2. PICK target : profiles' = IF target \in DOMAIN profiles.of
                   THEN [profiles EXCEPT !.of[target] = ProfileSnapshot(GlobalEffective)]
                   ELSE IF profiles.here THEN profiles ELSE Bootstrap(ProfileSnapshot(GlobalEffective))
    BY <1>9 DEF SaveToProfile
  <2>3. writer'[w].pc = "idle" /\ ~InPanel(w)'
    BY <1>0, <2>1 DEF InPanel, Active
  <2>4. CASE target \in DOMAIN profiles.of \/ profiles.here
    <3>1. profiles \in StoreFile
      BY DEF RoutingInv, FilesOK
    <3>2. DOMAIN profiles'.of = DOMAIN profiles.of /\ profiles'.here = profiles.here
      BY <2>2, <2>4, <3>1 DEF StoreFile
    <3> QED
      BY <1>1, <2>1, <2>3, <3>2, PinRests
  <2>5. CASE target \notin DOMAIN profiles.of /\ ~profiles.here
    <3>1. profiles'.here
      BY <2>2, <2>5 DEF Bootstrap
    <3> QED
      BY <1>1, <2>1, <2>3, <2>5, <3>1, PinSeeds
  <2> QED
    BY <2>4, <2>5
<1> QED
  BY <1>4, <1>5, <1>6, <1>7, <1>8, <1>9

\* The panels themselves: opened, written, renamed, asked and answered.
LEMMA PanelsKeepThePin ==
  ASSUME RoutingInv, PinInv, NEW w \in RoutingWriter,
         \/ OpenPanel(w) \/ FollowRenamedPin(w)
         \/ \E n \in ProfileName :
              \/ \E how \in {"create", "update", "duplicate", "import"} : PutProfile(w, n, how)
              \/ \E m \in ProfileName : RenameProfile(w, n, m)
              \/ AskDelete(w, n)
         \/ \E yes \in BOOLEAN : DeleteAnswered(w, yes)
  PROVE  PinInv'
<1>0. writer[w] \in Work /\ writer[w].file \in StoreFile /\ writer \in [RoutingWriter -> Work]
      /\ pins \in [local : ProfileName \cup {"none"}, repo : ProfileName \cup {"none", "invalid"}]
  BY OfWriter DEF Work, RoutingInv, WritersOK, FilesOK
<1>1. \A v \in RoutingWriter \ {w} : SameWork(writer'[v], writer[v])
  BY OthersStay DEF WriterStep, PanelStep
<1>2. InPanel(w) => profiles.here /\ writer[w].file.here
  BY DEF PinInv
<1>3. ASSUME NEW f, Store(w, f), f.here, pins' = pins, InPanel(w), ~Renaming(w),
             ~adrift /\ pins.local # "none" /\ pins.local \in DOMAIN writer[w].file.of => pins.local \in DOMAIN f.of
      PROVE  PinInv'
  <2>1. writer'[w].pc = "open" /\ writer'[w].file = f /\ profiles' = f /\ adrift' = (adrift \/ StoreDrifts(w))
    BY <1>0, <1>3 DEF Store, Work
  <2> QED
    BY <1>1, <1>3, <2>1, PinStores
<1>4. ASSUME NEW f \in StoreFile
      PROVE  /\ \A n, r : With(f, n, r).here = f.here /\ DOMAIN With(f, n, r).of = DOMAIN f.of \cup {n}
             /\ \A n : Without(f, n).here = f.here /\ DOMAIN Without(f, n).of = DOMAIN f.of \ {n}
             /\ \A m, n : Renamed(f, m, n).here /\ DOMAIN Renamed(f, m, n).of = (DOMAIN f.of \ {m}) \cup {n}
  BY DEF With, Without, Renamed, StoreFile
<1>5. CASE OpenPanel(w)
  <2> DEFINE store == IF profiles.here THEN profiles ELSE Bootstrap(Effective)
  <2>1. /\ profiles' = store /\ pins' = pins /\ adrift' = adrift /\ ~Renaming(w)
        /\ writer' = [writer EXCEPT ![w] = [IdleWriter EXCEPT !.pc = "open", !.file = store]]
    BY <1>5 DEF OpenPanel, Renaming
  <2>2. store.here
    BY DEF Bootstrap
  <2>3. profiles.here => store = profiles
    OBVIOUS
  <2> HIDE DEF store
  <2>4. writer'[w].pc = "open" /\ writer'[w].file = store
    BY <1>0, <2>1 DEF IdleWriter
  <2>5. CASE profiles.here
    BY <1>1, <2>1, <2>2, <2>3, <2>4, <2>5, PinRests
  <2>6. CASE ~profiles.here
    BY <1>1, <2>1, <2>2, <2>4, <2>6, PinSeeds
  <2> QED
    BY <2>5, <2>6
<1>6. ASSUME NEW n \in ProfileName, NEW how \in {"create", "update", "duplicate", "import"}, PutProfile(w, n, how)
      PROVE  PinInv'
  <2>1. PICK r : Store(w, With(writer[w].file, n, r))
    <3>1. CASE how = "duplicate"
      BY <1>6, <3>1 DEF PutProfile
    <3>2. CASE how = "import"
      BY <1>6, <3>2 DEF PutProfile
    <3>3. CASE how \in {"create", "update"}
      BY <1>6, <3>3 DEF PutProfile
    <3> QED
      BY <3>1, <3>2, <3>3
  <2>2. pins' = pins /\ InPanel(w) /\ ~Renaming(w)
    BY <1>6 DEF PutProfile, InPanel, Renaming
  <2> QED
    BY <1>0, <1>2, <1>3, <1>4, <2>1, <2>2
<1>7. ASSUME NEW n \in ProfileName, NEW m \in ProfileName, RenameProfile(w, n, m) PROVE PinInv'
  <2> DEFINE f == Renamed(writer[w].file, n, m)
  <2>1. /\ writer' = [writer EXCEPT ![w].pc = "following", ![w].name = m, ![w].from = n, ![w].file = f]
        /\ profiles' = f /\ pins' = pins /\ adrift' = (adrift \/ StoreDrifts(w)) /\ writer[w].pc = "open"
    BY <1>7, Zenon DEF RenameProfile
  <2>2. f.here /\ DOMAIN f.of = (DOMAIN writer[w].file.of \ {n}) \cup {m}
    BY <1>0, <1>4
  <2> HIDE DEF f
  <2>3. writer'[w].pc = "following" /\ writer'[w].name = m /\ writer'[w].from = n /\ writer'[w].file = f
    BY <1>0, <2>1 DEF Work
  <2>4. ~Renaming(w)
    BY <2>1 DEF Renaming
  <2> QED
    BY <1>1, <2>1, <2>2, <2>3, <2>4, PinStores
<1>8. ASSUME NEW n \in ProfileName, AskDelete(w, n) PROVE PinInv'
  <2>1. /\ writer[w].pc = "open" /\ n # pins.local /\ UNCHANGED <<profiles, pins, adrift>>
        /\ writer' = [writer EXCEPT ![w].pc = "asking", ![w].name = n]
    BY <1>8 DEF AskDelete
  <2>2. writer'[w].pc = "asking" /\ writer'[w].name = n /\ writer'[w].file = writer[w].file
    BY <1>0, <2>1 DEF Work
  <2>3. InPanel(w) /\ ~Renaming(w)
    BY <2>1 DEF InPanel, Renaming
  <2> QED
    BY <1>1, <1>2, <2>1, <2>2, <2>3, PinRests
<1>9. ASSUME NEW yes \in BOOLEAN, DeleteAnswered(w, yes) PROVE PinInv'
  <2>1. writer[w].pc = "asking" /\ pins' = pins /\ InPanel(w) /\ ~Renaming(w)
    BY <1>9 DEF DeleteAnswered, InPanel, Renaming
  <2>2. CASE Store(w, Without(writer[w].file, writer[w].name))
    <3>1. ~adrift /\ pins.local # "none" => pins.local # writer[w].name
      BY <2>1 DEF PinInv
    <3> QED
      BY <1>0, <1>2, <1>3, <1>4, <2>1, <2>2, <3>1
  <2>3. CASE writer' = [writer EXCEPT ![w].pc = "open"] /\ UNCHANGED <<profiles, adrift>>
    <3>1. writer'[w].pc = "open" /\ writer'[w].file = writer[w].file
      BY <1>0, <2>3 DEF Work
    <3> QED
      BY <1>1, <1>2, <2>1, <2>3, <3>1, PinRests
  <2> QED
    BY <1>9, <2>2, <2>3 DEF DeleteAnswered
<1>10. CASE FollowRenamedPin(w)
  <2>1. /\ writer' = [writer EXCEPT ![w].pc = "open", ![w].from = "none"] /\ profiles' = profiles /\ Renaming(w)
        /\ \/ pins' = [pins EXCEPT !.local = writer[w].name] /\ adrift' = (adrift \/ PinDrifts(w, writer[w].name))
           \/ pins.local # writer[w].from /\ UNCHANGED <<pins, adrift>>
           \/ adrift' = TRUE /\ UNCHANGED pins
    BY <1>10 DEF FollowRenamedPin
  <2>2. writer'[w].pc = "open" /\ writer'[w].file = writer[w].file
    BY <1>0, <2>1 DEF Work
  <2>3. InPanel(w) /\ InPanel(w)' /\ profiles'.here /\ writer'[w].file.here
    BY <1>2, <2>1, <2>2 DEF InPanel, Renaming
  <2>4. CASE pins' = [pins EXCEPT !.local = writer[w].name] /\ adrift' = (adrift \/ PinDrifts(w, writer[w].name))
    <3>1. pins'.local = writer[w].name
      BY <1>0, <2>4
    <3>2. ~adrift' => writer[w].name \in DOMAIN profiles.of /\ ~adrift
      BY <2>1, <2>4 DEF PinInv
    <3> QED
      BY <1>1, <2>1, <2>2, <2>3, <2>4, <3>1, <3>2, PinMoves
  <2>5. CASE pins.local # writer[w].from /\ UNCHANGED <<pins, adrift>>
    <3>1. PinResolves'
      <4>1. ASSUME NEW v \in RoutingWriter, Renaming(v), writer[v].from = pins.local PROVE PinResolves'
        <5>1. v # w
          BY <2>5, <4>1
        <5>2. SameWork(writer'[v], writer[v])
          BY <1>1, <5>1
        <5>3. Renaming(v)' /\ writer'[v].from = pins'.local
          BY <2>5, <4>1, <5>2 DEF Renaming, SameWork
        <5> QED
          BY <5>3 DEF PinResolves
      <4> QED
        BY <2>1, <2>5, <4>1 DEF PinInv, PinResolves
    <3> QED
      BY <1>1, <2>1, <2>2, <2>3, <2>5, <3>1, PinStep DEF PinInv
  <2>6. CASE adrift' = TRUE
    BY <1>1, <2>2, <2>3, <2>6, PinStep DEF PinResolves
  <2> QED
    BY <2>1, <2>4, <2>5, <2>6
<1> QED
  BY <1>5, <1>6, <1>7, <1>8, <1>9, <1>10

\* A pin is toggled or moved, or a profile claimed.
LEMMA PinsAndClaims ==
  ASSUME RoutingInv, PinInv, NEW w \in RoutingWriter, NEW n \in ProfileName,
         ApplyPinned(w, n) \/ ClaimProfile(w, n) \/ \E layer \in {"local", "repo"} : TogglePin(w, n, layer)
  PROVE  PinInv'
<1>0. writer[w] \in Work /\ writer[w].file \in StoreFile /\ writer \in [RoutingWriter -> Work]
      /\ pins \in [local : ProfileName \cup {"none"}, repo : ProfileName \cup {"none", "invalid"}]
  BY OfWriter DEF Work, RoutingInv, WritersOK, FilesOK
<1>1. \A v \in RoutingWriter \ {w} : SameWork(writer'[v], writer[v])
  BY OthersStay DEF WriterStep, PanelStep
<1>2. writer[w].pc = "open" /\ n \in DOMAIN writer[w].file.of /\ InPanel(w) /\ ~Renaming(w)
  BY DEF ApplyPinned, ClaimProfile, TogglePin, InPanel, Renaming
<1>3. profiles.here /\ writer[w].file.here
  BY <1>2 DEF PinInv
<1>4. CASE ApplyPinned(w, n)
  <2>1. /\ pins' = [pins EXCEPT !.local = n] /\ adrift' = (adrift \/ PinDrifts(w, n)) /\ UNCHANGED <<profiles, writer>>
    BY <1>4 DEF ApplyPinned
  <2>2. InPanel(w)' /\ pins'.local = n
    BY <1>0, <1>2, <2>1 DEF InPanel
  <2>3. ~adrift' => n \in DOMAIN profiles.of /\ ~adrift
    BY <1>2, <2>1 DEF PinDrifts, Outdated
  <2> QED
    BY <1>1, <1>2, <2>1, <2>2, <2>3, PinMoves
<1>5. ASSUME NEW layer \in {"local", "repo"}, TogglePin(w, n, layer) PROVE PinInv'
  <2>1. /\ adrift' = (adrift \/ (layer = "local" /\ PinDrifts(w, n))) /\ UNCHANGED <<profiles, writer>>
    BY <1>5 DEF TogglePin
  <2>2. PICK x \in {n, "none"} : pins' = [pins EXCEPT ![layer] = x]
    BY <1>5 DEF TogglePin
  <2>3. CASE layer = "repo"
    <3>1. pins'.local = pins.local /\ (adrift' <=> adrift)
      BY <1>0, <2>1, <2>2, <2>3
    <3> QED
      BY <1>1, <1>2, <1>3, <2>1, <3>1, PinRests
  <2>4. CASE layer = "local"
    <3>1. pins'.local = x /\ adrift' = (adrift \/ PinDrifts(w, n))
      BY <1>0, <2>1, <2>2, <2>4
    <3>2. InPanel(w)'
      BY <1>2, <2>1 DEF InPanel
    <3>3. ~adrift' => n \in DOMAIN profiles.of /\ ~adrift
      BY <1>2, <3>1 DEF PinDrifts, Outdated
    <3> QED
      BY <1>1, <1>2, <2>1, <2>2, <3>1, <3>2, <3>3, PinMoves
  <2> QED
    BY <2>3, <2>4
<1>6. CASE ClaimProfile(w, n)
  <2> DEFINE k == [writer[w] EXCEPT !.pc = "claimed", !.kind = "profile", !.name = n]
  <2>1. BeginWriting(w, k) /\ pins' = pins /\ profiles' = [writer[w].file EXCEPT !.active = n] /\ adrift' = (adrift \/ StoreDrifts(w))
    BY <1>6 DEF ClaimProfile
  <2>2. k \in Work
    BY <1>0, MovesAreWork DEF WriterPc
  <2>3. k.pc = "claimed" /\ k.file = writer[w].file
    BY <1>0 DEF Work
  <2> HIDE DEF k
  <2>4. writer'[w].pc = "claimed" /\ writer'[w].file = writer[w].file
    BY <2>1, <2>2, <2>3 DEF BeginWriting, Work
  <2>5. profiles'.here = writer[w].file.here /\ profiles'.of = writer[w].file.of
    BY <1>0, <2>1 DEF StoreFile
  <2> QED
    BY <1>1, <1>2, <1>3, <2>1, <2>4, <2>5, PinStores
<1> QED
  BY <1>4, <1>5, <1>6

\* What an apply writes leaves the names of the store alone.
LEMMA AppliesKeepNames ==
  ASSUME RoutingInv, PinInv, NEW w \in RoutingWriter, ApplyStep(w)
  PROVE  PinInv'
<1>0. writer[w] \in Work /\ WorkSound(writer[w]) /\ writer[w].file \in StoreFile /\ writer \in [RoutingWriter -> Work]
  BY OfWriter DEF Work, RoutingInv, WritersOK
<1>1. \A v \in RoutingWriter \ {w} : SameWork(writer'[v], writer[v])
  BY OthersStay DEF WriterStep
<1>2. Active(writer[w]) /\ ~Renaming(w) /\ pins' = pins
  BY DEF ApplyStep, WriteFrontmatter, ReadProfiles, WriteProfile, WriteModels, ApplyOrchestrator, ApplyFails,
         BeginRevert, RevertFails, Unclaim, Active, Renaming
<1>3. ASSUME UNCHANGED <<profiles, adrift>>, writer'[w].pc \notin {"asking", "following"},
             InPanel(w)' => InPanel(w) /\ writer'[w].file.here = writer[w].file.here
      PROVE  PinInv'
  <2>1. InPanel(w)' => profiles'.here /\ writer'[w].file.here
    BY <1>3 DEF PinInv
  <2> QED
    BY <1>1, <1>2, <1>3, <2>1, PinRests
<1>4. CASE WriteFrontmatter(w) \/ ReadProfiles(w) \/ WriteProfile(w) \/ WriteModels(w) \/ ApplyFails(w) \/ BeginRevert(w) \/ RevertFails(w)
  <2>1. UNCHANGED <<profiles, adrift>>
    BY <1>4 DEF WriteFrontmatter, ReadProfiles, WriteProfile, WriteModels, ApplyFails, BeginRevert, RevertFails
  <2>2. writer'[w].file = writer[w].file
    BY <1>0, <1>4 DEF WriteFrontmatter, ReadProfiles, WriteProfile, WriteModels, ApplyFails, BeginRevert, RevertFails, Work
  <2>3. writer'[w].pc \notin {"open", "asking", "following"}
    BY <1>0, <1>4 DEF WriteFrontmatter, ReadProfiles, WriteProfile, WriteModels, ApplyFails, BeginRevert, RevertFails, Work
  <2>4. /\ writer'[w].kind \in {writer[w].kind, "revert"}
        /\ writer'[w].kind = "revert" => writer[w].kind \in {"profile", "revert"}
    BY <1>0, <1>4 DEF WriteFrontmatter, ReadProfiles, WriteProfile, WriteModels, ApplyFails, BeginRevert, RevertFails,
                      Work, WorkSound
  <2> QED
    BY <1>2, <1>3, <2>1, <2>2, <2>3, <2>4 DEF InPanel
<1>5. CASE ApplyOrchestrator(w)
  <2>1. UNCHANGED <<profiles, adrift>> /\ writer[w].kind = "profile" /\ InPanel(w)
    BY <1>2, <1>5 DEF ApplyOrchestrator, InPanel
  <2>2. CASE writer' = [writer EXCEPT ![w].pc = "revert"]
    <3>1. writer'[w].file = writer[w].file /\ writer'[w].pc = "revert"
      BY <1>0, <2>2 DEF Work
    <3> QED
      BY <1>3, <2>1, <3>1
  <2>3. CASE writer' = [writer EXCEPT ![w] = [IdleWriter EXCEPT !.pc = "open", !.file = [writer[w].file EXCEPT !.active = writer[w].name]]]
    <3>1. writer'[w].pc = "open" /\ writer'[w].file = [writer[w].file EXCEPT !.active = writer[w].name]
      BY <1>0, <2>3 DEF IdleWriter
    <3>2. writer'[w].file.here = writer[w].file.here
      BY <1>0, <3>1 DEF StoreFile
    <3> QED
      BY <1>3, <2>1, <3>1, <3>2
  <2> QED
    BY <1>5, <2>2, <2>3 DEF ApplyOrchestrator
<1>6. CASE Unclaim(w)
  <2>1. /\ writer[w].kind \in {"profile", "revert"}
        /\ writer' = [writer EXCEPT ![w] = [IdleWriter EXCEPT !.pc = "open", !.file = writer[w].file]]
        /\ \/ profiles' = writer[w].file /\ adrift' = (adrift \/ StoreDrifts(w))
           \/ UNCHANGED <<profiles, adrift>>
    BY <1>0, <1>6 DEF Unclaim, WorkSound
  <2>2. writer'[w].pc = "open" /\ writer'[w].file = writer[w].file /\ InPanel(w)
    BY <1>0, <1>2, <2>1 DEF IdleWriter, InPanel
  <2>3. writer[w].file.here
    BY <2>2 DEF PinInv
  <2>4. CASE UNCHANGED <<profiles, adrift>>
    BY <1>3, <2>2, <2>4
  <2>5. CASE profiles' = writer[w].file /\ adrift' = (adrift \/ StoreDrifts(w))
    BY <1>1, <1>2, <2>2, <2>3, <2>5, PinStores
  <2> QED
    BY <2>1, <2>4, <2>5
<1> QED
  BY <1>4, <1>5, <1>6 DEF ApplyStep

\* The invariant of the pins is inductive.
LEMMA PinKeeps == RoutingInv /\ PinInv /\ [RoutingNext]_routingVars => PinInv'
<1> SUFFICES ASSUME RoutingInv, PinInv, [RoutingNext]_routingVars PROVE PinInv'
  OBVIOUS
<1>1. ASSUME NEW w \in RoutingWriter,
             \/ BeginStart(w) \/ EndStart(w) \/ AbandonApply(w) \/ OpenModels(w) \/ SaveToProfile(w)
             \/ (\E r \in RoutingTried : SaveModels(w, r)) \/ CrashWriter(w) \/ ClosePanel(w)
      PROVE  PinInv'
  BY <1>1, OutsidePanels
<1>2. ASSUME NEW w \in RoutingWriter, PanelStep(w), ~ClosePanel(w) PROVE PinInv'
  <2>1. CASE \/ OpenPanel(w) \/ FollowRenamedPin(w)
             \/ \E n \in ProfileName :
                  \/ \E how \in {"create", "update", "duplicate", "import"} : PutProfile(w, n, how)
                  \/ \E m \in ProfileName : RenameProfile(w, n, m)
                  \/ AskDelete(w, n)
             \/ \E yes \in BOOLEAN : DeleteAnswered(w, yes)
    BY <2>1, PanelsKeepThePin
  <2>2. ASSUME NEW n \in ProfileName,
               ApplyPinned(w, n) \/ ClaimProfile(w, n) \/ \E layer \in {"local", "repo"} : TogglePin(w, n, layer)
        PROVE  PinInv'
    BY <2>2, PinsAndClaims
  <2> QED
    BY <1>2, <2>1, <2>2 DEF PanelStep
<1>3. ASSUME NEW w \in RoutingWriter, ApplyStep(w) PROVE PinInv'
  BY <1>3, AppliesKeepNames
<1>4. CASE HandEdit
  <2>1. profiles' = profiles /\ pins'.local = pins.local /\ adrift' = adrift
    BY <1>4 DEF HandEdit, RoutingInv, FilesOK
  <2>2. ASSUME NEW v \in RoutingWriter PROVE SameWork(writer'[v], writer[v])
    BY <1>4, OfWriter DEF HandEdit, Work, SameWork
  <2>3. ASSUME NEW v \in RoutingWriter PROVE InPanel(v)' => InPanel(v)
    BY <2>2 DEF InPanel, Active, SameWork
  <2>4. PinResolves'
    <3>1. ASSUME NEW v \in RoutingWriter, Renaming(v), writer[v].from = pins.local PROVE PinResolves'
      BY <2>1, <2>2, <3>1 DEF PinResolves, Renaming, SameWork
    <3> QED
      BY <2>1, <3>1 DEF PinInv, PinResolves
  <2> QED
    BY <2>1, <2>2, <2>3, <2>4 DEF PinInv, Renaming, SameWork
<1>5. CASE UNCHANGED routingVars
  BY <1>5 DEF routingVars, PinInv, PinResolves, InPanel, Active, Renaming
<1> QED
  BY <1>1, <1>2, <1>3, <1>4, <1>5 DEF RoutingNext

\* At first there is no pin, no panel, and either a store or none.
LEMMA PinStarts == RoutingInit => PinInv
<1> SUFFICES ASSUME RoutingInit PROVE PinInv
  OBVIOUS
<1>1. profiles.here \/ DOMAIN profiles.of = {}
  BY ProfilesAre DEF RoutingInit
<1> QED
  BY <1>1, IdleIsWork DEF RoutingInit, PinInv, PinResolves, InPanel, Active, Renaming

\* What the routing panels leave behind, for any agents, models, profiles and
\* writers, with any number of panels open: agents launched as the last lone writer
\* reported, and a pin that names a profile of the store, until a session writes
\* from an outdated copy, pins what another is deleting, or cannot rewrite its pin
\* (runProfilesPanelAction, followRenamedPin).
THEOREM RoutingStaysSound == RoutingSpec => []RoutingIsSound
<1>1. PinInv => PinResolves
  BY DEF PinInv
<1>2. RoutingSettles /\ PinResolves => RoutingIsSound
  BY DEF RoutingIsSound
<1> QED
  BY RoutingStarts, RoutingKeeps, InvSettles, PinStarts, PinKeeps, <1>1, <1>2, PTL DEF RoutingSpec

-----------------------------------------------------------------------------
(* The registry of skills.                                                 *)

SkillEntries == [file : SkillFile, name : SkillName, version : Nat]
RegenRecord ==
  [pc : {"ignore", "append", "legacy", "rename", "list", "hash", "cached", "load", "write", "stamp", "started", "watch"},
   kind : {"start", "headless", "refresh", "watch", "heal"}, force : BOOLEAN, of : Nat,
   todo : SUBSET SkillFile, files : SUBSET SkillFile, fp : SUBSET (SkillFile \X Nat),
   entries : SUBSET SkillEntries, lines : SUBSET {"atl", "user"}, alone : BOOLEAN]

SkillTypes ==
    /\ skills \in [SkillFile -> [version : Nat, name : SkillName]] /\ skillEdits \in Nat
    /\ gitignore \subseteq {"atl", "user"} /\ regenSettled \in BOOLEAN
    /\ session \in [up : BOOLEAN, count : Nat, watched : BOOLEAN]
    /\ regens \in [Regen -> RegenRecord \cup {NoRegen}]

\* What the registry lists of some files before names are deduplicated.
EntriesOf(files) == {SkillEntry(f) : f \in {p \in files : ~IsExcluded(skills[p].name)}}

\* What a regeneration knows, when no file has changed since it began and no
\* other one has written.
Current(r) ==
    /\ r.pc \in {"ignore", "append", "legacy", "rename", "list"} => r.fp = {}
    /\ r.pc \in {"ignore", "append", "legacy", "rename", "list", "hash", "cached"} => r.entries = {}
    /\ r.pc \in {"hash", "cached", "load", "write", "stamp"} => r.files = Present
    /\ r.pc \in {"hash", "load"} => r.todo \subseteq Present
    /\ r.pc = "hash" => r.fp = FingerprintOf(Present \ r.todo)
    /\ r.pc \in {"cached", "load", "write", "stamp"} => r.fp = FingerprintOf(Present)
    /\ r.pc = "load" => r.entries = EntriesOf(Present \ r.todo)
    /\ r.pc = "write" => r.entries = EntriesOf(Present)
    /\ r.pc = "stamp" => registry = Listing

\* A regeneration that is alone has no company; one that is alone, or that
\* follows a refresh that healed the registry, is current.
SkillInv ==
    /\ SkillTypes
    /\ \A g \in Regen : Regenerating(g) /\ regens[g].alone => \A o \in Regen : Regenerating(o) => o = g
    /\ \A g \in Regen : Regenerating(g) /\ (regens[g].alone \/ regenSettled) => Current(regens[g])
    /\ RefreshHeals

(* Some number of a set of numbers is the least.  *)
LEMMA LeastNumber ==
  ASSUME NEW T \in SUBSET Nat, T # {}
  PROVE  \E m \in T : \A k \in T : m <= k
<1> DEFINE R == {ss \in Nat \X Nat : ss[1] < ss[2]}
<1>1. IsWellFoundedOn(R, Nat)
  BY NatLessThanWellFounded DEF OpToRel
<1> HIDE DEF R
<1>2. PICK m \in T : \A k \in T : <<k, m>> \notin R
  BY <1>1, WFMin, Zenon
<1>3. ASSUME NEW k \in T PROVE m <= k
  <2>1. k \in Nat /\ m \in Nat
    OBVIOUS
  <2>2. k < m => <<k, m>> \in R
    BY <2>1 DEF R
  <2> QED BY <1>2, <2>1, <2>2
<1> QED BY <1>3

(* A scan takes one of the files that are left.  *)
LEMMA FirstIsMember == ASSUME SkillAssumption, NEW S \in SUBSET SkillFile, S # {} PROVE Min(S) \in S
<1>1. S \in SUBSET Nat
  BY DEF SkillAssumption
<1>2. \E m \in S : \A k \in S : m <= k
  BY <1>1, LeastNumber
<1> QED
  BY <1>2 DEF Min

\* A regeneration that has not begun is none of those under way.
LEMMA NoRegenIsIdle == NoRegen.pc = "idle" /\ \A r \in RegenRecord : r.pc # "idle"
BY DEF NoRegen, RegenRecord

\* A step of one regeneration.
LEMMA RegenMoves ==
  ASSUME SkillInv, NEW g \in Regen, Regenerating(g), NEW r \in RegenRecord \cup {NoRegen},
         SkillTypes', skills' = skills, regens' = [regens EXCEPT ![g] = r],
         r.pc # "idle" => r.alone = regens[g].alone /\ (Current(regens[g]) => Current(r)'),
         regenSettled' => regenSettled \/ regens[g].alone,
         Current(regens[g]) => registry' \in {registry, Listing},
         Current(regens[g]) /\ regenSettled' => RefreshHeals'
  PROVE  SkillInv'
<1>1. regens[g] \in RegenRecord
  BY NoRegenIsIdle DEF SkillInv, SkillTypes, Regenerating
<1>2. regens'[g] = r /\ \A o \in Regen : o # g => regens'[o] = regens[o]
  BY DEF SkillInv, SkillTypes
<1>3. Present' = Present /\ Listing' = Listing
  BY DEF Present, Listing, SkillEntry
<1>4. regenSettled' => Current(regens[g])
  BY DEF SkillInv
<1>5. ASSUME NEW o \in Regen, Regenerating(o)', regens'[o].alone PROVE o = g /\ \A q \in Regen : Regenerating(q)' => q = g
  BY <1>2, <1>5 DEF SkillInv, Regenerating
<1>6. ASSUME NEW o \in Regen, Regenerating(o)', regens'[o].alone \/ regenSettled' PROVE Current(regens[o])'
  <2>1. CASE o = g
    <3>1. r.pc # "idle" /\ (r.alone \/ regenSettled')
      BY <1>2, <1>6, <2>1 DEF Regenerating
    <3>2. Current(regens[g])
      BY <3>1, <1>4 DEF SkillInv
    <3>3. Current(r)'
      BY <3>1, <3>2
    <3> QED
      BY <1>2, <2>1, <3>3 DEF Current
  <2>2. CASE o # g
    <3>1. regenSettled' /\ regens'[o] = regens[o] /\ Regenerating(o)
      BY <1>2, <1>5, <1>6, <2>2 DEF Regenerating
    <3>2. regenSettled /\ Current(regens[o])
      BY <3>1, <2>2 DEF SkillInv
    <3>3. regens[o].pc = "stamp" => registry' = Listing
      BY <3>1, <3>2, <1>4 DEF Current
    <3> QED
      BY <3>1, <3>2, <3>3, <1>3 DEF Current, FingerprintOf, EntriesOf, SkillEntry
  <2> QED BY <2>1, <2>2
<1>7. RefreshHeals'
  BY <1>4 DEF RefreshHeals
<1> QED
  BY <1>5, <1>6, <1>7 DEF SkillInv

\* What a regeneration is, and that it stays one.
LEMMA RegenIsRecord ==
  ASSUME SkillTypes, NEW g \in Regen, Regenerating(g)
  PROVE  /\ regens[g] \in RegenRecord
         /\ \A r \in RegenRecord \cup {NoRegen} : [regens EXCEPT ![g] = r] \in [Regen -> RegenRecord \cup {NoRegen}]
BY NoRegenIsIdle DEF SkillTypes, Regenerating

\* What a change of the files does to the regenerations under way: none of them is alone any more.
LEMMA DisturbedRecords ==
  ASSUME SkillTypes
  PROVE  /\ RegenDisturbed \in [Regen -> RegenRecord \cup {NoRegen}]
         /\ \A o \in Regen : /\ ~Regenerating(o) => RegenDisturbed[o] = regens[o]
                             /\ Regenerating(o) => RegenDisturbed[o] = [regens[o] EXCEPT !.alone = FALSE]
<1>1. ASSUME NEW o \in Regen, Regenerating(o) PROVE [regens[o] EXCEPT !.alone = FALSE] \in RegenRecord
  <2>1. regens[o] \in RegenRecord
    BY <1>1, RegenIsRecord
  <2> QED BY <2>1 DEF RegenRecord
<1> QED
  BY <1>1 DEF RegenDisturbed, SkillTypes

\* What disturbs the regenerations in progress: a file that changes, and
\* another one that begins.
LEMMA DisturbedIsSound ==
  ASSUME SkillInv, regens' = RegenDisturbed, regenSettled' = FALSE, SkillTypes'
  PROVE  SkillInv'
<1>1. ASSUME NEW o \in Regen, Regenerating(o)' PROVE ~regens'[o].alone
  <2>1. Regenerating(o)
    BY <1>1, DisturbedRecords DEF SkillInv, Regenerating
  <2>2. regens[o] \in RegenRecord
    BY <2>1, RegenIsRecord DEF SkillInv
  <2>3. regens'[o] = [regens[o] EXCEPT !.alone = FALSE]
    BY <2>1, DisturbedRecords DEF SkillInv
  <2> QED BY <2>2, <2>3 DEF RegenRecord
<1> QED
  BY <1>1 DEF SkillInv, RefreshHeals

\* A regeneration begins, alone when no other one is under way.
LEMMA RegenBegins ==
  ASSUME SkillInv, NEW g \in Regen, ~Regenerating(g), NEW r \in RegenRecord,
         r.pc \in {"ignore", "list"}, r.fp = {}, r.entries = {},
         r.alone = (\A o \in Regen : ~Regenerating(o)), regens' = [RegenDisturbed EXCEPT ![g] = r],
         UNCHANGED <<fileVars, regenSettled>>, session' \in [up : BOOLEAN, count : Nat, watched : BOOLEAN]
  PROVE  SkillInv'
<1>1. SkillTypes'
  BY DisturbedRecords DEF SkillInv, SkillTypes, fileVars
<1>2. regens'[g] = r /\ \A o \in Regen : o # g => regens'[o] = RegenDisturbed[o]
  BY DisturbedRecords DEF SkillInv
<1>3. ASSUME NEW o \in Regen, o # g, Regenerating(o)'
      PROVE  Regenerating(o) /\ regens[o] \in RegenRecord /\ regens'[o] = [regens[o] EXCEPT !.alone = FALSE]
  <2>1. Regenerating(o)
    BY <1>2, <1>3, DisturbedRecords DEF SkillInv, Regenerating
  <2> QED
    BY <1>2, <1>3, <2>1, DisturbedRecords, RegenIsRecord DEF SkillInv
<1>4. ASSUME NEW o \in Regen, Regenerating(o)', regens'[o].alone PROVE \A q \in Regen : Regenerating(q)' => q = o
  <2>1. ASSUME o # g PROVE FALSE
    <3>1. regens[o] \in RegenRecord /\ regens'[o] = [regens[o] EXCEPT !.alone = FALSE]
      BY <1>3, <1>4, <2>1
    <3> QED
      BY <1>4, <3>1 DEF RegenRecord
  <2> QED
    BY <1>2, <1>3, <1>4, <2>1
<1>5. Present' = Present /\ Listing' = Listing
  BY DEF Present, Listing, SkillEntry, fileVars
<1>6. ASSUME NEW o \in Regen, Regenerating(o)', regens'[o].alone \/ regenSettled' PROVE Current(regens[o])'
  <2>1. CASE o = g
    BY <1>2, <2>1 DEF Current
  <2>2. CASE o # g
    <3>1. Regenerating(o) /\ regens[o] \in RegenRecord /\ regens'[o] = [regens[o] EXCEPT !.alone = FALSE]
      BY <1>3, <1>6, <2>2
    <3>2. regenSettled /\ Current(regens[o])
      BY <3>1, <1>6 DEF SkillInv, RegenRecord
    <3>3. /\ regens'[o].pc = regens[o].pc /\ regens'[o].fp = regens[o].fp /\ regens'[o].entries = regens[o].entries
          /\ regens'[o].files = regens[o].files /\ regens'[o].todo = regens[o].todo
      BY <3>1 DEF RegenRecord
    <3> QED
      BY <3>2, <3>3, <1>5 DEF Current, FingerprintOf, EntriesOf, SkillEntry, fileVars
  <2> QED BY <2>1, <2>2
<1>7. RefreshHeals'
  BY <1>5 DEF SkillInv, RefreshHeals, FingerprintOf, fileVars
<1> QED
  BY <1>1, <1>4, <1>6, <1>7 DEF SkillInv

\* The four ways in which a regeneration begins.
LEMMA BeginsAreSound ==
  ASSUME SkillInv, SkillAssumption, NEW g \in Regen, UNCHANGED <<fileVars, regenSettled>>,
         \/ \E hasUI \in BOOLEAN : SessionStarts(g, hasUI)
         \/ RefreshCommand(g) \/ HealTimerFires(g) \/ \E s \in 1..MaxStarts : WatchTimerFires(s, g)
  PROVE  SkillInv'
<1> USE DEF SkillInv, SkillTypes
<1>1. ASSUME NEW hasUI \in BOOLEAN, SessionStarts(g, hasUI) PROVE SkillInv'
  <2> DEFINE r == [pc |-> "ignore", kind |-> IF hasUI THEN "start" ELSE "headless", force |-> FALSE, of |-> session.count + 1,
                   todo |-> {}, files |-> {}, fp |-> {}, entries |-> {}, lines |-> {}, alone |-> \A o \in Regen : ~Regenerating(o)]
  <2>1. /\ session.count + 1 \in Nat /\ (\A o \in Regen : ~Regenerating(o)) \in BOOLEAN
        /\ (IF hasUI THEN "start" ELSE "headless") \in {"start", "headless"}
    OBVIOUS
  <2>2. r \in RegenRecord
    BY <2>1 DEF RegenRecord
  <2>3. session' \in [up : BOOLEAN, count : Nat, watched : BOOLEAN]
    <3>1. session' = [session EXCEPT !.up = TRUE, !.count = session.count + 1]
      BY <1>1 DEF SessionStarts
    <3> QED BY <2>1, <3>1
  <2>4. ~Regenerating(g) /\ regens' = [RegenDisturbed EXCEPT ![g] = r]
    BY <1>1 DEF SessionStarts
  <2>5. r.pc = "ignore" /\ r.fp = {} /\ r.entries = {} /\ r.alone = (\A o \in Regen : ~Regenerating(o))
    OBVIOUS
  <2> HIDE DEF r, SkillInv, SkillTypes
  <2> QED
    BY <2>2, <2>3, <2>4, <2>5, RegenBegins
<1>2. ASSUME NEW kind \in {"refresh", "watch", "heal"}, NEW pc \in {"ignore", "list"}, NEW force \in BOOLEAN,
             BeginRegen(g, kind, pc, force), session' = session
      PROVE  SkillInv'
  <2> DEFINE r == [pc |-> pc, kind |-> kind, force |-> force, of |-> session.count, todo |-> {}, files |-> {}, fp |-> {},
                   entries |-> {}, lines |-> {}, alone |-> \A o \in Regen : ~Regenerating(o)]
  <2>1. r \in RegenRecord /\ session' \in [up : BOOLEAN, count : Nat, watched : BOOLEAN]
    BY <1>2 DEF RegenRecord
  <2>2. ~Regenerating(g) /\ regens' = [RegenDisturbed EXCEPT ![g] = r]
    BY <1>2 DEF BeginRegen
  <2>3. r.pc \in {"ignore", "list"} /\ r.fp = {} /\ r.entries = {} /\ r.alone = (\A o \in Regen : ~Regenerating(o))
    OBVIOUS
  <2> HIDE DEF r, SkillInv, SkillTypes
  <2> QED
    BY <2>1, <2>2, <2>3, RegenBegins
<1> HIDE DEF SkillInv, SkillTypes
<1> QED
  BY <1>1, <1>2 DEF RefreshCommand, HealTimerFires, WatchTimerFires, sessionVars

\* The steps of a regeneration keep what it is.
LEMMA RegenStepTypes ==
  ASSUME SkillTypes, SkillAssumption, NEW g \in Regen, RegenStep(g)
  PROVE  \E r \in RegenRecord \cup {NoRegen} :
           /\ regens' = [regens EXCEPT ![g] = r] /\ Regenerating(g)
           /\ r.pc # "idle" => r.alone = regens[g].alone
<1>1. Regenerating(g)
  BY DEF RegenStep, EnsureAtlIgnored, QuarantineLegacy, FindSkillFiles, Fingerprint, ReadCache, LoadSkill,
         WriteRegistry, WriteCache, RegenFails, StartWatcher, Regenerating
<1>2. regens[g] \in RegenRecord /\ regens \in [Regen -> RegenRecord \cup {NoRegen}]
  BY <1>1, RegenIsRecord DEF SkillTypes
<1> DEFINE Goal(r) == /\ r \in RegenRecord \cup {NoRegen} /\ regens' = [regens EXCEPT ![g] = r]
                      /\ r.pc # "idle" => r.alone = regens[g].alone
<1>3. SUFFICES \E r : Goal(r)
  BY <1>1
<1>4. regens' = [regens EXCEPT ![g] = NoRegen] => Goal(NoRegen)
  BY NoRegenIsIdle
<1>5. Present \in SUBSET SkillFile
  BY DEF Present
<1>6. CASE EnsureAtlIgnored(g)
  <2> DEFINE next == IF regens[g].kind = "refresh" THEN "list" ELSE "legacy"
             r1 == [regens[g] EXCEPT !.pc = next]
             r2 == [regens[g] EXCEPT !.pc = IF "atl" \in gitignore THEN next ELSE "append", !.lines = gitignore]
  <2>1. regens' = [regens EXCEPT ![g] = r1] \/ regens' = [regens EXCEPT ![g] = r2]
    BY <1>2, <1>6 DEF EnsureAtlIgnored
  <2>2. /\ r1 \in RegenRecord /\ r1.alone = regens[g].alone
        /\ r2 \in RegenRecord /\ r2.alone = regens[g].alone
    BY <1>2 DEF RegenRecord, SkillTypes
  <2> QED BY <2>1, <2>2
<1>7. CASE QuarantineLegacy(g)
  <2> DEFINE r1 == [regens[g] EXCEPT !.pc = IF legacy = "generated" THEN "rename" ELSE "list"]
             r2 == [regens[g] EXCEPT !.pc = "list", !.force = (legacy # "none")]
  <2>1. regens' = [regens EXCEPT ![g] = r1] \/ regens' = [regens EXCEPT ![g] = r2]
    BY <1>2, <1>7 DEF QuarantineLegacy
  <2>2. /\ r1 \in RegenRecord /\ r1.alone = regens[g].alone
        /\ r2 \in RegenRecord /\ r2.alone = regens[g].alone
    BY <1>2 DEF RegenRecord
  <2> QED BY <2>1, <2>2
<1>8. CASE FindSkillFiles(g)
  <2> DEFINE r1 == [regens[g] EXCEPT !.pc = "hash", !.files = Present, !.todo = Present]
  <2>1. regens' = [regens EXCEPT ![g] = r1]
    BY <1>2, <1>8 DEF FindSkillFiles
  <2>2. r1 \in RegenRecord /\ r1.alone = regens[g].alone
    BY <1>2, <1>5 DEF RegenRecord
  <2> QED BY <2>1, <2>2
<1>9. CASE Fingerprint(g)
  <2> DEFINE todo == regens[g].todo
             fp == regens[g].fp \cup FingerprintOf({Min(todo)})
             r1 == [regens[g] EXCEPT !.pc = "cached"]
             r2 == [regens[g] EXCEPT !.todo = todo \ {Min(todo)}, !.fp = fp]
  <2>1. \/ todo = {} /\ regens' = [regens EXCEPT ![g] = r1]
        \/ todo # {} /\ regens' = [regens EXCEPT ![g] = r2]
    BY <1>2, <1>9 DEF Fingerprint
  <2>2. todo \in SUBSET SkillFile /\ regens[g].fp \in SUBSET (SkillFile \X Nat)
    BY <1>2 DEF RegenRecord
  <2>3. todo # {} => fp \in SUBSET (SkillFile \X Nat)
    <3>1. todo # {} => Min(todo) \in SkillFile
      BY <2>2, FirstIsMember
    <3>2. \A f \in SkillFile : skills[f].version \in Nat
      BY DEF SkillTypes
    <3>3. \A m \in SkillFile : FingerprintOf({m}) \subseteq SkillFile \X Nat
      BY <3>2 DEF FingerprintOf
    <3> QED BY <2>2, <3>1, <3>3
  <2>4. r1 \in RegenRecord /\ r1.alone = regens[g].alone
    BY <1>2 DEF RegenRecord
  <2> HIDE DEF fp
  <2>5. todo # {} => r2 \in RegenRecord /\ r2.alone = regens[g].alone
    BY <1>2, <2>2, <2>3 DEF RegenRecord
  <2> QED BY <2>1, <2>4, <2>5
<1>10. CASE ReadCache(g)
  <2> DEFINE r1 == [regens[g] EXCEPT !.pc = "load", !.todo = regens[g].files]
             r2 == [regens[g] EXCEPT !.pc = "started"]
  <2>1. \/ regens' = [regens EXCEPT ![g] = r1] \/ regens' = [regens EXCEPT ![g] = r2]
        \/ regens' = [regens EXCEPT ![g] = NoRegen]
    BY <1>2, <1>10 DEF ReadCache, AfterRegenerate
  <2>2. /\ r1 \in RegenRecord /\ r1.alone = regens[g].alone
        /\ r2 \in RegenRecord /\ r2.alone = regens[g].alone
    BY <1>2 DEF RegenRecord
  <2> QED BY <1>4, <2>1, <2>2
<1>11. CASE LoadSkill(g)
  <2> DEFINE todo == regens[g].todo
             f == Min(todo)
             found == IF f \in Present /\ ~IsExcluded(skills[f].name)
                      THEN regens[g].entries \cup {SkillEntry(f)} ELSE regens[g].entries
             r1 == [regens[g] EXCEPT !.pc = "write"]
             r2 == [regens[g] EXCEPT !.todo = todo \ {f}, !.entries = found]
  <2>1. regens' = [regens EXCEPT ![g] = r1] \/ regens' = [regens EXCEPT ![g] = r2]
    BY <1>2, <1>11 DEF LoadSkill
  <2>2. todo \in SUBSET SkillFile /\ regens[g].entries \in SUBSET SkillEntries
    BY <1>2 DEF RegenRecord
  <2>3. found \in SUBSET SkillEntries
    <3>1. f \in Present => skills[f] \in [version : Nat, name : SkillName] /\ f \in SkillFile
      BY <1>5 DEF SkillTypes
    <3> HIDE DEF f
    <3>2. f \in Present => SkillEntry(f) \in SkillEntries
      BY <3>1 DEF SkillEntry, SkillEntries
    <3> QED BY <2>2, <3>2
  <2>4. r1 \in RegenRecord /\ r1.alone = regens[g].alone
    BY <1>2 DEF RegenRecord
  <2> HIDE DEF found
  <2>5. r2 \in RegenRecord /\ r2.alone = regens[g].alone
    BY <1>2, <2>2, <2>3 DEF RegenRecord
  <2> QED BY <2>1, <2>4, <2>5
<1>12. CASE WriteRegistry(g)
  <2> DEFINE r1 == [regens[g] EXCEPT !.pc = "stamp"]
  <2>1. regens' = [regens EXCEPT ![g] = r1]
    BY <1>2, <1>12 DEF WriteRegistry
  <2>2. r1 \in RegenRecord /\ r1.alone = regens[g].alone
    BY <1>2 DEF RegenRecord
  <2> QED BY <2>1, <2>2
<1>13. CASE WriteCache(g)
  <2> DEFINE r1 == [regens[g] EXCEPT !.pc = "started"]
  <2>1. regens' = [regens EXCEPT ![g] = r1] \/ regens' = [regens EXCEPT ![g] = NoRegen]
    BY <1>2, <1>13 DEF WriteCache, AfterRegenerate
  <2>2. r1 \in RegenRecord /\ r1.alone = regens[g].alone
    BY <1>2 DEF RegenRecord
  <2> QED BY <1>4, <2>1, <2>2
<1>14. CASE RegenFails(g) \/ StartWatcher(g)
  <2> DEFINE r1 == [regens[g] EXCEPT !.pc = "watch"]
  <2>1. regens' = [regens EXCEPT ![g] = r1] \/ regens' = [regens EXCEPT ![g] = NoRegen]
    BY <1>2, <1>14 DEF RegenFails, StartWatcher, Ends
  <2>2. r1 \in RegenRecord /\ r1.alone = regens[g].alone
    BY <1>2 DEF RegenRecord
  <2> QED BY <1>4, <2>1, <2>2
<1> QED
  BY <1>6, <1>7, <1>8, <1>9, <1>10, <1>11, <1>12, <1>13, <1>14 DEF RegenStep

\* Each step of a current regeneration leaves it current.
LEMMA RegenStepIsSound ==
  ASSUME SkillInv, SkillAssumption, NEW g \in Regen, RegenStep(g)
  PROVE  SkillInv'
<1>1. PICK r \in RegenRecord \cup {NoRegen} :
        regens' = [regens EXCEPT ![g] = r] /\ Regenerating(g) /\ (r.pc # "idle" => r.alone = regens[g].alone)
  BY RegenStepTypes DEF SkillInv
<1>2. regens[g] \in RegenRecord /\ regens'[g] = r /\ regens \in [Regen -> RegenRecord \cup {NoRegen}] /\ NoRegen.pc = "idle"
  BY <1>1, RegenIsRecord, NoRegenIsIdle DEF SkillInv, SkillTypes
<1>3. skills' = skills /\ skillEdits' = skillEdits
  BY DEF RegenStep, EnsureAtlIgnored, QuarantineLegacy, FindSkillFiles, Fingerprint, ReadCache, LoadSkill,
         WriteRegistry, WriteCache, RegenFails, StartWatcher, fileVars
<1>4. Present' = Present /\ Listing' = Listing /\ \A F : FingerprintOf(F)' = FingerprintOf(F) /\ EntriesOf(F)' = EntriesOf(F)
  BY <1>3 DEF Present, Listing, SkillEntry, FingerprintOf, EntriesOf
<1>5. Listing = Deduped(EntriesOf(Present))
  BY DEF Listing, EntriesOf
<1>6. SkillTypes'
  <2>1. gitignore' \subseteq {"atl", "user"}
    <3>1. regens[g].lines \subseteq {"atl", "user"}
      BY <1>2 DEF RegenRecord
    <3> QED
      BY <3>1 DEF SkillInv, SkillTypes, RegenStep, EnsureAtlIgnored, QuarantineLegacy, FindSkillFiles, Fingerprint, ReadCache,
         LoadSkill, WriteRegistry, WriteCache, RegenFails, StartWatcher, fileVars
  <2>2. regenSettled' \in BOOLEAN
    <3>1. regens[g].force \in BOOLEAN /\ regens[g].alone \in BOOLEAN
      BY <1>2 DEF RegenRecord
    <3> QED
      BY <3>1 DEF SkillInv, SkillTypes, RegenStep, EnsureAtlIgnored, QuarantineLegacy, FindSkillFiles, Fingerprint, ReadCache,
         LoadSkill, WriteRegistry, WriteCache, RegenFails, StartWatcher, Settles
  <2>3. session' \in [up : BOOLEAN, count : Nat, watched : BOOLEAN]
    BY DEF SkillInv, SkillTypes, RegenStep, EnsureAtlIgnored, QuarantineLegacy, FindSkillFiles, Fingerprint, ReadCache,
       LoadSkill, WriteRegistry, WriteCache, RegenFails, StartWatcher, sessionVars
  <2>4. regens' \in [Regen -> RegenRecord \cup {NoRegen}]
    BY <1>1, <1>2
  <2> QED
    BY <1>3, <2>1, <2>2, <2>3, <2>4 DEF SkillInv, SkillTypes
<1> DEFINE Fine ==
      /\ r.pc # "idle" => (Current(regens[g]) => Current(r)')
      /\ regenSettled' => regenSettled \/ regens[g].alone
      /\ Current(regens[g]) => registry' \in {registry, Listing}
      /\ Current(regens[g]) /\ regenSettled' => RefreshHeals'
<1>7. ASSUME UNCHANGED <<registry, cache, regenSettled>> PROVE regenSettled' => RefreshHeals'
  BY <1>4, <1>7 DEF SkillInv, RefreshHeals
<1>8. CASE EnsureAtlIgnored(g)
  <2>1. UNCHANGED <<registry, cache, regenSettled>> /\ regens[g].pc \in {"ignore", "append"}
    BY <1>8 DEF EnsureAtlIgnored
  <2>2. r.pc \in {"append", "list", "legacy"} /\ r.fp = regens[g].fp /\ r.entries = regens[g].entries
    BY <1>2, <1>8 DEF EnsureAtlIgnored, RegenRecord
  <2>3. Current(regens[g]) => Current(r)'
    BY <2>1, <2>2 DEF Current
  <2>4. Fine BY <2>1, <2>3, <1>7
  <2> QED BY <1>1, <1>3, <1>6, <2>4, RegenMoves
<1>9. CASE QuarantineLegacy(g)
  <2>1. UNCHANGED <<registry, cache, regenSettled>> /\ regens[g].pc \in {"legacy", "rename"}
    BY <1>9 DEF QuarantineLegacy
  <2>2. r.pc \in {"list", "rename"} /\ r.fp = regens[g].fp /\ r.entries = regens[g].entries
    BY <1>2, <1>9 DEF QuarantineLegacy, RegenRecord
  <2>3. Current(regens[g]) => Current(r)'
    BY <2>1, <2>2 DEF Current
  <2>4. Fine BY <2>1, <2>3, <1>7
  <2> QED BY <1>1, <1>3, <1>6, <2>4, RegenMoves
<1>10. CASE FindSkillFiles(g)
  <2>1. UNCHANGED <<registry, cache, regenSettled>> /\ regens[g].pc = "list"
    BY <1>10 DEF FindSkillFiles, fileVars
  <2>2. r.pc = "hash" /\ r.files = Present /\ r.todo = Present /\ r.fp = regens[g].fp /\ r.entries = regens[g].entries
    BY <1>2, <1>10 DEF FindSkillFiles, RegenRecord
  <2>3. FingerprintOf({}) = {}
    BY DEF FingerprintOf
  <2>4. Current(regens[g]) => Current(r)'
    BY <1>4, <2>1, <2>2, <2>3 DEF Current
  <2>5. Fine BY <2>1, <2>4, <1>7
  <2> QED BY <1>1, <1>3, <1>6, <2>5, RegenMoves
<1>11. CASE Fingerprint(g)
  <2>1. UNCHANGED <<registry, cache, regenSettled>> /\ regens[g].pc = "hash"
    BY <1>11 DEF Fingerprint, fileVars
  <2> DEFINE todo == regens[g].todo
  <2>2. r.files = regens[g].files /\ r.entries = regens[g].entries
    BY <1>2, <1>11 DEF Fingerprint, RegenRecord
  <2>3. todo = {} => r.pc = "cached" /\ r.fp = regens[g].fp
    BY <1>2, <1>11 DEF Fingerprint, RegenRecord
  <2>4. todo # {} => r.pc = "hash" /\ r.todo = todo \ {Min(todo)} /\ r.fp = regens[g].fp \cup FingerprintOf({Min(todo)})
    BY <1>2, <1>11 DEF Fingerprint, RegenRecord
  <2>5. todo # {} => Min(todo) \in todo
    BY <1>2, FirstIsMember DEF RegenRecord
  <2>6. ASSUME todo # {}, todo \subseteq Present
        PROVE  FingerprintOf(Present \ todo) \cup FingerprintOf({Min(todo)}) = FingerprintOf(Present \ (todo \ {Min(todo)}))
    <3>1. (Present \ todo) \cup {Min(todo)} = Present \ (todo \ {Min(todo)})
      BY <2>5, <2>6
    <3> QED
      BY <3>1 DEF FingerprintOf
  <2>7. Current(regens[g]) => Current(r)'
    BY <1>4, <2>1, <2>2, <2>3, <2>4, <2>6 DEF Current
  <2>8. Fine BY <2>1, <2>7, <1>7
  <2> QED BY <1>1, <1>3, <1>6, <2>8, RegenMoves
<1>12. CASE ReadCache(g)
  <2>1. UNCHANGED <<registry, cache>> /\ regens[g].pc = "cached"
    BY <1>12 DEF ReadCache, fileVars
  <2>2. CASE CacheHit(g)
    <3>1. regenSettled' = regenSettled
      BY <1>2, <1>12, <2>2 DEF ReadCache, Settles, CacheHit, SkillInv, SkillTypes, RegenRecord
    <3>2. r.pc \in {"idle", "started"}
      BY <1>2, <1>12, <2>2 DEF ReadCache, AfterRegenerate, RegenRecord
    <3>3. Fine BY <2>1, <3>1, <3>2, <1>7 DEF Current
    <3> QED BY <1>1, <1>3, <1>6, <3>3, RegenMoves
  <2>3. CASE ~CacheHit(g)
    <3>1. regenSettled' = regenSettled
      BY <1>12, <2>3 DEF ReadCache
    <3>2. r.pc = "load" /\ r.files = regens[g].files /\ r.todo = regens[g].files /\ r.fp = regens[g].fp /\ r.entries = regens[g].entries
      BY <1>2, <1>12, <2>3 DEF ReadCache, RegenRecord
    <3>3. EntriesOf({}) = {}
      BY DEF EntriesOf
    <3>4. Current(regens[g]) => Current(r)'
      BY <1>4, <2>1, <3>2, <3>3 DEF Current
    <3>5. Fine BY <2>1, <3>1, <3>4, <1>7
    <3> QED BY <1>1, <1>3, <1>6, <3>5, RegenMoves
  <2> QED BY <2>2, <2>3
<1>13. CASE LoadSkill(g)
  <2>1. UNCHANGED <<registry, cache, regenSettled>> /\ regens[g].pc = "load"
    BY <1>13 DEF LoadSkill, fileVars
  <2> DEFINE todo == regens[g].todo
             f == Min(todo)
  <2>2. r.files = regens[g].files /\ r.fp = regens[g].fp
    BY <1>2, <1>13 DEF LoadSkill, RegenRecord
  <2>3. todo = {} => r.pc = "write" /\ r.entries = regens[g].entries
    BY <1>2, <1>13 DEF LoadSkill, RegenRecord
  <2>4. todo # {} => /\ r.pc = "load" /\ r.todo = todo \ {f}
                     /\ r.entries = IF f \in Present /\ ~IsExcluded(skills[f].name)
                                    THEN regens[g].entries \cup {SkillEntry(f)} ELSE regens[g].entries
    BY <1>2, <1>13 DEF LoadSkill, RegenRecord
  <2>5. todo # {} => f \in todo
    BY <1>2, FirstIsMember DEF RegenRecord
  <2>6. ASSUME todo # {}, todo \subseteq Present, regens[g].entries = EntriesOf(Present \ todo)
        PROVE  r.entries = EntriesOf(Present \ r.todo)
    <3>1. f \in Present /\ Present \ r.todo = (Present \ todo) \cup {f}
      BY <2>4, <2>5, <2>6
    <3> HIDE DEF todo, f
    <3>2. EntriesOf((Present \ todo) \cup {f}) =
            IF IsExcluded(skills[f].name) THEN EntriesOf(Present \ todo) ELSE EntriesOf(Present \ todo) \cup {SkillEntry(f)}
      BY DEF EntriesOf
    <3> QED
      BY <2>4, <2>6, <3>1, <3>2
  <2>7. Current(regens[g]) => Current(r)'
    BY <1>4, <2>1, <2>2, <2>3, <2>4, <2>6 DEF Current
  <2>8. Fine BY <2>1, <2>7, <1>7
  <2> QED BY <1>1, <1>3, <1>6, <2>8, RegenMoves
<1>14. CASE WriteRegistry(g)
  <2>1. UNCHANGED <<cache, regenSettled>> /\ regens[g].pc = "write" /\ registry' = Deduped(regens[g].entries)
    BY <1>14 DEF WriteRegistry
  <2>2. r.pc = "stamp" /\ r.files = regens[g].files /\ r.fp = regens[g].fp
    BY <1>2, <1>14 DEF WriteRegistry, RegenRecord
  <2>3. Current(regens[g]) => registry' = Listing
    BY <1>5, <2>1 DEF Current
  <2>4. Current(regens[g]) => Current(r)'
    BY <1>4, <2>1, <2>2, <2>3 DEF Current
  <2>5. Current(regens[g]) /\ regenSettled' => RefreshHeals'
    BY <1>4, <2>1, <2>3 DEF SkillInv, RefreshHeals
  <2>6. Fine BY <2>1, <2>3, <2>4, <2>5
  <2> QED BY <1>1, <1>3, <1>6, <2>6, RegenMoves
<1>15. CASE WriteCache(g)
  <2>1. UNCHANGED registry /\ regens[g].pc = "stamp" /\ cache' = regens[g].fp
    BY <1>15 DEF WriteCache
  <2>2. r.pc \in {"idle", "started"}
    BY <1>2, <1>15 DEF WriteCache, AfterRegenerate, RegenRecord
  <2>3. regenSettled' => regenSettled \/ regens[g].alone
    BY <1>15 DEF WriteCache, Settles
  <2>4. Current(regens[g]) => RefreshHeals'
    BY <1>4, <2>1 DEF Current, RefreshHeals
  <2>5. Fine BY <2>1, <2>2, <2>3, <2>4 DEF Current
  <2> QED BY <1>1, <1>3, <1>6, <2>5, RegenMoves
<1>16. CASE RegenFails(g) \/ StartWatcher(g)
  <2>1. UNCHANGED <<registry, cache, regenSettled>>
    BY <1>16 DEF RegenFails, StartWatcher, fileVars
  <2>2. r.pc \in {"idle", "watch"}
    BY <1>2, <1>16 DEF RegenFails, StartWatcher, Ends, RegenRecord
  <2>3. Fine BY <2>1, <2>2, <1>7 DEF Current
  <2> QED BY <1>1, <1>3, <1>6, <2>3, RegenMoves
<1> QED
  BY <1>8, <1>9, <1>10, <1>11, <1>12, <1>13, <1>14, <1>15, <1>16 DEF RegenStep

\* The invariant of the registry holds before the first session.
LEMMA SkillInitially == ASSUME SkillAssumption, SkillInit PROVE SkillInv
<1>1. skills \in [SkillFile -> [version : Nat, name : SkillName]]
  BY DEF SkillInit
<1> QED
  BY <1>1, NoRegenIsIdle DEF SkillInit, SkillInv, SkillTypes, RefreshHeals, Regenerating

\* Every step of the registry keeps its invariant.
LEMMA SkillNextIsSound == ASSUME SkillInv, SkillAssumption, SkillNext PROVE SkillInv'
<1> USE DEF SkillNext
<1>1. ASSUME NEW g \in Regen,
             \/ \E hasUI \in BOOLEAN : SessionStarts(g, hasUI)
             \/ RefreshCommand(g) \/ HealTimerFires(g) \/ \E s \in 1..MaxStarts : WatchTimerFires(s, g)
      PROVE  SkillInv'
  <2>1. UNCHANGED <<fileVars, regenSettled>>
    BY <1>1 DEF SessionStarts, RefreshCommand, HealTimerFires, WatchTimerFires
  <2> QED BY <1>1, <2>1, BeginsAreSound
<1>2. ASSUME NEW g \in Regen, RegenStep(g) PROVE SkillInv'
  BY <1>2, RegenStepIsSound
<1>3. CASE CloseSkillRegistryWatchers
  <2>1. UNCHANGED <<skills, skillEdits, gitignore, registry, cache, regens, regenSettled>>
        /\ session' \in [up : BOOLEAN, count : Nat, watched : BOOLEAN]
    BY <1>3 DEF CloseSkillRegistryWatchers, fileVars, SkillInv, SkillTypes
  <2> QED
    BY <2>1 DEF SkillInv, SkillTypes, Regenerating, Current, RefreshHeals, Present, Listing, FingerprintOf, EntriesOf, SkillEntry
<1>4. CASE ProcessExits
  <2>1. /\ UNCHANGED <<skills, skillEdits, gitignore, registry, cache, regenSettled>>
        /\ session' \in [up : BOOLEAN, count : Nat, watched : BOOLEAN]
        /\ regens' = [g \in Regen |-> NoRegen]
    BY <1>4 DEF ProcessExits, fileVars, SkillInv, SkillTypes
  <2> QED
    BY <2>1, NoRegenIsIdle DEF SkillInv, SkillTypes, Regenerating, RefreshHeals, Present, Listing, FingerprintOf, SkillEntry
<1>5. ASSUME NEW f \in SkillFile, NEW name \in SkillName, NEW removed \in BOOLEAN, EditSkill(f, name, removed)
      PROVE  SkillInv'
  <2>1. skills' \in [SkillFile -> [version : Nat, name : SkillName]] /\ skillEdits' \in Nat
    BY <1>5 DEF EditSkill, SkillInv, SkillTypes
  <2>2. SkillTypes'
    BY <1>5, <2>1, DisturbedRecords DEF EditSkill, SkillInv, SkillTypes
  <2> QED
    BY <1>5, <2>2, DisturbedIsSound DEF EditSkill
<1>6. CASE EditProject
  <2>1. SkillTypes'
    BY <1>6, DisturbedRecords DEF EditProject, SkillInv, SkillTypes, sessionVars
  <2> QED
    BY <1>6, <2>1, DisturbedIsSound DEF EditProject
<1> QED
  BY <1>1, <1>2, <1>3, <1>4, <1>5, <1>6

(* Whatever overlapping regenerations, exits and edits left behind, a forced
   regeneration that ran undisturbed leaves the registry that lists the files
   there are, under their fingerprint, until one of them changes, for any
   files, names, regenerations and sessions
   (skill-registry.ts:374-420, 605-620).  *)
THEOREM RefreshAlwaysHeals == SkillSpec => []RefreshHeals
<1>1. SkillInv /\ [SkillNext]_skillVars => SkillInv'
  <2> SUFFICES ASSUME SkillInv, UNCHANGED skillVars PROVE SkillInv'
    BY SkillNextIsSound, SkillAssumption
  <2>1. UNCHANGED <<skills, skillEdits, gitignore, registry, cache, regens, session, regenSettled>>
    BY DEF skillVars
  <2> QED
    BY <2>1 DEF SkillInv, SkillTypes, Regenerating, Current, RefreshHeals, Present, Listing, FingerprintOf, EntriesOf, SkillEntry
<1>2. SkillInv => RefreshHeals
  BY DEF SkillInv
<1> QED
  BY <1>1, <1>2, SkillInitially, SkillAssumption, PTL DEF SkillSpec
===============================================================================
