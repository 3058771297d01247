--------------------------- MODULE ShellLauncher ---------------------------
(***************************************************************************)
(* The gentle-shell launcher (bin/gentle-shell.mjs over the decisions of   *)
(* lib/gentle-shell-launcher.ts): several launcher processes over one      *)
(* launcher config, the agent homes and two files every gentle-ai install  *)
(* rewrites for all homes (the Pi persona and the managed-asset digest).   *)
(* A launch resolves its home, bootstraps it, provisions it when its       *)
(* marker is missing or of another release, decides which copy of          *)
(* gentle-pi the run loads and starts pi; `setup` and `home` are commands  *)
(* of their own.  A launcher may be interrupted or killed at any step.     *)
(***************************************************************************)
EXTENDS Naturals, FiniteSets

CONSTANTS Launcher,     \* launcher processes, each runs one command
          Release,      \* launcher releases: a gentle-ai pin and a gentle-pi version
          Home,         \* agent home directories
          IsolatedHome, \* the one gentle-shell owns outright
          PiHome,       \* pi's own default agent home, which --link selects
          MaxMishaps    \* setup locks that outlive their limit and files that cannot be read or written (bound)

ASSUME LauncherAssumption == /\ MaxMishaps \in Nat
                             /\ {IsolatedHome, PiHome} \subseteq Home
                             /\ IsolatedHome # PiHome

VARIABLES marks,    \* config.json "provisioned": home -> release or "none"
          chosen,   \* config.json "home": the persisted home
          homes,    \* home -> its directory
          shared,   \* the shared persona and digest files
          launch,   \* launcher -> its run
          mishaps,  \* of those so far
          original, \* the shared files before any launch
          disturbed \* the shared files whose protection failed, or all of them when a
                    \* launcher died in a setup or two setups overlapped

launcherVars == <<marks, chosen, homes, shared, launch, mishaps, original, disturbed>>

\* Packages of settings.json that matter: three ways to declare gentle-pi (the
\* npm source, the launcher's own root, another checkout), the package that
\* conflicts with it, one whose directory exists, a git-sourced one and one
\* whose directory is missing.
Declares == {"npm", "same", "other"}
Conflicting == {"npm", "rpiv"}
NotADirectory == {"git", "missing"}
Package == Declares \cup {"rpiv", "extra"} \cup NotADirectory
\* resolveLooseExtensionEntries: the extension files of the home that belong to
\* no package.
LooseEntries == {"loose"}
\* The theme of settings.json; "absent" when that file is not there.
Theme == {"absent", "none", "user", "default", "tool"}
SharedFile == {"persona", "digest"}
FileText == {"absent", "user", "tool"}
\* What the finally block of a setup gives back.
Restorable == SharedFile \cup {"theme"}
LockState == [by : Launcher \cup {"nobody", "left"}, stale : BOOLEAN]
NoSetupLock == [by |-> "nobody", stale |-> FALSE]
\* "foreign": it had content of the user's before any launcher came.
Directory == [exists : BOOLEAN, foreign : BOOLEAN, content : BOOLEAN, owned : BOOLEAN, theme : Theme,
              packages : SUBSET Package, lock : LockState]
Commands == {"run", "subcommand", "setup", "dryRun"}

Pcs2 == {"idle", "bootstrap", "make", "seed", "own", "decide", "examine", "again", "remove", "create",
         "ensure", "install", "written", "restore", "cleanup", "record", "write", "release", "plan",
         "spawn", "running", "exited"}

Rest == [pc |-> "idle", home |-> "none", mode |-> "none", release |-> "none", command |-> "run", root |-> FALSE,
         full |-> FALSE, auto |-> FALSE, saved |-> [f \in SharedFile |-> "absent"],
         theme |-> "absent", result |-> "none",
         config |-> [marks |-> [h \in Home |-> "none"], home |-> IsolatedHome],
         packages |-> {}, copies |-> {}, discovers |-> FALSE, raced |-> FALSE]

LauncherTypeOK ==
  /\ marks \in [Home -> Release \cup {"none"}]
  /\ chosen \in Home
  /\ homes \in [Home -> Directory]
  /\ shared \in [SharedFile -> FileText]
  /\ \A l \in Launcher :
       /\ DOMAIN launch[l] = DOMAIN Rest
       /\ launch[l].pc \in Pcs2
       /\ launch[l].home \in Home \cup {"none"}
       /\ launch[l].packages \subseteq Package
       /\ launch[l].copies \subseteq Package \cup LooseEntries \cup {"root"}
  /\ mishaps \in 0..MaxMishaps
  /\ original \in [SharedFile -> FileText]
  /\ disturbed \subseteq SharedFile

Absent2 == [exists |-> FALSE, foreign |-> FALSE, content |-> FALSE, owned |-> FALSE, theme |-> "absent",
            packages |-> {}, lock |-> NoSetupLock]
Empty2 == [Absent2 EXCEPT !.exists = TRUE]
Filled(ps) == [Empty2 EXCEPT !.foreign = TRUE, !.content = TRUE, !.theme = "user", !.packages = ps]
\* What a launcher killed in its first setup left more than fifteen minutes ago.
LeftBehind == [Empty2 EXCEPT !.content = TRUE, !.owned = TRUE, !.theme = "default",
                 !.lock = [by |-> "left", stale |-> TRUE]]
UserPackages == {{}, {"extra"}, {"same"}, {"other", "extra", "git", "missing"}}

\* A home is not there yet, is empty, is the user's, or was left by a launcher
\* (never pi's own home, which no launch provisions by itself).
LauncherInit ==
  /\ marks = [h \in Home |-> "none"]
  /\ chosen = IsolatedHome
  /\ homes \in [Home -> {Absent2, Empty2, LeftBehind} \cup {Filled(ps) : ps \in UserPackages}]
  /\ homes[PiHome] # LeftBehind
  /\ shared \in {[f \in SharedFile |-> "user"], [f \in SharedFile |-> "absent"]}
  /\ original = shared
  /\ launch = [l \in Launcher |-> Rest]
  /\ mishaps = 0
  /\ disturbed = {}

\* resolveHome: a selector flag names any home, no flag the persisted or the
\* isolated one; pi's own home is selected by --link or by its path.
Modes(h) == IF h = IsolatedHome THEN {"isolated"}
            ELSE IF h = PiHome THEN {"link", "path"} ELSE {"path"}
\* A step in which n things go wrong.
Mishaps(n) == /\ mishaps' = mishaps + n
              /\ mishaps' <= MaxMishaps
At2(l, pc) == launch[l].pc = pc
Mode(l) == launch[l].mode
Dir(l) == homes[launch[l].home]
SetDir(l, d) == homes' = [homes EXCEPT ![launch[l].home] = d]
\* A process that is gone has no state.
Go(l, r) == launch' = [launch EXCEPT ![l] =
              IF r.pc = "exited" THEN [Rest EXCEPT !.pc = "exited"] ELSE r]
GoTo(l, pc) == Go(l, [launch[l] EXCEPT !.pc = pc])

\* A setup flow between its snapshots and its restores.
InSetup(l) == launch[l].pc \in {"install", "written", "restore"}
----------------------------------------------------------------------------
(* Resolution and bootstrap: main *)

\* parseLauncherArgs: one command per line, and a package root only changes
\* what a plain run of a link home does.
Parses(c, m, root) == root => m = "link" /\ c = "run"

\* resolvePiRuntime tries the override, the bundled cli and PATH in turn, and
\* checkPiVersion wants the pinned minimum.
Runtimes == {"missing", "old", "accepted"}

\* A command line with an error, --help, --version, a missing pi or one that is
\* too old end the process before any state is touched.
Refused(l) ==
  /\ At2(l, "idle")
  /\ \E runtime \in Runtimes : runtime # "accepted"
  /\ GoTo(l, "exited")
  /\ UNCHANGED <<original, marks, chosen, homes, shared, mishaps, disturbed>>

\* handleHomeCommand persists the selection among the other keys of the config.
PersistHome(l) ==
  /\ At2(l, "idle")
  /\ \E h \in Home : chosen' = h
  /\ GoTo(l, "exited")
  /\ UNCHANGED <<original, marks, homes, shared, mishaps, disturbed>>

\* readdirSync: any entry counts, the ownership marker and the lock included.
HasContent(h) == homes[h].content \/ homes[h].owned \/ homes[h].lock # NoSetupLock

\* main up to the bootstrap: whether the home has content is observed first.
Begin(l) ==
  /\ At2(l, "idle")
  /\ \E h \in Home, c \in Commands, r \in Release, root \in BOOLEAN :
     \E m \in Modes(h) :
       /\ Parses(c, m, root)
       /\ Go(l, [Rest EXCEPT !.home = h, !.mode = m, !.command = c, !.release = r, !.root = root,
                   !.full = homes[h].exists /\ HasContent(h),
                   !.pc = IF m = "link" THEN "decide" ELSE "bootstrap"])
  /\ UNCHANGED <<original, marks, chosen, homes, shared, mishaps, disturbed>>

\* The second look at the directory: only one that is not there is made.
BootstrapHome(l) ==
  /\ At2(l, "bootstrap")
  /\ GoTo(l, IF Dir(l).exists THEN "decide" ELSE "make")
  /\ UNCHANGED <<original, marks, chosen, homes, shared, mishaps, disturbed>>

MakeHome(l) ==
  /\ At2(l, "make")
  /\ SetDir(l, [Dir(l) EXCEPT !.exists = TRUE])
  /\ GoTo(l, "seed")
  /\ UNCHANGED <<original, marks, chosen, shared, mishaps, disturbed>>

\* withIsolatedHomeDefaults.
SeededTheme(theme) == IF theme \in {"absent", "none"} THEN "default" ELSE theme

\* installIsolatedTuiModeSetting, which waits for pi's settings lock: a
\* settings.json with the fullscreen mode and, when it has none, the default
\* theme.
Seed(l) ==
  /\ At2(l, "seed")
  /\ SetDir(l, [Dir(l) EXCEPT !.content = TRUE, !.theme = SeededTheme(@)])
  /\ GoTo(l, "own")
  /\ UNCHANGED <<original, marks, chosen, shared, mishaps, disturbed>>

\* writeHomeOwnershipMarker.
MarkOwned(l) ==
  /\ At2(l, "own")
  /\ SetDir(l, [Dir(l) EXCEPT !.owned = TRUE])
  /\ GoTo(l, "decide")
  /\ UNCHANGED <<original, marks, chosen, shared, mishaps, disturbed>>

\* A directory, settings (a busy lock included) or marker that cannot be
\* written ends the process where it is.
BootstrapFails(l) ==
  /\ launch[l].pc \in {"make", "seed", "own"}
  /\ GoTo(l, "exited")
  /\ Mishaps(1)
  /\ UNCHANGED <<original, marks, chosen, homes, shared, disturbed>>

----------------------------------------------------------------------------
(* The automatic provisioning: maybeAutoProvisionHome *)

\* needsProvisioning: the marker must name this release's pin and version.
NeedsProvisioning(l) == marks[launch[l].home] # launch[l].release

\* homeIsForeign: a path home is left alone when it is pi's own, or had content
\* before this launch, unless a marker shows that gentle-shell made it or
\* provisioned it before.
HomeIsForeign(l) ==
  /\ Mode(l) = "path"
  /\ marks[launch[l].home] = "none"
  /\ launch[l].home = PiHome \/ (~Dir(l).owned /\ launch[l].full)

\* acquireSetupLock succeeds: the setup will release what is there then.
Acquired(l) == Go(l, [launch[l] EXCEPT !.pc = "ensure", !.auto = TRUE])
CreatesLock(l) == /\ Dir(l).lock = NoSetupLock
                  /\ SetDir(l, [Dir(l) EXCEPT !.lock = [by |-> l, stale |-> FALSE]])
                  /\ Acquired(l)

\* setup goes on; a plain run in a link home, a pi subcommand, an opted-out, an
\* up-to-date or a foreign home starts pi as it is; the rest create the lock
\* exclusively.  One that is there is examined; a creation that fails for any
\* other reason lets the run proceed without a lock.
Decide(l) ==
  /\ At2(l, "decide")
  /\ LET auto == launch[l].command = "run" /\ Mode(l) # "link" IN
     \/ Mishaps(0) /\ launch[l].command \in {"setup", "dryRun"} /\ GoTo(l, "ensure") /\ UNCHANGED homes
     \/ Mishaps(0) /\ launch[l].command = "subcommand" /\ GoTo(l, "plan") /\ UNCHANGED homes
     \/ Mishaps(0) /\ launch[l].command = "run" /\ Mode(l) = "link" /\ GoTo(l, "plan") /\ UNCHANGED homes
     \/ Mishaps(0) /\ auto /\ GoTo(l, "plan") /\ UNCHANGED homes    \* GENTLE_SHELL_NO_AUTO_SETUP too
     \/ auto /\ NeedsProvisioning(l) /\ ~HomeIsForeign(l) /\
          \/ Mishaps(0) /\ CreatesLock(l)
          \/ Mishaps(1) /\ Acquired(l) /\ UNCHANGED homes
          \/ Mishaps(0) /\ Dir(l).lock # NoSetupLock /\ GoTo(l, "examine") /\ UNCHANGED homes
  /\ UNCHANGED <<original, marks, chosen, shared, disturbed>>

\* The lock's age: one that is gone by now lets the run proceed without a lock,
\* a young one is another launcher's.
ExamineLock(l) ==
  /\ At2(l, "examine")
  /\ IF Dir(l).lock = NoSetupLock THEN Acquired(l)
     ELSE GoTo(l, IF Dir(l).lock.stale THEN "again" ELSE "plan")
  /\ UNCHANGED <<original, marks, chosen, homes, shared, mishaps, disturbed>>

\* Its age once more, right before it is removed.
ExamineAgain(l) ==
  /\ At2(l, "again")
  /\ GoTo(l, IF Dir(l).lock # NoSetupLock /\ Dir(l).lock.stale THEN "remove" ELSE "plan")
  /\ UNCHANGED <<original, marks, chosen, homes, shared, mishaps, disturbed>>

\* rmSync by name: whatever lock is there now goes ...
RemoveStaleLock(l) ==
  /\ At2(l, "remove")
  /\ \/ SetDir(l, [Dir(l) EXCEPT !.lock = NoSetupLock]) /\ GoTo(l, "create") /\ Mishaps(0)
     \/ Mishaps(1) /\ GoTo(l, "plan") /\ UNCHANGED homes
  /\ UNCHANGED <<original, marks, chosen, shared, disturbed>>

\* ... and the creation is tried once more; any failure skips the setup.
CreateLockAgain(l) ==
  /\ At2(l, "create")
  /\ \/ CreatesLock(l) /\ Mishaps(0)
     \/ Mishaps(IF Dir(l).lock = NoSetupLock THEN 1 ELSE 0) /\ GoTo(l, "plan") /\ UNCHANGED homes
  /\ UNCHANGED <<original, marks, chosen, shared, disturbed>>

\* Fifteen minutes pass without the lock file being written again.
LockAges(h) ==
  /\ homes[h].lock # NoSetupLock
  /\ ~homes[h].lock.stale
  /\ Mishaps(1)
  /\ homes' = [homes EXCEPT ![h].lock.stale = TRUE]
  /\ UNCHANGED <<original, marks, chosen, shared, launch, disturbed>>

\* releaseSetupLock removes the file by name, if it can; the launch then goes
\* on, or ends when the launcher itself was interrupted.
ReleaseSetupLock(l) ==
  /\ At2(l, "release")
  /\ \/ Mishaps(0) /\ SetDir(l, [Dir(l) EXCEPT !.lock = NoSetupLock])
     \/ Mishaps(1) /\ UNCHANGED homes
  /\ GoTo(l, IF launch[l].result = "interrupted" THEN "exited" ELSE "plan")
  /\ UNCHANGED <<original, marks, chosen, shared, disturbed>>

----------------------------------------------------------------------------
(* The setup flow: runSetupFlow *)

\* Where the flow leaves to: the lock's finally block, or the process exit.
Leave(l) == IF launch[l].auto THEN "release" ELSE "exited"
Fails(l, how) == Go(l, [launch[l] EXCEPT !.pc = Leave(l), !.result = how])

\* isSetupCapablePin: an older pin would provision pi's own home.
SetupCapable(pin) == pin = "current"

\* ensurePackageLocalGentleAi: the binary is there, or the installer provides
\* it unless it is skipped or fails.
Provided(binary) == binary \in {"present", "installed"}

\* A flow that cannot start ends here.  Otherwise the persona, the digest and the theme are read
\* before the child starts; one that cannot be read ("safely") is left out of the restores.
Snapshot(l) ==
  /\ At2(l, "ensure")
  /\ \E pin \in {"current", "old"}, binary \in {"present", "installed", "skipped", "broken"} :
       IF ~SetupCapable(pin) \/ ~Provided(binary)
       THEN Fails(l, "failed") /\ UNCHANGED <<mishaps, disturbed>>
       ELSE
         \E unread \in SUBSET Restorable :
          /\ Mishaps(Cardinality(unread))
          /\ Go(l, [launch[l] EXCEPT !.pc = "install",
                      !.saved = [f \in SharedFile |-> IF f \in unread THEN "unread" ELSE shared[f]],
                      !.theme = IF "theme" \in unread THEN "absent" ELSE Dir(l).theme])
          /\ disturbed' = IF \E k \in Launcher \ {l} : InSetup(k) THEN SharedFile
                          ELSE disturbed \cup (unread \cap SharedFile)
  /\ UNCHANGED <<original, marks, chosen, homes, shared>>

\* The pinned gentle-ai installs: it rewrites the persona, its digest and the
\* theme, and declares its stack.  A dry run writes nothing.
ToolWrites(l) ==
  /\ At2(l, "install")
  /\ launch[l].command # "dryRun"
  /\ shared' = [f \in SharedFile |-> "tool"]
  /\ SetDir(l, [Dir(l) EXCEPT !.exists = TRUE, !.content = TRUE, !.theme = "tool",
                  !.packages = @ \cup Conflicting])
  /\ GoTo(l, "written")
  /\ UNCHANGED <<original, marks, chosen, mishaps, disturbed>>

\* spawnAndWait: success, an ordinary failure (a timeout, a start error or a
\* death of the child's own included), or the launcher's own interrupt.
ChildExits(l) ==
  /\ launch[l].pc \in {"install", "written"}
  /\ \E how \in {"ok", "failed", "interrupted"} :
       /\ how = "ok" => At2(l, "written") \/ launch[l].command = "dryRun"
       /\ Go(l, [launch[l] EXCEPT !.pc = "restore", !.result = how])
  /\ UNCHANGED <<original, marks, chosen, homes, shared, mishaps, disturbed>>

\* restoreFile: the whole file comes back, or a file that was not there goes.
RestoredPersona(l) == IF launch[l].saved.persona = "unread"
                      THEN shared.persona ELSE launch[l].saved.persona

\* restoreJsonField: the one field gets its earlier value, or is removed again,
\* among the keys the file has now.
RestoredField(earlier, now) == earlier

\* restoreManagedAssetDigestField: the field of a file that existed; a file
\* the child created stays.
RestoredDigest(l) == IF launch[l].saved.digest \in {"absent", "unread"}
                     THEN shared.digest ELSE RestoredField(launch[l].saved.digest, shared.digest)

\* forceJsonFieldIfAbsentInOriginal.
DefaultedTheme(now) == "default"

\* enforceDefaultThemeField: what the home had, or the default when its settings
\* had none; link homes, dry runs and settings that could not be read are left
\* alone.
RestoredTheme(l) ==
  IF Mode(l) = "link" \/ launch[l].command = "dryRun" \/ launch[l].theme = "absent" THEN Dir(l).theme
  ELSE IF launch[l].theme = "none" THEN DefaultedTheme(Dir(l).theme)
  ELSE RestoredField(launch[l].theme, Dir(l).theme)

\* The files of a setup with those of "kept" put back and the rest as they are.
PutBack(l, kept) ==
  /\ shared' = [f \in SharedFile |->
       IF f \notin kept THEN shared[f]
       ELSE IF f = "persona" THEN RestoredPersona(l) ELSE RestoredDigest(l)]
  /\ SetDir(l, [Dir(l) EXCEPT !.theme = IF "theme" \in kept THEN RestoredTheme(l) ELSE @])
AfterRestore(l) ==
  Go(l, [launch[l] EXCEPT !.pc = IF launch[l].result = "ok" THEN "cleanup" ELSE Leave(l),
                          !.saved = Rest.saved, !.theme = "absent"])

\* A restore that only runs after a successful install.
Restore_Fault(l) ==
  /\ At2(l, "restore")
  /\ PutBack(l, IF launch[l].result = "ok" THEN Restorable ELSE {})
  /\ AfterRestore(l)
  /\ UNCHANGED <<original, marks, chosen, mishaps, disturbed>>

\* The finally block, then the exit of a flow whose install did not succeed.  A
\* file that cannot be written ("safely") does not keep the others from coming
\* back.  The restores are one step: only another setup or a death could tell
\* them apart, and both are disturbances already.
Restore(l) ==
  /\ At2(l, "restore")
  /\ \E failed \in SUBSET Restorable :
       /\ Mishaps(Cardinality(failed))
       /\ PutBack(l, Restorable \ failed)
       /\ disturbed' = disturbed \cup (failed \cap SharedFile)
  /\ AfterRestore(l)
  /\ UNCHANGED <<original, marks, chosen>>

\* postInstallRemovals: the declared sources that must not survive a setup.
PostInstallRemovals(l) == Dir(l).packages \cap Conflicting

\* removePostInstallSources: one `pi remove` at a time, stopping at the first
\* failure; with nothing left to remove the flow has succeeded.
Cleanup(l) ==
  /\ At2(l, "cleanup")
  /\ LET after == IF launch[l].auto THEN "record" ELSE "exited" IN
     IF launch[l].command = "dryRun" \/ PostInstallRemovals(l) = {}
     THEN GoTo(l, after) /\ UNCHANGED homes
     ELSE \/ \E p \in PostInstallRemovals(l) :
               SetDir(l, [Dir(l) EXCEPT !.packages = @ \ {p}]) /\ UNCHANGED launch
          \/ \E how \in {"failed", "interrupted"} : Fails(l, how) /\ UNCHANGED homes
  /\ UNCHANGED <<original, marks, chosen, shared, mishaps, disturbed>>

\* recordProvisioned on the config as it is read now ...
ReadMarks(l) ==
  /\ At2(l, "record")
  /\ Go(l, [launch[l] EXCEPT !.pc = "write", !.config = [marks |-> marks, home |-> chosen]])
  /\ UNCHANGED <<original, marks, chosen, homes, shared, mishaps, disturbed>>

\* ... written back whole: what another launcher wrote in between is lost.  A
\* config that cannot be written leaves the home to the next run.
WriteMarks(l) ==
  /\ At2(l, "write")
  /\ \/ /\ Mishaps(0)
        /\ marks' = [launch[l].config.marks EXCEPT ![launch[l].home] = launch[l].release]
        /\ chosen' = launch[l].config.home
     \/ Mishaps(1) /\ UNCHANGED <<marks, chosen>>
  /\ Go(l, [launch[l] EXCEPT !.pc = "release", !.config = Rest.config])
  /\ UNCHANGED <<original, homes, shared, disturbed>>

----------------------------------------------------------------------------
(* The launch of pi *)

\* findGentlePiDeclaration returns the first gentle-pi entry; the set stands
\* for a list in which what the tool appended comes last.
Declaration(ps) == IF "same" \in ps THEN "same"
                   ELSE IF "other" \in ps THEN "other"
                   ELSE IF "npm" \in ps THEN "npm" ELSE "none"

\* decideTakeOver: an explicit root in a link home, or a checkout declared by
\* another path.
TakeOver(l, ps) == launch[l].root \/ Declaration(ps) = "other"

\* buildPiInvocation: the copies injected on the command line.
Injected(l, ps) == IF TakeOver(l, ps) \/ Declaration(ps) = "none" THEN {"root"} ELSE {}

\* otherPackageInjections: what --no-extensions would drop is named again; npm
\* gentle-pi and the declaration taken over are excepted, and so are a git
\* source and a directory that is not there, each with a warning.
OtherPackages(ps) == ps \ ({"npm", Declaration(ps)} \cup NotADirectory)

\* settings.json is read and the invocation planned; a subcommand injects nothing.
PlanRun(l) ==
  /\ At2(l, "plan")
  /\ LET ps == Dir(l).packages
         takes == TakeOver(l, ps) /\ launch[l].command # "subcommand" IN
     Go(l, [launch[l] EXCEPT !.pc = "spawn", !.packages = ps,
              !.copies = IF launch[l].command = "subcommand" THEN {}
                         ELSE Injected(l, ps) \cup (IF takes THEN OtherPackages(ps) \cup LooseEntries ELSE {}),
              !.discovers = ~takes])
  /\ UNCHANGED <<original, marks, chosen, homes, shared, mishaps, disturbed>>

\* pi starts and reads settings.json itself, unless --no-extensions was passed.
SpawnPi(l) ==
  /\ At2(l, "spawn")
  /\ Go(l, [launch[l] EXCEPT !.pc = "running", !.release = "none", !.full = FALSE,
              !.auto = FALSE, !.result = "none",
              !.copies = IF launch[l].discovers THEN @ \cup Dir(l).packages \cup LooseEntries
                         ELSE @,
              !.raced = Dir(l).packages # launch[l].packages])
  /\ UNCHANGED <<original, marks, chosen, homes, shared, mishaps, disturbed>>

PiExits(l) ==
  /\ At2(l, "running")
  /\ GoTo(l, "exited")
  /\ UNCHANGED <<original, marks, chosen, homes, shared, mishaps, disturbed>>

\* The launcher is killed; what it wrote stays, its lock included.
LauncherDies(l) ==
  /\ launch[l].pc \notin {"idle", "running", "exited"}
  /\ GoTo(l, "exited")
  /\ disturbed' = IF InSetup(l) THEN SharedFile ELSE disturbed
  /\ UNCHANGED <<original, marks, chosen, homes, shared, mishaps>>

LauncherStep(l) ==
  \/ Refused(l) \/ PersistHome(l) \/ Begin(l) \/ BootstrapHome(l) \/ MakeHome(l) \/ Seed(l) \/ MarkOwned(l)
  \/ BootstrapFails(l) \/ Decide(l) \/ ExamineLock(l) \/ ExamineAgain(l) \/ RemoveStaleLock(l)
  \/ CreateLockAgain(l) \/ Snapshot(l) \/ ToolWrites(l) \/ ChildExits(l)
  \/ Restore(l) \/ Cleanup(l) \/ ReadMarks(l) \/ WriteMarks(l)
  \/ ReleaseSetupLock(l) \/ PlanRun(l) \/ SpawnPi(l) \/ PiExits(l)

LauncherNext ==
  \/ \E l \in Launcher : LauncherStep(l) \/ LauncherDies(l)
  \/ \E h \in Home : LockAges(h)

LauncherSpec == LauncherInit /\ [][LauncherNext]_launcherVars

----------------------------------------------------------------------------
(* Properties *)

\* Every run of pi loads exactly one copy of gentle-pi, and the loose extensions
\* and other packages of the home, whichever way the home declares it and
\* however far an earlier setup got (findGentlePiDeclaration, decideTakeOver,
\* buildPiInvocation).  A run that takes over leaves a git source and a missing
\* directory out, which pi could not load by path (otherPackageInjections).
\* Two cases are outside the launcher's promise: settings rewritten by another
\* launcher's setup between its reading and pi's own, and settings that declare
\* several copies, which an unfinished cleanup can leave.
LoadedOnce ==
  \A l \in Launcher :
    (At2(l, "running") /\ launch[l].command = "run") =>
      LET others == launch[l].packages \ Declares
          left == IF launch[l].discovers THEN {} ELSE NotADirectory IN
      \/ /\ Cardinality(launch[l].copies \cap (Declares \cup {"root"})) = 1
         /\ (others \ left) \cup LooseEntries \subseteq launch[l].copies
         /\ launch[l].copies \cap left = {}
      \/ launch[l].raced
      \/ Cardinality(launch[l].packages \cap Declares) > 1

\* The persona file and the managed-asset digest, which the pinned gentle-ai
\* rewrites for every home, are the user's again once no setup is running,
\* whatever way the installs ended (runSetupFlow's finally block).  A launcher
\* killed in a setup and two overlapping setups disturb both files, a snapshot
\* or a restore that fails only its own.
SharedFilesKept ==
  (\A l \in Launcher : ~InSetup(l)) =>
    \A f \in SharedFile : f \in disturbed \/ shared[f] = original[f]
                            \/ (f = "digest" /\ original[f] = "absent")

\* Automatic provisioning only runs the installer against the isolated home or a
\* directory that never had content of the user's, and never against pi's own
\* home (homeIsForeign), in any interleaving of the bootstrap, its failures, the
\* ownership marker, the provisioning marker and the setup lock.
AutoOnlyOwned ==
  \A l \in Launcher :
    (launch[l].auto /\ InSetup(l)) =>
      Mode(l) = "isolated" \/ (launch[l].home # PiHome /\ ~Dir(l).foreign)

\* What the launcher owes a user, whichever launchers overlap, die or outlive
\* their lock: one gentle-pi per run, the files of the home given back after a
\* setup, and no automatic install into a directory it does not own
\* (runSetupFlow, buildPiInvocation, homeIsForeign).
HomeIsRespected == LoadedOnce /\ SharedFilesKept /\ AutoOnlyOwned

\* What the comment on acquireSetupLock says: a lock a racing process just
\* legitimately acquired is never deleted out from under it; the removal of a
\* stale lock only ever takes a stale one.
YoungLockKept ==
  [][\A l \in Launcher, h \in Home :
       (At2(l, "remove") /\ launch[l].home = h /\ launch'[l] # launch[l]) =>
          homes'[h].lock = homes[h].lock \/ homes[h].lock.stale]_launcherVars
=============================================================================
