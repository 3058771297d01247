---------------------------- MODULE SkillRegistry ------------------------------
(***************************************************************************)
(* The skill registry of a project (extensions/skill-registry.ts): an index *)
(* of the SKILL.md files on disk with a cached fingerprint, regenerated at  *)
(* session start, by watchers, by command and after the quarantine of a     *)
(* legacy extension.  Every step of a regeneration is awaited, so several   *)
(* of them may interleave, from one process or from many.                   *)
(*                                                                         *)
(* Files are numbered in the order in which their directories are scanned.  *)
(* A version stands for a file's times, bytes and description.              *)
(***************************************************************************)
EXTENDS Naturals, FiniteSets, FiniteSetsExt

CONSTANTS
    SkillFile,         \* numbers of the files
    ProjectFile,       \* the ones below the project
    SkillName,         \* names in the front matter
    ExcludedName,      \* the ones of EXCLUDE_NAMES and EXCLUDE_PREFIXES
    Regen,             \* slots for regenerations in progress
    NoRegistry, NoFingerprint,
    MaxSkillEdits, MaxRegens, MaxStarts     \* bounds: edits, regenerations, sessions

ASSUME SkillAssumption ==
    /\ SkillFile \subseteq Nat /\ ProjectFile \subseteq SkillFile /\ ExcludedName \subseteq SkillName
    /\ MaxSkillEdits \in Nat /\ MaxRegens \in Nat /\ MaxStarts \in Nat

VARIABLES
    skills,            \* SKILL.md files: version (0: none) and name
    skillEdits,        \* versions made so far
    legacy,            \* the project's .pi/extensions/skill-registry.ts
    gitignore,         \* lines of .gitignore: the user's and ".atl/"
    registry, cache,   \* .atl/skill-registry.md and the fingerprint beside it
    regens,            \* regenerations in progress
    begun,             \* regenerations begun
    session,           \* the session: up, how many began, whether its project is watched
    watchers,          \* sessions whose watchers are open
    timers,            \* sessions with a debounce timer running
    healing,           \* delayed regenerations after a quarantine
    regenSettled       \* history: a refresh ran undisturbed, and nothing changed since

skillVars == <<skills, skillEdits, legacy, gitignore, registry, cache, regens, begun, session, watchers, timers, healing, regenSettled>>

fileVars == <<skills, skillEdits, legacy, gitignore, registry, cache>>

sessionVars == <<session, watchers, timers, healing>>

NoRegen == [pc |-> "idle"]

Regenerating(g) == regens[g].pc # "idle"

(* dedupeBySkillName: of the files with one name, the first of the project,
   or else the first.  *)
Deduped(entries) ==
    {e \in entries :
        LET same == {o \in entries : o.name = e.name}
            inProject == {o \in same : o.file \in ProjectFile}
        IN  e.file = Min({o.file : o \in IF inProject # {} THEN inProject ELSE same})}

SkillEntry(f) == [file |-> f, name |-> skills[f].name, version |-> skills[f].version]

Present == {f \in SkillFile : skills[f].version # 0}

IsExcluded(name) == name \in ExcludedName

FingerprintOf(files) == {<<f, skills[f].version>> : f \in files}

(* What the registry should say now.  *)
Listing == Deduped({SkillEntry(f) : f \in {p \in Present : ~IsExcluded(skills[p].name)}})

(***************************************************************************)
(* Regenerations                                                           *)
(***************************************************************************)

(* Another regeneration disturbs the ones in progress.  *)
RegenDisturbed == [g \in Regen |-> IF Regenerating(g) THEN [regens[g] EXCEPT !.alone = FALSE] ELSE regens[g]]

BeginRegen(g, kind, pc, force) ==
    /\ ~Regenerating(g) /\ begun < MaxRegens /\ begun' = begun + 1
    /\ regens' = [RegenDisturbed EXCEPT ![g] =
          [pc |-> pc, kind |-> kind, force |-> force, of |-> session.count, todo |-> {}, files |-> {}, fp |-> {},
           entries |-> {}, lines |-> {}, alone |-> \A o \in Regen : ~Regenerating(o)]]

Ends(g) == regens' = [regens EXCEPT ![g] = NoRegen]

(* session_start, and the command that forces a regeneration.  *)
SessionStarts(g, hasUI) ==
    /\ ~session.up /\ session.count < MaxStarts
    /\ session' = [session EXCEPT !.up = TRUE, !.count = @ + 1]
    /\ ~Regenerating(g) /\ begun < MaxRegens /\ begun' = begun + 1
    /\ regens' = [RegenDisturbed EXCEPT ![g] =
          [pc |-> "ignore", kind |-> IF hasUI THEN "start" ELSE "headless", force |-> FALSE, of |-> session.count + 1,
           todo |-> {}, files |-> {}, fp |-> {}, entries |-> {}, lines |-> {}, alone |-> \A o \in Regen : ~Regenerating(o)]]
    /\ UNCHANGED <<fileVars, watchers, timers, healing, regenSettled>>

RefreshCommand(g) ==
    /\ session.up /\ BeginRegen(g, "refresh", "ignore", TRUE)
    /\ UNCHANGED <<fileVars, sessionVars, regenSettled>>

(* ensureAtlIgnored reads and writes back.  *)
EnsureAtlIgnored(g) ==
    LET next == IF regens[g].kind = "refresh" THEN "list" ELSE "legacy"
    IN  /\ regens[g].pc \in {"ignore", "append"}
        /\ IF regens[g].pc = "append"
           THEN gitignore' = regens[g].lines \cup {"atl"} /\ regens' = [regens EXCEPT ![g].pc = next]
           ELSE /\ regens' = [regens EXCEPT ![g].pc = IF "atl" \in gitignore THEN next ELSE "append",
                                            ![g].lines = gitignore]
                /\ UNCHANGED gitignore
        /\ UNCHANGED <<skills, skillEdits, legacy, registry, cache, begun, sessionVars, regenSettled>>

(* quarantineLegacyProjectRegistry reads the file, then renames what is
   there; a quarantine forces the regeneration.  *)
QuarantineLegacy(g) ==
    /\ regens[g].pc \in {"legacy", "rename"}
    /\ IF regens[g].pc = "legacy"
       THEN /\ regens' = [regens EXCEPT ![g].pc = IF legacy = "generated" THEN "rename" ELSE "list"]
            /\ UNCHANGED legacy
       ELSE /\ regens' = [regens EXCEPT ![g].pc = "list", ![g].force = (legacy # "none")]
            /\ legacy' = "none"
    /\ UNCHANGED <<skills, skillEdits, gitignore, registry, cache, begun, sessionVars, regenSettled>>

FindSkillFiles(g) ==
    /\ regens[g].pc = "list"
    /\ regens' = [regens EXCEPT ![g].pc = "hash", ![g].files = Present, ![g].todo = Present]
    /\ UNCHANGED <<fileVars, begun, sessionVars, regenSettled>>

(* fingerprint, file by file.  *)
Fingerprint(g) ==
    /\ regens[g].pc = "hash"
    /\ LET todo == regens[g].todo
       IN  regens' = IF todo = {} THEN [regens EXCEPT ![g].pc = "cached"]
                     ELSE [regens EXCEPT ![g].todo = @ \ {Min(todo)},
                                         ![g].fp = @ \cup FingerprintOf({Min(todo)})]
    /\ UNCHANGED <<fileVars, begun, sessionVars, regenSettled>>

AfterRegenerate(g) ==
    IF regens[g].kind \in {"start", "headless"} THEN [regens EXCEPT ![g].pc = "started"]
    ELSE [regens EXCEPT ![g] = NoRegen]

(* A forced regeneration that nothing disturbed has come to its end.  *)
Settles(g) == regenSettled' = (regenSettled \/ (regens[g].force /\ regens[g].alone))

CacheHit_Fault(g) == cache = regens[g].fp /\ registry # NoRegistry

CacheHit(g) == ~regens[g].force /\ cache = regens[g].fp /\ registry # NoRegistry

ReadCache(g) ==
    /\ regens[g].pc = "cached"
    /\ IF CacheHit(g) THEN regens' = AfterRegenerate(g) /\ Settles(g)
       ELSE /\ regens' = [regens EXCEPT ![g].pc = "load", ![g].todo = regens[g].files]
            /\ UNCHANGED regenSettled
    /\ UNCHANGED <<fileVars, begun, sessionVars>>

(* loadSkill: missing files and excluded names are passed over.  *)
LoadSkill(g) ==
    /\ regens[g].pc = "load"
    /\ LET todo == regens[g].todo
           f == Min(todo)
       IN  regens' = IF todo = {} THEN [regens EXCEPT ![g].pc = "write"]
                     ELSE [regens EXCEPT ![g].todo = @ \ {f},
                             ![g].entries = IF f \in Present /\ ~IsExcluded(skills[f].name)
                                            THEN @ \cup {SkillEntry(f)} ELSE @]
    /\ UNCHANGED <<fileVars, begun, sessionVars, regenSettled>>

(* The registry, and then the fingerprint that stands for it.  *)
WriteRegistry(g) ==
    /\ regens[g].pc = "write"
    /\ registry' = Deduped(regens[g].entries)
    /\ regens' = [regens EXCEPT ![g].pc = "stamp"]
    /\ UNCHANGED <<skills, skillEdits, legacy, gitignore, cache, begun, sessionVars, regenSettled>>

WriteCache(g) ==
    /\ regens[g].pc = "stamp"
    /\ cache' = regens[g].fp
    /\ regens' = AfterRegenerate(g) /\ Settles(g)
    /\ UNCHANGED <<skills, skillEdits, legacy, gitignore, registry, begun, sessionVars>>

RegenFails(g) ==
    /\ Regenerating(g) /\ Ends(g)
    /\ UNCHANGED <<fileVars, begun, sessionVars, regenSettled>>

(***************************************************************************)
(* Sessions and watchers                                                   *)
(***************************************************************************)

(* The rest of session_start: a watcher unless the project has one, opened
   after an await, and a second regeneration after a quarantine.  *)
Healed(g) == healing' = IF regens[g].force THEN healing + 1 ELSE healing

StartWatcher(g) ==
    /\ regens[g].pc \in {"started", "watch"}
    /\ IF regens[g].pc = "started" /\ regens[g].kind = "start" /\ ~session.watched
       THEN /\ session' = [session EXCEPT !.watched = TRUE]
            /\ regens' = [regens EXCEPT ![g].pc = "watch"]
            /\ UNCHANGED <<watchers, healing>>
       ELSE /\ watchers' = IF regens[g].pc = "watch" THEN watchers \cup {regens[g].of} ELSE watchers
            /\ Ends(g) /\ Healed(g)
            /\ UNCHANGED session
    /\ UNCHANGED <<fileVars, begun, timers, regenSettled>>

(* session_shutdown closes the watchers; timers and regenerations go on.  *)
CloseSkillRegistryWatchers ==
    /\ session.up
    /\ session' = [session EXCEPT !.up = FALSE, !.watched = FALSE]
    /\ watchers' = {}
    /\ UNCHANGED <<fileVars, regens, begun, timers, healing, regenSettled>>

WatchTimerFires(s, g) ==
    /\ s \in timers /\ timers' = timers \ {s}
    /\ BeginRegen(g, "watch", "list", FALSE)
    /\ UNCHANGED <<fileVars, session, watchers, healing, regenSettled>>

HealTimerFires(g) ==
    /\ healing > 0 /\ healing' = healing - 1
    /\ BeginRegen(g, "heal", "list", TRUE)
    /\ UNCHANGED <<fileVars, session, watchers, timers, regenSettled>>

ProcessExits ==
    /\ session.up \/ \E g \in Regen : Regenerating(g)
    /\ regens' = [g \in Regen |-> NoRegen]
    /\ session' = [session EXCEPT !.up = FALSE, !.watched = FALSE]
    /\ watchers' = {} /\ timers' = {} /\ healing' = 0
    /\ UNCHANGED <<fileVars, begun, regenSettled>>

(***************************************************************************)
(* The user                                                                *)
(***************************************************************************)

EditSkill(f, name, removed) ==
    /\ skillEdits < MaxSkillEdits /\ skillEdits' = skillEdits + 1 /\ (removed => skills[f].version # 0)
    /\ skills' = [skills EXCEPT ![f] = [version |-> IF removed THEN 0 ELSE skillEdits + 2, name |-> name]]
    /\ timers' = timers \cup watchers
    /\ regens' = RegenDisturbed /\ regenSettled' = FALSE
    /\ UNCHANGED <<legacy, gitignore, registry, cache, begun, session, watchers, healing>>

EditProject ==
    /\ \/ legacy = "generated" /\ legacy' = "user" /\ UNCHANGED <<gitignore, registry>>
       \/ gitignore' = gitignore \cup {"user"} /\ UNCHANGED <<legacy, registry>>
       \/ registry # NoRegistry /\ registry' = NoRegistry /\ UNCHANGED <<legacy, gitignore>>
    /\ regens' = RegenDisturbed /\ regenSettled' = FALSE
    /\ UNCHANGED <<skills, skillEdits, cache, begun, sessionVars>>

SkillInit ==
    /\ skills \in [SkillFile -> [version : {0, 1}, name : SkillName]]
    /\ \A f \in SkillFile : skills[f].version = 0 => ~IsExcluded(skills[f].name)
    /\ skillEdits = 0
    /\ legacy \in {"none", "generated"} /\ gitignore = {}
    /\ registry = NoRegistry /\ cache = NoFingerprint
    /\ regens = [g \in Regen |-> NoRegen] /\ begun = 0
    /\ session = [up |-> FALSE, count |-> 0, watched |-> FALSE]
    /\ watchers = {} /\ timers = {} /\ healing = 0 /\ regenSettled = FALSE

RegenStep(g) ==
    \/ EnsureAtlIgnored(g) \/ QuarantineLegacy(g) \/ FindSkillFiles(g) \/ Fingerprint(g)
    \/ ReadCache(g) \/ LoadSkill(g) \/ WriteRegistry(g) \/ WriteCache(g) \/ RegenFails(g) \/ StartWatcher(g)

SkillNext ==
    \/ \E g \in Regen :
          \/ \E hasUI \in BOOLEAN : SessionStarts(g, hasUI)
          \/ RefreshCommand(g) \/ RegenStep(g) \/ HealTimerFires(g)
          \/ \E s \in 1..MaxStarts : WatchTimerFires(s, g)
    \/ CloseSkillRegistryWatchers \/ ProcessExits
    \/ \E f \in SkillFile, name \in SkillName, removed \in BOOLEAN : EditSkill(f, name, removed)
    \/ EditProject

SkillSpec == SkillInit /\ [][SkillNext]_skillVars

(* Whatever earlier regenerations left behind (an older registry under a newer
   fingerprint, when two of them overlapped), a refresh that ran undisturbed
   puts the registry right, and it stays right until a skill changes
   (skill-registry.ts:374-420, 605-620).  *)
RefreshHeals == regenSettled => registry = Listing /\ cache = FingerprintOf(Present)
=============================================================================
