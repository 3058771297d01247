---------------------------- MODULE AgentRouting ----------------------------
(***************************************************************************)
(* Which model a subagent is launched with. The routing is kept in five    *)
(* places: models.json is what the user saved; the frontmatter of an agent *)
(* file and the model profiles of two files subagents.json, the user's and *)
(* the project's, are what a launch reads; and profiles.json names whole   *)
(* routings one of which is active. A repository may pin a profile,        *)
(* locally or in a committed file, and then resolves it at launch.         *)
(* Applying a profile spans these files without a common rename, so it     *)
(* claims the profile first and compensates what fails; the sweep of a     *)
(* starting session applies models.json again. Model and effort of an      *)
(* entry are treated alike by the code; one field stands for both.         *)
(***************************************************************************)
EXTENDS Naturals, FiniteSets

CONSTANTS
    RoutedAgent,   \* names a routing may mention
    Installed,     \* the ones a discovery finds
    ProviderRole,  \* review-refuter and review-validator: saved, never materialized
    Packaged,      \* installed by the package, refreshed when a session starts
    ProjectAgent,  \* defined by the project, the others by the user's home
    ModelId,       \* model ids
    PairModel,     \* the ones that are a provider/model pair
    ProfileName,   \* names of profiles
    RoutingTried,  \* the routings a user makes in a panel or imports
    RoutingWriter, \* sessions of one repository that write routing
    MaxFaults,     \* bound on failing writes
    MaxEdits       \* bound on the actions of the user

Inherit == "inherit"
Malformed == "malformed"
Orchestrator == "orchestrator"
RoutingKey == RoutedAgent \cup {Orchestrator}
\* A routing map: a key it lacks is omitted, a key it has may say inherit.
Routing == UNION {[K -> ModelId \cup {Inherit}] : K \in SUBSET RoutingKey}

ASSUME RoutingAssumption ==
    /\ Installed \subseteq RoutedAgent /\ ProviderRole \subseteq RoutedAgent
    /\ Orchestrator \notin RoutedAgent \* a reserved key
    /\ Packaged \subseteq Installed /\ ProjectAgent \subseteq Installed /\ PairModel \subseteq ModelId
    /\ RoutingTried \subseteq UNION {[K -> ModelId \cup {Inherit, Malformed}] : K \in SUBSET RoutingKey}
    /\ "current" \in ProfileName /\ MaxFaults \in Nat /\ MaxEdits \in Nat

VARIABLES
    models,    \* models.json: its status and its routing
    routes,    \* what is materialized per agent: its frontmatter and the model profiles of both files
    overrides, \* legacy agentOverrides of the project's settings
    profiles,  \* profiles.json: the active name and the routings by name
    pins,      \* the local pin and the declaration of the repository
    orchestrator, \* the default model of Pi's settings
    writer,    \* what every session is doing
    settled,   \* the last routing that was completed without another writer
    adrift,    \* a session worked on the store from a copy others had outdated, or a pin was not rewritten
    budget     \* failing writes and user actions so far

routingVars == <<models, routes, overrides, profiles, pins, orchestrator, writer, settled, adrift, budget>>

EmptyRouting == [a \in {} |-> Inherit]
NoStore == [here |-> FALSE, active |-> "none", of |-> [n \in {} |-> EmptyRouting]]
NothingSettled == [kind |-> "none", name |-> "none", routing |-> EmptyRouting]
NoRoutes == [a \in RoutedAgent |-> Inherit]
IdleWriter == [pc |-> "idle", kind |-> "none", name |-> "none", from |-> "none", file |-> NoStore,
               want |-> EmptyRouting, todo |-> {}, seen |-> [a \in {} |-> Inherit], alone |-> TRUE]

-----------------------------------------------------------------------------
(* Reading a routing.                                                      *)

\* normalizeModelConfig: entries that are not a routing are dropped.
Normalize(raw) == [a \in {x \in DOMAIN raw : raw[x] # Malformed} |-> raw[a]]

\* An entry that names no model clears the route.
Entry(r, a) == IF a \in DOMAIN r THEN r[a] ELSE Inherit

\* agentModelProfileConfigPath: the subagents.json an agent is routed in.
FileOf(a) == IF a \in ProjectAgent THEN "project" ELSE "global"
Other(file) == IF file = "project" THEN "global" ELSE "project"

\* readMaterializedRoutingEntry, which the panels show: the model profile of the
\* agent's own file first, its definition otherwise.
Materialized(a) == IF routes[FileOf(a)][a] # Inherit THEN routes[FileOf(a)][a] ELSE routes.front[a]

\* loadAgentsConfig: the project's model profiles over the global ones.
Merged(a) == IF routes.project[a] # Inherit THEN routes.project[a] ELSE routes.global[a]

\* evaluateProfilePin over the store: the first layer that names a profile it has.
PinWinner(p, store) ==
    IF p.local \in DOMAIN store.of THEN p.local
    ELSE IF p.repo \in DOMAIN store.of THEN p.repo ELSE "none"

\* resolveAgentProfile: a winning pin replaces both files, the definition comes
\* second, and then the default of Pi's configuration.
Launched(a) ==
    LET name == PinWinner(pins, profiles)
        profile == IF name = "none" THEN Merged(a) ELSE Entry(profiles.of[name], a)
    IN IF profile # Inherit THEN profile ELSE routes.front[a]

\* readGlobalEffectiveModelConfig: what models.json says, and what is
\* materialized for every installed agent it is silent about.
GlobalEffective ==
    LET read == IF models.status = "valid" THEN models.routing ELSE EmptyRouting
        live == {a \in Installed \ (ProviderRole \cup DOMAIN read) : Materialized(a) # Inherit}
    IN [a \in DOMAIN read \cup live |-> IF a \in DOMAIN read THEN read[a] ELSE Materialized(a)]

\* readEffectiveModelConfig: a pin that wins is shown instead.
Effective ==
    LET name == PinWinner(pins, profiles)
    IN IF name = "none" THEN GlobalEffective
       ELSE [a \in DOMAIN profiles.of[name] \ {Orchestrator} |-> profiles.of[name][a]]

\* profileSnapshotFrom: a profile is the routing with the orchestrator it runs under.
ProfileSnapshot(routing) ==
    IF orchestrator \in PairModel
    THEN [a \in DOMAIN routing \cup {Orchestrator} |-> IF a = Orchestrator THEN orchestrator ELSE routing[a]]
    ELSE routing

\* bootstrapProfilesFile: a store that is missing is seeded with one profile.
Bootstrap(routing) ==
    [here |-> TRUE, active |-> IF routing = EmptyRouting THEN "none" ELSE "current",
     of |-> [n \in {"current"} |-> routing]]

\* withOmittedAgentsClearedAsync: an agent the profile omits returns to inherit.
WithOmittedCleared_Fault(r) == r

WithOmittedCleared(r) ==
    [a \in DOMAIN r \cup (Installed \ ProviderRole) |-> Entry(r, a)]

-----------------------------------------------------------------------------
(* Writers.                                                                *)

Running(w) == writer[w].pc \notin {"idle", "models", "open", "asking", "following"}

\* A writer begins to change the routing: whoever is in the middle of it is no
\* longer alone, and neither is the one that begins.
BeginWriting(w, new) ==
    LET others == {v \in RoutingWriter \ {w} : Running(v)} IN
    /\ writer' = [v \in RoutingWriter |->
                    IF v = w THEN [new EXCEPT !.alone = (others = {})]
                    ELSE IF v \in others THEN [writer[v] EXCEPT !.alone = FALSE] ELSE writer[v]]
    /\ settled' = NothingSettled

\* What applyModelConfigAsync goes through: the installed agents the routing
\* mentions, and cleared entries of agents that are not installed any more.
ToMaterialize(r) ==
    {a \in DOMAIN r \ (ProviderRole \cup {Orchestrator}) : a \in Installed \/ r[a] = Inherit}

NextAgent(w) == CHOOSE a \in writer[w].todo : TRUE

\* The frontmatter of the next agent is rewritten (or left, if it says so already).
WriteFrontmatter(w) ==
    LET a == NextAgent(w) IN
    /\ writer[w].pc = "apply" /\ writer[w].todo # {}
    /\ routes' = IF a \in Installed THEN [routes EXCEPT !.front[a] = writer[w].want[a]] ELSE routes
    /\ writer' = [writer EXCEPT ![w].pc = "read"]
    /\ UNCHANGED <<models, overrides, profiles, pins, orchestrator, settled, budget, adrift>>

\* updateSubagentModelProfileAtPathAsync reads the agent's whole file (a name that is
\* not installed is cleared in the global one) and writes all of it back.
ReadProfiles(w) ==
    /\ writer[w].pc = "read"
    /\ writer' = [writer EXCEPT ![w].pc = "write", ![w].seen = routes[FileOf(NextAgent(w))]]
    /\ UNCHANGED <<models, routes, overrides, profiles, pins, orchestrator, settled, budget, adrift>>

WriteProfile(w) ==
    LET a == NextAgent(w) IN
    /\ writer[w].pc = "write"
    /\ routes' = IF writer[w].seen[a] = writer[w].want[a] THEN routes
                 ELSE [routes EXCEPT ![FileOf(a)] = [writer[w].seen EXCEPT ![a] = writer[w].want[a]]]
    /\ writer' = [writer EXCEPT ![w].pc = "apply", ![w].todo = @ \ {a}]
    /\ UNCHANGED <<models, overrides, profiles, pins, orchestrator, settled, budget, adrift>>

\* A writer that worked alone settles what it wrote.
Settle(w, kind, name, routing) ==
    settled' = IF writer[w].alone THEN [kind |-> kind, name |-> name, routing |-> routing] ELSE settled

WriteFaults == budget.faults < MaxFaults /\ budget' = [budget EXCEPT !.faults = @ + 1]

UserActs == budget.edits < MaxEdits /\ budget' = [budget EXCEPT !.edits = @ + 1]

\* migrateLegacyProjectModelOverrides: an override moves to the model profile
\* that says nothing, of the project when the name is not installed; the
\* overrides are removed, the provider roles' unread.
Migrated(file) ==
    LET goes == {a \in RoutedAgent \ ProviderRole : (file = "global") = (a \in Installed \ ProjectAgent)}
    IN [a \in RoutedAgent |->
          IF a \in goes /\ overrides[a] \in ModelId /\ routes[file][a] = Inherit THEN overrides[a] ELSE routes[file][a]]

-----------------------------------------------------------------------------
(* The sweep of a starting session.                                        *)

\* The package's agents are refreshed without routing, then the legacy overrides
\* move to the model profiles that say nothing, and models.json is read.
BeginStart(w) ==
    LET read == IF models.status = "valid" THEN models.routing ELSE EmptyRouting
    IN /\ writer[w].pc = "idle" /\ UserActs
       /\ routes' = [front |-> [a \in RoutedAgent |-> IF a \in Packaged THEN Inherit ELSE routes.front[a]],
                     global |-> Migrated("global"), project |-> Migrated("project")]
       /\ overrides' = [a \in RoutedAgent |-> Inherit]
       /\ IF models.status = "invalid" THEN BeginWriting(w, IdleWriter)
          ELSE BeginWriting(w, [IdleWriter EXCEPT !.pc = "apply", !.kind = "start", !.want = read, !.todo = ToMaterialize(read)])
       /\ UNCHANGED <<models, profiles, pins, orchestrator, adrift>>

EndStart(w) ==
    /\ writer[w].pc = "apply" /\ writer[w].kind \in {"start", "models"} /\ writer[w].todo = {}
    /\ writer' = [writer EXCEPT ![w] = IdleWriter]
    /\ Settle(w, "saved", "none", writer[w].want)
    /\ UNCHANGED <<models, routes, overrides, profiles, pins, orchestrator, budget, adrift>>

\* A write of the sweep or of a save fails: the rest is not applied.
AbandonApply(w) ==
    /\ writer[w].pc \in {"apply", "write"} /\ writer[w].kind \in {"start", "models"}
    /\ writer[w].todo # {} /\ WriteFaults
    /\ writer' = [writer EXCEPT ![w] = IdleWriter]
    /\ UNCHANGED <<models, routes, overrides, profiles, pins, orchestrator, settled, adrift>>

-----------------------------------------------------------------------------
(* /gentle:models.                                                         *)

\* The command migrates first; its panel does not open over a file that is not a
\* routing.
OpenModels(w) ==
    /\ writer[w].pc = "idle" /\ UserActs
    /\ routes' = [routes EXCEPT !.global = Migrated("global"), !.project = Migrated("project")]
    /\ overrides' = [a \in RoutedAgent |-> Inherit]
    /\ settled' = IF routes' = routes THEN settled ELSE NothingSettled
    /\ writer' = [v \in RoutingWriter |->
                    IF v = w THEN [IdleWriter EXCEPT !.pc = IF models.status = "invalid" THEN "idle" ELSE "models"]
                    ELSE IF Running(v) /\ routes' # routes THEN [writer[v] EXCEPT !.alone = FALSE]
                    ELSE writer[v]]
    /\ UNCHANGED <<models, profiles, pins, orchestrator, adrift>>

\* The panel is saved, or an export restored: models.json is written and applied.
SaveModels(w, raw) ==
    LET r == Normalize(raw) IN
    /\ writer[w].pc = "models" /\ UNCHANGED budget
    /\ Orchestrator \notin DOMAIN r
    /\ models' = [status |-> "valid", routing |-> r]
    /\ BeginWriting(w, [IdleWriter EXCEPT !.pc = "apply", !.kind = "models", !.want = r, !.todo = ToMaterialize(r)])
    /\ UNCHANGED <<routes, overrides, profiles, pins, orchestrator, adrift>>

\* `u`: after the save the global routing is kept in the profile that is
\* current, pinned or active; a store that does not exist is seeded.
SaveToProfile(w) ==
    LET pinned == PinWinner(pins, profiles)
        target == IF pinned # "none" THEN pinned ELSE profiles.active IN
    /\ writer[w].pc = "apply" /\ writer[w].kind = "models" /\ writer[w].todo = {}
    /\ writer' = [writer EXCEPT ![w] = IdleWriter]
    /\ Settle(w, "saved", "none", writer[w].want)
    /\ profiles' = IF target \in DOMAIN profiles.of
                   THEN [profiles EXCEPT !.of[target] = ProfileSnapshot(GlobalEffective)]
                   ELSE IF profiles.here THEN profiles ELSE Bootstrap(ProfileSnapshot(GlobalEffective))
    /\ UNCHANGED <<models, routes, overrides, pins, orchestrator, budget, adrift>>

-----------------------------------------------------------------------------
(* /gentle:profiles.                                                       *)

\* The panel reads the store once, and works on that copy until it closes; a
\* store that is missing is seeded from what is in effect.
OpenPanel(w) ==
    LET store == IF profiles.here THEN profiles ELSE Bootstrap(Effective) IN
    /\ writer[w].pc = "idle" /\ UserActs
    /\ profiles' = store
    /\ writer' = [writer EXCEPT ![w] = [IdleWriter EXCEPT !.pc = "open", !.file = store]]
    /\ UNCHANGED <<models, routes, overrides, pins, orchestrator, settled, adrift>>

ClosePanel(w) ==
    /\ writer[w].pc \in {"open", "models"}
    /\ writer' = [writer EXCEPT ![w] = IdleWriter]
    /\ UNCHANGED <<models, routes, overrides, profiles, pins, orchestrator, settled, budget, adrift>>

\* The copy of a session is out of date when another one has added, renamed or
\* deleted a profile since.
Outdated(w) == DOMAIN writer[w].file.of # DOMAIN profiles.of
Renaming(w) == writer[w].pc = "following"
StoreDrifts(w) == Outdated(w) \/ \E v \in RoutingWriter \ {w} : Renaming(v)
PinDrifts(w, name) == Outdated(w) \/ \E v \in RoutingWriter : writer[v].pc = "asking" /\ writer[v].name = name
UnsettlePinned == settled' = IF settled.kind = "pinned" THEN NothingSettled ELSE settled

\* An action of the panel that only writes the store; a write that fails
\* changes nothing.
Store(w, file) ==
    /\ profiles' = file
    /\ writer' = [writer EXCEPT ![w].pc = "open", ![w].file = file]
    /\ UnsettlePinned /\ adrift' = (adrift \/ StoreDrifts(w))
    /\ UNCHANGED <<models, routes, overrides, orchestrator>>

With(file, name, r) ==
    [file EXCEPT !.of = [n \in DOMAIN file.of \cup {name} |-> IF n = name THEN r ELSE file.of[n]]]

Without(file, name) == [file EXCEPT !.of = [n \in DOMAIN file.of \ {name} |-> file.of[n]]]

\* create, update, duplicate and import: a new name must be free, the name of an
\* update must exist, and an import that replaces is confirmed.
PutProfile(w, name, how) ==
    LET file == writer[w].file IN
    /\ writer[w].pc = "open" /\ UserActs
    /\ \/ how = "create" /\ name \notin DOMAIN file.of /\ Store(w, With(file, name, EmptyRouting))
       \/ how = "update" /\ name \in DOMAIN file.of /\ Store(w, With(file, name, ProfileSnapshot(Effective)))
       \/ /\ how = "duplicate" /\ name \notin DOMAIN file.of
          /\ \E from \in DOMAIN file.of : Store(w, With(file, name, file.of[from]))
       \/ how = "import" /\ \E raw \in RoutingTried : Store(w, With(file, name, Normalize(raw)))
    /\ UNCHANGED pins

\* rename: the active marker follows in the store.
Renamed(file, from, to) ==
    [here |-> TRUE, active |-> IF file.active = from THEN to ELSE file.active,
     of |-> [n \in (DOMAIN file.of \ {from}) \cup {to} |-> IF n = to THEN file.of[from] ELSE file.of[n]]]

RenameProfile(w, from, to) ==
    LET file == writer[w].file IN
    /\ writer[w].pc = "open" /\ UserActs
    /\ from \in DOMAIN file.of /\ to \notin DOMAIN file.of
    /\ profiles' = Renamed(file, from, to)
    /\ writer' = [writer EXCEPT ![w].pc = "following", ![w].name = to, ![w].from = from,
                                ![w].file = Renamed(file, from, to)]
    /\ UnsettlePinned /\ adrift' = (adrift \/ StoreDrifts(w))
    /\ UNCHANGED <<models, routes, overrides, pins, orchestrator>>

\* The pin of this clone follows the rename if it names the old profile (the
\* committed declaration is only reported); one that cannot be written stays.
FollowRenamedPin(w) ==
    LET from == writer[w].from
        to == writer[w].name IN
    /\ Renaming(w)
    /\ \/ /\ pins.local = from /\ pins' = [pins EXCEPT !.local = to]
          /\ UnsettlePinned /\ adrift' = (adrift \/ PinDrifts(w, to)) /\ UNCHANGED budget
       \/ pins.local # from /\ UNCHANGED <<pins, settled, adrift, budget>>
       \/ pins.local = from /\ WriteFaults /\ adrift' = TRUE /\ UNCHANGED <<pins, settled>>
    /\ writer' = [writer EXCEPT ![w].pc = "open", ![w].from = "none"]
    /\ UNCHANGED <<models, routes, overrides, profiles, orchestrator>>

\* delete: refused while either layer of this repository names the profile,
\* confirmed by the user, and refused for the active profile.
AskDelete(w, name) ==
    /\ writer[w].pc = "open" /\ UserActs
    /\ name \in DOMAIN writer[w].file.of /\ name \notin {pins.local, pins.repo}
    /\ writer' = [writer EXCEPT ![w].pc = "asking", ![w].name = name]
    /\ UNCHANGED <<models, routes, overrides, profiles, pins, orchestrator, settled, adrift>>

DeleteAnswered(w, yes) ==
    LET file == writer[w].file
        name == writer[w].name IN
    /\ writer[w].pc = "asking"
    /\ IF yes /\ file.active # name THEN Store(w, Without(file, name))
       ELSE /\ writer' = [writer EXCEPT ![w].pc = "open"]
            /\ UNCHANGED <<models, routes, overrides, profiles, orchestrator, settled, adrift>>
    /\ UNCHANGED <<pins, budget>>

\* p and P toggle one layer.
TogglePin(w, name, layer) ==
    /\ writer[w].pc = "open" /\ UserActs /\ name \in DOMAIN writer[w].file.of
    /\ pins' = [pins EXCEPT ![layer] = IF @ = name THEN "none" ELSE name]
    /\ UnsettlePinned /\ adrift' = (adrift \/ (layer = "local" /\ PinDrifts(w, name)))
    /\ UNCHANGED <<models, routes, overrides, profiles, orchestrator, writer>>

\* apply, in a repository whose pin resolves: only this clone's pin moves.
ApplyPinned(w, name) ==
    /\ writer[w].pc = "open" /\ UserActs /\ name \in DOMAIN writer[w].file.of
    /\ PinWinner(pins, profiles) # "none"
    /\ pins' = [pins EXCEPT !.local = name] /\ adrift' = (adrift \/ PinDrifts(w, name))
    /\ settled' = [kind |-> "pinned", name |-> name, routing |-> EmptyRouting]
    /\ UNCHANGED <<models, routes, overrides, profiles, orchestrator, writer>>

\* apply, everywhere else: the claim in the store first.
ClaimProfile(w, name) ==
    LET file == writer[w].file IN
    /\ writer[w].pc = "open" /\ UserActs /\ name \in DOMAIN file.of
    /\ PinWinner(pins, profiles) = "none"
    /\ profiles' = [file EXCEPT !.active = name] /\ adrift' = (adrift \/ StoreDrifts(w))
    /\ BeginWriting(w, [writer[w] EXCEPT !.pc = "claimed", !.kind = "profile", !.name = name])
    /\ UNCHANGED <<models, routes, overrides, pins, orchestrator>>

\* Then models.json holds the profile as it is, and the padded one is materialized.
WriteModels(w) ==
    LET r == writer[w].file.of[writer[w].name] IN
    /\ writer[w].pc = "claimed"
    /\ models' = [status |-> "valid", routing |-> r]
    /\ writer' = [writer EXCEPT ![w].pc = "apply", ![w].want = WithOmittedCleared(r),
                                ![w].todo = ToMaterialize(WithOmittedCleared(r))]
    /\ UNCHANGED <<routes, overrides, profiles, pins, orchestrator, settled, budget, adrift>>

\* The orchestrator last: one that is no pair undoes the apply, none is left alone.
ApplyOrchestrator(w) ==
    LET file == writer[w].file
        r == file.of[writer[w].name]
        o == Entry(r, Orchestrator) IN
    /\ writer[w].pc = "apply" /\ writer[w].kind = "profile" /\ writer[w].todo = {}
    /\ IF o \in ModelId \ PairModel
       THEN /\ writer' = [writer EXCEPT ![w].pc = "revert"]
            /\ UNCHANGED <<orchestrator, settled>>
       ELSE /\ orchestrator' = IF o = Inherit THEN orchestrator ELSE o
            /\ writer' = [writer EXCEPT ![w] = [IdleWriter EXCEPT !.pc = "open",
                                                 !.file = [file EXCEPT !.active = writer[w].name]]]
            /\ Settle(w, "applied", writer[w].name, r)
    /\ UNCHANGED <<models, routes, overrides, profiles, pins, budget, adrift>>

\* A write after the claim fails: models.json itself, or a materialized file.
ApplyFails(w) ==
    /\ \/ writer[w].pc = "claimed"
       \/ writer[w].pc \in {"apply", "write"} /\ writer[w].kind = "profile" /\ writer[w].todo # {}
    /\ WriteFaults
    /\ writer' = [writer EXCEPT ![w].pc = IF @ = "claimed" THEN "unclaim" ELSE "revert"]
    /\ UNCHANGED <<models, routes, overrides, profiles, pins, orchestrator, settled, adrift>>

\* revertClaim: the profile that was active, if there was one, is written and
\* materialized again with the same padding.
BeginRevert(w) ==
    LET file == writer[w].file
        r == file.of[file.active] IN
    /\ writer[w].pc = "revert"
    /\ IF file.active \in DOMAIN file.of
       THEN /\ models' = [status |-> "valid", routing |-> r]
            /\ writer' = [writer EXCEPT ![w].pc = "apply", ![w].kind = "revert",
                            ![w].want = WithOmittedCleared(r), ![w].todo = ToMaterialize(WithOmittedCleared(r))]
       ELSE writer' = [writer EXCEPT ![w].pc = "unclaim"] /\ UNCHANGED models
    /\ UNCHANGED <<routes, overrides, profiles, pins, orchestrator, settled, budget, adrift>>

\* The compensation may fail as well; the claim is taken back in any case.
RevertFails(w) ==
    /\ \/ writer[w].pc = "revert" /\ writer[w].file.active \in DOMAIN writer[w].file.of
       \/ writer[w].pc \in {"apply", "write"} /\ writer[w].kind = "revert" /\ writer[w].todo # {}
    /\ WriteFaults
    /\ writer' = [writer EXCEPT ![w].pc = "unclaim"]
    /\ UNCHANGED <<models, routes, overrides, profiles, pins, orchestrator, settled, adrift>>

\* The store as it was is written back, if it can be: a claim that stays is
\* shown to nobody, for the panel goes on with the store as it was.  A restored
\* routing settles.
Unclaim(w) ==
    LET file == writer[w].file
        restored == writer[w].pc = "apply" IN
    /\ \/ writer[w].pc = "unclaim"
       \/ writer[w].pc = "apply" /\ writer[w].kind = "revert" /\ writer[w].todo = {}
    /\ \/ profiles' = file /\ adrift' = (adrift \/ StoreDrifts(w)) /\ UNCHANGED budget
       \/ WriteFaults /\ UNCHANGED <<profiles, adrift>>
    /\ writer' = [writer EXCEPT ![w] = [IdleWriter EXCEPT !.pc = "open", !.file = file]]
    /\ IF restored THEN Settle(w, "reverted", file.active, file.of[file.active]) ELSE UNCHANGED settled
    /\ UNCHANGED <<models, routes, overrides, pins, orchestrator>>

-----------------------------------------------------------------------------
\* The user edits models.json, an agent file or the declaration by hand, or the
\* process of a writer dies.
HandEdit ==
    /\ UserActs
    /\ \/ /\ \E s \in {"missing", "invalid"} : models' = [status |-> s, routing |-> EmptyRouting]
          /\ UNCHANGED <<routes, pins>>
       \/ /\ \E a \in Installed, m \in ModelId : routes' = [routes EXCEPT !.front[a] = m]
          /\ UNCHANGED <<models, pins>>
       \/ /\ \E n \in ProfileName \cup {"none", "invalid"} : pins' = [pins EXCEPT !.repo = n]
          /\ UNCHANGED <<models, routes>>
    /\ settled' = NothingSettled
    /\ writer' = [w \in RoutingWriter |-> IF Running(w) THEN [writer[w] EXCEPT !.alone = FALSE] ELSE writer[w]]
    /\ UNCHANGED <<overrides, profiles, orchestrator, adrift>>

CrashWriter(w) ==
    /\ writer[w].pc # "idle" /\ WriteFaults
    /\ writer' = [writer EXCEPT ![w] = IdleWriter]
    /\ adrift' = (adrift \/ (Renaming(w) /\ pins.local = writer[w].from))
    /\ UNCHANGED <<models, routes, overrides, profiles, pins, orchestrator, settled>>

\* An entry of an earlier routing may be left in either file.
RoutingInit ==
    /\ models = [status |-> "missing", routing |-> EmptyRouting]
    /\ \E file \in {"global", "project"}, a \in RoutedAgent, m \in ModelId \cup {Inherit} :
         routes = [[front |-> NoRoutes, global |-> NoRoutes, project |-> NoRoutes] EXCEPT ![file][a] = m]
    /\ overrides \in [RoutedAgent -> ModelId \cup {Inherit, Malformed}]
    /\ profiles \in {NoStore} \cup {[here |-> TRUE, active |-> "current", of |-> f] :
                                       f \in [ProfileName -> {Normalize(r) : r \in RoutingTried}]}
    /\ pins = [local |-> "none", repo |-> "none"]
    /\ orchestrator = "unset"
    /\ writer = [w \in RoutingWriter |-> IdleWriter]
    /\ settled = NothingSettled /\ adrift = FALSE
    /\ budget = [faults |-> 0, edits |-> 0]

PanelStep(w) ==
    \/ OpenPanel(w) \/ ClosePanel(w)
    \/ \E n \in ProfileName :
         \/ \E how \in {"create", "update", "duplicate", "import"} : PutProfile(w, n, how)
         \/ \E m \in ProfileName : RenameProfile(w, n, m)
         \/ AskDelete(w, n) \/ ApplyPinned(w, n) \/ ClaimProfile(w, n)
         \/ \E layer \in {"local", "repo"} : TogglePin(w, n, layer)
    \/ \E yes \in BOOLEAN : DeleteAnswered(w, yes)
    \/ FollowRenamedPin(w)

ApplyStep(w) ==
    \/ WriteFrontmatter(w) \/ ReadProfiles(w) \/ WriteProfile(w)
    \/ WriteModels(w) \/ ApplyOrchestrator(w) \/ ApplyFails(w)
    \/ BeginRevert(w) \/ RevertFails(w) \/ Unclaim(w)

RoutingNext ==
    \/ \E w \in RoutingWriter :
         \/ BeginStart(w) \/ EndStart(w) \/ AbandonApply(w) \/ OpenModels(w) \/ SaveToProfile(w)
         \/ \E r \in RoutingTried : SaveModels(w, r)
         \/ PanelStep(w) \/ ApplyStep(w) \/ CrashWriter(w)
    \/ HandEdit

RoutingSpec == RoutingInit /\ [][RoutingNext]_routingVars

-----------------------------------------------------------------------------
RoutingTypeOK ==
    /\ models.status \in {"missing", "invalid", "valid"} /\ models.routing \in Routing
    /\ routes.front \in [RoutedAgent -> ModelId \cup {Inherit}]
    /\ routes.global \in [RoutedAgent -> ModelId \cup {Inherit}] /\ routes.project \in [RoutedAgent -> ModelId \cup {Inherit}]
    /\ profiles.active \in ProfileName \cup {"none"} /\ DOMAIN profiles.of \subseteq ProfileName
    /\ pins.local \in ProfileName \cup {"none"} /\ pins.repo \in ProfileName \cup {"none", "invalid"}
    /\ orchestrator \in ModelId \cup {"unset"}

\* Whatever was written before it, a writer that was alone leaves the routing it
\* reported: after an applied profile, and after a failed one that could be undone,
\* every installed agent is materialized with what that profile says and inherits
\* what it omits; after a save or a sweep every agent the routing mentions is
\* materialized with its entry (runProfilesPanelAction, revertClaim,
\* applyModelConfigAsync).  That is also what it is launched with, unless a pin
\* wins or the subagents.json it is not routed in has an entry for its name.
RoutingSettles ==
    \A a \in Installed \ ProviderRole :
        LET left(m) == /\ Materialized(a) = m
                       /\ PinWinner(pins, profiles) = "none" /\ routes[Other(FileOf(a))][a] = Inherit => Launched(a) = m
        IN /\ settled.kind \in {"applied", "reverted"} => left(Entry(settled.routing, a))
           /\ settled.kind = "saved" /\ a \in DOMAIN settled.routing => left(settled.routing[a])
           /\ settled.kind = "pinned" /\ settled.name \in DOMAIN profiles.of =>
                PinWinner(pins, profiles) = settled.name

\* This clone's pin names a profile the store has, or one that a rename is about
\* to replace in it: a rename takes the pin along and a pinned profile cannot be
\* deleted, in any session.  Outside that are sessions that write from a copy of
\* the store that others have outdated, or pin a profile another one is deleting,
\* and a pin that could not be rewritten (adrift).
PinResolves ==
    \/ adrift \/ pins.local = "none" \/ pins.local \in DOMAIN profiles.of
    \/ \E w \in RoutingWriter : Renaming(w) /\ writer[w].from = pins.local

\* What the routing panels leave behind: agents launched as the last writer
\* reported, and a pin that names a profile (runProfilesPanelAction, followRenamedPin).
RoutingIsSound == RoutingSettles /\ PinResolves

=============================================================================
