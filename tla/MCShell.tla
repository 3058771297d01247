------------------------------ MODULE MCShell ------------------------------
(***************************************************************************)
(* Instance for TLC of the shell around the agents: launching pi and       *)
(* installing its binary, the assets and the routing it installs, its      *)
(* agents' host and the panels of its desk, telemetry, skills, the         *)
(* evidence of a session and the policies on tool calls.  They share no    *)
(* state, so they are checked side by side: Init picks the part that runs, *)
(* a component or one of its concerns, and the others keep one initial     *)
(* state.                                                                  *)
(***************************************************************************)
EXTENDS ShellLauncher, BundleInstaller, ManagedAssets, AgentRouting, RuntimeMetrics, DeskPanels,
        SkillRegistry, SessionEvidence, ToolPolicy, TLC

CONSTANTS push, publish, a1, a2, r1, w1, w2, c1, c2, v1, v2, m1, m2, bad, s1, s2, t1, t2, f2  \* values the definitions below name

CONSTANT Parts  \* the parts this run takes

VARIABLE part  \* the part that runs

\* Two launchers, processes, regenerations or writes are alike: the second is taken only while the
\* first is busy.
Ordered(pc1, pc2) == pc2 = "idle" => pc2' = "idle" \/ pc1 # "idle"
\* Guardrail files and routings that are tried.
MCAuto == [k \in GuardKey |-> IF k = push THEN "allow" ELSE "block"]
GuardFileOf(a, k, v) == [kind |-> "config", auto |-> a, acts |-> [Unset EXCEPT ![k] = v]]
MCFiles == {AbsentFile, BadFile, GuardFileOf(TRUE, publish, "confirm"), GuardFileOf(FALSE, push, "block")}
MCTried == {a1 :> m1, (a1 :> m2) @@ (a2 :> m1), (a2 :> Malformed) @@ (Orchestrator :> bad), (a2 :> Inherit) @@ (r1 :> m1)}

\* Sizes of the terminal, what a peer publishes, the options of the panel of models by the length of
\* the query, and lists that are written.
MCTerminal == {[wide |-> TRUE, rows |-> 2], [wide |-> FALSE, rows |-> 1]}
MCPeer == {<<>>, <<m1>>}
MCAgents == <<a1, a2>>
MCOffered == <<<<"keep", "inherit", "custom", m1>>, <<"inherit", m1>>, <<>>>>
MCEfforts == <<"inherit", "high">>
InputOf(id, s) == [id |-> id, status |-> s]
MCLists == {<<>>, <<InputOf(1, "done"), InputOf(1, "pending")>>, <<InputOf(0, "done"), InputOf(1, "done")>>,
            <<InputOf(0, "pending"), InputOf(0, "bad")>>}

\* Texts of one file: `v2` and `m2` are `v1` and `m1` after the same edit, far from what tells these
\* two apart, and `bad` is `v1` with other line endings.
MCNormal == [x \in {v1, v2, m1, m2, bad} |-> IF x = bad THEN v1 ELSE x]
MCPatch == [p \in {v1, v2, m1, m2, bad} \X {v1, v2, m1, m2, bad} |->
              IF p = <<m1, m2>> THEN <<v1, v2>> ELSE IF p = <<m2, m1>> THEN <<v2, v1>> ELSE p]

Policies == {"guard", "dispatch", "agents", "line", "plan"}
NoGuardrails == [env |-> FALSE, global |-> AbsentFile, project |-> AbsentFile]
Inheriting == [a \in RoutedAgent |-> Inherit]
NoRouting == [front |-> Inheriting, global |-> Inheriting, project |-> Inheriting]
TwoProfiles == [here |-> TRUE, active |-> "current",
                of |-> ("current" :> Normalize((a1 :> m2) @@ (a2 :> m1))) @@ ("p" :> (a1 :> m1))]

ShellInit ==
  /\ part \in Parts
  /\ LauncherInit
  /\ part # "launch" => shared.persona = "user" /\ homes = [h \in Home |-> IF h = PiHome THEN Filled({"same"}) ELSE Absent2]
  /\ IF homes[IsolatedHome] = LeftBehind
     THEN \A h \in Home \ {IsolatedHome} : homes[h] = IF h = PiHome THEN Filled({"same"}) ELSE Absent2
     ELSE /\ homes[IsolatedHome] = Absent2 /\ shared.persona = "user" /\ homes[PiHome].packages \cap Declares # {}
          /\ \A h \in Home \ {IsolatedHome, PiHome} :
               homes[h] \in IF homes[PiHome] = Filled({"same"}) THEN {Absent2, Empty2} ELSE {Filled({"extra"})}
  /\ BundleInit
  /\ part # "install" => source = "signed" /\ built = 0 /\ override = "none"
  /\ AssetInit
  /\ part # "assets" => \A a \in Asset : installed[a] = AbsentText
  /\ RoutingInit
  /\ profiles \in IF part = "routing" THEN {NoStore, TwoProfiles} ELSE {NoStore}
  /\ routes \in IF profiles = TwoProfiles THEN {NoRouting, [NoRouting EXCEPT !.global[a1] = m2]} ELSE {NoRouting}
  /\ overrides \in IF part = "routing" /\ profiles = NoStore THEN {Inheriting, [a \in RoutedAgent |-> m1]} ELSE {Inheriting}
  /\ MetricsInit
  /\ openSession = s1
  /\ HostInit
  /\ OverlayInit /\ ModelsInit /\ ProfilesInit /\ TodoInit
  /\ part \notin {"overlay", "peers", "profiles"} => terminal.wide
  /\ part # "todo" => todoBranch = <<>>
  /\ SkillInit
  /\ \A f \in SkillFile : ~IsExcluded(skills[f].name) /\ skills[f].version = IF f \in ProjectFile THEN 0 ELSE 1
  /\ part # "session" => legacy = "none"
  /\ part \notin {"overlap", "session"} => \A f, g \in SkillFile : skills[f].name = skills[g].name
  /\ EvidenceInit
  /\ disk \in IF part = "changes" THEN {Gone, v1} ELSE {Gone}
  /\ PolicyInit
  /\ part # "guard" => guardrails = NoGuardrails
  /\ \A s \in PiSession : part = "dispatch" \/ (s = s1 /\ part = "guard") \/ mode[s] = "tui"

\* What each part leaves to the others, so that it stays small.
LaunchPart ==
  /\ LauncherNext /\ Ordered(launch[c1].pc, launch[c2].pc)
  /\ launch'[c2].command = "run" /\ launch'[c2].mode # "link"
  /\ launch'[c1].home = "none" \/ launch'[c2].home \in {"none", launch'[c1].home}
  /\ chosen' = chosen \/ launch'[c1] = launch[c1]
  /\ launch[c1].pc = "running" => launch'[c1] # launch[c1]
  /\ launch'[c2].home # "none" => launch'[c1].command \in {"run", "setup"}
AssetsPart == AssetNext /\ Ordered(process[c1].pc, process[c2].pc)

\* A fourth act is for two panels over one store.
InPanel(w) == writer[w].pc \in {"open", "asking", "following"} \/ writer[w].kind \in {"profile", "revert"}
RoutingPart ==
  /\ RoutingNext /\ Ordered(writer[w1].pc, writer[w2].pc)
  /\ budget'.edits = 4 => (InPanel(w1) /\ InPanel(w2)) \/ budget.edits = 4

OneModelTask == \E t \in MetricTask :
  LaunchTask(t, m1) \/ SpawnTask(t) \/ PrepareTask(t) \/ FinishTask(t) \/ TaskResponds(t, m1)
TurnsPart == SlotStep \/ TurnStep \/ SpawnTelemetryTrigger \/ MetricsSessionStart \/ AgentsSessionStart
TasksPart ==
  /\ SlotStep \/ OneModelTask \/ HostStep \/ TurnStart \/ BeforeProviderRequest(m1) \/ MessageEnd(m1, NoName, m1)
  /\ UNCHANGED trigger

RpcSession == HostSessionStart(s1, TRUE, FALSE) \/ HostSessionShutdown
TwoTasks == \A t \in HostTask \ {t1, t2} : hostTask'[t].status = "absent"
PushPart == /\ FlushActivity \/ AgentTaskStep \/ RpcSession \/ RelayStep
            /\ TwoTasks /\ hostTask'[t2].thread < 2 /\ <<t2, "root-mismatch">> \notin noted'
PanelPart ==
  /\ \/ FlushActivity \/ RpcSession \/ PanelStop
     \/ AgentTaskStep /\ \A t \in HostTask : hostTask'[t].thread = 0 /\ hostTask'[t].status # "waiting"
  /\ TwoTasks
HistoryPart ==
  /\ AgentTaskStep \/ HistoryStep \/ AgentSessionStep
  /\ \A t \in HostTask : hostTask'[t].status \notin {"running", "waiting"}
  /\ publisher'.session = NoHost
RemediationPart == RemediationStep \/ HostSessionShutdown \/ \E s \in HostSession : HostSessionStart(s, FALSE, FALSE)

DeskMoves ==
  /\ \/ AgentTaskStep /\ \A t \in HostTask : hostTask'[t].thread = 0 /\ hostTask'[t].status # "waiting"
     \/ HostSessionStart(s1, FALSE, FALSE) \/ HostSessionShutdown
  /\ OverlayHears
OverlayPart ==
  /\ OverlayStep \/ DeskMoves
  /\ TwoTasks /\ hostTask'[t2].status # "running" /\ hostClock' <= 4
  /\ part = "overlay" =>
       /\ UNCHANGED published /\ (traversal' = traversal \/ overlay'.open # overlay.open)
       /\ \A k \in ListKeys \ {"panes"} : overlay'.manual[k] = -1
       /\ (terminal'.wide => overlay'.folded = {})
       /\ (hostTask'[t2].status # "absent" => overlay'.scope = "session" /\ overlay'.view = "list")
  /\ part = "peers" =>
       /\ hostTask'[t2].status = "absent" /\ hostTask'[t1].status # "running" /\ hostClock' <= 3
       /\ ((hostTask'[t1].status = "absent" /\ ~traversal'.reading) \/ overlay'.folded = {})
       /\ (hostTask'[t1].status # "absent" => ~terminal'.wide)
       /\ (terminal' # terminal => overlay.frame.drawn /\ overlay.peers # <<>>)
       /\ (overlay'.scope = "session" => ~overlay'.frame.drawn)
       /\ (hostTask'[t1].status # "absent" => traversal'.reading \/ overlay'.peers # <<>>)
       /\ overlay'.folded \subseteq Peer /\ overlay'.unfolded = {} /\ overlay'.manual = NoOffsets /\ overlay'.view = "list"
       /\ \A p \in Peer : Len(published'[p]) >= Len(published[p])
ModelsPart ==
  /\ ModelsStep /\ modelPanel'.draft[a2].effort = "inherit" /\ savedModels'[a2].model = "inherit"
  /\ exportedModels' # NoHost => exportedModels'[a1].effort = "inherit" /\ exportedModels'[a2].model = "inherit"
  /\ modelPanel'.pc \in {"models", "custom"} => modelPanel'.draft[a1].effort = savedModels[a1].effort
EntriesOf(kind) == Cardinality({i \in DOMAIN todoBranch' : todoBranch'[i].kind = kind})
TodoPart ==
  /\ TodoStep /\ EntriesOf("todo") <= 2 /\ EntriesOf("user") <= 1
  /\ todo'.state.nextId <= 3 /\ Len(todo'.state.tasks) <= 2 /\ todo'.turn <= 1

OverlapPart ==
  \/ \E g \in Regen :
       \/ SessionStarts(g, FALSE) \/ RefreshCommand(g)
       \/ RegenStep(g) /\ (Regenerating(g)' \/ regenSettled' \/ cache' = regens[g].fp)
  \/ \E name \in SkillName : EditSkill(1, name, FALSE)
SessionPart == SkillNext /\ regens'[c2] = NoRegen /\ skills'[2].name = skills'[1].name

ChangesPart ==
  /\ \/ \E c \in WriteCall : WriteStep(c)
     \/ \E v \in {v2, bad, Gone} : ForeignEdit(v)
     \/ SessionStep
  /\ ~writes'[c2].child /\ writes'[c2].tool = "write" /\ writes'[c2].text \in {m1, Unread}
  /\ writes'[c1].text \in {Unread, IF writes'[c1].tool = "edit" /\ writes'[c1].base = m1 THEN m2 ELSE v2}
  /\ writes'[t1].pc # "idle" => Full(changes) /\ writes'[t1].tool = "write" /\ writes'[t1].text \in {m1, Unread}
  /\ writes[t1].pc \notin {"idle", "done"} => writes'[t1] # writes[t1]
  /\ writes'[c2].pc = "admitted" => writes'[c2].before # Unread
\* No receipt is read or written between these steps of a call and its next one, so nothing else is
\* ordered before that one.
Passing(c) == writes[c].pc \in {"snapshot", "admitted", "reading"}
RemindersPart ==
  /\ ReminderStep \/ SessionStep \/ \E c \in WriteCall : WriteStep(c)
  /\ disk' \in {Gone, v1} /\ writes'[t1].pc = "idle"
  /\ \A c \in WriteCall : writes'[c].tool = "write" /\ (writes'[c].pc = "admitted" => writes'[c].before # Unread)
  /\ ~writes'[c2].child
  /\ \A c \in WriteCall : Passing(c) => writes'[c] # writes[c]

OfFirstSession == \A c \in ToolCall : toolCall'[c].session \in {"none", s1}
GuardPart == /\ GuardStep /\ OfFirstSession /\ \A s \in PiSession \ {s1} : dialogs'[s] = dialogs[s]
             /\ guardrails' # guardrails => guardrails' = [guardrails EXCEPT !.env = ~@]
AgentsPart ==  \* AgentStep in the first session
  \/ \E c \in ToolCall, in \in FixDispatch \cup WriterDispatch \cup DirectWrite \cup OtherInput : ToolCallArrives(c, s1, in)
  \/ \E c \in ToolCall, ok \in BOOLEAN : ToolReturns(c, ok)
  \/ \E kind \in Phase, sel \in Selection, st \in NativeStatus \cup {NoNative} : StartAgentTurn(s1, kind, sel, st)
  \/ \E kind \in {"primary", "named", "sync"}, sel \in Selection : StartAgentTurn(s1, kind, sel, NoNative)
  \/ EndAgentTurn(s1)

Overlays == {"overlay", "peers"}
HostParts == {"push", "panel", "history", "remediation"}
shellVars == <<part, launcherVars, bundleVars, assetVars, routingVars, metricVars, agentHostVars, overlayVars,
               modelsVars, profilesVars, todoVars, skillVars, evidenceVars, policyVars>>
Keep(parts, vars) == IF part \in parts THEN TRUE ELSE UNCHANGED vars

ShellNext ==
  /\ UNCHANGED part
  /\ Keep({"launch"}, launcherVars)
  /\ Keep({"install"}, bundleVars)
  /\ Keep({"assets"}, assetVars)
  /\ Keep({"routing"}, routingVars)
  /\ Keep({"turns", "tasks"}, metricVars)
  /\ Keep(HostParts \cup Overlays, agentHostVars)
  /\ Keep(Overlays, <<overlay, published, traversal>>)
  /\ Keep(Overlays \cup {"profiles"}, terminal)
  /\ Keep({"models"}, modelsVars)
  /\ Keep({"profiles"}, profilesVars)
  /\ Keep({"todo"}, todoVars)
  /\ Keep({"overlap", "session"}, skillVars)
  /\ Keep({"changes", "reminders"}, evidenceVars)
  /\ Keep(Policies, policyVars)
  /\ \/ part = "launch" /\ LaunchPart
     \/ part = "install" /\ BundleNext
     \/ part = "assets" /\ AssetsPart
     \/ part = "routing" /\ RoutingPart
     \/ part = "turns" /\ TurnsPart
     \/ part = "tasks" /\ TasksPart
     \/ part = "push" /\ PushPart
     \/ part = "panel" /\ PanelPart
     \/ part = "history" /\ HistoryPart
     \/ part = "remediation" /\ RemediationPart
     \/ part \in Overlays /\ OverlayPart
     \/ part = "models" /\ ModelsPart
     \/ part = "profiles" /\ ProfilesStep
     \/ part = "todo" /\ TodoPart
     \/ part = "overlap" /\ OverlapPart
     \/ part = "session" /\ SessionPart
     \/ part = "changes" /\ ChangesPart
     \/ part = "reminders" /\ RemindersPart
     \/ part = "guard" /\ GuardPart
     \/ part = "dispatch" /\ DispatchStep
     \/ part = "agents" /\ AgentsPart
     \/ part = "line" /\ RddStep
     \/ part = "plan" /\ PlanStep

\* The other parts keep their initial state, so the variables of the part that runs tell states apart.
PartView ==
  CASE part = "launch" -> <<part, launcherVars>>
    [] part = "install" -> <<part, bundleVars>>
    [] part = "assets" -> <<part, assetVars>>
    [] part = "routing" -> <<part, routingVars>>
    [] part \in {"turns", "tasks"} -> <<part, metricVars>>
    [] part \in HostParts -> <<part, agentHostVars>>
    [] part \in Overlays -> <<part, agentHostVars, overlayVars>>
    [] part = "models" -> <<part, modelsVars>>
    [] part = "profiles" -> <<part, profilesVars, terminal>>
    [] part = "todo" -> <<part, todoVars>>
    [] part \in {"overlap", "session"} -> <<part, skillVars>>
    [] part \in {"changes", "reminders"} -> <<part, evidenceVars>>
    [] OTHER -> <<part, policyVars>>

ShellSpec == ShellInit /\ [][ShellNext]_shellVars
=============================================================================
