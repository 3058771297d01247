------------------------------ MODULE DeskPanels ------------------------------
(***************************************************************************)
(* The panels a user works in while agents run: the agents overlay over    *)
(* the tasks of this and other sessions (lib/agents-view.ts), the panel    *)
(* that routes models to agents and the one that keeps profiles of them    *)
(* (extensions/gentle-ai.ts), and the todo card (lib/shell-todo.ts,        *)
(* extensions/gentle-todo.ts).                                             *)
(*                                                                         *)
(* Text, colours and the position inside a thread are left out; a row of a *)
(* list is a pair of its kind and what it names.  The terminal has room    *)
(* for one row at least, and the footer for all its controls.              *)
(***************************************************************************)
EXTENDS AgentHost

CONSTANTS
    Peer,              \* sessions of other processes
    PeerActivity,      \* what one of them may publish: sequences of its tasks
    Terminal,          \* sizes: [wide, rows]
    MaxListed,         \* MAX_FINISHED_PER_SESSION
    PanelAgents,       \* the agents of the panel of models: a sequence
    Offered,           \* the options that match a query, by its length: sequences
    Efforts,           \* THINKING_OPTIONS: a sequence
    CustomModel,       \* models that are typed in
    MaxProfiles,       \* bound: profiles
    MaxRouting,        \* bound: rows of a routing
    MaxTodoId,         \* bound: ids an update names
    TodoLists,         \* lists it writes
    MaxBranch          \* bound: entries of the session's branch

VARIABLES
    overlay,           \* the agents overlay
    terminal,          \* the size of the terminal
    published,         \* the unfinished tasks each peer has published
    traversal,         \* refreshPresence in progress
    modelPanel,        \* the panel of models
    savedModels,       \* models.json
    exportedModels,    \* the exported models, or NoHost
    profilePanel,      \* the panel of profiles
    profileStore,      \* the profiles its command holds
    profileDisk,       \* the file of profiles
    liveRouting,       \* rows of the routing in effect
    todo,              \* the todo list of the session in memory
    todoBranch,        \* user messages and todo results of the session file
    rewound            \* /tree moved the branch since

overlayVars == <<overlay, terminal, published, traversal>>

modelsVars == <<modelPanel, savedModels, exportedModels>>

profilesVars == <<profilePanel, profileStore, profileDisk, liveRouting>>

todoVars == <<todo, todoBranch, rewound>>

(***************************************************************************)
(* Rows of the agents overlay                                              *)
(***************************************************************************)

NoRow == <<"none", NoHost>>
Heading(g) == <<"heading", g>>
TaskRow(t) == <<"task", t>>
RemoteRow(p, x) == <<"remote", <<p, x>>>>

Elements(s) == {s[i] : i \in DOMAIN s}
Least(a, b) == IF a <= b THEN a ELSE b
Most(a, b) == IF a >= b THEN a ELSE b

\* The order inside a group: active tasks, the newest first, then finished
\* ones, the last to end first.
Before(d, e) ==
    IF Finished(d) # Finished(e) THEN Finished(e)
    ELSE IF ~Finished(d) THEN d.created > e.created
    ELSE d.ended > e.ended \/ (d.ended = e.ended /\ d.created < e.created)

InOrder(S) == [i \in 1..Cardinality(S) |->
    CHOOSE e \in S : Cardinality({d \in S : Before(d, e)}) = i - 1]

\* The local part of refreshTasks: this session's active tasks that were not
\* restored, and the last ones to finish.
Listed(session, tasks, back) ==
    LET entries == {[id |-> t, status |-> tasks[t].status, created |-> tasks[t].created, ended |-> tasks[t].ended] :
                      t \in {u \in InStore(tasks) : tasks[u].session = session /\ (Finished(tasks[u]) \/ u \notin back)}}
    IN  {e \in entries : ~Finished(e) \/ Cardinality({d \in entries : Finished(d) /\ Before(d, e)}) < MaxListed}

\* sessionGroups(): this session first, then its peers; without a scope for
\* them a group only when it has tasks.
LocalGroup(o) == [id |-> o.session, rows |-> [i \in 1..Cardinality(o.tasks) |-> TaskRow(InOrder(o.tasks)[i].id)]]
SessionGroups(o) ==
    IF o.scope = "all" THEN <<LocalGroup(o)>> \o o.peers
    ELSE IF o.tasks = {} THEN <<>> ELSE <<LocalGroup(o)>>

IsExpanded(o, g) == g \in o.unfolded \/ (g \notin o.folded /\ g \in o.active)

GroupRows(o, g) ==
    (IF o.scope = "all" THEN <<Heading(g.id)>> ELSE <<>>) \o
    (IF o.scope = "session" \/ IsExpanded(o, g.id) THEN g.rows ELSE <<>>)

AllRows(o) ==
    LET gs == SessionGroups(o)
        rows[i \in 0..Len(gs)] == IF i = 0 THEN <<>> ELSE rows[i - 1] \o GroupRows(o, gs[i])
    IN  rows[Len(gs)]

\* A narrow overlay over all sessions lists the sessions, or the tasks of
\* the one that was entered.
DirectoryRoot(o) == o.scope = "all" /\ ~o.wide /\ o.group = NoHost

VisibleRows(o) ==
    LET gs == SessionGroups(o)
    IN  IF o.wide \/ o.scope = "session" THEN AllRows(o)
        ELSE IF o.group = NoHost THEN [i \in DOMAIN gs |-> Heading(gs[i].id)]
        ELSE IF \E i \in DOMAIN gs : gs[i].id = o.group
             THEN gs[CHOOSE i \in DOMAIN gs : gs[i].id = o.group].rows ELSE <<>>

ListKey(o) == IF o.wide THEN "panes" ELSE IF o.group = NoHost THEN "root" ELSE o.group

\* selectedTask() is defined.
TaskRows(o) == {TaskRow(e.id) : e \in o.tasks} \cup
    (IF o.scope = "all" THEN UNION {Elements(o.peers[i].rows) : i \in DOMAIN o.peers} ELSE {})
HasTask(o) == o.selected \in TaskRows(o)

SelectedRow(o) ==
    LET rows == VisibleRows(o)
    IN  IF DirectoryRoot(o) /\ o.view = "list"
        THEN IF o.cursor \in Elements(rows) THEN o.cursor ELSE IF rows = <<>> THEN NoRow ELSE rows[1]
        ELSE IF o.selected \in Elements(rows) THEN o.selected ELSE NoRow

ActionableTask(o) == IF ~HasTask(o) \/ (DirectoryRoot(o) /\ o.view = "list") THEN NoRow ELSE o.selected

\* A task of another process is neither stopped nor opened from here; one
\* that has started has a session to open.
CanCancel(o, row, mine) ==
    row[1] = "task" /\ \E e \in o.tasks : e.id = row[2] /\ ~Finished(e) /\ e.id \in mine
CanOpen(o, row) ==
    row[1] = "task" /\ \E e \in o.tasks : e.id = row[2] /\ e.status # "queued"

\* footer(): the controls that are enabled.
Controls(o, mine) ==
    LET row == ActionableTask(o)
    IN  {"scope"} \cup (IF row = NoRow THEN {} ELSE {"follow"})
        \cup (IF CanOpen(o, row) THEN {"open"} ELSE {}) \cup (IF CanCancel(o, row, mine) THEN {"stop"} ELSE {})

\* What render() draws, and the pointer layout stands for.
NoFrame == [drawn |-> FALSE]
Drawn(o, size, mine) ==
    LET rows == VisibleRows(o)
    IN  [drawn |-> TRUE, size |-> size, view |-> o.view, tasks |-> o.tasks,
         body |-> IF o.view = "details" THEN <<o.selected>>
                  ELSE SubSeq(rows, o.scroll + 1, Least(Len(rows), o.scroll + size.rows)),
         marked |-> SelectedRow(o), controls |-> Controls(o, mine)]

(***************************************************************************)
(* What moves the overlay                                                  *)
(***************************************************************************)

ListKeys == {"panes", "root"} \cup HostSession \cup Peer
NoOffsets == [k \in ListKeys |-> -1]

ClosedOverlay ==
    [open |-> FALSE, session |-> NoHost, scope |-> "session", view |-> "list", group |-> NoHost,
     cursor |-> NoRow, selected |-> NoRow, folded |-> {}, unfolded |-> {}, active |-> {}, tasks |-> {},
     peers |-> <<>>, scroll |-> 0, manual |-> NoOffsets, subscribed |-> NoRow, wide |-> TRUE, frame |-> NoFrame]

\* clearFooterLayout(): no click lands before the next render.
Cleared(o) == [o EXCEPT !.frame = NoFrame]

SubscribeSelected(o) == [o EXCEPT !.subscribed = IF HasTask(o) THEN o.selected ELSE NoRow]

LastStart(o) == Most(0, Len(VisibleRows(o)) - terminal.rows)

NoteActive(o, groups) ==
    LET busy(g) == g.id # o.session \/ \E e \in o.tasks : ~Finished(e)
    IN  [o EXCEPT !.active = {g.id : g \in {h \in groups : (h.rows # <<>> /\ busy(h)) \/ h.id \in @}}]

FirstTask(rows) ==
    LET tasksOf == {i \in DOMAIN rows : rows[i][1] # "heading"}
    IN  IF tasksOf # {} THEN rows[CHOOSE i \in tasksOf : \A j \in tasksOf : i <= j]
        ELSE IF rows # <<>> THEN rows[1] ELSE NoRow

Settled(o, ids, rows) ==
    LET chosen == [o EXCEPT
            !.group = IF @ \in ids THEN @ ELSE NoHost,
            !.selected = IF @ \in TaskRows(o) \cup Elements(rows) THEN @ ELSE FirstTask(rows)]
    IN  SubscribeSelected([chosen EXCEPT
            !.view = IF HasTask(chosen) THEN @ ELSE "list",
            !.scroll = Least(@, Most(0, Len(rows) - terminal.rows))])

\* refreshTasks(): the snapshot, the groups that were seen active, and a
\* group, selection, view and window that still exist in it.
RefreshTasks(o, tasks, back) ==
    LET listed == [o EXCEPT !.tasks = Listed(o.session, tasks, back)]
        groups == Elements(SessionGroups(listed))
        seen == NoteActive(listed, groups)
    IN  Settled(seen, {g.id : g \in groups}, AllRows(seen))

SetView(o, view) ==
    IF view = o.view \/ (view = "details" /\ ~HasTask(o)) THEN o ELSE Cleared([o EXCEPT !.view = view])

Back(o) ==
    IF o.view = "details" THEN SetView(o, "list")
    ELSE IF ~o.wide /\ o.group # NoHost
         THEN Cleared([o EXCEPT !.cursor = Heading(o.group), !.group = NoHost, !.scroll = 0])
         ELSE ClosedOverlay

\* select(): the keyboard also lets go of a list that the wheel had moved.
SelectIndex(o, index, reveal) ==
    LET rows == VisibleRows(o)
        next == rows[Most(1, Least(Len(rows), index))]
        free == IF reveal THEN [o EXCEPT !.manual[ListKey(o)] = -1] ELSE o
    IN  IF rows = <<>> THEN o
        ELSE IF DirectoryRoot(o) THEN Cleared([free EXCEPT !.cursor = next])
        ELSE IF next = o.selected THEN free
        ELSE SubscribeSelected(Cleared([free EXCEPT !.selected = next,
                                          !.view = IF next[1] = "heading" THEN "list" ELSE @]))

Activate(o) ==
    LET row == SelectedRow(o)
        entered == [o EXCEPT !.group = row[2], !.scroll = 0]
    IN  IF row[1] = "heading" /\ ~o.wide
        THEN Cleared(IF o.selected \in Elements(VisibleRows(entered)) THEN entered ELSE SelectIndex(entered, 1, TRUE))
        ELSE SetView(o, "details")

SetExpanded(o, g, yes) ==
    LET turned == [o EXCEPT !.unfolded = IF yes THEN @ \cup {g} ELSE @ \ {g},
                            !.folded = IF yes THEN @ \ {g} ELSE @ \cup {g},
                            !.selected = IF yes THEN @ ELSE Heading(g),
                            !.view = IF yes THEN @ ELSE "list"]
    IN  IF IsExpanded(o, g) = yes THEN o
        ELSE SubscribeSelected(Cleared([turned EXCEPT !.scroll = Least(@, LastStart(turned))]))

\* Fault: the footer's controls and the rows of the old scope stay clickable.
ToggleScope_KeepsFrame(o) ==
    RefreshTasks([o EXCEPT
        !.scope = IF @ = "session" THEN "all" ELSE "session", !.group = NoHost, !.cursor = NoRow,
        !.manual = NoOffsets, !.view = "list", !.selected = NoRow, !.scroll = 0], hostTask, restored)

ToggleScope(o) ==
    RefreshTasks(Cleared([o EXCEPT
        !.scope = IF @ = "session" THEN "all" ELSE "session", !.group = NoHost, !.cursor = NoRow,
        !.manual = NoOffsets, !.view = "list", !.selected = NoRow, !.scroll = 0]), hostTask, restored)

\* wheelList(): moves the window, not the selection.
WheelList(o, delta) ==
    LET next == Most(0, Least(LastStart(o), o.scroll + delta))
    IN  IF next = o.scroll THEN o ELSE Cleared([o EXCEPT !.scroll = next, !.manual[ListKey(o)] = next])

\* followSelection(): the window stays where the wheel left it, or moves as
\* little as the selection asks for.
FollowSelection(o) ==
    LET rows == VisibleRows(o)
        here == {i \in DOMAIN rows : rows[i] = SelectedRow(o)}
        index == CHOOSE i \in here : TRUE
        moved == IF here = {} THEN o.scroll
                 ELSE IF index <= o.scroll THEN index - 1
                 ELSE IF index > o.scroll + terminal.rows THEN index - terminal.rows ELSE o.scroll
    IN  IF o.manual[ListKey(o)] >= 0
        THEN [o EXCEPT !.scroll = Least(o.manual[ListKey(o)], LastStart(o))]
        ELSE [o EXCEPT !.scroll = Most(0, Least(moved, LastStart(o)))]

(***************************************************************************)
(* Steps of the overlay                                                    *)
(***************************************************************************)

NoTraversal == [reading |-> FALSE, left |-> {}, found |-> <<>>]

OverlayDoes(o) ==
    /\ overlay.open /\ overlay' = o
    /\ traversal' = IF o.open THEN traversal ELSE NoTraversal
    /\ UNCHANGED <<terminal, published, agentHostVars>>

\* openOverlay() and the constructor.
OpenOverlay ==
    /\ ~overlay.open /\ hostSession # NoHost
    /\ overlay' = RefreshTasks([ClosedOverlay EXCEPT !.open = TRUE, !.session = hostSession], hostTask, restored)
    /\ traversal' = [reading |-> TRUE, left |-> Peer, found |-> <<>>]
    /\ UNCHANGED <<terminal, published, agentHostVars>>

RenderOverlay ==
    LET o == FollowSelection([overlay EXCEPT !.wide = terminal.wide])
    IN  OverlayDoes([o EXCEPT !.frame = Drawn(o, terminal, owned)])

\* handleInput().
SelectionIndex(o) ==
    LET rows == VisibleRows(o)
    IN  IF SelectedRow(o) \in Elements(rows) THEN CHOOSE i \in DOMAIN rows : rows[i] = SelectedRow(o) ELSE 0

Pressed(o, key) ==
    LET row == SelectedRow(o)
    IN  CASE key = "q" -> ClosedOverlay
          [] key = "escape" -> Back(o)
          [] key = "F" /\ o.wide -> SetView(o, IF o.view = "list" THEN "details" ELSE "list")
          [] key = "tab" /\ ~o.wide -> IF o.view = "details" THEN Back(o) ELSE Activate(o)
          [] key = "j" /\ o.view = "list" -> SelectIndex(o, SelectionIndex(o) + 1, TRUE)
          [] key = "k" /\ o.view = "list" -> SelectIndex(o, SelectionIndex(o) - 1, TRUE)
          [] key = "left" /\ row[1] = "heading" -> SetExpanded(o, row[2], FALSE)
          [] key = "right" /\ row[1] = "heading" -> SetExpanded(o, row[2], TRUE)
          [] key = "a" -> ToggleScope(o)
          [] key = "o" /\ CanOpen(o, ActionableTask(o)) -> ClosedOverlay
          [] OTHER -> o

PressKey(key) == OverlayDoes(Pressed(overlay, key))

\* What the task store tells the overlay: a summary notification refreshes
\* it, a task's own only when it is the one subscribed to.  A session that
\* shuts down closes it.
Hears(o) ==
    IF ~o.open THEN o
    ELSE IF hostSession' # o.session THEN ClosedOverlay
    ELSE IF \E t \in HostTask : \/ hostTask'[t].status # hostTask[t].status
                               \/ (hostTask'[t] # hostTask[t] /\ o.subscribed = TaskRow(t))
         THEN RefreshTasks(Cleared(o), hostTask', restored')
         ELSE o

OverlayHears ==
    /\ overlay' = Hears(overlay)
    /\ traversal' = IF overlay'.open THEN traversal ELSE NoTraversal
    /\ UNCHANGED <<terminal, published>>

\* onCancel: `s', or Stop in the footer.
PressStop == \E t \in HostTask :
    /\ overlay.open /\ ActionableTask(overlay) = TaskRow(t)
    /\ CanCancel(overlay, TaskRow(t), owned)
    /\ StopSelected(t) /\ OverlayHears

\* handleMouse(): a click counts only on what was drawn at this size.
Clickable == overlay.open /\ overlay.frame.drawn /\ overlay.frame.size = terminal

ClickRow(i) ==
    LET at == overlay.scroll + i
        row == VisibleRows(overlay)[at]
    IN  /\ Clickable /\ overlay.view = "list" /\ i \in 1..terminal.rows /\ at <= Len(VisibleRows(overlay))
        /\ OverlayDoes(IF ~overlay.wide THEN Activate(SelectIndex(overlay, at, FALSE))
                       ELSE IF row[1] = "heading" THEN SetExpanded(overlay, row[2], ~IsExpanded(overlay, row[2]))
                       ELSE SelectIndex(overlay, at, TRUE))

ClickMode ==
    /\ Clickable /\ (overlay.view = "details" \/ overlay.wide \/ overlay.group # NoHost)
    /\ OverlayDoes(IF overlay.view = "details" \/ (~overlay.wide /\ overlay.group # NoHost)
                   THEN Back(overlay) ELSE Activate(overlay))

WheelRows(delta) == Clickable /\ overlay.view = "list" /\ OverlayDoes(WheelList(overlay, delta))

ResizeTerminal(size) ==
    /\ size # terminal /\ terminal' = size
    /\ UNCHANGED <<overlay, published, traversal, agentHostVars>>

(***************************************************************************)
(* The peers of the overlay                                                *)
(***************************************************************************)

PeerPublishes(p, tasks) ==
    /\ tasks # published[p] /\ published' = [published EXCEPT ![p] = tasks]
    /\ UNCHANGED <<overlay, terminal, traversal, agentHostVars>>

\* refreshPresence(): one peer per turn; the previous directory stays until
\* the traversal is complete.
BeginTraversal ==
    /\ overlay.open /\ ~traversal.reading
    /\ traversal' = [reading |-> TRUE, left |-> Peer, found |-> <<>>]
    /\ UNCHANGED <<overlay, terminal, published, agentHostVars>>

PeerGroup(p, tasks) == [id |-> p, rows |-> [i \in DOMAIN tasks |-> RemoteRow(p, tasks[i])]]

\* A peer's activity, none when it cannot be read, or nothing of a peer that
\* is no longer recent.
ReadPeer(p, state) ==
    /\ p \in traversal.left
    /\ traversal' = [traversal EXCEPT !.left = @ \ {p},
         !.found = IF state = "gone" THEN @
                   ELSE Append(@, PeerGroup(p, IF state = "unavailable" THEN <<>> ELSE published[p]))]
    /\ UNCHANGED <<overlay, terminal, published, agentHostVars>>

\* The traversal is complete, or something threw and the peers are dropped.
EndTraversal(peers) ==
    /\ overlay.open /\ traversal.reading
    /\ overlay' = Cleared(RefreshTasks([overlay EXCEPT !.peers = peers], hostTask, restored))
    /\ traversal' = NoTraversal
    /\ UNCHANGED <<terminal, published, agentHostVars>>

OverlayInit ==
    /\ overlay = ClosedOverlay /\ terminal \in Terminal
    /\ published = [p \in Peer |-> <<>>] /\ traversal = NoTraversal

OverlayKeys == {"q", "escape", "F", "tab", "j", "k", "left", "right", "a", "o"}
OverlayStep ==
    \/ OpenOverlay \/ RenderOverlay \/ PressStop \/ ClickMode \/ BeginTraversal
    \/ \E key \in OverlayKeys : PressKey(key)
    \/ \E i \in 1..Cardinality(HostTask) + 2 : ClickRow(i)
    \/ \E delta \in {-1, 1} : WheelRows(delta)
    \/ \E size \in Terminal : ResizeTerminal(size)
    \/ \E p \in Peer, tasks \in PeerActivity : PeerPublishes(p, tasks)
    \/ \E p \in Peer, state \in {"read", "unavailable", "gone"} : ReadPeer(p, state)
    \/ \E peers \in {traversal.found, <<>>} : (peers # <<>> => traversal.left = {}) /\ EndTraversal(peers)

\* A click lands on what is drawn and what is drawn is so: the overlay's last
\* frame, as long as clicks still count on it, shows the rows, the marked row
\* and the controls of this very state, with the statuses the store has; its
\* one subscription is the selected task's, and neither the view nor the
\* group it is in has gone, whatever tasks, peers and sizes did meanwhile
\* (agents-view.ts:177-231, 333-355, 542-655).
OverlayIsCurrent ==
    overlay.open =>
        /\ (overlay.frame.drawn /\ overlay.frame.size = terminal) => overlay.frame = Drawn(overlay, terminal, owned)
        /\ \A e \in overlay.tasks : hostTask[e.id].status = e.status
        /\ \A t \in owned : \E e \in overlay.tasks : e.id = t
        /\ overlay.subscribed = IF HasTask(overlay) THEN overlay.selected ELSE NoRow
        /\ overlay.view = "details" => HasTask(overlay)
        /\ overlay.group \in {NoHost, overlay.session} \cup {overlay.peers[i].id : i \in DOMAIN overlay.peers}

(***************************************************************************)
(* The panel of models                                                     *)
(***************************************************************************)

\* The rows of the panel: all agents, each of them, Continue and Back.
RowAt(p) == IF p.cursor = 0 THEN "all" ELSE IF p.cursor <= Len(PanelAgents) THEN PanelAgents[p.cursor] ELSE "none"
Covered(row) == IF row = "all" THEN Elements(PanelAgents) ELSE {row} \cap Elements(PanelAgents)

Unrouted == [a \in Elements(PanelAgents) |-> [model |-> "inherit", effort |-> "inherit"]]

\* filteredModelOptions(): the controls first, then the models of the registry.
Matched(p) == Offered[p.query + 1]

ClosedModels == [pc |-> "closed", cursor |-> 0, target |-> "all", query |-> 0, at |-> 1, draft |-> Unrouted,
                 asked |-> "none", named |-> {}]

\* showSddModelPanel(): a new panel over a configuration.
ShowModels(draft, named) == [ClosedModels EXCEPT !.pc = "agents", !.draft = draft, !.named = named]

\* The row a screen names: the one marked in the list, or the title of a picker.
NamedRow(p) == IF p.pc = "agents" THEN RowAt(p) ELSE IF p.pc = "custom" THEN p.asked ELSE p.target

\* setModel(), setThinking() and clearEntry() on one row or on all of them.
Routed(p, row, field, value) ==
    [p EXCEPT !.draft = [a \in DOMAIN @ |-> IF a \in Covered(row) THEN [@[a] EXCEPT ![field] = value] ELSE @[a]],
              !.named = @ \cup Covered(NamedRow(p))]
Inherited(p, row) == Routed(Routed(p, row, "model", "inherit"), row, "effort", "inherit")

AskCustom(p, row) == IF row = "none" THEN p ELSE [p EXCEPT !.pc = "custom", !.asked = row]

\* handleAgentInput(): what stays in the panel.
AgentKeyed(p, key) ==
    LET last == Len(PanelAgents) + 2
        row == RowAt(p)
    IN  CASE key = "down" -> [p EXCEPT !.cursor = Least(last, @ + 1)]
          [] key = "up" -> [p EXCEPT !.cursor = Most(0, @ - 1)]
          [] key = "G" -> [p EXCEPT !.cursor = last]
          [] key = "i" -> Inherited(p, row)
          [] key = "e" -> [p EXCEPT !.pc = "effort", !.target = IF row = "none" THEN "all" ELSE row, !.at = 1]
          [] key = "c" -> AskCustom(p, row)
          [] key = "return" /\ row # "none" -> [p EXCEPT !.pc = "models", !.target = row, !.at = 1, !.query = 0]
          [] key = "escape" \/ (key = "return" /\ p.cursor = last) -> ClosedModels
          [] OTHER -> p

\* handleModelInput(): a typed character starts at the first match again.
ModelKeyed(p, key) ==
    LET options == Matched(p)
        picked == [Routed(p, RowAt(p), "model", options[p.at]) EXCEPT !.pc = "agents"]
        shorter == Most(0, p.query - 1)
    IN  CASE key = "escape" -> [p EXCEPT !.pc = "agents", !.query = 0]
          [] key = "down" -> [p EXCEPT !.at = Most(1, Least(Len(options), @ + 1))]
          [] key = "up" -> [p EXCEPT !.at = Most(1, @ - 1)]
          [] key = "type" -> [p EXCEPT !.query = Least(@ + 1, Len(Offered) - 1), !.at = 1]
          [] key = "backspace" -> [p EXCEPT !.query = shorter, !.at = Least(@, Most(1, Len(Offered[shorter + 1])))]
          [] key = "return" /\ p.at <= Len(options) ->
                CASE options[p.at] = "custom" -> AskCustom(p, p.target)
                  [] options[p.at] = "keep" -> [p EXCEPT !.pc = "agents"]
                  [] OTHER -> picked
          [] OTHER -> p

\* handleEffortInput().
EffortKeyed(p, key) ==
    CASE key = "escape" -> [p EXCEPT !.pc = "agents"]
      [] key = "down" -> [p EXCEPT !.at = Least(Len(Efforts), @ + 1)]
      [] key = "up" -> [p EXCEPT !.at = Most(1, @ - 1)]
      [] key = "return" -> [Routed(p, p.target, "effort", Efforts[p.at]) EXCEPT !.pc = "agents"]
      [] OTHER -> p

ModelsStay == UNCHANGED <<savedModels, exportedModels>>

OpenModelPanel ==
    /\ modelPanel.pc = "closed" /\ modelPanel' = ShowModels(savedModels, {}) /\ ModelsStay

ModelPanelKey(key) ==
    /\ modelPanel.pc \in {"agents", "models", "effort"}
    /\ modelPanel' = CASE modelPanel.pc = "agents" -> AgentKeyed(modelPanel, key)
                       [] modelPanel.pc = "models" -> ModelKeyed(modelPanel, key)
                       [] OTHER -> EffortKeyed(modelPanel, key)
    /\ ModelsStay

\* ctrl+s, u and Continue.
SaveModelPanel(works) ==
    /\ modelPanel.pc = "agents"
    /\ savedModels' = IF works THEN modelPanel.draft ELSE savedModels
    /\ modelPanel' = ClosedModels /\ UNCHANGED exportedModels

\* x: what is saved is exported, not the draft; the draft is kept.
ExportModels(works) ==
    /\ modelPanel.pc = "agents"
    /\ exportedModels' = IF works THEN savedModels ELSE exportedModels
    /\ modelPanel' = ShowModels(modelPanel.draft, modelPanel.named) /\ UNCHANGED savedModels

\* r: a missing export is reported; another one replaces what is saved, and
\* the draft, once it has been confirmed and written.
AskRestore ==
    /\ modelPanel.pc = "agents" /\ ModelsStay
    /\ modelPanel' = IF exportedModels = NoHost THEN ShowModels(modelPanel.draft, modelPanel.named)
                     ELSE [modelPanel EXCEPT !.pc = "restore"]
AnswerRestore(yes, works) ==
    /\ modelPanel.pc = "restore" /\ UNCHANGED exportedModels
    /\ IF yes /\ works
       THEN savedModels' = exportedModels /\ modelPanel' = ShowModels(exportedModels, {})
       ELSE modelPanel' = ShowModels(modelPanel.draft, modelPanel.named) /\ UNCHANGED savedModels

\* The dialog for a custom model: dismissed, it ends the command; blank or
\* invalid, it changes nothing.
AnswerCustom(answer) ==
    /\ modelPanel.pc = "custom" /\ ModelsStay
    /\ LET routed == Routed(modelPanel, modelPanel.asked, "model", answer)
       IN  modelPanel' = CASE answer = "dismissed" -> ClosedModels
                           [] answer = "invalid" -> ShowModels(modelPanel.draft, modelPanel.named)
                           [] OTHER -> ShowModels(routed.draft, routed.named)

ModelsInit == modelPanel = ClosedModels /\ savedModels = Unrouted /\ exportedModels = NoHost

ModelPanelKeys == {"down", "up", "G", "i", "e", "c", "return", "escape", "type", "backspace"}
ModelsStep ==
    \/ OpenModelPanel \/ AskRestore
    \/ \E key \in ModelPanelKeys : ModelPanelKey(key)
    \/ \E works \in BOOLEAN : SaveModelPanel(works) \/ ExportModels(works) \/ \E yes \in BOOLEAN : AnswerRestore(yes, works)
    \/ \E answer \in {"dismissed", "invalid"} \cup CustomModel : AnswerCustom(answer)

\* The draft a save would write differs from what is saved only for agents
\* that the screen named when the user chose, through all the pickers,
\* dialogs, exports and restores in between; a picker of models is always for
\* the marked row, and its cursor on an option that is listed
\* (gentle-ai.ts:2977-3288, 3400-3490).
ModelsPanelIsHonest ==
    modelPanel.pc # "closed" =>
        /\ \A a \in DOMAIN savedModels : modelPanel.draft[a] # savedModels[a] => a \in modelPanel.named
        /\ modelPanel.pc = "models" =>
              modelPanel.target = RowAt(modelPanel) /\ modelPanel.at \in 1..Most(1, Len(Matched(modelPanel)))

(***************************************************************************)
(* The panel of profiles                                                   *)
(***************************************************************************)

(* A profile is its name, a number, and one more than its routing rows, or 0
   when there is no such profile.  What its actions decide is AgentRouting's;
   here they change the store by one profile at most.  *)
ProfileNames == 1..MaxProfiles
InStoreOf(file) == {n \in ProfileNames : file[n] > 0}
ListedProfiles(file) == LET S == InStoreOf(file)
    IN  [i \in 1..Cardinality(S) |-> CHOOSE n \in S : Cardinality({m \in S : m < n}) = i - 1]

ClosedProfiles == [pc |-> "closed", file |-> [n \in ProfileNames |-> 0], items |-> <<>>, at |-> 1, now |-> 0,
                   scroll |-> 0, last |-> 0, lines |-> 0, rows |-> 0, frame |-> NoFrame,
                   turned |-> 0, action |-> "none", name |-> 0]

\* The constructor: a list that stays as it is for the whole visit.
ProfilesShown(file, name) ==
    LET items == ListedProfiles(file)
        found == {i \in DOMAIN items : items[i] = name}
    IN  [ClosedProfiles EXCEPT !.pc = "open", !.file = file, !.items = items, !.now = liveRouting,
                               !.at = IF found = {} THEN 1 ELSE CHOOSE i \in found : TRUE]

SelectedProfile(p) == IF p.at \in DOMAIN p.items THEN p.items[p.at] ELSE 0

\* renderDetailLines(): two tables and their headings, beside the list only.
DetailLines(p) ==
    IF ~terminal.wide THEN 0
    ELSE IF SelectedProfile(p) = 0 \/ p.file[SelectedProfile(p)] = 0 THEN 1
    ELSE 1 + p.file[SelectedProfile(p)] + p.now

ClampDetailScroll(offset, lines, rows) == Most(0, Least(offset, Most(0, lines - rows)))

\* An input leaves the frame behind until the next render.
Redrawn(p) == [p EXCEPT !.frame = NoFrame]

ProfilesDo(p) ==
    /\ profilePanel.pc = "open" /\ profilePanel' = p
    /\ UNCHANGED <<profileStore, profileDisk, liveRouting, terminal>>

OpenProfiles ==
    /\ profilePanel.pc = "closed"
    /\ profileStore' = profileDisk /\ profilePanel' = ProfilesShown(profileDisk, 0)
    /\ UNCHANGED <<profileDisk, liveRouting, terminal>>

\* render(): another profile is shown from its first line.
RenderProfiles ==
    LET p == profilePanel
        name == SelectedProfile(p)
        top == ClampDetailScroll(IF name = p.last THEN p.scroll ELSE 0, DetailLines(p), terminal.rows)
    IN  ProfilesDo([p EXCEPT !.last = name, !.scroll = top, !.lines = DetailLines(p), !.rows = terminal.rows,
                     !.frame = [drawn |-> TRUE, size |-> terminal, name |-> name, from |-> top, lines |-> DetailLines(p)]])

\* scrollDetail(): within what was drawn last.
ScrollDetail(delta) ==
    ProfilesDo(Redrawn([profilePanel EXCEPT !.scroll = ClampDetailScroll(@ + delta, profilePanel.lines, profilePanel.rows),
                                            !.turned = profilePanel.last]))
ScrollPage(sign) == ScrollDetail(sign * Most(1, profilePanel.rows - 1))
WheelDetail(delta) == profilePanel.rows > 0 /\ ScrollDetail(delta)

\* NativeChoiceList: the arrows and the wheel.
MoveProfile(delta) ==
    ProfilesDo(Redrawn([profilePanel EXCEPT !.at = Most(1, Least(Len(profilePanel.items), @ + delta))]))

\* s: the shared file is written before the panel has it, or neither changes.
SnapshotProfile(works) ==
    LET name == SelectedProfile(profilePanel)
        next == IF works THEN [profileStore EXCEPT ![name] = liveRouting + 1] ELSE profileStore
    IN  /\ profilePanel.pc = "open" /\ name # 0
        /\ profileStore' = next /\ profileDisk' = IF works THEN next ELSE profileDisk
        /\ profilePanel' = Redrawn([profilePanel EXCEPT !.file = next])
        /\ UNCHANGED <<liveRouting, terminal>>

\* finish(): an action of the selected profile, of a clicked one or of none.
NamedActions == {"apply", "duplicate", "rename", "delete", "export", "pin"}
FinishProfiles(action) ==
    LET name == IF action \in NamedActions THEN SelectedProfile(profilePanel) ELSE 0
    IN  /\ action \in NamedActions => name # 0
        /\ ProfilesDo(IF action = "close" THEN ClosedProfiles
                      ELSE [ClosedProfiles EXCEPT !.pc = "acting", !.action = action, !.name = name])
ClickProfile(i) ==
    /\ profilePanel.rows > 0 /\ i \in DOMAIN profilePanel.items
    /\ ProfilesDo([ClosedProfiles EXCEPT !.pc = "acting", !.action = "apply", !.name = profilePanel.items[i]])

\* What an action may leave in the store.
Outcomes(action, name) ==
    LET rows == 1..(MaxRouting + 1)
        free == ProfileNames \ InStoreOf(profileStore)
    IN  {profileStore} \cup
        (IF action = "create" THEN {[profileStore EXCEPT ![n] = r] : n \in free, r \in rows}
         ELSE IF action = "import" THEN {[profileStore EXCEPT ![n] = r] : n \in ProfileNames, r \in rows}
         ELSE IF action = "duplicate" THEN {[profileStore EXCEPT ![n] = profileStore[name]] : n \in free}
         ELSE IF action = "rename" THEN {[profileStore EXCEPT ![n] = profileStore[name], ![name] = 0] : n \in free}
         ELSE IF action = "delete" THEN {[profileStore EXCEPT ![name] = 0]} ELSE {})

\* The action is over, and the panel opens again on the profile it named.
ReopenProfiles(next) ==
    /\ profilePanel.pc = "acting" /\ next \in Outcomes(profilePanel.action, profilePanel.name)
    /\ profileStore' = next /\ profileDisk' = next
    /\ profilePanel' = ProfilesShown(next, profilePanel.name)
    /\ UNCHANGED <<liveRouting, terminal>>

\* The routing in effect changes under the panel, or the terminal does.
RoutingMoves(n) ==
    /\ n # liveRouting /\ liveRouting' = n /\ UNCHANGED <<profilePanel, profileStore, profileDisk, terminal>>
ProfilesResize(size) ==
    /\ size # terminal /\ terminal' = size
    /\ profilePanel' = Redrawn(profilePanel) /\ UNCHANGED <<profileStore, profileDisk, liveRouting>>

ProfilesInit ==
    /\ profilePanel = ClosedProfiles /\ profileDisk = [n \in ProfileNames |-> IF n = 1 THEN 1 ELSE 0]
    /\ profileStore = profileDisk /\ liveRouting = 0

ProfilesStep ==
    \/ OpenProfiles \/ RenderProfiles
    \/ \E d \in {-1, 1} : ScrollDetail(d) \/ ScrollPage(d) \/ WheelDetail(d) \/ MoveProfile(d)
    \/ \E works \in BOOLEAN : SnapshotProfile(works)
    \/ \E action \in NamedActions \cup {"create", "import", "close"} : FinishProfiles(action)
    \/ \E i \in ProfileNames : ClickProfile(i)
    \/ \E next \in [ProfileNames -> 0..(MaxRouting + 1)] : ReopenProfiles(next)
    \/ \E n \in 0..MaxRouting : RoutingMoves(n)
    \/ \E size \in Terminal : ProfilesResize(size)

\* The panel, the command and the file agree on the profiles, so a key acts
\* on a profile that exists, whatever snapshots failed and actions did; what
\* is drawn is the selected profile, within its lines, and below the first
\* only when the user turned to there in this profile
\* (gentle-ai.ts:3745-3953, 4617-4650).
ProfilesPanelIsHonest ==
    profilePanel.pc # "closed" =>
        /\ profileStore = profileDisk /\ profilePanel.name \in {0} \cup InStoreOf(profileDisk)
        /\ profilePanel.pc = "open" =>
              profilePanel.file = profileDisk /\ profilePanel.items = ListedProfiles(profileDisk)
        /\ profilePanel.frame.drawn =>
              /\ profilePanel.frame.name = SelectedProfile(profilePanel)
              /\ profilePanel.frame.from <= Most(0, profilePanel.frame.lines - terminal.rows)
              /\ profilePanel.frame.from > 0 => profilePanel.turned = profilePanel.frame.name

(***************************************************************************)
(* The todo list                                                           *)
(***************************************************************************)

\* A task is its id and its status; "bad" is an input without a title or
\* with an unknown status.
EmptyTodo == [tasks |-> <<>>, nextId |-> 1, turn |-> -1]
OpenTasks(state) == {i \in DOMAIN state.tasks : state.tasks[i].status # "done"}
AllDone(state) == state.tasks # <<>> /\ OpenTasks(state) = {}
TaskIds(tasks) == {tasks[i].id : i \in DOMAIN tasks}

\* write(): the inputs in order; an id is kept unless it is taken.
WriteTodo(state, inputs, turn) ==
    LET id(w, input) == IF input.id > 0 /\ input.id \notin TaskIds(w.tasks) THEN input.id ELSE w.nextId
        put(w, input) == [tasks |-> Append(w.tasks, [input EXCEPT !.id = id(w, input)]),
                          nextId |-> Most(w.nextId, id(w, input) + 1)]
        built[i \in 0..Len(inputs)] == IF i = 0 THEN [tasks |-> <<>>, nextId |-> state.nextId]
                                       ELSE put(built[i - 1], inputs[i])
    IN  [tasks |-> built[Len(inputs)].tasks, nextId |-> built[Len(inputs)].nextId, turn |-> turn]

\* One rejected input rejects them all, and an update is of a task there is.
Rejects(state, call) ==
    \E i \in DOMAIN call.tasks :
        call.tasks[i].status = "bad" \/ (call.action = "update" /\ call.tasks[i].id \notin TaskIds(state.tasks))

\* applyTodo(): the next state, the same one after an error.
ApplyTodo(state, call, turn) ==
    CASE call.action = "list" \/ Rejects(state, call) -> state
      [] call.action = "write" -> WriteTodo(state, call.tasks, turn)
      [] call.action = "clear" -> [EmptyTodo EXCEPT !.turn = turn]
      [] call.action = "add" ->
            [tasks |-> Append(state.tasks, [call.tasks[1] EXCEPT !.id = state.nextId]),
             nextId |-> state.nextId + 1, turn |-> turn]
      [] OTHER ->
            [state EXCEPT !.tasks = [i \in DOMAIN @ |-> IF @[i].id = call.tasks[1].id THEN call.tasks[1] ELSE @[i]],
                          !.turn = turn]

\* A list of the older rpiv-todo: deleted and untitled tasks are left out.
FromRpiv(details) ==
    LET kept == SelectSeq(details.tasks, LAMBDA task : task.status \notin {"deleted", "bad"})
        above == CHOOSE n \in {1} \cup {id + 1 : id \in TaskIds(kept)} : \A id \in TaskIds(kept) : id < n
    IN  [tasks |-> kept, nextId |-> IF details.nextId > 0 THEN details.nextId ELSE above, turn |-> -1]

\* replayTodo(): the last result on the branch.
Replay(branch) ==
    LET results == {i \in DOMAIN branch : branch[i].kind # "user"}
        last == CHOOSE i \in results : \A j \in results : j <= i
    IN  IF results = {} THEN EmptyTodo
        ELSE IF branch[last].kind = "todo" THEN branch[last].state ELSE FromRpiv(branch[last])

\* A list that was finished is history.
Cleaned(state) == IF AllDone(state) THEN [state EXCEPT !.tasks = <<>>] ELSE state

NoTodo == [open |-> FALSE, state |-> EmptyTodo, turn |-> 0, clearing |-> FALSE]
UserEntry == [kind |-> "user"]

\* session_start.
TodoStart ==
    /\ ~todo.open
    /\ todo' = [NoTodo EXCEPT !.open = TRUE, !.state = Cleaned(Replay(todoBranch)),
                              !.turn = Cardinality({i \in DOMAIN todoBranch : todoBranch[i].kind = "user"})]
    /\ rewound' = FALSE /\ UNCHANGED todoBranch

\* session_shutdown.
TodoShutdown == todo.open /\ todo' = NoTodo /\ UNCHANGED <<todoBranch, rewound>>

\* execute(): a success keeps the list; every result carries a state.
TodoCalls(call) ==
    LET next == ApplyTodo(todo.state, call, todo.turn)
    IN  /\ todo.open /\ Len(todoBranch) < MaxBranch
        /\ todo' = [todo EXCEPT !.state = next, !.clearing = @ /\ Rejects(todo.state, call)]
        /\ todoBranch' = Append(todoBranch, [kind |-> "todo", state |-> next])
        /\ rewound' = FALSE

\* before_agent_start: a finished list goes.
TodoTurn ==
    /\ todo.open /\ Len(todoBranch) < MaxBranch
    /\ todo' = [todo EXCEPT !.state.tasks = IF todo.clearing THEN <<>> ELSE @, !.turn = @ + 1, !.clearing = FALSE]
    /\ todoBranch' = Append(todoBranch, UserEntry) /\ UNCHANGED rewound

\* agent_end.
TodoAgentEnd ==
    /\ todo.open /\ AllDone(todo.state) /\ todo' = [todo EXCEPT !.clearing = TRUE]
    /\ UNCHANGED <<todoBranch, rewound>>

\* pi's /tree moves the branch back; no handler hears of it.
RewindBranch(n) ==
    /\ n \in 0..(Len(todoBranch) - 1) /\ todoBranch' = SubSeq(todoBranch, 1, n)
    /\ rewound' = todo.open /\ UNCHANGED todo

OlderTodo == <<[id |-> 1, status |-> "deleted"], [id |-> 2, status |-> "pending"]>>
TodoInit ==
    /\ todo = NoTodo /\ rewound = FALSE
    /\ todoBranch \in {<<>>} \cup {<<[kind |-> "rpiv", tasks |-> OlderTodo, nextId |-> n]>> : n \in {0, 3}}

TodoInputs == [id : 0..MaxTodoId, status : {"pending", "done", "bad"}]
TodoCall ==
    [action : {"write"}, tasks : TodoLists]
    \cup [action : {"add", "update"}, tasks : [1..1 -> TodoInputs]]
    \cup [action : {"clear", "list"}, tasks : {<<>>}]
TodoStep ==
    \/ TodoStart \/ TodoShutdown \/ TodoTurn \/ TodoAgentEnd
    \/ \E call \in TodoCall : TodoCalls(call)
    \/ \E n \in 0..MaxBranch : RewindBranch(n)

\* Unless /tree has moved the branch under it, the list in memory is what the
\* next start of the session reads off the branch, a finished list apart
\* that is still shown; ids stay unique and below the next one, and no list
\* with open tasks is about to be cleared (shell-todo.ts:143-234,
\* gentle-todo.ts:189-251).
TodoIsReplayed ==
    todo.open =>
        /\ ~rewound => Cleaned(todo.state) = Cleaned(Replay(todoBranch))
        /\ Cardinality(TaskIds(todo.state.tasks)) = Len(todo.state.tasks)
        /\ \A id \in TaskIds(todo.state.tasks) : id < todo.state.nextId
        /\ todo.clearing => AllDone(todo.state)

\* What the panels of the desk owe their user: what is shown is so, what is
\* acted on was shown, and what is kept can be read again.
PanelsAreHonest == OverlayIsCurrent /\ ModelsPanelIsHonest /\ ProfilesPanelIsHonest /\ TodoIsReplayed
=============================================================================
