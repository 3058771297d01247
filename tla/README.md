# Gentle Shell in TLA+

Gentle Shell is an extension of the `pi` coding agent: it runs subagents as
child processes, delivers their results to the parent conversation, decides what
tools an agent may use, and keeps a review authority in the repository that gates
what may be published. This directory models the parts of it whose correctness
depends on the order in which callbacks, processes, timers, messages and crashes
happen. TLC checks the models on small instances, and TLAPS proves the most
important safety properties for every instance.

Paths below are relative to the repository.

## The system and its components

| Component | Source | State | Interacts with | What is hard | Model |
|---|---|---|---|---|---|
| Agent runner | `lib/agents-runner.ts` | launch queue, live slots, per child: stop cause, timers, tools in flight | host tools, child processes, completion delivery | stop causes racing, lost exits, surviving process groups, lost wake-ups | `AgentRunner` |
| Task protocol and store | `lib/agents-protocol.ts` | task records and their status | runner, views | one settlement per task | `TaskLifecycle` |
| Completion delivery | `lib/agents-completion-delivery.ts`, `extensions/gentle-agents.ts` | pending, consumed and delivered completions, open agent runs | runner (`onFinish`), parent conversation | turn boundaries, yields, pulls, session changes | `CompletionDelivery` |
| Child messaging | `lib/agents-messaging.ts` | promises and timers of notes and queries | runner over Node IPC | two timers per query, send callbacks, a channel that breaks | `ChildIpc` |
| Session transport | `lib/agents-session-transport.ts`, `lib/windows-session-transport.ts` | listener, endpoint, presence record, helper process, pending notification | other windows | start against close, stale records, chunks, a helper that never answers | `SessionTransport`, `WindowsTransport`, `FrameExchange` |
| Orchestrator presence | `lib/orchestrator-presence.ts` | activity and header files | external readers | two writes, readers of a pinned generation | `PresencePublisher` |
| Standing permission, consent | `lib/review-session-standing-permission*.ts`, `lib/review-consent-*.ts` | permission, broker, pending bindings, latch | controller, runner, UI | an answer that comes after its question expired or its permission went | `PermissionIpc`, `ReviewConsent` |
| Review mutation lock | `lib/review-lock.ts` | lock directory, intents, quarantine | transaction store of every process | crashes between file-system calls, competing repairs | `ReviewLock` |
| Review object store | `lib/review-object-store.ts` | immutable objects, three `CURRENT` slots | transaction store, unlocked readers | publication that stops half-way, slot-by-slot reads | `ReviewStore`, `ReviewAuthority` |
| Review transaction store | `lib/review-transaction.ts` | lineage states with a request journal | controller, gates, policies | retries after an unknown outcome | `ReviewJournal`, `ReviewStore` |
| Review policies | `lib/review-policy-*.ts` | phase, frozen ledger, resolutions, budget, counters | transaction store | omissions and stray answers remembered over long call sequences | `ReviewPolicy`, `ReviewOutcome` |
| Receipts and gates | `lib/review-transaction.ts`, `lib/review-publication-gate.ts` | receipts, child claims, gate journal | transaction store, git | stale receipts, a repository outside the lock, retries | `ReviewGate` |
| Candidate views | `lib/review-candidate-view*.ts` | registry of frozen views, worktrees, owner markers | controller, git | views shared by calls, refusals half-way, owners that die, edits during the freeze | `CandidateRegistry`, `CandidateOwners`, `CandidateTree` |
| Review controller | `extensions/gentle-ai.ts` | retained selections, bindings, captures | all of the review components | what is reported of an operation that was cancelled or failed late | `ReviewConsent`, `ReviewCapture`, `ReviewMaintenance`, `ReviewContract` |
| Host relay and reviewers | `lib/review-host-relay.ts`, `lib/inprocess-reviewer.ts` | routes, one capture per host | provider, reviewer model | deadlines and aborts between the steps of a capture | `ReviewCapture` |
| Native review CLI and contract | `lib/native-review-cli.ts`, `lib/review-integration-v2.ts` | invocation, decoded answers | provider | kills that race commits, answers of several versions | `ReviewMaintenance`, `ReviewContract` |
| Repository authority | `lib/review-repository.ts`, `lib/review-snapshot.ts`, ... | identity file | git, review store | the first write, torn reads | `ReviewRepository` |
| Session changes and reminders | `lib/session-change*.ts`, `lib/review-reminder-receipt.ts` | evidence of writes, receipts of a branch | tools, STATUS | awaits in every handler, forks and reloads | `SessionEvidence` |
| Agent host | `extensions/gentle-agents.ts`, `lib/agents-history.ts`, `lib/agents-rpc-publisher.ts` | shown tasks, pushes, history, authorizations | runner, UI, other processes | pruning, bounded pushes, stale authorizations | `AgentHost` |
| Agent configuration and routing | `lib/agents-config.ts`, `lib/agent-profile*.ts`, `lib/model-routing-authority.ts`, `extensions/gentle-ai.ts` | models, profiles, pins, overrides, model profiles of two files | launches, panel | several files without a common rename | `AgentRouting` |
| SDD assets and preflight | `lib/sdd-preflight.ts`, `extensions/sdd-init.ts` | asset files, manifest, lock, saved preferences | user edits, routing sweep | files owned by the user and by the package | `ManagedAssets`, `ToolPolicy` |
| Tool policies | `extensions/gentle-ai.ts`, `lib/odd-runtime-delegation-gate.ts`, ... | guardrails, preflight, risk line, memo | every tool call | overlapping dialogs, memos that run out | `ToolPolicy` |
| Runtime metrics and telemetry | `lib/runtime-metrics*.ts`, `extensions/runtime-metrics.ts` | turn, task slots, delivery slot, consent | sender process | delivery against revocation and replacement | `RuntimeMetrics` |
| Launcher | `bin/gentle-shell.mjs`, `lib/gentle-shell-launcher.ts` | homes, setup lock, shared files | pi, gentle-ai installs | stale locks, interrupted setups | `ShellLauncher` |
| Installer | `scripts/gentle-ai-installer.mjs`, `lib/gentle-ai-binary.ts` | bundle, lock, tombstones, backups | other installers, resolver | death between renames | `BundleInstaller` |
| Skill registry | `extensions/skill-registry.ts` | registry file, cache, watchers | skill files | overlapping regenerations | `SkillRegistry` |
| User interface | `lib/agents-view.ts`, `extensions/gentle-ai.ts`, `lib/shell-todo.ts`, ... | the overlay's rows, view and last frame; drafts of the panels; the todo list | task store, peers, files, terminal | clicks on a frame whose state has moved, drafts across pickers and dialogs, branches that are rewound | `DeskPanels` |

`PROJECT.json` lists every component with its files, the lines every definition
stands for, and the hazards of the code at the line where each one bites.

What makes the components correct:

- *runner*: never more children than slots; a free slot and a waiting request
  always meet; a task is reported once, with its first cause, and only when its
  processes are gone (or as a failure, in quarantine); a silent child is noticed;
- *completion delivery*: each result reaches its own session exactly once, and it
  does reach it;
- *messages*: both ends draw the same conclusion; a grant answers the request that
  asked; nothing listens after its session is gone;
- *lock and store*: the lock excludes and survives crashes; publication over three
  slots behaves like one atomic register, and what a caller was told stays true;
- *policies and gates*: only a review that cleared every severe finding is
  approved, only the approved tree passes, and a retry never changes an answer;
- *candidates*: what a reviewer read is the candidate that was frozen; the view of
  a live process is never swept; a binding always leads to its lineage's view;
- *controller*: nothing starts without a consent for that candidate, and no report
  says less happened than did;
- *setup*: what belongs to the user, or to another home, is not overwritten; a
  bundle is never lost; a refresh repairs what overlapping ones left;
- *session*: what is shown, captured, reminded, refused and sent corresponds to
  what happened, also while sessions are replaced.

## Modules

A component is one module (two or three where it has an abstract specification or
levels of its own); state, `Init`, one action per handler or continuation, `Next`
and the specification. `MC*` modules instantiate them for TLC, `*Proofs` modules
hold theorems. An operator whose name ends in `_Fault` or names its defect
(`ClaimScope_Fault`, `MoveStale_Forgets`) is a mutated form of the operator that
follows it; it takes no part in any specification, and `PROJECT.json` names the
property that must break when it replaces the original.

### Running subagents

`TaskLifecycle` is the abstract life of a task: created, running or waiting,
settled once. `AgentRunner` implements it (`AbsSpec`). One action is one JavaScript
callback: a tool call, a timer, an OS event, a line of child output. `queue`,
`live`, `terminal`, `childExit`, `quarantined`, `timer` (`cancelGrace`), `stall` and
`tools` are fields of `AgentRunner` and `LiveTask`; `pump` says whether a `pump()`
microtask is scheduled; `proc` is the operating system's view of the child and its
group. Time is "an armed timer may fire"; `probesLeft` is what is left of the
cleanup deadline. Several scheduled pumps count as one, since the second finds
nothing to do. Signals have no effect of their own: the child may exit, leave
descendants or ignore them at any time. Left out: the response-observation buffer,
usage accounting, `EPERM` from a reused process id.

`CompletionDelivery` is built on `TaskLifecycle`, not on the runner: what it needs of
the runner is what the refinement establishes. `pending`, `consumed`, `delivered`
are the queue's fields, `runs` is `activeAgentRuns`, `yielded` is `yieldedTaskIds`,
`call` the launching tool call; `answers`, `settled`, `pulled`, `lost` and `due` are
observers. Each handler is one action with the flush it ends with.

`ChildIpc` has both ends of the channel between a child and its runner: `promise`
and `messenger` are the child's, `query`, `caller`, `acked`, `ipc` the parent's, `up`
and `down` the frames in flight (sets, a superset of FIFO), `link` the channel.

`AgentHost` is what the host shows and keeps of tasks: their summaries and widget,
activity pushed over RPC, history on disk, and the authorization of a remediation.

### Sessions talking to each other

`SessionTransport` is a window that starts its session more than once: every
activation is a listener, endpoint and record of its own, and an action is what
runs between two awaits. `FrameExchange` is one notification as bytes on the
connection, against the client's timers, abort and close. `WindowsTransport` is the
Node side of the helper that owns the named pipe. `PresencePublisher` writes the
activity file and then the header, while a reader in another process reads them in
its own order. `PermissionIpc` is the standing permission across the pipe of a
child: broker and client with their frames, time limits and reloads.

### The review authority on disk

`ReviewLock`: `lock` is the acquisition whose `mkdir` made `authority.lock`, `signer`
the token in its `owner.json`, `names` the destinations that exist. Owners and
repairers interleave at every file-system call and an owner may die anywhere.
`Caller` says what the caller of a repair knows: `"informed"`, that the lock in place
is that of a dead owner; `"any"`, nothing.

`ReviewJournal` has the operators on journals and root-set chains, `ReviewAuthority`
an authority that grows by one operation at a time, and `ReviewStore` implements it
(`AuthoritySpec`) with slots, root sets, operations, repair and an unlocked reader. A
root set is the chain of root sets up to it, since its identity hashes a body that
names the predecessor. The lock is abstracted to one mutation at a time, which is
`LockExcludes`. `Repairs = "prompt"` says that REPAIR is run after a half-way
publication before the next mutation; nothing in the code enforces it (finding 3).

`ReviewOutcome` is the abstract life of a lineage: open, closed once, final tree.
`ReviewPolicy` (the reducers of both modes) implements it; `ReviewGate` is built on
it. In `ReviewPolicy` each reducer is one action whose parameters are the actors'
answers. Whether a list of escalation reasons or regressions is empty is all that
counts, so such a list is `"none"` or `"some"`. A lineage with `fix_batches = 1` and
`validator_runs = 0` stops for ever at `fix-complete`, though
`openspec/specs/review-transaction/spec.md` would have a budget failure escalate;
`ReviewEnds` is stated for budgets with a validator. In `ReviewGate`, `root` and
`head` number the root sets, and a gate looks at the repository twice while the lock
keeps other operations, but not git, away.

`ReviewRepository` is the identity file with its first write and partial reads.
`CandidateTree` freezes a candidate through a private Git index, whose entries are
trusted by time, and lets a reviewer read it page by page. `CandidateOwners` has the
worktrees, owner markers and reaper locks of several processes.

### The review host

`CandidateRegistry` gives every method of the registry as a function from a registry
to a registry, with what Git may refuse as parameters, and runs any sequence of a
session's operations. `ReviewConsent` is START and the consent around it, in two sessions
of one process with timers, a dialog and the provider. `ReviewCapture` is the
collection of reviewer results, `ReviewMaintenance` the operations that change
authority without reviewing, and `ReviewContract` what is decoded of provider
answers and which executable may be bound. In all of them the provider is external:
it may answer late, never, or after it was killed.

### Setting up, and a working session

`ShellLauncher`, `BundleInstaller`, `ManagedAssets`, `AgentRouting` and
`SkillRegistry` are processes over files that others share, each of which may die
between two file operations. `SessionEvidence`, `ToolPolicy` and `RuntimeMetrics` are
the handlers of one pi process that await in the middle.

In `ShellLauncher` the bootstrap of a home is four steps (`BootstrapHome`, `MakeHome`,
`Seed`, `MarkOwned`), since the settings are awaited between the directory and the
ownership marker, and each may fail. A home is at first missing, empty, full of the
user's files, or what a launcher killed in its first setup left more than fifteen
minutes ago (`LeftBehind`, with its lock). The setup lock is examined twice, removed by
name and created again in four steps, and removed by name at release, so that an owner
who outlives it (`LockAges`) may remove its replacer's. `Snapshot` and `Restore` let
`safely()` swallow the failure of any file, and `disturbed` remembers which. `MaxMishaps`
bounds failing file operations and ageing locks. `OtherPackages` leaves out git sources
and directories that are not there, as a take-over does with a warning.

In `AgentRouting`, `routes` is what is materialized per agent: the route in the
frontmatter of its file and the model profiles of two files `subagents.json`, the
user's and the project's. An agent is routed in the file of its source (`FileOf`,
`ProjectAgent`); the panels show `Materialized`, and a launch resolves the merge of both
files, or the pinned profile, and then the frontmatter (`Launched`). A rename writes
the store and then, in a step of its own that may fail, the pin. `adrift` is an
observer: a session wrote from a copy of the store that others had outdated, pinned a
profile another one is deleting, or could not rewrite its pin. A write of the store
that fails changes nothing and is no step. `MaxEdits` bounds what the user does,
`MaxFaults` the failing writes.

`SkillRegistry` takes one `writeFile` (`extensions/skill-registry.ts:413-414`) as atomic;
between the registry and its cache a process may die. In `SessionEvidence`, `Normal` is
a text without its byte order mark and with plain line endings, and `Patch` what a patch
of two such texts tells of them: an edit's result is accepted when the patch its tool
reports is that of the texts captured (`PatchOf`, `Verified`), which other texts may
share. In `ToolPolicy` a call remembers what each part of its command was (`parts`) under
the guardrail files at its arrival, which is when the code judges it, and what its own
dialog answered (`said`); a phase starts when the native status has instructions for it,
names it as next and ready, and, for a remediation that a launch selected, is still
that of the selected revision (`PhaseStarts`).

`DeskPanels` extends `AgentHost` with what the user works in: the overlay over this
session's tasks and those of its peers, the panel that routes models, the panel of
profiles, and the todo list with its replay from the session's branch. A row of a list
is a pair of its kind and what it names. `overlay.frame` is what was drawn last and
stands for the pointer layout; `overlay.manual` is where the wheel left a list;
`traversal` is `refreshPresence()` in progress; `modelPanel.named` and
`profilePanel.turned` are observers. Text, colours, layout and the scrolling inside a
thread are left out.

## Runs

Most runs check several components side by side: `Init` chooses one `part`, a step is a
step of that part, and `Keep` leaves the variables of the others at one initial
state. Nothing is lost by this, because the parts of a run share no variable; it
only saves a run each. `VIEW PartView` shows TLC the variables of the part that
runs (the others are constant), and symmetry is used where no liveness is checked.
In `MCShell` some components are cut further, by concern: a part there takes some
of the component's actions, or keeps the second of two alike processes idle until
the first is busy (`Ordered`). Between them the parts fire every action.

| Run | Parts and instance | Checks |
|---|---|---|
| `runner_slots` | 3 background tasks, 2 slots, 1 worktree, no re-probe | `ProcessBound`, `NoLostWakeup`, `SettledMeansGone` |
| `runner_children` | 2 tasks, 1 slot, 1 tool call, 1 re-probe, 1 dialog | `AbsSpec`; liveness: `ChildrenSettle` (`StopReports` and `GoneIsNoticed`) |
| `protocols` | `ChildIpc` (1 note, 2 queries, limit 1), `WindowsTransport`, `PermissionIpc` (2 requests, 3 permission changes), `PresencePublisher` (3 changes, 2 publishers), `ReviewPolicy` (2 findings, 2 trees, both modes, all budgets) | `EndsAgree`, `ReadMatchesHeader`, `GrantIsOfThisRequest`, `ApprovedIsClean`, `OutcomeSpec`; liveness: `CloseSettles`, `ReviewEnds` |
| `sessions` | `SessionTransport` (2 starts, 1 crash, 1 message), `FrameExchange` (frames of up to 3 bytes in a stream of 4), `CompletionDelivery` (2 tasks, 2 sessions, both modes) | `ShutdownLeavesNothing`, `AcceptedReached`, `VerdictIsWhole`, `OneAnswer`; liveness: `ParentHears` |
| `review_authority` | `ReviewLock` (3 owners, 2 repairers, informed), `ReviewStore` (2 lineages, 2 keys, 3 generations, 2 faults, prompt repairs), `ReviewGate` (2 trees, callers, keys and budgets, 4 root sets), `ReviewRepository` (2 resolvers, 2 root commits), `CandidateTree` (freezing, 3 ticks and 2 edits; reading by pages), `CandidateOwners` (3 processes, 2 views) | `MutualExclusion`, `PromiseKept`, `ReadsAuthority`, `AuthoritySpec`, `AllowIsSound`, `RetriesAgree`, `OneIdentity`, `ReviewedIsCandidate`, `LiveViewKept` |
| `review_host` | `CandidateRegistry` (2 views, lineages, contents), `ReviewConsent` (2 sessions, 1 binding, 2 calls), `ReviewCapture` (2 hosts, 2 lenses), `ReviewMaintenance` (2 hosts, 2 operations), `ReviewContract` (2 identities) | `CurrentIsBound`, `ConsentIsChosen`, `ReportsAreTrue`, `ExecutableIsBound` |
| `setup` | `ShellLauncher` (2 launchers, 3 homes, 1 mishap), `BundleInstaller` (2 installers and a resolver), `ManagedAssets` (2 processes, 2 assets), `AgentRouting` (2 writers with panels, an agent of each source, 2 profiles, 4 acts, 1 failing write), `SkillRegistry` (2 regenerations) | `HomeIsRespected`, `BundleIsKept`, `AssetsAreKept`, `RoutingIsSound`, `RefreshHeals` |
| `desk` | `RuntimeMetrics`, `AgentHost`, `DeskPanels` (2 tasks, 1 peer, 2 sizes of terminal, 2 agents, 2 profiles), `SessionEvidence`, `ToolPolicy`, each by its concerns | `MetricsAreHonest`, `HostKeepsFaith`, `PanelsAreHonest`, `EvidenceIsExact`, `PolicyIsKept` |
| `runner_quarantine` | 1 task, 1 worktree | violates `QuarantineClears` |
| `review_lock_recovery` | 2 owners, 1 repairer, any caller | violates `MovesOnlyObserved` |
| `review_store_loss` | 2 lineages, 1 key, 3 generations, 2 faults, any repairs | violates `OldOrNew` |
| `setup_lock` | 2 launchers, 2 homes, one with the stale lock of a killed launcher | violates `YoungLockKept` |

Why the bounds suffice: three tasks on two slots is the least with a task waiting
while one slot frees and another is quarantined; in the liveness run one task always
waits. One query over the limit of one is refused, two exercise reuse of the place.
Three owners let a repair of the first race with the second while the third waits;
two repairers compete for one quarantine name. Three generations let the reader see
three different root sets, and two faults are the least that can leave three
different slots. Two findings can fare differently in every step and clear in
different rounds. Four root sets hold the closing of the lineage, one move of another
lineage and two gates. Two starts of a session let an activation close while the next
begins; a stream of one byte more than a frame may have exceeds the frame limit. Three
processes over two views let one sweep while another one's owner dies. Two hosts or
sessions interleave with a provider that answers one of them late; a second binding
adds nothing, as a binding is answered by the session that holds it. Two launchers,
installers, writers or regenerations are the least that overlap (three launchers, or a
stale lock in the first state, for the race of finding 4), and one fault at any
step shows each half-done write. A peer with one task and a terminal
of two widths let a frame, a group and a selection go stale in every way the overlay
tells apart. Bounds that only cut the state space (`MaxRuns`,
`MaxSessions`, `MaxAsks`, `MaxGeneration`, `MaxFaults`, `MaxRoot`, `MaxEdits`,
`MaxCalls`, `MaxClock`, ...) are named as such where they are declared.

What an instance restricts beyond its constants is written in its `MC` module, part
by part. In `MCReviewAuthority` one ref moves at a time, the last root set is published
by a gate only, files of a frozen candidate are plain, and the second fault comes only
while no two root sets are targeted. In `MCShell` the second launcher only runs; the
skills of one session share a name; the second
task of `push` stays short; one of two writes is a plain one; steps that no receipt can
see are taken first (`Passing`); guard dialogs and agent turns are those of the first
session; the second task of the overlay is there only in the list of the session, and
the peers' part has one local task, seen on a narrow terminal; only one agent has an
effort of its own; the third tool call writes once the store is full and takes no other
step between; the user's fourth act on the routing is taken with both panels open; a
second launcher shares the home of the first; the homes a launch starts with come in a
few arrangements, so that the left-behind one meets the plainest others; the todo branch has at most one user turn and two results. Each of
these leaves out repetitions of a case that another choice of the same part
still shows. Deadlock is
off where the system may stop: everything settled, every owner done, the last fault
used.

Fairness. In the runner, due timers and microtasks run and Node emits the error of a
failed spawn; nothing is assumed of the child or the user, nor, except in
`ExitFairSpec`, of the exit event, and the watchdog is fair only when the group is
gone, because output may renew it for ever. A parent run that started ends, and a tool
call whose promise is resolved returns. On Windows the helper's timers fire. Whoever
drives a review goes on submitting accepted requests. That the session transport's
shutdown ends was not checked: its fair graph is beyond the time of a run.

## Proofs

Seven modules of proofs, checked by TLAPS, state for every value of the constants what
the runs show on small instances. They use the assumptions on the constants that the
component's module declares and, where named below, one more hypothesis about the
environment. An invariant that is checked is seldom inductive; each proof has a
strengthening of it, named parts of which say what holds between the steps.

Where a definition computes by recursion on a length (`Among` of `CompletionDelivery`,
`Restored` and `Mutations` of `SessionEvidence`), it is a recursive function, and what
it returns is proved from `LeastNumber`: were there a length for which the fact fails,
there would be a least one, and one step of the recursion refutes it.

- `AgentRunnerProofs`. `IInv` says, task by task, how record, slot, stop request,
  timers and process go together (`Placed`, `Stopped`, `Watched`, `Unwatched`,
  `Housed`, `Reported`), with the queue's distinctness, the capacity, the pending
  wake-up and exclusiveness by worktree. `Refinement` shows `Spec => AbsSpec`, step by
  step; `FirstCauseIsKept` is an action property from the same invariant.
- `DeliveryProofs`. `DeliveryInv` says where a settled task is: with the call that waits
  for it, in the queue, or answered, and never in two of these (`StatusOK`, `OwnersOK`,
  `CallsOK`, `QueueOK`, `AnswersOK`). `AnswersAreSingle` follows.
- `ProtocolProofs`. `IpcInv` follows one identifier of `ChildIpc`: fresh until its frame
  arrives (`Arrivals`), what the parent's table says of it (`Table`), and that a frame
  on its way down agrees with what the parent did (`Answers`). `PermissionInv` ties a
  grant on its way to the permission at the time of its request, `PresenceInv` the
  body a reader pinned to the header it selected, and `TransportInv` every listener,
  endpoint and record to the activation that will remove it; `MessagesOK` says where a
  message may still arrive.
- `ReviewAuthorityProofs`. *Lock* (`Caller = "informed"`: a repair is only called for an
  owner that died; finding 2 shows what happens otherwise): what a living process may
  rely on at each point, that a repair's directory is still in place or its
  destination taken for good, and that a destination's name admits one repairer
  (`Fence`). *Store* (`Repairs = "prompt"`: REPAIR runs before the next mutation;
  finding 3): `SlotInv` says where a publication stands, `ReadInv` that what the reader
  may find a second time has been the authority, and lemmas on journals and chains
  (`SuccessorKeeps`) that a successor undoes nothing; `StoreRefines` shows that only the
  second slot moves the authority. *Gates*: every answer about a changed tree carries
  the claim the lineage keeps (`ClaimsRecorded`), and a gate asks under a new key
  (`KeysAgree`). *Repository*: `RepositoryInv`, what a resolver has read of an identity
  file that is written once. *Owners*: `OwnersInv`, that a process at work on a view has
  a marker a sweeper must see. *Candidate*: `CandidateInv`, that an index entry whose
  time would make Git trust it describes the file (`Vouched`), that freezing and the
  frozen tree describe one state of the disk (`FreezingSound`, `FrozenSound`), and that
  the pages read so far are a prefix of the tree (`PagesSound`).
- `ReviewHostProofs`. *Policy*: approval is decided on reasons alone, and `PolicyInv` says
  what the absence of a reason means in each phase (`OrdinaryKnows`, `JudgesKnow`,
  `NothingOpen`); `PolicyRefinesOutcome` shows the refinement. *Consent*: `ConsentInv`
  dates what an await holds by the epoch of its session. *Contract*: what was offered,
  asked and held is of one candidate and authority (`OfferSound`, `AskedSound`,
  `HeldSound`). *Registry*: `Bound`, that a binding names a held view of its lineage,
  preserved by each operation (`~UndoRefusable`: Git does not refuse the undo of a
  promotion). *Capture* (`~Malformed`: an admitted submission answers parseable JSON) and
  *maintenance*: what a report says against what the provider recorded and may still
  record, a killed process included. Both hypotheses have their counterexample under
  "What else the models show".
- `SetupProofs`. *Assets*: what a writer under the lock knows of the manifest and the text
  it read. *Bundle*: a good bundle is in one of the places a recovery looks in
  (`DiskInv`). *Launcher*: what a run, a setup, a crash and a file that cannot be read or restored leave
  of the shared files, and which steps of a bootstrap make a home the launcher's.
  *Routing*: `Routes` and `SettledOK` say what the files give an agent while writers are
  under way; `PinInv`: until a session is `adrift`, this clone's pin
  names no profile somebody is asked to delete, and the new name of a rename under way
  is in the store. Neither
  `RoutingAlwaysSettles` nor `RoutingStaysSound` has a hypothesis. *Skills*: a regeneration that is alone, or follows a refresh that healed,
  writes what the files say, so `RefreshAlwaysHeals`.
- `SessionProofs`. *Metrics*: one attempt holds the slot and one process belongs to it, and
  what it sends was collected in the current epoch. *Frames*: `ExchangeInv` relates the
  decoded prefix to the bytes taken, through any chunks. *Handlers*: `HandlersInv` says
  what each handler in the middle of an await holds, and that the memo it may use is
  dated; `CallsAsked`, that a call past its judgement has no denied part and, with one to
  confirm, the answer of its own dialog. *Host*: what was pushed last against the tasks (`PublisherInv`), what the savers
  of the history hold (`HistoryInv`), what a remediation child was given (`RemInv`).
  *Evidence*: `EvInv`, that the store in memory mirrors what the session file would
  restore (`Mirrors`), that a call on a branch is there once and never records again
  (`Once`, `Past`), that a record between two texts has the text or the patch of its call
  (`OwnText`), and that a wait knows every mutation up to the one it will mark
  (`WaitsOK`).

Only model-checked: the liveness properties (`ChildrenSettle`, `CloseSettles`,
`ReviewEnds`, `ParentHears`), since fairness and ENABLED are beyond the prover, and
`PanelsAreHonest`: it is about four panels that share nothing but the terminal, and its
todo list and rows are computed by library operators that the prover cannot expand.

## Findings

Each is a run that must end in a violation.

1. `runner_quarantine`: `lib/agents-runner.ts:897`. When the cleanup deadline
   passes after the exit event was seen, nothing probes the group again; the slot
   and the worktree stay taken although line 396 tells the caller to wait for
   confirmed cleanup.
2. `review_lock_recovery`: `lib/review-lock.ts:188`. `recover()` reads, proves and
   moves in three steps and does not look again before the move; a lock that
   changed hands in between is moved although its owner lives. The test at
   `tests/review-lock.test.ts:51` says it moves only the observed owner.
   `recover()` is public but called only by tests.
3. `review_store_loss`: `lib/review-transaction.ts:1455`. A publication stops
   after the second slot; its retry is answered from the journal, so nobody knows
   that a slot is behind; the next publication stops after the first slot. The
   three slots differ, no quorum exists, and `writeGraphState` takes the error of
   `readCurrent()` for an empty store: the next START publishes a generation-zero
   root set without the earlier lineages. `tests/review-object-store.test.ts:50`
   says publication preserves old-or-new authority. REPAIR after the first stop
   prevents it. (A repository that also has a compact-v2 store is refused earlier
   by the legacy detector.)
4. `setup_lock`: `bin/gentle-shell.mjs:925`. Two launchers find the stale lock that
   a killed one left; the slower one, past its second look, removes the lock that the faster one has
   just created, and both set the home up. The comment at line 889 says that must
   never happen. (A launcher that lives for more than fifteen minutes does the same
   to its replacer at release, 938-945, which the run's property does not count.)

## What else the models show

Behaviour that a reader of the properties may miss. Each was met as a
counterexample to a stronger property while the model was built; the properties
that are checked are stated around it.

- *Candidate views.* A promotion whose undo is itself refused leaves a lineage
  bound to a view that was removed (`lib/review-candidate-view.ts:1413`);
  `UndoRefusable = TRUE` shows `CurrentIsBound` violated.
- *Consent.* A START that the provider refuses removes the view it shares with a live
  binding, and a binding can outlive its view
  (`extensions/gentle-ai.ts:8481` against the unit promised at 6007). A call that
  reports `mutation_outcome: none` may have created a lineage (8217-8226 with 6277).
- *Capture.* Malformed reviewer output is reported as a failed submission although
  nothing was sent (6709-6728 against `lib/review-host-relay.ts:119-124`).
  `preOperationRevision` is never passed (6343), and RECOVER_LOCK passes an argument
  that is ignored (7900).
- *Contract.* The token of a START is never compared with its binding; the capability
  decoder is used by scripts and tests only; a version-4 START that reviews nothing
  may carry a transition that is not bound to its target.
- *Candidate tree.* Ignored files are part of the checkout's environment, not of the
  candidate, and may differ from what the author had.
- *Launcher.* Setups of two homes that overlap lose a persona; a setup that is killed
  leaves the shared files changed, and so does one that cannot read or restore them
  (635-642); `setup` takes no lock; `config.json` is read and
  rewritten without one (about line 1035); a crash between seeding the settings and
  the ownership marker (about 1095) makes a home look foreign.
- *Assets.* The routing sweep writes outside the lock when the manifest does not know
  the text it read, and a crashed lock is never taken over
  (`lib/sdd-preflight.ts:302-338`).
- *Routing.* The panel saves a stale copy of the profiles, and two open panels can leave
  a pin without its profile; an agent that a profile clears in its own `subagents.json`
  still inherits the entry of the other file, though the comment at
  `extensions/gentle-ai.ts:2270` promises that it inherits; `subagents.json` is read,
  awaited and rewritten (`extensions/gentle-ai.ts:2530`), and replaced by `{}` when it
  is corrupt. A pin shows one routing and launches another for an agent its profile
  is silent about (2225-2229 with `lib/agents-config.ts:307-331`).
- *Session changes.* An edit from outside between the snapshot and the write is
  credited to the session, and so are foreign line endings and what cancels out away
  from the tool's patch (11, 71-73 of `lib/session-change-capture.ts`); an edit whose snapshot found no file is
  not held against its patch (`lib/session-change-capture.ts:69-73`), so that a text from
  outside can be kept as its result; `KeptTextIsOwn` speaks of changes between two texts.
- *Policies.* Two preflights of one project may both prompt
  (`lib/sdd-preflight.ts:998-1055`).
- *Metrics.* `CHILD_METRICS_REVOKED` is never emitted; `DO_NOT_TRACK` vetoes the
  metrics but not the telemetry trigger.
- *Agent host.* On shutdown the last activity is pushed before the tasks are
  cancelled; a widget stays when `setWidget` throws.
- *Overlay.* In a narrow overlay over all sessions, after an empty group was entered or
  the directory was refreshed, the selection may be a task of another group, so that
  Stop acts on a task that the list does not show (`lib/agents-view.ts:436-438`,
  526-536, 565-567).
- *Todo list.* `/tree` moves the branch and no handler of `extensions/gentle-todo.ts`
  hears of it: until the next call the list in memory is that of the branch left.
- *Skill registry.* A watcher opened after the shutdown leaks
  (`extensions/skill-registry.ts:490-525`), and two refreshes may lose a line of
  `.gitignore` (317-331).

## Not modelled

The rest of the user interface (text, layout, editors, threads), the native provider, pi and git (their
answers are the environment's choice), schema validation of single fields, hashing,
file permissions, texts of tool results, accounting of usage, and the release fast
path of `lib/review-publication-gate.ts`. `PROJECT.json` says of every component what
is left out.

Smaller things that the modelled components do and the models leave out:

- a record that `removeOwn()` cannot remove (`lib/agents-session-transport.ts:414`, 450, 546);
- changes of a candidate's worktree after a reviewer was sent to it;
- an asset edited between the reading and the writing of one `copyDirectoryFiles` step, and
  writes of a file that stop half-way, other than those named above;
- a history that cannot be saved: `HostKeepsFaith` speaks of saves that succeeded;
- another session that writes `profiles.json` or `models.json` under an open panel of
  `DeskPanels` (`AgentRouting` has two such writers); a draft that a dismissed dialog throws
  away is not held against the panels either;
- builtin agents, and a `subagents.json` that is not JSON, in `AgentRouting`;
- a home that exists and cannot be listed, which counts as empty
  (`bin/gentle-shell.mjs:1095-1097`);
- guardrail files edited while a confirmation is awaited are read again for the next call
  only, as in the code: the dialog's answer is not judged a second time.

## Plan

Left for later work, in this order:

1. The shutdown of `SessionTransport` as a liveness property, on an instance small
   enough for its fair graph.
2. The STORE descriptor of a destructive reset (`lib/review-object-store.ts`), once a
   caller performs one.
3. The release fast path and the resolution of a publication destination in
   `lib/review-publication-gate.ts`.
4. The components of the user interface that wait for one answer: the question and
   choice tools and the prompt (`extensions/ask-user-question.ts`,
   `lib/shell-prompt.ts`).
