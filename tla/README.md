# Verification of the OpenBKN business-context plugin

TLA+ models of `packages/openbkn-business-context`, the plugin that gives a DeepSeek Harness
(DSH) session governed access to one OpenBKN knowledge network. The repository's other files are
its tests, its build and release scripts and its documents; the plugin is where the system's own
state and control live. Paths below are under `src/packages/openbkn-business-context/src/`
unless they begin with `src/`.

## 1. The system

One DSH process (a *host*) runs many sessions; a live session is an Agent with an event log. The
plugin listens to the session's events, guards the calls of its tools, and talks to the platform
through a Context Loader MCP client, an HTTP reader and the `openbkn` CLI. Several hosts may
share one DSH home. All of it is JavaScript: a piece of code runs alone up to its next `await`,
and everything else may happen there.

| Component | State it keeps | Operations | Interacts with |
| --- | --- | --- | --- |
| Interaction lifecycle (`interaction-lifecycle.ts`) | one record per mounted session: window, conversation, interaction, completed, requireNew | turn start, tool result, replay of the log, the guard's rules | fed by the scoped policy; the log is its only persistence |
| Scoped session policy (`scoped-business-context.ts`) | the mounted policy of an Agent, the lifecycle record | mount, guard, result and turn listeners, removal | DSH tool events; the business owner unmounts it |
| Session binding (`session-binding.ts`, `dsh-session-binding.ts`, `session-binding-store.ts`) | one file per session, one queue of decisions per session | read, bind, inherit, write, prune | the service; other hosts through the files |
| Workspace binding registry (`workspace-binding-registry.ts`) | a table network -> workspace | get, findUnique, put | read when a session is restored |
| Business context service (`business-context-service.ts`) | mounted Agents, profiles, mutations under way, token reads | restore, bind, mount, tool denial, turn-start refresh, remotes | everything |
| Configuration service (`configuration-service.ts`) | the saving flag, the certificate preview | preview, save, install the CLI | refuses while turns or binding mutations run; a save replaces the service |
| MCP manager (`openbkn-mcp-manager.ts`) | the start and reload under way, the mounted client | ensure, refresh | the service; DSH plugins; platform access |
| Platform access (`private-platform-access.ts`, `platform-trust.ts`, ...) | generations, pinned identities | inspect, authorize, revoke | the reader, the MCP client |
| CLI (`auth.ts`, `openbkn-cli-subprocess.ts`) | child processes, the login under way | login, token read, timeout, cancel | the service |
| CLI setup (`cli-setup.ts`) | the installation under way | check, install | the settings panels, through the configuration service |
| Diagnostics (`diagnostics-observer.ts`, `diagnostics-service.ts`) | a bounded buffer of observations, the platform they are about | select, record, report | every operation of the owner; the diagnostics panel |
| Provenance detail (`provenance-detail-scope.ts`) | one request's progress | a guarded stream of events | the platform reader; the browser's consumer |
| Provenance (`turn-provenance.ts`, `dsh-session-provenance.ts`, ...) | nothing but views | find a turn's finished interaction, assemble a view over several awaits | reads the log that the lifecycle governs |
| CSV export, timeline | nothing between calls | re-check the lifecycle around awaits; fold events | the lifecycle; the UI |
| Browser controllers (`client/*-controller.ts`) | request generations, login state | load, login, cancel, bind | the service's remotes |

What makes each correct, and what makes that hard:

- **Lifecycle and policy.** At most one access window per turn; every business call inside it and
  attributed to it; the window closed by a finish for good; the memory of the conversation equal to
  what a replay of the log gives; a judged conversation never continued. Hard because answers get
  lost after the platform acted, the model retries, a result reaches the listener before the log,
  and a process may die between the two.
- **Binding.** A session is bound once; a success that was reported is kept; tools are mounted only
  for a durable binding; a conversation stays in one network over forks. Hard because decisions
  read, then await a write; because sessions move between hosts and are forked at any boundary; and
  because the cleanup deletes what it looked at earlier.
- **Registry.** A workspace has one network; the check and the table's write are an await apart.
- **Configuration.** No save while a turn or a binding mutation runs and none of these starts during
  a save; one owner at a time; a creation during the save must not borrow the exemption of the
  replacement owner's restoration.
- **MCP manager.** One client, of the current owner and token; every caller is answered.
- **Platform access.** An identity is trusted only from an inspection that nothing superseded.
- **CLI setup.** npm runs where the Host found no CLI, once at a time, whatever the panels believe; a panel that
  shows an installation learns of its end.
- **Controllers.** A late answer never replaces a newer one, and a panel never stays busy.
- **Diagnostics.** No check of a replaced platform is shown as the present one's.
- **Provenance.** A value is delivered whole, and of the scene it was asked for.

The hazards, line by line, are listed in `PROJECT.json` with the properties that cover them.

## 2. Modules

| Module | What it is |
| --- | --- |
| `InteractionLifecycle` | the lifecycle's functions: transitions, replay, denial rules, error classification. No state; a guard rule is an operator named for it |
| `ManagedTurn` | a session, its log, its calls and the platform as a state machine; composes `InteractionLifecycle` |
| `GovernedAccess` | abstract: windows open and close, calls are made inside, conversations are held, judged and given up |
| `ManagedTurnProofs` | the theorems about `ManagedTurn` |
| `SessionBinding` | sessions, logs, binding records, decision queues, hosts, mounting and cleanup |
| `SessionBindingProofs` | its types, that binds are kept and followed, and the refinement of `ImmutableBinding` |
| `OneNetworkProofs` | that a conversation of `SessionBinding` stays within one network |
| `ImmutableBinding` | abstract: each session is bound at most once, its tools reach that network only, the binding ends with the session |
| `ConfigurationReload` | settings panels, the save's fence, the business owner that is replaced, turns and binding work on both sides of it |
| `ConfigurationReloadProofs` | the theorems about `ConfigurationReload` |
| `McpManager` | the one Context Loader client behind overlapping `ensure` and `refresh` |
| `McpManagerProofs` | the theorems about `McpManager` |
| `CliSetup` | the Host's installer and the panels that ask for it |
| `BusinessPanel` | the panel in which a user signs in and opens a network |
| `Diagnostics` | the observation buffer, the owners that write to it and the panel that shows it |
| `ProvenanceDetail` | one provenance request: the guarded generator, a faulty stream, its consumer |
| `BrowserPartsProofs` | the theorems about the four modules above |
| `MCManagedTurn`, `MCSessionBinding`, `MCConfigurationReload`, `MCBrowserParts` | instances for TLC; the last runs the four parts of one browser in one run |

### ManagedTurn and the code

`lifecycle` is the record in memory, `mounted` whether the policy is on the Agent, `replay` what
`restoreFrom` makes of the session's log (its left fold, so that appending an event is one fold step
and the log itself need not be kept), `turn` whether a turn runs, and `call` the one call in flight:
*sent* past the guard, *answered* by the host, *settled* when the listener has seen its result and the
log has not. `honoured` and `issued` are the platform's conversations and interactions; the remaining
variables record history for the properties.

- `TurnStart`, `TurnEnd` are the policy's turn listeners. `Dispatch` sends any call the guard lets
  pass. A refused call also emits a result; that folding it changes neither record is the theorem
  `RefusalIsNeutral`, so a refusal is no step.
- `PlatformStart`, `PlatformFinish`, `PlatformBusiness` are the platform's answers; a start's answer
  may be lost after it took effect. `CallFails` is a failure on the way, `PlatformJudge` the answer
  that a conversation is invalid, `PlatformDrops` the loss of one at any moment. The platform is
  external: it is modelled from the outcomes the code distinguishes.
- `Settle` is the result listener with `onToolResult`; `LogResult` is the append after it. DSH runs
  the calls of a step one after the other (the recorded sessions under `tests/fixtures` alternate
  call and result) and runs the listener before the append
  (`src/docs/evidence/2026-09-21-dsh-event-model-static.md`).
- `Mount`, `Unmount` are the policy's effects. `Unmount` needs an idle session because a save is
  refused during a bound turn (`hasRunningTurn`, `configuration-service.ts`); a plugin manager that
  unloads the plugin during a turn is not modelled. `Crash` may happen anywhere and loses the
  memory and an unlogged result.

Identifiers are model values; what a model can send is any identifier it was ever shown or could
have kept. `ContextRequired` says whether the platform's business tools demand `bkn_context` (then
every start discloses both identifiers); without it a platform may leave a turn unrecorded and
disclose none. The `knScope` rule, PTC refusal, unmanaged tools, prompts, the catalogue filter and
the CSV tool keep no state and are left out.

### SessionBinding and the code

`record` is the directory of the store, `queue` the `decisionQueues` of each host, whose head may be
writing; `settled` are decisions whose awaiting caller has still to run; `mounted` stands for the
mounted policies; `status`, `host`, `stored`, `log`, `origin` are DSH's. A network stands for the
pair (platform, network id).

- `Decide` is the part of `bindDshSessionBusinessNetwork` or `inheritForkedBusinessNetwork` up to
  the write, run once the earlier decisions settled; it reads the record and the log again.
  `WriteDone` is the rename, `WriteFails` any failure before it. `AfterRejection` is the tail that
  ignores a rejection.
- `Create`, `Fork`, `Reopen` fire `agent/created`, which starts `restoreBinding`: inheritance, then
  `RestoreContinues`, which mounts or takes the workspace's network (any network, or none: the
  registry is an input). One that goes live while settings are applied is not restored
  (`configurationMutation`). `unrestored` is history: the forks that lost the binding they are due
  (`Missing`), because it was refused, failed to be written or was overtaken by a turn of the fork (DSH
  awaits `agent/created`, but nothing in the plugin relies on it), and what was forked from them.
- `UserBind` is the end of `remoteBindNetwork`, after its checks of identity and visibility;
  `BindContinues` mounts and answers.
- `Reload` is a save: the owner is replaced and restores its live sessions. It is refused while a
  decision is under way (`bindingMutations`).
- `PruneLook`, `PruneRemove` are `pruneOrphans` on both sides of its await. `Exists` is what a
  host's persistence can see: a session that never materialized is seen only where it lives.
- `Close`, `Crash`, `RemoveLog`, `Age` are the environment. The 7-day grace is a flag; it is assumed
  to outlast restorations and sessions kept live without a first turn. `OrderlyRelease` says that
  DSH releases a session only after its decisions settled.

A record that cannot be read or parsed (the code then treats the session as unbound, and the
cleanup keeps the file) is not modelled.

### ConfigurationReload and the code

`saving` is the fence, `save` where each panel's save is between its awaits, `profile` the entry in
the profile, `owner` the business service that `ConfigEditor` takes down and starts again, `op` the
binding work of each session and `turn` its turn. Of a binding only its platform matters here.

- `SaveSubmit`, `SaveAdmit`, `SaveChange`, `SaveWritten`, `SaveDone`, `SaveFails` are
  `saveConfiguration` from await to await; the editor calls `SaveChange` and then replaces the owner
  (`OwnerDisposed`, `OwnerReplaced`, or `OwnerFails`).
- `OwnerReplaced` is the constructor: it restores the live sessions and hands them the exemption it
  read from the fence. `Create` is the restoration of a new one, without it.
- `RestoreInherits` is `inheritForkedBusinessNetwork`, a restoration's first await: an unbound fork
  takes its parent's record with the address in it, which nothing compares with the present one. The
  parents are sessions outside the model, so any address may come of it, or none.
- `RestoreDecides`, `UserBindAsks`, `UserBindProceeds` and `MutationEnds` are the other binding work
  around `configurationMutation`. An operation keeps the owner, the address and the exemption it began with.
- `PreStep` is the hook asked before each step of a turn; `PreStepUnheard` is a step while nobody
  listens.
- `PreviewCertificate`, `PreviewLapses`, `NextTrust` and `ConfirmationHolds` follow a certificate:
  its number stands for its id, and `shown` remembers the address it was shown for. A panel submits
  a confirmation or a removal, never both, as `CertificateControl` does.

`MaxOwners` bounds the owners replaced, `MaxPreviews` the previews shown.

### McpManager and the code

`client` are the clients mounted so far, `fiber` the one the manager holds, `starting` and
`reloading` its two promises, `call` where each caller waits. A call waits for a promise, and is
resumed when it settles: what is resumed (`Ready`) runs before anything that takes the network, as
JavaScript runs its microtasks. `TrustResolves`, `TokenResolves`, `MountFails`, `MountReturns` are
`start` from await to await, `RefreshResumes`, `Disposed`, `Remount` a reload. A client remembers the
identity it was mounted over (`over`) and the identity its token was granted under; `Reaches` is the
comparison in `fetchForGeneration`. `deployed` says that the deployment publishes the tools itself.
The platform-access profile is assumed, so every client has a certificate to speak of.

### The four parts of a browser

They share no state, so `MCBrowserParts` runs each beside three that stand still.

- `CliSetup`: `run` are the installations performed, `running` the one that `check` and `install`
  see, `panel`, `probe` and `asked` a panel's controller, its inspection under way and its request.
  `LooksAgain` is the second inspection, `StartsNpm` what follows it; `NpmEnds` fails with the package
  there or not. `UserChangesCli` is the user, who installs or removes a CLI at any time. An inspection
  is one step, although its last commands (npm's prefix, Node's version) run after it has looked for
  a CLI: what the user does during these counts as done after the look.
- `BusinessPanel`: `conn` is the bridge's connection to the owner, `ui` what is shown, `op` the one
  operation whose answers are still looked at (the controller's revision). Guards of the user's
  actions are those of the overlay. The panel can only be opened when it is shut, the overlay being
  modal; `configureToken` is offered by no view and left out.
- `Diagnostics`: a check is its subject and the buffer's generation when its operation began, so a
  writer's refusal can be told from a record. Only `cliFailure` takes its writer late, when the
  owner's signal has been looked at.
- `ProvenanceDetail`: a value is its number of chunks, and an event the scene in which it was sent;
  `Guard` is the comparison around every await, `Faulty` loses, repeats or swaps events. An analysis
  that ends early settles with null, as the consumer does.

## 3. Runs

| Run | Instance | What it shows |
| --- | --- | --- |
| `managed_turn` | 2 conversations, 3 interactions, `bkn_context` required | the properties of section 4, the refinement of `GovernedAccess` among them; 61,000 states |
| `managed_turn_unrecorded` | the same, unrecorded turns possible | windows without an interaction id are governed as strictly |
| `one_interaction` | as `managed_turn` | **violated**: one interaction per accessing turn |
| `one_renewal` | 3 conversations | **violated**: one reopened conversation per turn |
| `session_binding` | 1 session, 2 hosts, 2 networks, logs of 2 events, 2 queued decisions | what a bind reported is kept, what is mounted is durable; refines `ImmutableBinding`; 15,451 states |
| `session_forks` | a session and its fork, 1 host, 2 networks, logs of 2 events | one network per conversation unless the fork's inheritance was missed; 3.0M states |
| `session_released` | 1 session, 1 host, closed while decisions run; fairness | the queue orders decisions over reopenings, and every restoration ends; 36,631 states |
| `one_network` | as `session_forks` | **violated**: one network per conversation |
| `configuration_reload` | 1 session, 2 panels, 2 addresses, 2 owners, 2 previews | a save and what runs beside it; 3.5M states |
| `mcp_manager` | 3 calls, 2 credentials, 2 identities; fairness | one client, of one identity and a live owner, and every call is answered; 134,000 states |
| `mcp_refresh` | 2 calls, 2 credentials, 1 identity | **violated**: a refresh ends with the current credential |
| `browser_parts` | 2 panels, 2 versions, 3 owners, 2 addresses, values of up to 3 chunks, 2 faults; fairness | the four parts of a browser; 837,000 states |

**Bounds.** Turns are unbounded in `ManagedTurn`: the counters of a turn (windows, finishes,
renewals) saturate at 2, enough to tell "at most one" from "more"; turn numbers are not kept. Two
conversations let one be judged or lost while another is held; three interactions let a retry and
a stale identifier from an earlier turn coexist. The larger instance with 3 conversations and 4
interactions was also checked (3.9M states). In `SessionBinding`, two networks are enough for two
binds to disagree, two hosts for a cleanup that cannot see the other's session, logs of two events
for a fork on either side of the bind with a turn of its own afterwards. `MaxEvents` bounds a log,
`MaxPending` the decisions queued for a session, `Aging` the sessions whose records may pass the
grace (in `session_forks` none, which keeps that run small), `Originals` the sessions that are no
forks. A chain of forks needs three sessions.

In `ConfigurationReload` one session is enough, since sessions meet only in `hasRunningTurn`, which
asks for any; two panels confirm each other's previews, two owners are one replacement. The theorems
of section 5 hold for every instance. In `McpManager` the third call is what overlaps a reload and a
start at once; two identities and credentials let each change once at any step. In the browser parts
two panels or loads are what can supersede one another; three owners let one be replaced while the
panel is shown and again while it loads; a buffer of one check is full at once; three chunks can be
swapped at either end, repeated, or lost in the middle, and two faults can combine. Deadlock is not checked
where the bounds, or users who ask for nothing more, let the model stop.

**Fairness.** Everything but `RestorationEnds`, `CallsEnd`, `PanelLearnsTheEnd` and `ComesToRest` is
safety. `FairSpec` of `SessionBinding` assumes
that a decision whose turn has come is taken, that a file write ends (in success or failure), and
that the continuation of a restoration runs: the event loop runs what is ready, in order. Nothing is
assumed of users, of DSH or of the continuation of a user's bind, and no symmetry is used there.
`McpFairSpec` assumes that what the manager awaits settles in some way and that what is resumed
runs: DSH's plugin and the platform's requests have time limits. `SetupFairness` assumes that the
Host works off what it was asked (each of its commands has a time limit), that answers arrive and
that the poll's timer fires; `PanelFairness` that the overlay's effect runs, that remotes answer and
that the login's timer fires. The sign-in in the browser and the choice of a directory are up to the
user, and are not assumed to happen.

### Disagreements between the code and what is said of it

- `one_interaction`: a start that took effect and whose answer was lost may be retried in the same
  turn, so a turn can have two interactions on the platform; the comment says one.
- `one_renewal`: the same for a `new` after a judgement; the comment says one controlled renewal.
- `one_network`: a fork that goes live while settings are applied, or whose inherited record cannot
  be written, is left unbound and may be bound to another network than its inherited turns ran
  under; the repository's README promises one immutable scope per conversation.
- `mcp_refresh`: a refresh joins a start or a reload that had resolved its token before the rotation
  the refresh was called for, and reports success with the older credential mounted; the comments
  say the mounted secret never outlives its credential. What does hold is `ReloadReconnects`: a reload
  carries no older credential than when it began.

## 4. Properties

`ManagedTurn`: `TypeOK`; `OneWindowPerTurn`; `FinishOncePerTurn` (on which the provenance reader
relies to find a turn's interaction); `NoAccessOutsideWindow`; `AccessIsAttributed` (a business
call to a platform that requires `bkn_context` names an interaction of this turn and its own conversation); `ReplayIsExact` (memory and
replay agree whenever no result waits for the log); `JudgedNeverContinued`; `NothingForgotten`
(an adopted conversation not judged is the one the log holds); `AdviceIsAdmissible` (a denial never
prescribes what another rule refuses in the same state); `ImplementsGovernedAccess`.

`SessionBinding`: `TypeOK`; `ToldIsKept`; `MountedIsDurable`; `OneNetworkUnlessUnrestored`;
`RestorationEnds`; `ImplementsImmutableBinding`, under which the record of a session that still
exists is never removed or replaced, by any host.

`ConfigurationReload`: `ReloadTypeOK`; `OwnerRetiresQuietly` (no owner is taken down over a binding
write or a turn it let through, which is what `Unmount` in `ManagedTurn` and `Reload` in
`SessionBinding` take for granted); `ExemptionIsTheRestorations`; `TrustIsConfirmed`;
`FenceIsTheSaves`; `BoundForTheProfile` (a network that is chosen is bound under the address the profile
has when it is written, and no binding at all is written while an owner is taken down). A fork of
a session bound before the address changed is bound under the former address; the code means it to be,
and gives it no tool until that address is configured again (`scoped-business-context.ts:358`).

`McpManager`: `McpTypeOK`; `OneClient`; `NoneForADeadOwner`; `GrantOnItsConnection`;
`AnsweredByALiveClient`; `ReloadReconnects`; `CallsEnd`.

Browser parts: `NpmRunsAloneOnNothing` (what npm may write over is only what the user installed after the
Host's own look, which the code cannot notice) and `PanelLearnsTheEnd` (`CliSetup`); `ReadyIsCurrent` and
`ComesToRest` (`BusinessPanel`); `ReportsThePlatformAsked` (`Diagnostics`); `WholeInItsScene`
(`ProvenanceDetail`, for a value sent at once as for one in chunks).

Each property of a passing run has a mutant in `PROJECT.json`: a definition of the code's changed
as a bug would change it, under which TLC finds the property violated.

## 5. Proofs

`ManagedTurnProofs` proves, for any sets of conversations and interactions, that `ManagedTurn!Spec`
implies each safety property of the `managed_turn` run, and that it implements `GovernedAccess`. The assumptions are the two named ones of `InteractionLifecycle`:
`NULL` is no identifier, and `ContextRequired` is a Boolean.

None of these properties is inductive. The invariant `SessionInv` that is has seven parts, each
checked by TLC before it was proved:

- `TypeOK`;
- `WindowInv`: what a call in flight implies about the record (`CallInv`), because a result changes
  it long after the guard passed the call, and how the record's count of starts, its window and what
  the turn has seen relate (`TurnInv`);
- `ReplayInv`: the replay is the live record, except for the one settled result, and between turns as
  far as the conversation goes; a log nobody listens to holds no open window in a running turn;
- `JudgedInv`: a judged conversation is gone on the platform, is held by neither record and cannot
  come back with a result on its way;
- `AttributionInv`: the identifiers in the window, in a start's result and in a business call were
  issued in this turn and belong together;
- `MemoryInv`: a session that may create a conversation holds none, and a result names none but the
  one held;
- `AdviceInv`: where the platform requires `bkn_context`, an open window has both identifiers, also
  between turns and after a replay, and so has the answer that will open one; a judged session that has
  not started again holds no conversation. A denial is advice about a state, so the invariant says what
  every reachable record has and the lemma `AdviceAdmitted` goes through the guard's rules one by one.

`SessionInvariant` proves `Spec => []SessionInv` with one step per action; the state properties
follow from it conjunct by conjunct. `SessionIsGoverned` maps each
action to an action of `GovernedAccess` or a stutter. `RefusalIsNeutral` stands alone, and is what
entitles the model to leave refused calls out.

`ConfigurationReloadProofs` proves, for any numbers of sessions, panels, addresses, owners and
previews, every property of `configuration_reload`. The assumptions are the two of the module: the
bounds are numbers, and `NULL` is no platform and no record. The inductive invariant `IInv` joins
the properties with what ties them together: which owner an operation under way belongs to, that its
address is its owner's, that the owner's profile is the stored one unless a save has just written
it, that an exempt operation is a restoration of a session its owner found, that nothing past its
admission is under way unless its owner lives (which is why no binding, chosen or inherited, is
written after the take-down began), and that what a save is about to write was quiet when it was
decided and stays so, since the fence keeps out whatever would make it busy.

`McpManagerProofs` proves, for any calls, credentials and identities, every safety and action property
of `mcp_manager`. It assumes that the two bounds are positive numbers and that `NULL` is no
promise. `McpInv` adds four parts to the type and the state properties:
`StartsAlone` (a start finds every client gone until it has mounted its own, which is why two never
overlap), `HeldIsLive`, `GrantsGrow` (the identity a client is mounted over was read before its credential
was granted, and the platform's grants only grow) and `ReloadsWait` (a reload has the start to itself
up to the one it remounts with). The two action properties need more than the invariant: which steps
settle a start or a reload, and with what result (`StartSettles`, `ReloadSettles`).

`BrowserPartsProofs` proves the safety property of each of the four parts of a browser, for any number
of panels, owners, addresses, operations, loads, chunks and faults, from the assumptions of their modules (bounds are
numbers; the value that stands for "none" is none of the others). Each part has an inductive
invariant of its own: `SetupInv` (the installation that is not over is the one `check` sees),
`PanelInv` (while a call that reads the business is under way its owner is the connected one, since
every change of owner ends the call), `DiagInv` (the checks in the buffer are of its generation, a live
writer is of that generation, and what the panel waits for was answered no earlier than it
was asked for) and `DetailInv` (what the stream holds, whatever it repeats, loses or swaps, was sent by the generator in
the state it is in, and what was collected is in order).

`SessionBindingProofs` proves, for any sessions, forks, hosts, networks, queues and logs, that
`SessionBinding!Spec` implies `TypeOK`, `ToldIsKept` and `MountedIsDurable`, and implements
`ImmutableBinding`. Each theorem assumes `Exclusive`: `OrderlyRelease`, or only one host on the DSH home.
Without it a session could be released to another host while it is being bound, the other host bind
it too, and the later rename win; with one host the queue of the store orders the two. The instances of
`session_binding`, `session_forks` and `session_released` all satisfy it. Of the constants it assumes that
`NULL` and "conflict" are no networks, `NULL` no session or host, and that a log may hold an event. `BindingInv` adds to the
properties: `PendingInOnePlace` (decisions are pending only on the host that has the session, or on the only one),
`WritesWhereUnbound` (only the first decision of a queue writes, began to while the session was
unbound, and writes what was asked), `SettledIsBound` (a bind that has settled found, or left, its
network) and `OldIsStored` (a record that may be taken for an orphan's has a log, or its session is
gone). The step that needs them all is `WriteDone`: since the session is unbound when the record
appears, nothing was told or mounted for it. `AbstractSteps` maps `WriteDone` and a fork's birth to `Bind`,
mounting to `Activate`, and `Close`, `Crash`, `RemoveLog` and `Reload` to `End`; the rest stutters.

`OneNetworkProofs` proves `OneNetworkUnlessUnrestored` from the same assumptions, for forks of forks and
any host's crashes and cleanups. What a conversation may use is spread over the logs and records of
several sessions, so `NetworkInv`, added to `BindingInv`, says of every session that is not `unrestored`:
each turn of its log is accounted for (`Explains`) by the log's own binding event or by the session's
record, which was then made before that turn; or the session is a new fork whose first decision will copy
its parent's record (`Inheriting`), that record accounts for the turns, and nothing can remove it
meanwhile, not even the cleanup when the parent's log is deleted. `Shape` bounds every record and
every record about to be written by the log it belongs to, which is what makes `boundAtSeq` comparable
with a fork's inherited prefix. The attempt to prove it showed that the model had let a fork's first
turn overtake its inheritance without counting it as missed: after a crash the parent's log may go, its record age
and be pruned, and the reopened fork bind another network. No instance within the runs' bounds got that
far; `LogTurn` now counts it.

Model-checked only is what the prover cannot reach, the liveness properties (`CallsEnd`,
`PanelLearnsTheEnd`, `ComesToRest`, `RestorationEnds`): every invariant, action property and refinement that
a passing run checks is a theorem.

## 6. Not modelled

Most of the plugin's lines are the browser's views and their wording (`client/*.tsx`,
`client/platform-provenance/`, the locales: about two thirds of it), which render a state and keep
none that others read; their share of the code is why the models cover a small part of its lines.
What a view enables or starts by itself is a guard or a fair action of `BusinessPanel`. Also left
out, with the reason in `PROJECT.json` for each component:

- *Pure data:* the turn timeline, the business graph, the provenance views, prompts, validation of
  requests and records, CSV layout, report layout. They are functions of their input, and their unit
  tests compare them with recorded data.
- *The platform and the Host's own services:* HTTP, X.509 and certificate pinning, DSH's subprocess
  service (timeout, kill and exit of a child process), its storage domain, its loader. They are not in
  the repository, or are I/O; the models take their outcomes as inputs.
- *The workspace registry:* whether two puts interleave is decided inside DSH's table. Restorations
  take any association.
- *The synchronization of the CLI's credential* (`synchronizeCliCredential`, `resolveOpenBknToken`):
  with an access profile every request reads the CLI again, so a stale vault entry is not used; the
  identity checks around it are those `McpManager` models for a client.
- *The suggestion dock and the turn-provenance controller:* their epochs follow the pattern of
  the diagnostics panel.

Liveness under fairness, and the composition of the browser's parts with the host's, are only
model-checked.
