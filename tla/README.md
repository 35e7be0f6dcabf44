# way-displays in TLA+

way-displays is a small daemon that keeps the displays of a wlroots compositor
arranged as the user configured them. It listens to the compositor's
`wlr-output-management` events, to its configuration file, to the laptop lid and
to an IPC socket, works out what state every display should have, and sends the
compositor configurations until the displays have it. This directory holds a
model of that program, model-checked with TLC and proved about with TLAPS.
`PROJECT.json` lists the components, the runs, the mutants, the hazards, the
theorems and, for every definition, the source lines it models.

## 1. The system

### Components, state and operations

| Part | State | Operations | Correct when |
|---|---|---|---|
| server loop (`src/src/server.c`) | `g_displ`, `g_cfg`, `g_lid`, `ipc_operation` | one iteration: poll, dispatch wayland events, cfg file, lid, one IPC request, `act`, notify the IPC client | no input is lost whatever order inputs arrive in; a client is told `done` when, and only when, the work is over |
| act (`act.c`) | `g_displ->state`, `delta`, `g_cancellation_retries` | `act`, `act_apply`, `act_handle_success`, `act_handle_failure`, the retry of a cancellation | one configuration at a time; an answer is charged to the change it is about; no refused mode is asked for again; it comes to rest |
| desire (`desire.c`) | `head->des`, `head->overrided_enabled`, `head->scaled` | `desire`, `desire_enabled`, `desire_mode`, `desire_scale`, `desire_transform`, `desire_adaptive_sync`, `desire_reapply`, `desire_order`, `desire_positions` | the desire follows the configuration, the lid and the overrides; the only display is never disabled by the lid |
| heads (`head.c`) | `struct Head`: modes, failed modes, preferred mode, override, reapply flag, current and desired state | release a mode, prefer a mode, reapply, toggle an override, compare current with desired, find the mode | a mode that has gone is never desired |
| modes (`mode.c`) | none | `mode_max`, `mode_best_satisfying`, `mode_max_refresh`, ordering | the largest size at its highest refresh, whatever the order of announcement |
| listeners (`listener/`) | the above | one handler per event of the output manager, head, mode and configuration | the server's view follows the compositor's |
| configuration (`cfg/cfg.c`, `condition.c`, `disabled.c`) | `g_cfg` | defaults, validation, migration, merge of SET, DEL, TOGGLE, conditions, DISABLED | complete and consistent after any sequence of reads and merges |
| configuration file (`cfg/file.c`, `fds.c`) | `g_cfg_file`, the directory watch, the candidates | init read, reload, write with its fallbacks, recognise an event | a written file restores the configuration; the server's write is not taken for an edit, nor an edit for a write; the file in use is the one watched |
| lid (`lid.c`) | `g_lid`, the libinput monitor | discovery at start-up, update from switch events, release | the state follows the switch, whenever its events are read |
| IPC (`ipc.c`, `sockets.c`, `client.c`) | one operation in progress, descriptors, time-outs | accept, read, filter, merge, respond, turn away, close | one last response for every request, a status that tells what happened, no descriptor lost, nobody waits for ever |
| command line (`args.c`, `cli.c`) | the request being made | options and their arguments | what the user asked for is what the server reads |
| YAML (`yaml/`), enums (`enum.c`) | none | write and read configurations, requests and responses, both versions of `cfg.yaml` | what was written is what is read |
| process (`process.c`) | the pid file, its lock | create, lock, write, look for the active server | one server per session, and clients find it |
| registry, xdg outputs (`listener/registry.c`, `zxdg_output.c`, `output.c`) | proxies, `g_displ->outputs` | bind, remove, release | every proxy is released once, in whatever order globals come |
| logging, callbacks (`log.c`, `info/callback.c`) | threshold, suppression, captured lines | log, capture, play back | no line lost, doubled or judged by the wrong threshold |
| containers (`lib/alex-c`) | lists, sets, maps | add, replace, remove, iterate, convert, sort, compare, free | an ordered collection; every object freed once |
| printing (`info/`), regex (`regx.c`) | none | text out, one library call | - |

### Interaction

Everything in the server runs in one thread, so concurrency is between the
server and the compositor, the user, other clients of the compositor and IPC
clients. Three things make it hard.

* The server sees the compositor through a queue of events. What it decides is
  decided on an old view; the `serial` of the `done` event protects it, and the
  compositor cancels a configuration that was made from an older view.
* `act` runs once per iteration of the loop, after an unknown number of events.
  The answer to a configuration, the events that describe its effect and the
  departure of the display it was about may be dispatched in one iteration or in
  several, in any split.
* A change is spread over several configurations (reapply, then a mode, then
  adaptive sync, then scale, position and the rest), each of which may be
  applied, refused or cancelled; meanwhile the configuration file, the lid and
  IPC requests change what is desired.

The hazards are listed with their lines in `PROJECT.json`; each property below is
aimed at one of them.

## 2. Modules

| Module | Models | Built on |
|---|---|---|
| `Mode` | `mode.c`: comparison, matching and choice of modes, `head_find_mode` | - |
| `ModeScan` | `mode_max` as the loop it is | `Mode` |
| `Cfg` | `struct Cfg` as far as it decides a desire, conditions, DISABLED, the merges of DISABLED and VRR_OFF | `Mode` |
| `HeadState` | `struct Head`, the operations of `head.c`, the per-head part of `desire.c` | `Cfg` |
| `Protocol` | the event queue, the configuration under way, the inputs counter: what server and compositor share | `HeadState` |
| `Displ` | the server: listeners, `desire`, `act`, the inputs of the loop | `Protocol` |
| `Compositor` | the compositor (external): plugging, withdrawn modes, other clients, applying, refusing, cancelling, reporting | `Protocol` |
| `WayDisplays` | server and compositor together, the specification, fairness and all properties | `Displ`, `Compositor` |
| `CfgMerge` | the whole of `struct Cfg` that requests change: defaults, validation, migration, merges, and what a `cfg.yaml` holds of it | - |
| `CfgFile` | `cfg.yaml`: candidates, reading, reloading, writing, the watch and the `written` flag, with a user who saves at any moment | `CfgMerge` |
| `Layout` | the arithmetic of `desire.c`: scale, size, ORDER, positions, as the loops compute them | - |
| `Fn`, `Arrays`, `Plist`, `Pset`, `PPmap` | `lib/alex-c`: objects in memory, the arrays, the pointer list, set and map | each on the one before |
| `Containers` | a caller and one container of any of ten kinds, the string and number wrappers among them | `Plist`, `Pset`, `PPmap` |
| `Collection` | what a container promises: a sequence of entries | - |
| `Enums`, `YamlNode`, `Yaml`, `YamlIpc` | names and values; YAML trees; configurations as YAML; requests and responses as YAML | each on the one before |
| `Args`, `Messages` | the command line; a request and its answers from the command line to the exit status, and `cfg.yaml` read and written | `YamlIpc` |
| `Session` | server and client processes, the pid file, the socket, connections and time-outs | - |
| `Log`, `Service` | the log; start and end of the server: log, lid, registry, outputs, descriptors, signals | `Log` |
| `Exchange`, `Requests` | abstract specifications: what the user of a display may rely on, implemented by `WayDisplays`; what clients may rely on, implemented by `Session` | - |
| `WayDisplaysProofs`, `MirrorProofs`, `ScreenProofs` | theorems and proofs: heads, types and the configuration under way; what the server knows of the displays; what the screens show, and the refinement of `Exchange` | `WayDisplays`, each on the one before |
| `DesireProofs`, `CfgFileProofs`, `SessionProofs`, `ServiceProofs`, `ContainersProofs` | theorems and proofs of `ModeScan` and `Layout`, and of the module they name | that module |
| `MCWayDisplays`, `MCDesire`, `MCCfgFile`, `MCContainers`, `MCMessages`, `MCSession`, `MCService` | the instances TLC checks | `WayDisplays`; `ModeScan` and `Layout`; the module they name |

`WayDisplays` and `CfgFile` meet in `g_cfg`. The first takes a reload or a merge as
a jump to another configuration, and keeps of it what decides a desire; the second
models how that configuration comes about, and leaves the displays out. `Yaml` has
every element of it, and what becomes of each in a file or a message. `WayDisplays` keeps
positions symbolic and takes for granted that they are a function of what they depend on; `Layout`
has that function. `Session` knows whom a message goes to and `Messages` what it
says; both leave what the server does about it to the others.

### How the model corresponds to the code

*State.* `heads` is the key set of `g_displ->heads`, `hd[h]` the `struct Head` of
the wayland object `h`, with `cur` and `des` as in the code. `state` and `delta`
are those of `g_displ`; `delta.head` may name a head that is no longer in
`heads`, as the pointer does. `phase` is how far the iteration of the loop has come:
`act` may run in any phase but `poll`, and leads back to `poll`. `alive` says
whether the process runs, and if not, why.

*Actions.* There is one action per listener (`HeadAdded` ... `cancelled`), one
per branch of `act` (`ActIdle` ... `ActGiveUp`) and one per input (`g_cfg_file_reload`,
`g_lid_update`, `Ipc...`, `Signalled`). A branch of `act` includes the `desire` and
`act_apply` that follow it and the notification of the IPC client that ends the
iteration. The first head that `ppmap_find` returns in `act_apply` is any of the
matching ones: the order of arrival decides nothing else.

*A freed head.* `displ_finished_head` frees a head and leaves `delta.head`.
Following the pointer afterwards is undefined; the model allows the two outcomes
a build can have: the process crashes (`ActCrash`), or the write has no effect on
any live head (`ActSucceeded` and `ActFailed` under `Dangling`).

*Abstractions.*

* A NAME_DESC string is the set of heads it matches.
* Scale and transform are one value of `Scales` per head and configuration; their
  arithmetic is in `Layout`.
* A position is symbolic: the set of (head, mode, scale) placed before a head in
  ORDER, from which ARRANGE: ROW and ALIGN: TOP sum it. Two positions are equal
  when those are.
* The serial is modelled by its purpose: a configuration is `stale` when the
  compositor has sent a `done` the server had not received when it made it.
* Of `g_cfg` the model keeps DISABLED with its conditions, VRR_OFF, MODE, the scale
  value, ORDER and LAPTOP_LID_MONITOR. Of the requests it keeps SET, DEL
  and TOGGLE of DISABLED and VRR_OFF, and REAPPLY.
* Every head object is announced at most once; plugging a display in again
  makes a new object in the code, here another member of `Heads`.

*The configuration file.* `disk[p]` is what candidate `p` holds: nothing, a text that
cannot be read, or the elements it sets. `pending` is an unread IN_CLOSE_WRITE of the file,
`ready` the `revents` of the watch, `edited` a history variable: the user saved the
file since the server last read or wrote it. The two closes of a write
queue events that one read of the watch takes together. A write
has one of four outcomes for each candidate: done, lost without being reported (`fs_file_write`
looks at `fclose` only), stopped after the comment, not possible. A MODE is
written as MAX, or as MAX_PREFERRED_REFRESH, or as a size, so a mode that has
several of them is not restored as it was; `FileRestores` says so by `yaml_map_from_cfg_modes`.
NAME_DESC strings are names with a relation `Clashes` for the textual matches of
`cfg_disabled_cond_with_name_desc`, and which entries the heads take as overrides is left open. The user
saves between steps of the server, not between the two halves of a write, and a
directory that cannot be watched (which ends the process) is left out.

*The layout.* A `wl_fixed_t` is an integer in 1/256, a double a fraction, so that every
truncation and rounding of the code is there and nothing else is; `scale_round_to` is one of the values that
can be configured, all powers of two, for which doubles are exact. Each turn of a loop of `desire` is a step,
over several rounds, because `scaled` and a disabled display's scale survive from one
round to the next. `fill_order_bucket` tries one candidate at a time; a match is removed under the iterator, which steps
back so that the next one is not skipped (`AfterRemoval`). A display that was disabled keeps its scale, and a larger SCALE_ROUND_TO may have no step
for it: the code then converts an infinite double to an integer (`desire.c:162`), which is undefined. The constant `INF_TO_INT32` is what
the build makes of it, any integer in the proofs.

*The containers.* Memory is a set of live addresses; `heap.bad` records a free of what is not
live. The caller follows the ownership rules of the headers: it hands over new objects where the container does not copy,
frees what a call returns to it, and does not let `*_free` run on an entry that another entry shares.
`Collection` is the abstract specification, and `IsCollection` its instance under the mapping from the first `size` slots of
the arrays to entries.

*Messages.* A YAML document is a tree of scalars, sequences and mappings. A scalar is a word or a number in units of
1/100000, written with the six digits of `%g`. Reading and writing are two separate sets of operators, translated each from its own
file, so that a round trip is a property and not an identity.

*The session.* A step is a system call or a handler between two calls that may wait. A process may be
killed between any two. `fd0` is descriptor 0 of a server, which an unreadable request closes by
mistake and which `accept` may give out again.

*The service.* One variable, `stage`, is how far `server()` has come; each stage may fail or be killed where the code may.
The compositor announces its globals in one of `Greetings` and adds and removes outputs afterwards. A line of the log is its number and
threshold. The lines captured while the file is read are played back one at a time (`it`), and the process may be killed between two.

*Abstract specifications.* `Exchange` has the change asked for, how far it is, the screens and the refused modes. `Stage` is its view of
`WayDisplays`: asked while the compositor has the configuration, applied once it took effect, then the answer, from the moment it is
queued until `act` has dealt with it. `Requests` has the requests taken, the one being worked at and what each client was told,
whatever servers come and go; in `Session` they are `processed`, the client of the operation in progress, and `rc`.
`Collection` is described with the containers.

`Scenario` is the set of things the environment may do in one model (unplug,
refuse a mode, reload, ...), so that a run can aim its bounds at one question.
The proofs hold for every `Scenario`, but for three theorems whose hypothesis excludes something (section 5).

## 3. Runs

Bounds: one or two heads, one to three modes each, `MAX_CANCELLATION_RETRIES` 1 or
2 where the code has 5, at most `MaxInputs` (0 to 2) inputs. Two heads are what
conditions, positions and the lid need; three modes are what a refused mode, a
withdrawn mode and a remaining one need; the retry counter is only compared with
its limit, so 1 reaches every branch. Deadlock is not checked there: the server
rests in `poll` when nothing happens. In `cfgfile` it is, since `poll` may return for
other reasons at any time; two candidates show every fallback (none, another, the old one
after a total failure needs a second write), and two saves and two requests every order of
save, write and event.

| Run | Checks | Shows |
|---|---|---|
| `hotplug` | `TypeOK`, `OneConfiguration`, `ScreensAsDesired`, `LonePanelLit`, `AppliedExists` | a panel and an external display that arrive and depart at any moment while modes are withdrawn and the lid moves: at rest every screen shows what is desired, and the lone panel is lit |
| `refuse` | `ChangeIsEnabled`, `DeltaMatchesConfig`, `IsExchange` | modes or adaptive sync refused, applied silently or ignored, a display that arrives disabled, REAPPLY, a signal: every answer is charged to its change, a change refused leaves no trace and is not asked for again (`IsExchange` includes `RefusedNotAskedAgain`) |
| `requests` | `ScreensAsDesired`, `IpcDoneWhenApplied` | the file is reloaded, DISABLED and VRR_OFF are set, deleted and toggled over IPC and the lid moves under way: the last configuration ends up on the screens, and `done` is said only when nothing is left to change |
| `settle` | `Settles`, `IpcAnswered` | under fairness the server comes to rest and every IPC client gets its last response |
| `desire` | `MaxOfSeen`, `Tiled`, `OrderAsListed`, `AutoScaleInRange` | `mode_max` over every order of four modes; the layout of three displays under 31 configurations, any two in a row with any displays on |
| `cfgfile` | `ValidCfg`, `FileRestores`, `WrittenHasEvent`, `WatchFollowsFile`, `OwnWriteNotReloaded` | two candidates, a user who saves or removes them twice, two requests, every outcome of a write |
| `containers` | `Ownership`, `VisitsEach`, `SortSorts`, `EqualIsSame`, `ConversionsKeepOrder`, `IsCollection` | ten kinds of container up to three entries (the arrays grow twice, from 1 by 1), three texts two of which differ in case only, every call; sorting up to 6 entries of three texts and NULL with both comparisons, so that the gaps 4 and 1 are used (the proof has every length) |
| `messages` | `RequestSurvives`, `ResponseSurvives`, `Answered`, `WrittenReadsBack`, `PlainSaysTheSame` | every command and element on the command line, arguments too few, too many and wrong; files of both versions with good and bad entries; one or two answers read together or apart |
| `session` | `OneServer`, `StatusTellsTruth`, `NoLeak`, `NobodyHangs`, `IsRequests` | two servers, two clients: every interleaving of starting, locking, serving, dying, connecting, being silent, leaving; to the clients it is one server that takes requests one at a time |
| `service` | `StartupLogged`, `LidTracked`, `Released` | thresholds from command line and file, the lid moving at any moment, globals in several orders, failures of each step, three events |

In `containers` TLC identifies states that differ in addresses only (`VIEW View`); every property speaks of
addresses up to renaming. In `session` all requests can be read; what an unreadable one does is the
subject of `doc_bad_request`. Numbers in `desire` are small (lengths of 17 to 47 pixels) and chosen so that no
scale but 1 divides them: what can go wrong is in the remainders.

Fairness (`FairSpec`, used by `settle` and `doc_reapply`): `poll`
returns while events are queued and the loop always ends in `act`, so dispatching
and `act` are weakly fair; the protocol obliges the compositor to answer every
configuration, and it reports its changes. Nothing is assumed of users, of other
clients or of plugging. In `Session` a server that has started goes on, past each wait
for a client by the time-out of its socket, and a client reads what is there; that clients write, are
patient or leave is not assumed, and their own time-out is not relied on.

## 4. Where the code and its documentation disagree

Two runs state what a comment says and find it violated.

* `doc_departed_head` - "only stops when signalled or display goes away"
  (`server.c:235`). A display is unplugged after its change of mode was answered; both are
  dispatched in one iteration and `act` follows `delta.head` into freed memory.
  The same property is also broken by design: a refused configuration of
  kind OTHER or REAPPLY ends the process (`act.c:111`).
* `doc_bad_request` - `bad` is "used by server on receipt of bad message" (`ipc.h:23`), with
  the status IPC_BAD_REQUEST. Nothing sets it. A message that cannot be read becomes a request
  with `socket_client` 0 (`ipc.c:157`): its response goes to descriptor 0, which is closed, the client's descriptor is lost and the
  client waits for its time-out. A later connection may get descriptor 0, and then somebody else's response.

The same kind of disagreement, each refuted by TLC. The first two have a configuration of their own beside the runs;
for the others, replace the properties of the configuration named by the one named:

* `doc_reapply` (`MCWayDisplays`, `ReapplyDisables`) - REAPPLY "Disables all displays" (`way-displays.1.md:188`). The
  flag is cleared when the configuration is sent; when it is cancelled, the retry
  does not disable anything.
* `doc_vrr_off` (`MCWayDisplays`, `VrrOffHonoured`) - VRR_OFF "Disable VRR for a display" (`way-displays.1.md:226`). The success
  of an adaptive sync change dispatched before the event that reports it is taken
  for a failure, and `adaptive_sync_failed` is never reset.
* `AppliedExists` in `refuse.cfg`, with `"mode_finished"` added to its `Scenario` - `head_release_mode` removes a mode (`head.h:75`), yet not from
  `modes_failed`; REAPPLY brings it back and it is asked for.
* `EditApplied` in `cfgfile.cfg` - `cfg.yaml` "will be monitored for changes, which will be immediately
  applied" (`way-displays.1.md:88`). A save between the server's own write and the reading of its
  event is taken for that write, and is not applied until the file is saved again.
* `DocumentedDpiKept` in `cfgfile.cfg` - AUTO_SCALE_DPI is an "Integer, minimum 8" (`way-displays.5.pandoc:138`), and the warning for a
  smaller one says "< 8" (`cfg.c:486`), yet `cfg_validate_fix` compares with `<=` (`cfg.c:484`): a file that sets 8 gets 96.
* `OrderReplaced` in `cfgfile.cfg` - ORDER of a CFG_SET "Replaces previous order" (`way-displays.1.md:205`). `cfg_merge` drops a merged
  configuration that is `cfg_equal` to the old one (`cfg.c:329`), and that compares ORDER as a set (`cfg.c:163`): the names in another order are
  not installed.
* `OverrideSurvives` in `messages.cfg` - DISABLED of a head is written as "override is true"
  (`marshal-types.c:218`) and read as OverrideFalse (`unmarshal-types.c:433`, `tst-yaml-unmarshal.c:540`): a client sees the opposite override.
* `AutoScaleMin` in `desire.cfg` - "Set minimum scale when auto scaling" (`way-displays.5.pandoc:146`).
  `dpi_base / scaling_base` is an integer division (`head.c:388`): AUTO_SCALE_DPI 100 with steps of 1/8 and rounding down gives 0.875 for a minimum of 1.
  With AUTO_SCALE_MIN 0 and a low AUTO_SCALE_MAX it can even be 0. `AutoScaleInRange` is what does hold.
* `NotPresentUnmonitored` in `service.cfg` - "when `LAPTOP_LID_MONITOR` is FALSE, `NOT_PRESENT` will evaluate"
  (`way-displays.5.pandoc:331`). A reload that turns it off keeps `g_lid`.
* `CallbackObeys` in `service.cfg` - CALLBACK_CMD "Obeys `LOG_THRESHOLD`" (`way-displays.5.pandoc:270`). The callback of
  the migration (`cfg.c:241`) runs before the threshold of the file is set.

Without a configuration of their own: with `Scenario = {"other_client"}` `ScreensAsDesired` fails,
because `act_handle_success` overwrites a mode that another client set in the
same iteration (`act.c:34`); with `Scenario = {"round"}` `Settles` fails: the protocol allows a
compositor to round a scale, and the server then applies it for ever (`head.c:322`). A SCALE below half
a step rounds to 0 and is sent as 0, with the size of an earlier round (`desire.c:166`; `Tiled` leaves it out).
`finished` destroys the output manager and keeps the pointer (`zwlr_output_manager.c:37`), so that the check for a departed manager
(`server.c:136`) never fires and the teardown destroys it twice (`Released` leaves it out). `socket_accept` does not close a connection whose time-out cannot be set (`sockets.c:41`; `NoLeak` leaves it out). `plist_equal` ignores the order that `plist.h` promises
to compare, and turning an iterator round after a removal skips an entry.

## 5. Proofs

### The configuration under way

`WayDisplaysProofs` proves, for every set of heads, modes, scales and configurations,
every bound and every `Scenario`:

    Spec => []TypeOK                 (TypeCorrect)
    Spec => []OneConfiguration       (OneConfigurationAlways)
    Spec => []DeltaMatchesConfig     (DeltaAlwaysMatches)
    Spec => []ChangeIsEnabled        (ChangeAlwaysEnabled)

from the assumptions on the constants in `Mode`, `Cfg`, `Protocol`, `Displ` and
`Compositor`. The inductive invariant is `IInv`, the conjunction of the four. None is
inductive alone. `DeltaMatchesConfig` needs `OneConfiguration`: a second configuration,
sent while the first is unanswered, would overwrite `delta`. `OneConfiguration` says that
`state` is OUTSTANDING exactly while a configuration or its answer is on its way; it is
preserved because `act_apply` runs only in the other states and because
taking the one answer off the queue is what leaves OUTSTANDING (`TailAnswers`,
`AppendAnswer`, `ConcatAnswers`). `TypeOK` needs `ChangeIsEnabled`: the history variable
`refused` records the mode of a refused change, which must be a mode and not NULL;
that rests on `DesireHeadType`, the fact that a new mode or a new adaptive sync
is only desired of a head that is to be enabled with one of its own modes.
There is one lemma per group of actions, and `NextInv` joins them.

### What the server knows, and what the screens show

`MirrorProofs` and `ScreenProofs` go on from `IInv`:

    Spec => []Rested                 (RestsWhenDone)
    Spec => []WireInv                (MirrorAlways)
    Spec => IpcDoneWhenApplied       (IpcDoneIsDone)            clients do not leave early
    Spec => []ScreensAsDesired       (ScreensAlwaysAsDesired)   no other client of the compositor
    Spec => []LonePanelLit           (LonePanelAlwaysLit)       Modes is finite
    Spec => AppliedExists            (AppliedAlwaysExists)      modes are not withdrawn, or users do not reapply
    Spec => RefusedNotAskedAgain     (RefusedNeverAskedAgain)
    Spec => IsExchange               (ExchangeImplemented)

* `Rested`: a server that waits and is IDLE has nothing left to change, because every way into
  IDLE leads through `desire` and an `act_apply` that found nothing (or gave up).
* `WireInv` relates the server's records to what the compositor told (`told`) by way of the queue. Its core is
  `Mirror`: for each head and each thing told of it, either the record is right and no such event is
  queued, or the last such event in the queue says what was told. `FreshConfig` adds that a
  configuration which is not stale was made when no `done` was queued, and `Followed` that every event about a head is followed by a `done`; together they
  say that a configuration that takes effect was made from everything there was to see. `Known`, `Gone`, `DeltaLive` and `Dark`
  are about heads that come and go.
* `ScreensAsDesired` follows from `Rested` and `Mirror` with an empty queue, but for the mode: the server also writes a
  mode by itself when its change succeeds (`act.c:34`). `ModeInv` says that
  the record is NULL or the mode shown, except between an answer and the `act` that follows it, when it is the mode of
  `delta` (`InProgress`). Another client that sets a mode at that moment breaks it, hence the hypothesis (see section 4).
* `LonePanelLit` needs no such hypothesis, only that the panel is known and its enabled state is. It rests on `FindModeFinds` of `WayDisplaysProofs`:
  `head_find_mode` yields one of a head's modes whenever it has any, by a maximum over a finite set.
* `AppliedExists` needs `OfferInv`: a mode the server has is offered by the compositor or its end is queued. A failed mode that is
  withdrawn stays in `modes_failed` and REAPPLY brings it back (section 4); the hypothesis
  excludes exactly this combination.
* `RefusedNotAskedAgain` needs `RefusedInv`: a refused mode is not among the modes of its head, or `act` is
  about to take it out, and is not announced a second time.
* `IsExchange`, the refinement, goes by the two mappings: `Stage` only depends on the answers in the queue (`StageArriving`), of which
  `OneConfiguration` leaves at most one, so that each action of the code is one step of `Exchange` or none.
  `ChangeInv` says that `delta` names the change as `Exchange` does and that the configuration with the compositor has the shape of that
  change, so that its effect is on the head named; that a refused mode is not asked for again comes from `RefusedInv`.

### The layout and the choice of modes

`DesireProofs` proves, for every list of modes, and for every number of heads, valid configuration, mode and physical size,
with any configuration and any displays on in each of any number of rounds (`LayoutAssumption`; `Valid` is what `cfg_validate_fix` and
the readers of SCALE let through):

    ScanSpec => []MaxOfSeen          (ModeMaxCorrect)
    LayoutSpec => []LayoutInv        (LayoutInvariant)
    LayoutSpec => []Tiled            (AlwaysTiled)
    LayoutSpec => []OrderAsListed    (OrderAlwaysAsListed)
    LayoutSpec => []AutoScaleInRange (AutoScaleAlwaysInRange)

`LayoutInv` has a part for each loop. `SizeInv`: the heads passed so far have the scale of the configuration and the size that
the compositor will compute. `FillInv`: the candidates are in the order of arrival and match none of what was tried before the
current one, and a bucket holds only heads whose place it is, in the order of arrival; a head is a candidate, in a bucket or passed over. `SortInv` and
`SortedInv`: what is sorted is strictly increasing in (place in ORDER, arrival), so it has no duplicates, and since no head is lost it is as long as `Heads`.
`MeasureInv` and `ArrangeInv`: `tallest` and `widest` are the maxima of the enabled heads passed, and these lie one after
the other without gap up to `edge`, within the largest. `Tiled` needs all of it, since a head that `sorted` had twice or
not at all would overlap or be missing.

The arithmetic is in lemmas about the operators: `RoundToFacts`, `FixedScale` and `StepProducts` (the steps of a scale divide 256, so the
conversion to fixed point loses nothing), `LengthIs` (hence `desired_scaled_length` is the compositor's own division) and
`AutoScaleRange`.

### The configuration file

`CfgFileProofs` proves, for every set of names, files, requests and candidates:

    Spec => []ValidCfg               (AlwaysValid)
    Spec => []FileRestores           (AlwaysRestores)
    Spec => []WatchFollowsFile       (AlwaysWatched)
    Spec => []WrittenHasEvent        (WrittenConsumed)
    Spec => OwnWriteNotReloaded      (NeverReloadsOwnWrite)

The first two rest on lemmas about the operators alone: `cfg_apply_defaults` makes any
configuration complete, each merge keeps a complete one complete, `cfg_validate_fix` makes a complete
one valid, a merge that changes nothing leaves it alone, and defaults and fix leave a fixed one as it is (`DefaultsComplete`, `Merge...Complete`,
`FixValid`, `ValidKept`), from which `LoadValid`, `MergeValid` and `Restores` follow. They are about `Fixed`, what `cfg_validate_fix` leaves: a
configuration with AUTO_SCALE_DPI at its minimum is valid, and changed all the same when it is read back, so `ValidCfg` is
not enough for `FileRestores`. The inductive invariant has `Fixed` of `g_cfg` in its place, and adds
`EventExplained`: an event that waits stems from the user or from a write that is still
marked. Without it nothing says that an unmarked event is an edit, which is
what `OwnWriteNotReloaded` needs.

### Processes

`SessionProofs` proves, for any number of servers and clients:

    Spec => []OneServer              (OneServerAlways)
    Spec => []StatusTellsTruth       (StatusIsTrue)             requests can be read
    Spec => []NoLeak                 (NothingLeaks)             requests can be read
    Spec => IsRequests               (SessionImplementsRequests)  requests can be read

`OneServer` is inductive with the type of `server`, and independent of what clients send. The others need to know where a client may
be: waiting in a queue, once (`QueueInv`), being read (`ReadingInv`), or the client of the operation (`OperationInv`); a client that
has not been processed has no response that says so, and the other way round (`InboxInv`, `ClientInv`, `ProcessedInv`).
The refinement of `Requests` adds (`RInv`) that only a server that listens has an operation (`OperationServed`), so that the lock, by `OneServer`,
makes the operation of one server the only one; that a response which says done waits in no inbox while the operation of that client
goes on (`DoneInv`); and that a client which has not ended was told nothing (`LivingInv`).
The hypothesis `"bad" \notin Kinds` is needed: a message that cannot be read loses its connection (`doc_bad_request`).

`ServiceProofs` proves, for every set of outputs, order of globals (`GreetingsAssumption`: none is announced twice) and number of events:

    Spec => []StartupLogged          (StartupIsLogged)
    Spec => []LidTracked             (LidIsTracked)
    Spec => []Released               (AllReleased)

The first needs what is captured, printed and still to be played back at each stage, and that the threshold is the final one when playback begins
(`LogInv`); the second that the last unread event is the state of the switch (`LidInv`); the third that
an output whose global is on its way is not bound yet, so that each is bound once (`WireInv`, `ProxyInv`).

### Sorting

`ContainersProofs` proves, for arrays of every length, any texts and any folding of case (`LowerAssumption`, `SortAssumption`):

    Spec => []SortSorts              (SortAlwaysSorts)

that is, what `plist_sort` and `pset_sort` leave is in order, NULLs last, and a permutation of what was there. Each sift permutes
(`SiftPermutes`), so every pass does. The last gap is 1 (`ShellIs`), and a pass with gap 1 is an insertion sort: a sift that finds the entries
before it in order leaves those up to it in order (`SiftInserts`, `PassSorts`). Inductions are by the least counterexample
(`Least`), and that the recursive functions exist by `PassExists`.

### Only model-checked

* `Settles`, `IpcAnswered` and `NobodyHangs`, which are liveness under fairness, out of the prover's reach, as is `ENABLED`.
* `Messages`: reading and writing YAML is by RECURSIVE operators, about which the prover can say nothing.
* The rest of `Containers`: `Ownership`, `VisitsEach`, `EqualIsSame`, `ConversionsKeepOrder` and the refinement of `Collection`. What copying,
  freeing, comparing and converting do to memory are folds over the entries, each an induction over the data of its own; the library's
  induction theorems cannot be instantiated here, and the least counterexample that served for sorting was not carried through for these.

## 6. Not modelled

* `info/print.c` and `info/delta.c`: text for the log, from state that they do not change.
* `regx.c`: two calls of the regex library. What a pattern matches is an input.
* The characters of YAML (libyaml), letter case of enum names, and the text of warnings.
* How a stream socket splits a message that is larger than its buffer (`sockets.c:61` disregards the rest).
* `spawn_sh_cmd`: the shell of a callback.
* A pid file that somebody removes: both servers would then have a lock, on different files.
* `libinput`, `libwayland` and the kernel are external: modelled as far as the code uses them.
* The tests under `tst/` are read as documentation and not modelled.

## 7. Plan

1. Done: the server and the compositor, the configuration and its file, with their proofs.
2. Done: `Layout`, the containers with `Collection`, enums and YAML, the command line and the messages, `Session`, `Log` and
   `Service`; their runs.
3. Done: the proofs of section 5: `WayDisplays`, `Layout`, `ModeScan`, `CfgFile`, `Session`, `Service` and sorting.
4. Done: the abstract specifications `Exchange` and `Requests`, with proofs that `WayDisplays` and `Session` implement them.
5. Left: `Ownership` of `Containers` and the refinement of `Collection`, as far as they need no induction over the entries; an abstract
   specification of `CfgFile`.
