# Formal models of telectl

telectl is a Telegram bot, written in Go, that operates Kubernetes clusters:
inline keyboards and typed commands on one side, client-go on the other.  This
directory holds TLA+ models of its stateful parts, the TLC configurations that
check them on small instances, and TLAPS proofs of what holds for every
instance.

Paths below are relative to `src/`.  `PROJECT.json` lists the runs, the mutants
that show each property can fail, the source lines each definition models, the
hazards, the findings and the theorems.

## Running

    tlasany Keyboards.tla
    tlc -workers 2 -config Keyboards.cfg MCKeyboards
    tlapm KeyboardsProofs.tla        # and each other module named *Proofs

The proof modules are `KeyboardsProofs`, `MessagesProofs`, `FollowLogsProofs`,
`ClusterClientProofs`, `ResourceVerbsProofs`, `KubeconfigProofs`, `CommandsProofs`
and `NavigationProofs`.

## The system

One process, no persistence.  go-telegram calls `handleMessage` or
`handleCallbackQuery` in a goroutine of its own for every update, so handlers
run concurrently, for one user as well as for several.  What they share:

| shared state | owner | guarded by |
|---|---|---|
| `userSessions`, one `UserSession` per user | `internal/bot/bot.go` | `sync.Map`; `State`, `MenuState`, `CurrentNS` by an RWMutex, one access at a time; `CurrentCtx` by nothing |
| the token store of the menus | `internal/menus/tokens.go` | a mutex per operation |
| the one `k8s.Client` | `internal/k8s/client.go` | nothing |
| the rate limiter | `internal/types/types.go` | a mutex per operation |
| the exec session map | `internal/handlers/exec.go` | a mutex per access |
| the messages on users' screens | Telegram | edits apply in the order they arrive |

A restart loses all of it except the screens.

### Components

**Update routing and admission** (`internal/bot/bot.go` 169-436).  State: none of
its own.  Operations: `handleMessage`, `handleInlineQuery`,
`handleCallbackQuery`, `handleCommand`, `runCommand`.  It checks the allow list,
then (messages and inline queries only) the rate limiter, then finds the
session and dispatches.  Correct when nobody outside the allow list reaches a
handler and a command not allowed is not run from either entry point.

**Rate limiter** (`internal/types/types.go` 251-309).  State: the times of each
user's admitted requests.  `Allow` drops those out of the window, refuses at
the limit, and records the request otherwise.  Correct when no window holds more
than `limit` admitted requests and a user who waits a window is admitted.
`Cleanup` exists and nothing calls it.

**Callback token store** (`internal/menus/tokens.go`).  State: two maps between
keys and strings, and a queue.  `Shorten`, `Resolve`, and eviction beyond the
limit.  Correct when the three indexes stay one table, and a key means the
string it was minted for or nothing.  Hard: colliding digests, eviction of
buttons still on screen, restarts.

**Inline keyboards** (`internal/menus/menus.go`).  `MenuBuilder.btn` shortens
each button's data in turn; the pane functions put the keyboard on a message;
a tap brings the payload back.  Correct when a tap acts on what the button was
drawn for, or on nothing.  Hard: handlers drawing at the same time, edits that
fail, screens older than the store.

**Callback protocol** (`internal/menus/menus.go` 514, 943).  `actionData` and
`ParseCallbackData`, with joined tails and the container slot.  Correct when every
button parses to the fields it was drawn for.  Hard: the format is positional, and
a name may contain the separator.

**Menu navigation and panes** (`internal/bot/bot.go`, `internal/bot/pane.go`).
State: `MenuState`, `CurrentNS`.  Sections, lists, pages, the namespace picker.
A callback edits its pane and sends nothing.  Correct when every button does
something, every screen has a way out, and a list stays the one it was opened as.
Hard: panes and commands of one user share the session; a button drawn before the
namespace was switched; lists that have shrunk; one kind under three names.

**Resource verbs** (`internal/bot/detail.go`, `internal/bot/bot.go` 967-1101,
`internal/handlers/operations.go`).  State: none of their own; they change the
cluster.  Cordon, uncordon, drain, scale, restart and delete, each followed by a
fresh read that is the report.  Correct when what is reported is what was done, and
a dry run does nothing and says so.  Hard: others write in between, a call fails
after it took effect, each verb must ask for the dry run itself.

**Live log follows** (`internal/bot/detail.go` 695-872).  State: an updater
goroutine per follow and its cancel function in the session.  `showFollowLogs`,
`runFollowLogsUpdater`, `showFollowLogsStop`.  Correct when every follow ends,
when a running one can be stopped from its pane, and when a stopped one leaves
the pane alone.  Hard: two follows of one pod, Stop racing an edit in flight,
four ways out that each clean up.

**Kubernetes client** (`internal/k8s/client.go`).  State: `restConfig`,
`clientset`, `dynamicClient`, `currentContext`.  `SwitchContext`, impersonated
copies, and the calls.  Correct when all the fields are for one context and a
failed switch changes none.  Hard: no lock, and every user shares it.

**Node and workload operations** (`internal/k8s/nodeops.go`, `workloadops.go`).
Drain (cordon, list, evict each pod, in calls of their own), scale, and reads.
State: a `DrainResult` while a drain runs.  Correct when each pod found is in the
result once and every pod that stays is named.  Hard: some evictions fail; pods
vanish, end or come back under their name in between.

**Exec sessions** (`internal/handlers/exec.go`).  State: one session per chat.
Hard: check and set are two steps, and the goroutine of a finished session
deletes whatever session the chat has by then.

**Kubeconfig file** (`pkg/kubeconfig/kubeconfig.go`).  State: `Raw`, the list of
contexts and `CurrentContext`, which say the same three times, and the file.
Loaded once; `SwitchContext`, `AddContext` and `DeleteContext` change it in memory
before a save that may fail.  Correct when the three agree and the file is what the
process says.  Hard: the save that fails or breaks off, a restart after it, kubectl on
the same file, a context whose user is not there.
In this program only `GetContextByName`, the list and (through an API no handler
calls) `SwitchContextPersistent` are reached; the rest is the package's interface.

**Command handlers** (`internal/handlers`).  No state.  Four parsers of flags, one
per family of commands, and `getNamespace`, which reads the same arguments again.
Correct when both readers mean the same line.  Hard: flags half typed or joined
with nothing, other people's flags behind `/exec`, empty values that mean "not
given" to the next function.

**Replies** (`splitMessage`, `showPane` and the two truncations).  Correct when no
text is lost, each message is within Telegram's limit, and a log keeps its newest
lines in a closed code block.

**Configuration, CLI, Telegram transport, formatters**: start-up, one API call per
function, and pure rendering.

## What is modelled

| module | what it is |
|---|---|
| `TokenFifo` | abstract specification of the token store: a queue of at most `Limit` one-to-one bindings |
| `TokenStore` | `tokens.go`: the two maps and the queue, operation by operation |
| `Keyboards` | composition: handlers that build, show and resolve keyboards over `TokenStore` |
| `KeyboardsProofs` | theorems about `TokenStore`, and about `Keyboards` from those |
| `FollowLogs` | live log follows: handler, updater, Stop handler, session entries, panes |
| `FollowLogsProofs` | theorems about `FollowLogs` |
| `ClusterClient` | the shared client, its context switches, impersonated copies, operations of several calls |
| `ClusterClientProofs` | theorems about `ClusterClient` |
| `RateLimiter` | the sliding window of `Allow` |
| `Messages` | composition: messages through `RateLimiter` to `/exec`, `/exit` and text in exec mode, and the shells that run meanwhile |
| `MessagesProofs` | theorems about `RateLimiter`, and about `Messages` from those |
| `Menus` | every keyboard with the callback data of its buttons, and `ParseCallbackData` |
| `Navigation` | composition over `Menus`: one pane, the handlers of its buttons, and the session they share |
| `NavigationProofs` | theorems about `Menus` and `Navigation` |
| `Ledger` | abstract specification of a drain's result: each pod found is settled once |
| `NodeOps` | `nodeops.go`: cordon, uncordon and drain against a cluster that goes on living |
| `ResourceVerbs` | composition over `NodeOps`: all verbs that change the cluster, from request to reply |
| `ResourceVerbsProofs` | theorems about `NodeOps`, and about `ResourceVerbs` from those |
| `Kubeconfig` | `kubeconfig.go`: memory, file, saves that fail or tear it, restarts, kubectl, and the client's context |
| `KubeconfigProofs` | theorems about `Kubeconfig` |
| `Replies` | no state: how a text is split into messages or cut to a pane |
| `Commands` | composition over `Replies`: a typed command through its parser and `getNamespace` to its reply |
| `CommandsProofs` | theorems about `Commands` and `Replies` |
| `MCKeyboards`, `MCClusterClient`, `MCMessages`, `MCNavigation`, `MCKubeconfig`, `MCCommands` | constant values and symmetry for TLC |

### TokenStore and Keyboards

A callback string is a value; `Long` are those over 64 bytes.  The SHA-256
digest and its prefixes are the constant `Prefix`: `Prefix[d][n]` is the n-th
key `mintKey` tries for `d`.  Assumed of it is that prefixes of different
lengths differ, that full digests do not collide, and that they are prefixes:
strings that share one share the shorter ones (`PrefixAssumption`).  `Shorten` and `Resolve`
hold the mutex throughout, so each is one step; `Shorten` is `Reuse` (it fits,
or has a key) or `Mint`.  The return value of `Shorten` is `Payload`.

`Keyboards` adds what the store is for.  A handler takes a command or a tap
(`Command`, `Tap`), shortens one button per step (`Btn`), and the edit arrives
or fails (`Edit`, `EditFails`).  `Reboot` empties the store and leaves the
screens.  The history value `newer` on a button counts the bindings minted since
its own.

### FollowLogs

One record per follow holds the program counter of its goroutine, first that of
`showFollowLogs` and then that of `runFollowLogsUpdater`, and the state of its
context.  `entry[u][p]` is `State["followlog:ns/pod/container"]` of user `u`.
The steps are the accesses two goroutines can interleave: `SetState`, the first
fetch, the first pane, a tick, a poll, an edit, the cancel, `DeleteState`.  A
fetch or an edit cannot succeed when begun on a cancelled context; an edit
already under way may still arrive.  Which context an edit is made on follows the
code: the first pane uses that of the tap, so a Stop does not prevent it.

### ClusterClient

A client, clientset or REST configuration is the context it was built for.
`SwitchContext` looks the name up, `Build` and `BuildFails` are the part of
`useContext` that works on locals, `Assign` is one of its four assignments, in any
order because nothing synchronises them with their readers, and `Report` what the
caller does when it returns.  An operation
is the sequence of client fields its calls read, with `Resolve` where the handler
asks for a client again (`applyScale` reads back through a new one).  An impersonated
user's operation runs on a copy pinned to the context of `restConfig` at the time
it was asked for, or on the shared client if the copy cannot be built.

### RateLimiter and Messages

`admitted[u]` is the history of when each request of a user was admitted, and
`requests[u]` the positions in it of the times the code's slice still holds:
`Valid` is the loop with `t.After(cutoff)`, `Admit` and `Refuse` the two ways out
of `Allow`.  The clock advances by ticks of any length.

In `Messages` every message is an `Admit` and what `handleMessage` does with it, or
a `RefusedMessage`.  `ExecCommand` begins an interactive shell, whose steps are the
separately locked accesses of `startInteractiveSession` (`Check`, `Register`,
`EnterMode`) and of its goroutine (`ShellEnds`, `Unregister`, `LeaveMode`).  The map
of sessions is per chat and exec mode per user, so the two meet in groups.
`ExecInput` is text in exec mode, which the stub `handleExecInput` answers before
it clears the mode (`ClearMode`).  `ExitCommand` is `/exit`, which the command
table does not have.  A history value `raced` marks the shells that were past the check
and without an entry at the same time (`Rivals`), and those that passed it while one of
these was still open, whose entry the end of the other may have taken; a shell that passes beside a
registered one that did not race marks nobody, so a check that lets it by is
found.  `HandleExecInput` of `exec.go`, which would write to the
shell or cancel it, is not modelled: nothing calls it.

### Menus and Navigation

`Menus` has no state.  Callback data is the sequence of its pieces between colons,
so a name with colons is a sequence of several (one without is `OnePiece`), and what
`ParseCallbackData` does with too many or too few pieces is there: its loop over the
setters is said by what it leaves, in each field the `Piece` that the last of its
`Givers` put there.  A keyboard is the set of its buttons.
Each button has the `data` the code builds and, beside it, `means`: the fields
its handler is to find, written by name and not by position.  `callbackFields` is
the table of the code; the setter of "page" is `Slot`.

`Navigation` has one pane, `CurrentNS` and the type in `MenuState`, which is all
of it that anything reads.  A screen is a record, and `Keyboard` gives its buttons.
A handler is `Tap` (parse, write the session, read it, up to the call), `Answer`
(what the cluster says, the menu state, the screen) and `Edit` or `EditFails`; "ns
set" has `Read` in between.  `dispatchCallback` is the set of what a handler may show and
what type it leaves: any call may fail, any list may lack any object.  A verb with
effects in the cluster is one answer that may be an error, a notice, or what is
shown after it.  What a list call finds is a set of places in the sequence `Objects`,
which keeps the order of pages.  `Elsewhere` is every other handler and command of the user, which
may switch the namespace or the type between any two steps.  Two history values,
a handler's `claim` and a picker's `for`, say what a tap was for.

Three things the code does to a button are in the model as they are, and the properties
say exactly where they end.  `AsRead` is what is read of the name of a context: the
piece before its first colon.  `Unavailable` is the answer of a setting without an
implementation, apart from `Notice`, which shows what was asked for; `Unimplemented` is
the like answer for a verb.  `Unopened` are the two kinds whose canonical names are no
keys of the map, so that `Unknown` is shown for their objects.

### NodeOps, Ledger and ResourceVerbs

`NodeOps` has the cluster as far as a drain sees it: which node a pod is on, whether
it runs, is over or is being deleted, and which instance it is.  A `DrainNode` call
is the record `drain[w]` of a worker: `Cordon`, `List`, one `EvictNext` per pod,
`Return`.  A call that returns an error may have taken effect (`CordonFails`,
`EvictFails`).  A dry run skips the calls that write, as the code does at each of
them, and not the list.  `PodsChange` and `OthersPatch` are everybody else;
`Crash` forgets the calls and leaves what they did,
and `Forget` one result when its worker takes up something else.  Pods are evicted in any order,
which covers the order of the list.  `Ledger` is what the result promises, and
`AccountedOnce` that `NodeOps` implements it.

`ResourceVerbs` adds the replicas of workloads and a record per worker for the verb
it carries out.  `Tap` is the button or the typed command; each client call is a
step; `Took` is that it took effect and returned nil or an error; `ReRead` is the
pane drawn from a fresh read.  `fresh` says that nobody has written the object since
the verb did, and before `UpdateScale` it is the `resourceVersion` that the update
carries: a conflict is a failed call.  A delete removes the object at once (no
finalizers).  `dryRun` is fixed at the start.

### Kubeconfig

`mem` is the `KubeConfig` of the process with its three tellings of the contexts;
`disk` is the file.  A context is a `Link`, a cluster and a user; a file has clusters
and users.  Each operation is one step, as the code holds no lock and has
no goroutine here: the change is made in `mem`, and `Save` writes `mem.raw`
(`Saved`), fails before the file is opened or after (`SaveFails`), or the process
ends in it (`SaveInterrupted`).  `clientcmd.WriteToFile` is `os.WriteFile`, which cuts
the file to nothing and writes it anew, so the last two may leave it `Torn`: clusters,
contexts, the current one and users come in this order, and what is missing is missing
from the end.  The list's order after a load is any, as a Go map's is.  `Dies` and
`NewClient` are a restart.  `ParseKubeconfig` looks at the cluster of each context, and
`clientcmd` at cluster and user of the one it builds a configuration for (`Usable`).
Whether it refuses a user that is missing or goes on without one depends on its
version, so it is a constant, `UserRequired`: the run takes it to refuse, the theorems hold of
both.  `AddContext` looks for the user among entries that do not carry their
names (`kubeconfig.go` 217-226): `Vouches` says which users each entry lets
through, every one if it has a token or a certificate.  History: whether a save failed, whether the file
was written by anything but a whole save of this process, and the context chosen for
good.  Without `--kubeconfig` the program keeps
an empty `KubeConfig`, on which every operation is refused.  `DeleteContext` filters
the list by name; `Without` removes the one entry that has the name, which is the
same since no name is listed twice (`Coherent`).

### Commands and Replies

An argument is a flag and a value, and the four spellings of `valueFlag.match` are
reduced to "alone" and "joined"; one flag `-v` stands for the other value flags of a
command.  Each parser is an action per turn of its loop, with the index arithmetic
of the code.  `getNamespace` is a definition, since it has no effects, and is asked
at the end (`Asked`), which is when the handler uses it.  Then the reply: `Answer`
is the rich message or, when Telegram refuses that, its text through `Split`, one
turn of `splitMessage` a step, and `SendChunk`; `ShowPane` is a pane cut at either
end.  Texts are sequences over `Bytes`, of which a few are told apart.  The history
value `at` is where in the reply each chunk begins, so that "nothing is lost" can say
what stands between one chunk and the next (`Covered`).

## What the runs show

| run | checks | shows |
|---|---|---|
| `keyboards` | type invariant, `IndexesAgree`, `KeysAreDigests`, `SurvivesLimitMints`, `MisroutesOnlyOnCollision`, refinement `FifoSpec` | the store is one table in every interleaving of two handlers; a button means its string until `Limit` newer bindings; it never comes to mean another string unless the two share the shortest prefix |
| `follow_logs` | type invariant, `NoDanglingEntry`, `ReachableWhenAlone`, `OneLateEdit`, liveness `EveryFollowEnds` | each of the four ways out cleans up; a follow that meets no other of its pod can be stopped; at most one edit is late; every follow ends |
| `stop_reaches` | finding | two taps on Follow leave a running follow no Stop button finds |
| `cluster_client` | type invariant, `NeverBroken`, `LoneSwitchIsWhole`, `OneClusterPerOperation` | failed switches leave no trace; a switch no other overlaps repairs whatever earlier ones left; an operation keeps to one cluster, under impersonation through any switches, on the shared client unless a switch assigns meanwhile or left it split before |
| `messages` | type invariant, `AtMostLimitPerWindow`, `AdmittedAfterWindow`, `NothingOutlivesItsShell`, `OneShellUnlessRaced` | the window is kept exactly; no entry or exec mode outlives its shell; a shell that did not race another past the check is the only one of its chat |
| `exit_quits` | finding | `/exit` does not end a shell |
| `navigation` | type invariant, `ButtonsMeanIt`, `EveryButtonAnswers`, `WayHome`, `LandsWhereAsked` | on every screen a user can come to, each button parses to what it was drawn for, but that of the name of a context only the first piece is read; each is answered, two settings that they have no implementation, PVs and PVCs that they are unknown, and nothing else so; three taps that change nothing in the cluster lead home whatever it answers; paging, refreshing and choosing a namespace stay with the list |
| `resource_verbs` | type invariant, `ReportsWhatItDid`, `NothingSlipsBy`, `DryRunTouchesNothing`, refinement `AccountedOnce`, liveness `EveryVerbReplies` | a success is shown after exactly one effect, an error after at most one, a dry run's reply after none; what is shown of a scale or delete is what it did unless others wrote since; a drain forgets no pod that stays; every verb is answered |
| `dry_run_says_so` | finding | a dry-run drain is answered with the report of a drain |
| `kubeconfig` | type invariant, `Coherent`, `AheadOnlyAfterFailure`, `ComesBack` | list, `Raw` and current context agree through failed saves; memory is ahead of the file only after one; the process starts again on what it saved, on the context chosen for good, with its cluster and user |
| `commands` | `EveryArgumentOnce`, `NamespaceAsTyped`, `SplitLosesNothing`, `PaneKeepsItsEnd`, liveness `EveryCommandAnswers` | no parser skips an argument or reads one twice; on a line that can be read in one way the two readers agree on the namespace, typed, of the session or none; no text is lost in a split; a cut log is one closed block with its newest half; every command is answered, `/exec` with a command when that ends |
| `all_means_all` | finding | `/get pods -A` asks for one namespace |

### Bounds, and why they are enough

- `keyboards`: `Limit` 2 stands for 4096: the third long string evicts.  Three
  long strings of which two share their shortest prefix, two prefix lengths, two
  handlers, one message, three keyboards: collisions, reuse of an old binding,
  eviction between two buttons of one keyboard, and keys minted again after a
  restart all occur.  Each property relates at most two buttons.
- `follow_logs`: two users, two pods, two panes, two follows, one Stop handler,
  and `MaxTicks` 1 for 60.  A follow polls once, reaches the limit, and can be
  stopped at either point; the hazards are between two follows or a follow and a
  Stop.  `late` is counted to 3, more than the property allows.  The run has no
  deadlock check: when all follows are used and over, the system rests.
- `messages`: two users, two chats, two shells, one text in flight, symmetric in
  users, chats and shells.  `Limit` 2 and `Window` 2 for 30 and a minute, and
  `MaxNow` 3: windows that begin at different times overlap, and a request exactly
  a window old occurs.  The theorems below hold without these bounds.
- `cluster_client`: two workers, two contexts that work and one that does not,
  one ordinary and one impersonated user, two operations.  Two workers suffice
  for a switch to overlap another or an operation.

- `navigation`: one handler at a time, since what others do to the session is
  `Elsewhere`, at every step.  Three pods in two namespaces, so that lists of one and
  of all have pages, with `PageSize` 1 for 10 and 9; a pod scheduled or not, with
  one or two containers, a node cordoned or not, and one object of each of seven more
  kinds, a PV and a PVC among them.  One of the two contexts has colons in its name.
  `Browsed` leaves out the kinds whose detail has no buttons of its own.  The theorems
  below hold for any objects, names and pages, and any number of handlers at once.
- `resource_verbs`: one worker, one node, one pod that can be evicted and one that
  cannot, two instances of each, a deployment and a replica set, two counts.  One
  worker suffices: whatever another does to a node, a pod or a workload,
  `OthersPatch`, `PodsChange` and `OthersWrite` do at any step, and workers share
  nothing else.  Two pods are enough for one to be settled while the other waits.
- `kubeconfig`: two names of contexts, symmetric, two clusters and two users, and two
  ways to pair them.  One user has a token, so that a context is added for the other
  while it is missing; a cluster is missing while another is there; the current context
  is deleted while another is left, and the last one.  Which of several is made
  current needs a third name: the theorems have any number.
- `commands`: every line of up to four arguments over nine: each flag alone, joined
  with a value or with nothing, `-A`, `-f`, `--` and a bare word.  Four arguments
  hold a flag with its value, a second one, and what comes after.  Replies of up to
  six runes, of one or two bytes, with `MaxMessage` 4, so that there are up to four
  chunks; logs of up to eight bytes in a body of 17 with `PaneLimit` 11, which puts
  the cut before, inside and behind the opening fence.  The run leaves the type
  invariant to the theorem; the theorems hold for lines, texts and limits of any size.

### Fairness

`FollowLogs`: weak fairness of each follow's own goroutine.  The HTTP clients of
both sides have timeouts, so a call returns; the ticker ticks.  Nothing is assumed
of users: nobody has to tap Stop.  `Messages`: weak fairness of the steps the bot
takes for a shell before and after it runs, and none of the shell's end, which is
up to the pod and whoever types into it.  `ResourceVerbs`: weak fairness of each
worker's next step; a call returns, since the REST configuration has a timeout of 30
seconds (`client.go` 168), and may fail.  `Commands`: weak fairness of the next step
of parser or reply, and of the API server's answer (`InTime`) for the same reason; none of
the end of a command that `/exec` runs in a pod (`RunsInPod`), whose stream waits on a
context without a timeout (`exec.go` 252, `client.go` 493-522, `bot.go` 126, 281):
`EveryCommandAnswers` says that this alone may go without an answer.

### Mutants

Each property of a passing run has a mutant: an operator next to the one it
replaces, named in `PROJECT.json`, that is the code with a plausible bug.  TLC
finds the property violated with it.

## What is proved

Each theorem holds for every value of the constants that the assumptions at the
end of this section allow: any number of users, handlers, pods and messages.  In
each module one inductive invariant carries the safety theorems.  TLC checked it as
an invariant of the module's run before it was proved; what it says beyond the
properties is given here, because that is where the reason lies.

### `KeyboardsProofs`

Of the store:

| theorem | statement |
|---|---|
| `TypeCorrect` | `StoreSpec => []TypeOK` |
| `IndexesAlwaysAgree` | `StoreSpec => []IndexesAgree` |
| `KeysAlwaysDigests` | `StoreSpec => []KeysAreDigests` |
| `StoreImplementsFifo` | `StoreSpec => FifoSpec`: the store implements `TokenFifo` |

The inductive invariant is `Inv == TypeOK /\ IndexesAgree /\ KeysAreDigests`.
`IndexesAgree` is not inductive alone: after a mint the indexes agree only if the
minted key was free.  `MintedKeyIsNew` proves that it was: either some prefix is
untaken, or all are, and then the full digest names a living binding, which by
`KeysAreDigests` is a prefix of the digest of its own string, so by the
injectivity of full digests is the string itself, which has no key.  A mint then
splits on whether the store was full (`MintStep`): with room it appends
(`RoomKeepsInv`), otherwise exactly the oldest binding goes (`FullKeepsInv`).
The refinement maps the queue of keys to the queue of bindings; `MintBinds` shows
that a mint is a `Bind` of the abstract queue and `StepRefines` that every step is
one of its steps or a stutter.

Of the keyboards over it:

| theorem | statement |
|---|---|
| `KeyboardsKeepTheStore` | `Spec => StoreSpec`: whatever handlers do, the store under them is the one above |
| `KeyboardsTypeCorrect` | `Spec => []KeyboardsTypeOK` |
| `ButtonsSurviveLimitMints` | `Spec => []SurvivesLimitMints` |
| `MisroutedOnlyByCollision` | `Spec => []MisroutesOnlyOnCollision` |

A button counts the bindings newer than its own, and the store knows nothing of
buttons.  `AllMean` relates them through the abstract queue of the refinement:
a long button with fewer than `Limit` newer bindings is that many places from the
end of `Live` (`InQueue`).  A mint moves every button one place and drops only
one that has reached the limit (`MintedQueue`, `AgedMean`).  `RecentIsQueue` keeps
the history, from which `newer` of a reused binding is read, in step with the
queue.  The other half of `Means`, that a button's key is some prefix of the
digest of its own string, outlives eviction and restart, and is all that
`MisroutedOnlyByCollision` needs: whoever holds the key now shares a candidate,
and by `PrefixAssumption` the shortest one.  The attempt without that assumption
failed for a good reason: a digest function whose long prefixes agree where short
ones differ misroutes, and only that `tokens.go` cuts every candidate from one
digest excludes it.

### `MessagesProofs`

| theorem | statement |
|---|---|
| `RateTypeCorrect` | `RateSpec => []RateTypeOK` |
| `NeverAboveLimit` | `RateSpec => []AtMostLimitPerWindow` |
| `NeverBelowLimit` | `RateSpec => []AdmittedAfterWindow` |
| `MessagesKeepTheLimiter` | `Spec => RateSpec`: the limiter of the bot is this one |
| `MessagesNeverAboveLimit`, `MessagesNeverBelowLimit` | both windows, of `Spec` |
| `MessagesTypeCorrect` | `Spec => []TypeOK` |
| `NothingOutlives` | `Spec => []NothingOutlivesItsShell` |
| `OneShell` | `Spec => []OneShellUnlessRaced` |

The limiter forgets requests, and what it promises is about all of them.  Its
inductive invariant `RateInv` adds that times are in order (`InOrder`) and that a
request still within the window is in the slice (`Remembers`).  `PassMeansExpired`
is the heart: were the request `Limit` positions before the next one still in
the window, it and all since would be in the slice, `Limit` of them, and the
limiter would refuse.  `ExpiredMeansPass` is the converse.

For the shells, a goroutine that ends deletes the entry of its chat, whosever it
is.  That the entry left behind is never another's needs `EntryIsItsShell` and
`ModeIsItsShell` (an entry is for a shell of that chat, a mode for a shell of that
user, at a point of its program where it has one), and `OnlyOneOpen`: a shell that
did not race is the only one of its chat from before it registers until it has
unregistered.  `CheckKeeps` is where that is earned: in a chat without an entry, every
open shell has yet to register or has raced, so the one that passes marks them all.

### `FollowLogsProofs`

| theorem | statement |
|---|---|
| `FollowTypeCorrect` | `Spec => []TypeOK` |
| `NoEntryDangles` | `Spec => []NoDanglingEntry` |
| `AloneIsReachable` | `Spec => []ReachableWhenAlone` |
| `AtMostOneLateEdit` | `Spec => []OneLateEdit` |

`EntryIsItsFollow` says that an entry names a running follow of its own user and
pod, so that a follow deleting "its" entry cannot leave one that names it
elsewhere.  `AloneIsAlone` says that while a follow is alone no other follow and no
Stop of its user and pod is there: without it `ReachableWhenAlone` is not
kept by another's `DeleteState`.  `LateOnlyAfterCancel` adds to `late <= 1` the places of the
program where no edit can have been late yet, which are those from which one more
may be sent.

### `ClusterClientProofs`

| theorem | statement |
|---|---|
| `ClientTypeCorrect` | `Spec => []TypeOK` |
| `ClientNeverBroken` | `Spec => []NeverBroken` |
| `LoneSwitchLeavesWhole` | `Spec => []LoneSwitchIsWhole` |
| `OperationKeepsToOne` | `Spec => []OneClusterPerOperation` |

`GoodTargets`: a switch that assigns has built its clients, so what it assigns is
never broken.  `LoneIsAlone`: while nobody began to assign beside the last who
did, he is the only one, and each field he is through with holds his context; when
none is left, the client is whole.  `CalmKeepsToOne` is the invariant of an operation
under way: what it has reached so far is its copy's context, or the one every field
of the shared client still names, so that its next call reaches no other.

### `ResourceVerbsProofs`

| theorem | statement |
|---|---|
| `NodeTypeCorrect` | `NodeSpec => []NodeTypeOK` |
| `DrainAccountsOnce` | `NodeSpec => AccountedOnce`: `NodeOps` implements `Ledger` |
| `DrainNamesWhatStays` | `NodeSpec => []NothingSlipsBy` |
| `VerbsKeepTheDrains` | `Spec => NodeSpec`: every step of `ResourceVerbs` is one of `NodeOps` or leaves its variables alone |
| `VerbsAccountOnce`, `VerbsNameWhatStays` | the same two of `Spec`, the composition |
| `VerbsTypeCorrect` | `Spec => []TypeOK` |
| `RepliesFollowEffects` | `Spec => []ReportsWhatItDid` |
| `DryRunIsDry` | `Spec => DryRunTouchesNothing`, an action property |

The refinement maps each drain to its entry, the part of its record that `Book`
keeps.  Types do not suffice for it: `List` puts its answer beside whatever the
columns hold, where `Open` of `Ledger` begins with empty ones.  `Fresh` is what is
missing, that a drain which has not listed has settled nothing, and is inductive with
the types (`FreshStep`).  `LedgerStep` then goes through the actions: `Begin` and
`Forget` close an entry, `List` opens it, each way to treat a pod settles one
(`SettledSettles`), and every other step leaves the ledger alone.

`DrainNamesWhatStays` is about a list that is old when it is used.  `DrainInv`
says that from its patch on the node is closed unless somebody opened it
(`OpeningIsTold`), so nobody who is to leave comes to it (`NobodyComes`), and that from the
list on every pod still to go is in what the drain has to do or among what it
failed at (`Covered`).

A verb's reply follows from where it is on its way: `OnItsWay` says which steps a
kind of verb can be at, with how many effects, and `KnowsIfFresh` that a verb
about to read again finds what it did if nobody else has written since.

### `KubeconfigProofs`

| theorem | statement |
|---|---|
| `KubeconfigTypeCorrect` | `Spec => []TypeOK` |
| `ContextsCohere` | `Spec => []Coherent` |
| `AheadOnlyAfterFailedSave` | `Spec => []AheadOnlyAfterFailure` |
| `WhatIsWrittenComesBack` | `Spec => []ComesBack` |

Each operation has a lemma that it takes a well-told `KubeConfig` to one
(`ParsedIsWell`, `SwitchedIsWell`, `AddedIsWell`, `DeletedIsWell`), where `Well`
says of the three tellings what `Coherent` does and, besides, that no name is
listed twice and that every context has its cluster.  That its user is there is
no part of it: `AddContext` does not see to that.  The flag is apart
(`HasFlag`): it is nowhere but at the current context always, and it is there
unless the context was unset.  `SaveKeeps` is the step they share: a save of sound
contents, whole, failed or broken off, keeps the invariant, in which `ChoiceIsSaved` says
that a choice made for good is remembered only while the file is known to hold
it.  What `SwitchContextPersistent` found in the file is then in memory too
(`ChoiceIsInMemory`), and what is added or deleted later leaves it
(`UsableElsewhere`).

### `CommandsProofs`

| theorem | statement |
|---|---|
| `CommandsTypeCorrect` | `Spec => []TypeOK` |
| `CommandsEveryArgumentOnce` | `Spec => []EveryArgumentOnce` |
| `CommandsNamespaceAsTyped` | `Spec => []NamespaceAsTyped` |
| `CommandsSplitLosesNothing` | `Spec => []SplitLosesNothing` |
| `CommandsPaneKeepsItsEnd` | `Spec => []PaneKeepsItsEnd` |

What a loop computes is an invariant of its turns, so no induction over data is
needed.  `ParseInv`: what was looked at and the values passed over are all that is
behind the index, and nothing twice; and on a line without `-A` and without empty values
the namespace found is that of the last `-n` behind the index (`LastNamed`), where
`getNamespace` finds the first: with at most one they are the same.  `TurnKeepsParseInv`
is the step, of any parser and by one or by two arguments; `NamesAgree` sets the two
readers side by side.

`SplitInv` says where the chunks stand: `at` has one more place than there are chunks,
the text left is the reply from the last of them on, and the chunks before it cover
the rest (`Covered`).  A rune has two halves, and a chunk is cut in bytes: that none
ends inside a rune needs that, in a reply of short lines, every chunk but the first
begins behind a line end.

`PaneInv` is that a pane is a body that was cut; the rest is about the cut.
`FencesTogether` says which fences two texts have that are put together,
`FencesOfTheTail` which of a log's two are left in its tail, and `RepairedIsOneBlock`
goes through the cases of `Repaired`.  That a body has one block is part of
`CommandsAssumption`: `RichDoc.Code` makes other fences something else.

### `NavigationProofs`

| theorem | statement |
|---|---|
| `NavigationTypeCorrect` | `Spec => []TypeOK` |
| `NavigationButtonsMeanIt` | `Spec => []ButtonsMeanIt` |
| `NavigationEveryButtonAnswers` | `Spec => []EveryButtonAnswers` |
| `NavigationWayHome` | `Spec => []WayHome` |
| `NavigationLandsWhereAsked` | `Spec => []LandsWhereAsked` |

There are no hypotheses but `NavigationAssumption`: PVs, PVCs and contexts with colons are
among the cases.  `NavInv` says what a screen may hold (`ScreenOK`): a list is of a type the
map knows and holds objects of its kind (`ItemOK`), and whatever else is shown of an object
is of a kind with a detail and of a namespace just if the kind has namespaces (`ObjectOK`),
or says that the kind is unknown, and then it is one of `Unopened`.  From this, each keyboard
in turn has only buttons that parse to what they mean (`Means`: the pieces of the data,
put back into the fields by `ParseCallbackData`, with `Layout`, `Slot` and the container
slot; `GoodSwitch` for the names of contexts, which are cut) and whose fields a handler may
get (`ActOK`): `GoodKeyboard`.  `Answers` goes through
the dispatchers and says that such fields get some answer, and only screens that are
`ScreenOK` again, which closes the circle, and of which handler each is (`OutcomeOK`); `EveryButtonAnswers` is a
corollary.  `WayOut`
names, for each screen, the buttons that lead home.

The claims are carried along: `ClaimOK` says, for a handler at each point of its
program, how the session and its fields stand to what its tap was for.  That a
picker leads back to the type it was opened for (`PickerOK`) holds of the pane and of
a screen about to be shown alike, and `Witnessed` is the step in which the session
changes and all others' claims that rest on it are dropped.

### Assumptions

| assumption | what it says |
|---|---|
| `StoreAssumption` | keys are no payloads; `Limit` and `MaxLen` are positive; candidates of different lengths differ; full digests do not collide |
| `PrefixAssumption` | the candidates of a string are prefixes of one digest |
| `KeyboardAssumption` | a keyboard is a sequence of callback strings; that of the way home is short |
| `RateAssumption` | limit and window are positive (`ValidateConfig`) |
| `FollowAssumption` | there are users, pods and messages; a name for "none" is no follow, the menu no pod |
| `ClientAssumption` | the process starts on a context that can be built; operations are sequences of field reads |
| `KubeconfigAssumption` | a file has finitely many names; a context is a cluster and a user |
| `ReplyAssumption`, `CommandsAssumption` | the limits are positive; texts are whole runes; a log body is one closed code block |
| `NavigationAssumption` | names are not empty, and those of objects, nodes and namespaces have no colon (Kubernetes allows none), while contexts may; an object has a namespace unless its kind has none; a namespace object is one of the namespaces; what is browsed are types |
| `MessageAssumption`, `NodeAssumption`, `VerbAssumption`, `NoneAssumption` | the value for "none" is apart from the others, no workload is a node, the pods a drain leaves alone are pods, bounds are numbers |

Each is what the code establishes or, for SHA-256, relies on, and TLC evaluates
it in the module's run.

### Only model-checked

- Liveness: `EveryFollowEnds`, `EveryVerbReplies`, `EveryCommandAnswers`.  It is out
  of the prover's reach.  Every invariant, action property and refinement that a
  passing run checks is a theorem.
- The four findings, which are counterexamples.

## Known divergences without a run

Disagreements of the code with its comments or documents, met while modelling.  The
four findings of `PROJECT.json` have runs; these do not.

- The edit an updater has under way when Stop cancels can arrive after Stop's own
  and puts the Stop button back, against `detail.go` 856-858.  `OneLateEdit` says
  that it is never more than one.
- Two switches that overlap interleave the four assignments of `useContext`
  (`client.go` 316) and leave reads on one cluster and writes on the other, until
  the next switch.  `LoneSwitchIsWhole` is the positive side.
- "Scope: this bot session only" (`handlers/context.go` 93) and "Session-scoped by
  design" (`bot.go` 951): a switch moves the one client of all sessions, whose menus
  go on naming the old context.  Under impersonation `/use-context` switches a
  copy and reports success.
- The picker is drawn again "so the active marker moves" (`bot.go` 963), but the
  marker is the kubeconfig's `Current` flag, which `SwitchContext` leaves alone.
- The names `CanonicalResource` gives PVCs and PVs are no keys of `ResourceMap`
  (`detail.go` 28-30, 55): an object of these kinds does not open from its list
  (`Unopened` in `EveryButtonAnswers`).
- `tailJoinTypes` (`menus.go` 925-931) has no `ctx`: a context with colons in its
  name, as the AWS tool writes them, cannot be chosen (`AsRead` in `ButtonsMeanIt`).
- "A rendered button should always do something" (`bot.go` 1016-1018): the settings theme
  and notifications are answered "That setting has no implementation" (`bot.go` 828-830;
  `Unserved` in `EveryButtonAnswers`).
- A token can be stale without a restart, by eviction (`tokens.go` 71).
- `parseExecArgs` leaves everything behind the first bare argument to the container
  (`exec.go` 103-107); `getNamespace` looks for `-n` there too.
- With several `-n` the last one wins in `/get` and inline queries, the first
  elsewhere.
- "Cluster-scoped kinds must keep an empty namespace" (`get.go` 45-46, and
  `describe.go` 43-45 for its own): `/get` with a typed `-n`, and `/watch` always, ask for
  one in a namespace.
- "Namespace (default: current)" (`inline_query.go` 189): an inline query without `-n` asks
  all namespaces.  `NamespaceAsTyped` says nothing of these three.
- A cut of a log that takes only its heading gets a third code fence
  (`truncateForPaneTail`), and `splitMessage` may cut a line longer than a message
  inside a rune.
- "Full log" (`detail.go` 892-898) is to be "split if it exceeds Telegram's 4096-char
  limit, so nothing the API server returned is hidden"; what is sent when the rich
  message is refused, and would be split, has only the heading (`detail.go` 920).
- `Save` "writes atomically, so an interrupted save cannot truncate an existing
  kubeconfig" (`kubeconfig.go` 291-292): `WriteToFile` truncates first (`Torn`).
- `SwitchContextPersistent` (`client.go` 330) checks the context in the file and then
  writes the memory over it.  After a failed save or a write by kubectl the two may differ,
  and the context then current in the file may lack its user, for `AddContext` takes any user
  for one that exists as soon as some user has a token or a certificate.
- `ParseKubeconfig` dereferences the cluster of each context (`kubeconfig.go` 102),
  and dies of a context whose cluster is missing; `Parses` says when.

## Plan

All steps are done.

1. `TokenFifo`, `TokenStore`, `Keyboards`: the store every tap goes through.
2. `FollowLogs`.
3. `ClusterClient`.
4. `RateLimiter` and `Messages`: the sliding window, and exec sessions over it.
5. `Menus` and `Navigation`.
6. `ResourceVerbs` over `NodeOps`, with `Ledger`.
7. `Kubeconfig`; `Commands` over `Replies`.
8. Proofs: the store and the keyboards over it, the limiter and the messages over it,
   `FollowLogs`, `ClusterClient`, `NodeOps` and the verbs over it, `Kubeconfig`.
9. Proofs: `Commands` with `Replies`, `Navigation` with `Menus`.

## Not modelled

- Configuration and command line: read once at the start, sequential; the models
  take what they set (dry run, impersonation, limits, message length) as constants
  or initial states.
- The Telegram transport and formatters: one API call per function and pure
  rendering.  A call arrives or fails.  Where a property is about a rendered text,
  its cut and its split are modelled (`Replies`), not its wording.
- Reads of the cluster beyond success or failure: rollout history, label selectors,
  endpoints, metrics and summaries are pure functions of API objects.
- Of the client under a switch, which cluster a verb's pane was read from: the
  product of `Navigation` and `ClusterClient` is out of TLC's reach.
- The port-forward handler, a stub; `HandleExecInput`, which nothing calls; the
  reply keyboards, which send typed words.
