# conflux-engine in TLA+

conflux-engine downloads a proxy subscription, normalizes it into a profile,
serves it to local clients over an IPC endpoint and runs a sing-box process
with the node a client selects. This directory models the stateful core of it
in TLA+, from the fetch loop and the nodes of a profile to daemons that
crash while clients wait, checks it with TLC on small instances and proves its
main properties with TLAPS for instances of any size. Paths below are relative to the repository
(`runtime.rs` is `crates/conflux-backend/src/runtime.rs`, `process.rs` is
`crates/conflux-backend/src/singbox/process.rs`, `server.rs` is
`crates/conflux-ipc/src/server.rs`, `client.rs` beside it; `fetch/`, `parse/` and `normalize/mod.rs`
are in `crates/conflux-core/src/`).

## 1. Inventory

| Component | State | Operations | Talks to | Hard part | Correct when |
|---|---|---|---|---|---|
| Backend (`runtime.rs`) | `state`, applied profile, selection and config, `config_path`, `last_error` | `apply_profile`, `start`, `stop`, `refresh_running_state` | process handle, file system | every call is a sequence of fallible steps while the child may die at any of them | no live process is forgotten; the process runs what was applied; state, handle, error and file agree between calls |
| Process handle (`process.rs`) | `Option<Child>` | `spawn`, `is_running`, `stop` (kill, poll, wait) | operating system | errors of kill and try_wait, unbounded final wait | at most one process, reaped before it is forgotten |
| IPC server (`server.rs`) | `EngineStateData` behind an RwLock, `Option<SingboxBackend>` behind a Mutex, `fetch_lock` | PING, FETCH, GET_PROFILE, STATUS, CONNECT, DISCONNECT; one task per connection | backend, fetch, clients | interleaving at awaits, lock order, locks kept while waiting for others | FETCHes take effect in order; CONNECT is atomic on the backend; answers are true; everybody is answered |
| Daemon lock and socket (`server.rs`) | lock file, socket file | acquire, remove, bind, accept loop | other daemons | two daemons, crash and restart | one daemon per endpoint; a crash does not block the next one |
| IPC client (`client.rs`) | none | `send`, `fetch` with fallback, `connect`... | server | no timeout, no request id, two connections in one `fetch` | what `fetch` returns is what this client fetched |
| Daemon (`conflux-daemon`) | loaded configuration | prefetch, then serve | fetch, server | order of prefetch, lock and bind; default endpoint | a refused daemon has no effect |
| Subscription fetch (`conflux-core/src/fetch`) | best answer, last error, per call | up to 13 attempts with User-Agents and `flag=clash` | HTTP panels, happ helper | which answer wins, which error is reported | a usable answer is never given up for a stub or an error |
| Parsing (`conflux-core/src/parse`) | none | expand, detect format, extract raw nodes | | pure text | every usable line becomes one raw node |
| Normalization (`conflux-core/src/normalize`, `conflux-protocol`) | none | per-protocol mapping, node id, placeholders, redaction, title, interval and quota | | identity of nodes, numeric boundaries, two sources of metadata | ids name one node; no placeholder survives; nothing said of the subscription is lost |
| Config generation (`singbox/config.rs`) | none | select node, build outbound | | first match by id, optional TLS and REALITY | the config is for the selected node |
| Command line (`conflux-cli`) | none | fetch, convert, validate, daemon | core, files | what one command writes another reads | a file that is written is one that is accepted |
| Facade, example, schema, CI | none | re-exports, fixed files | | none | |

Interactions. A client connection is a tokio task of the server; its handlers
share `EngineState`. FETCH calls the fetch-parse-normalize pipeline under
`fetch_lock` and stores the profile under the data lock. CONNECT clones the
profile, waits for the backend mutex, then calls `apply_profile` and `start`.
DISCONNECT calls `stop`. STATUS keeps the data read lock while it waits for the
backend mutex. The backend owns the child process and its config file. A client
opens a connection for each request and finds the daemon through the socket
file; daemons of one endpoint exclude each other by a flock. A sing-box outlives
a daemon that is killed. The
hazards each component is exposed to are listed one by one, at their lines, in
`PROJECT.json`.

## 2. Modules

| Module | Models | Role |
|---|---|---|
| `SingboxBackend` | `runtime.rs`, `process.rs` | the lifecycle, its steps and failures, its properties |
| `Tunnel` | the promise of `traits.rs` | abstract specification |
| `SingboxTunnel` | | refinement mapping from `SingboxBackend` to `Tunnel` |
| `IpcServer` | `server.rs`, the prefetch of `run_daemon` | extends `SingboxBackend` with the tasks, their locks and their requests |
| `EngineApi` | handlers of `server.rs`, as operators | what a request may do to an engine and answer |
| `EngineService` | the promise of the IPC protocol | abstract specification: each request is one step |
| `IpcEngine` | | refinement mapping from `IpcServer` to `EngineService` |
| `DaemonInstances` | `run_daemon`, `run_unix`, `DaemonLock` | launches, lock, socket file, failures and deaths of daemons |
| `Deployment` | `client.rs`; composes `DaemonInstances` and `EngineApi` | clients, daemons and sing-box processes on one machine |
| `SubscriptionFetch` | `fetch/mod.rs`, `fetch_and_normalize` | the attempts of a fetch against an arbitrary panel |
| `Profile` | `parse/`, `normalize/mod.rs`, node ids, `singbox/config.rs` | from a body to nodes and an outbound, as operators |
| `ProfileOutputs` | redaction (`conflux-protocol`), `conflux-cli` | what clients and files get of a profile, as operators |
| `Metadata` | `fetch/headers.rs`, directives of `parse/mod.rs`, `normalize` | title, interval and quota, as operators |
| `Subscription` | | `SubscriptionFetch` with the bodies and profiles of these three |
| `SingboxProofs`, `IpcProofs`, `EngineProofs`, `DaemonProofs`, `DeploymentProofs`, `FetchProofs`, `ProfileProofs`, `SubscriptionProofs` | | theorems and proofs |
| `MCSingboxBackend`, `MCSingboxTunnel`, `MCIpcServer`, `MCIpcEngine`, `MCDeployment`, `MCSubscription` | | instances for TLC |

### SingboxBackend

State and code: `state`, `configPath`, `child`, `lastError` are the fields of the
same name. `config` stands for `profile`, `selected_node_id` and `config`, which
`apply_profile` always assigns together; a config is the pair it was generated
from. `generate_config` is the constant `Usable`, the pairs it accepts. `proc`
is the operating system: the config each live process was started with. `disk`
is the one config file of the daemon. `call`, `held` and `outcome` say how far
the method in progress has got, the `Child` that `SingboxProcess::stop` has
taken out of the handle, and what the last method returned. `abandoned` is a
history variable: the live processes whose handle was dropped.

Actions: a method that does not block is one action for each of its ways out
(`ApplyRejected`, `ApplyInvalid`, `ApplyAccepted`, `StartRejected`, `StopIdle`,
`Refresh`). `start` is `StartBegin`, `WriteConfig` or `WriteFails`,
`SpawnSucceeds` or `SpawnFails`, `Settle`; `stop` is `StopBegin`, `KillNothing`
or `KillSucceeds`, `Reap`, or `StopFails`. Between two of them only the
operating system moves (`ProcessExits`): the methods take `&mut self`, so
calls do not overlap. Every method begins with the refresh the code begins
with. `Faults` is the set of failures the operating system may produce in an
instance: creating the directory or file, a failure after the file is written,
spawn, an exit of the process by itself, kill, try_wait, remove_file.

Two abstractions to know: a failed kill leaves the process alive or dying (both
are behaviours of the model, since an abandoned process may always exit), and
`start`'s sleep and `stop`'s polling have no duration.

### IpcServer

One action per stretch of handler code between two awaits. The tokio locks are
sequences of tasks in the order of their calls, the head being the owner;
`readers` are the tasks that keep the data lock for reading across an await,
which is only STATUS. A reader behind a waiting writer waits, as in tokio.
`pc`, `request` and `local` are a task's position, request and cloned or
fetched profile. `present` is whether the backend option is `Some`: CONNECT
looks for the binary again, and may find it, while it is `None`. `before` is a
history variable that records the order in which FETCHes arrived.
PING and rejected lines touch no shared state. A client that goes away does
not stop its handler; what happens to the answer is not a matter of the server.

### EngineApi, EngineService, IpcEngine

`EngineService` is what a client may assume: an engine `[profile, fetchError,
status, config]` on which each request is one indivisible step that answers
with what it did. `EngineApi` holds the outcomes of each request as sets, since
`Deployment` uses them too. CONNECT is the exception, and takes two steps:
`Choose` settles on the profile, `Connect` applies it, and other requests may be
answered in between (finding 3 is what that allows). A process that died shows
in the next answer about it, so that STATUS and DISCONNECT may have a side
effect (`Noticed`).

`IpcEngine` adds two history variables to `IpcServer`: `said`, the response
returned in the last step, and `committed`, the state and config of the backend
when no handler was between `apply_profile` and the return of `start()` or
inside `stop()`. The mapping shows profile and fetch error as they are, the
backend as `committed`, and `chosen` as the clones of the CONNECTs that wait or
work. Since `said` is part of the abstract state, every response of the server
must be one the atomic engine gives at that moment.

### DaemonInstances, Deployment

A daemon is one launch: off, prefetch, lock, claim (write the pid), unlink, bind,
restrict (chmod), serve, gone; `blocked` is a bind that found a file.
`holder` is the flock, which the kernel drops when a process ends in any way;
`socket` is the daemon that bound the file, which stays when that daemon dies.
`Fail` is any error that `run_unix` returns, an accept error among them, `Die` a
signal or panic at any point. A daemon that is replaced is another member of
`Daemons`, so launching a second one beside the first and restarting are the
same action at different moments.

`Deployment` gives each daemon an engine of `EngineApi` in its memory and adds
the clients of `client.rs`: `Call` opens a connection, `Receive` reads the
response, and `fetch` goes on to GET_PROFILE on a second connection when the
response carries no profile (`Incomplete`). This daemon always embeds it;
`SummaryOnly` are daemons that follow `docs/ipc-protocol.md`, which has a summary
only, and for which the client's fallback is written. `Ends` is a connection
that closes without a response. A daemon that dies loses its engine and the
responses it had not written and keeps no promise to its clients; its sing-box
lives on, but no other daemon ever learns of it, so that `alive` holds the daemons
whose own sing-box lives. CONNECT is cut where `start()` sleeps
(`Spawn`, `Settle`): until it answers, the sing-box may exit (`ChildExits`), other
clients may fetch, and the daemon may die. `Settle` answers as the code does, OK if
the process is alive and ERR if it has exited; whether it has bound its port is
something `start()` does not look at. Failures other than an exit are those of
`SingboxBackend` and are not repeated here. Of STATUS, CONNECT and DISCONNECT the
response keeps the backend state only. `own` is a history variable: the profile a
client's last FETCH was answered with, and by which daemon.

### SubscriptionFetch, Profile, ProfileOutputs, Metadata, Subscription

`SubscriptionFetch` is the loop of `fetch_subscription`: `stage` and `agent` are
the position in its two passes (all User-Agents, then the first `Retries` of
them with `flag=clash` unless the URL has it), `best` and `lastErr` its locals.
Each attempt is one action for each way it may end (`UsableAnswer`,
`StubAnswer`, `AttemptFails`); what a panel answers is arbitrary, since it may
depend on the User-Agent and on anything else. `Conclude` is the end of the
function, and `Deliver` what `fetch_and_normalize` and the FETCH handler make of
the body. `answers` and `outcome` are history variables. Before the loop the URL is
resolved: a `happ://` link waits for its helper (`AskHelper`, stage "resolving"),
which may fail or never return.

`Profile` has no state. An entry of a body is a record of the fields that decide
something: whether it becomes a node (`ClashNodes` or `UriNodes`, `Normalizes`), which (`Node`
with its credentials, transport, TLS, REALITY and options), under which id (`Id`), whether
it is a placeholder, and the outbound it becomes. Options are what else a parser reads and
`config.rs` may pass on (`OptionsOf`, `PassedOn`): flow, encryption, obfs, hop ports. A URI with
user:pass has two credentials, of which trojan and hysteria2 take one (`UserOrPass`),
as it is written in the URI (`Encoded`). The text of a notice is "legible", which both
`is_stub_body` and `is_placeholder_node` recognize, or "hidden", which only the latter does
after decoding. An entry that fails does so with the kind of its error (`ErrorKind`), and
`normalize` skips the kinds of `is_skippable_node_error`. The differences between a URI
and a Clash item are kept: aliases, default ports, a port that is too large
(skipped, or 8443 for `himera`), protocols that are refused as URIs but kept
as Clash items, trojan and hysteria2 URIs that imply TLS and Clash items that do
not, a Clash transport whose options are read from the wrong level (so that
`ws-opts` are lost and the header type is the protocol). The hash of an id is
taken to be injective. Each filter of the code (`RawNodes` of the parser, `Normalize`,
`Usable` of `fetch_and_normalize`) is the set of the positions that pass it, and
`NodesAt` the list of the nodes there, in the order of the body: `Nth` is the n-th
of a set of positions. That is what makes the order and the independence of entries
a matter of sets, which can be proved about.

`ProfileOutputs` follows a profile out of the engine: `View` is what FETCH and
GET_PROFILE show, with credentials hidden and ids kept; `Written` is what the
files of `conflux fetch` and `conflux convert` hold, `Valid` what `conflux
validate` accepts, which trims a server before it asks whether it is empty: a server of
blanks (`Blank`) is refused there and nowhere else.

`Metadata` is what a panel says of the subscription. A header and a directive
of the same key are read by the same parsers; `Merge` prefers headers, with the
rules of `pick_title`, `pick_update_interval` and `Option::or`, which differ: an
empty title or an interval of 0 gives way to the directive, while a quota header
without a readable number is a quota of zeros and does not. Directives inside a
Base64 body are not seen by the code, since they are read before it is expanded
(`parse/mod.rs:60`), though `docs/architecture.md:153` lists the two steps in
the other order.

`Subscription` ties them: `Stubs` and `Parsed`, arbitrary in
`SubscriptionFetch`, are those of `Profile` (`SubscriptionAssumption`, which
TLC evaluates).

## 3. Runs

| Run | Question | Result |
|---|---|---|
| `backend_faults` | With all seven kinds of fault, do the handle, the processes, the state and `last_error` stay consistent? `TypeOK`, `NoProcessForgotten`, `ServesApplied`, `ErrorExplained`, `HandleMeansRunning` | holds, 9 747 states up to symmetry |
| `backend_tunnel` | Without losing handles, is the backend a tunnel, and does every call return? `OneTunnel`, `ImplementsTunnel`, `CallsReturn` | holds, 867 states |
| `backend_idle` | Does Idle mean that no process runs? `IdleMeansNoProcess` | violated, finding 1 |
| `backend_release` | Does a `stop` that returns Ok delete the config file? `StopReleases` | violated, finding 2 |
| `ipc_safety` | Two connections, all requests, all faults: mutual exclusion, true answers, no circle of waiting handlers, and one indivisible step per request. `ServerTypeOK`, `BackendExclusive`, `AnswersTrue`, `NeverStuck`, `StatusTrue`, `ImplementsEngine` | holds, 177 142 states |
| `ipc_order` | Three connections: order of FETCHes and no file left behind. `FetchesInOrder`, `IdleLeavesNoFile`, `SecretTracked` | holds, 756 054 states |
| `ipc_live` | Three connections that never stop asking: is everyone answered? `AllAnswered` | holds, 126 436 states |
| `deployment` | Two clients, two daemons of one endpoint, killed or failing anywhere: who serves, what is a client connected to, does every call return? `DeploymentTypeOK`, `OneServer`, `ServedSocketStays`, `NoneBlocked`, `FetchReturnsOwn`, `ConnectUsesFetched`, `CallsEnd` | holds, 286 127 states |
| `fetch` | Any answers of a panel: which one wins, what is reported, does it end, is the profile complete, do ids reach their nodes, are written files valid, is what the panel says of the subscription kept? `FetchTypeOK`, `FirstUsableWins`, `ErrorOnlyWhenAllFailed`, `FetchEnds`, `EntriesIndependent`, `SelectionReaches`, `FilesValidate`, `MetadataKept`, `IntervalsAgree` | holds, 68 928 states |
| `fetch_retry` | Is a body of an unknown format retried? `RetriesUnknownFormat` | violated, finding 4 |
| `fetch_ids` | Do ids survive a refresh? `IdSurvivesRefresh` | violated, finding 5 |
| `ipc_stale` | Does CONNECT use the last fetched profile? `ConnectUsesLastFetched` | violated, finding 3 |

Each property of a passing run has a mutant in `PROJECT.json`: a plausible bug
in a mapped definition (a dropped guard, a missing reset, a lock released too
early, a step that does not wait) under which TLC finds it violated. The
mutated definitions stand next to the ones they change.

Bounds. Two profiles, so that one can replace another; two nodes in the backend
runs, of which one profile has only one, so that a selection can be refused;
two process ids, so that a forgotten process and its successor can be alive
together, and a third would only repeat the second. In the server runs one node
is enough, since a selection is refused through the profile. Two connections
suffice for a pair of handlers that interfere; `ipc_order` and `ipc_live` have
three, one that holds a lock, a writer queued behind it and a reader behind the
writer, which is the case where tokio's fairness matters. The fetch runs have
two User-Agents and one retry, the fewest with a first, a next and a last one
in a pass, and two passes of different length; the proofs cover every number.
78 of their 102 bodies are those of one entry and of one entry after a good one: a
loop that treats entries independently is refuted by two. Among them are pairs that
share an id and differ in TLS, flow, security, obfs or hop ports, or in the lost half of
user:pass, notices that only one of the two tests sees, and servers of blanks. The other
24 are one good entry with headers and directives that agree, differ, are empty, unreadable
or repeated, with intervals on both sides of 3600.

`deployment` has two daemons on one endpoint: the first is running, failing or
dead when the second is launched, and a third would repeat the second. The first
is one that answers FETCH with a summary, the second prefetches. Two clients let
one FETCH come between the two connections of another. `MaxVersion` = 2 bounds
the subscriptions fetched by all daemons: the least that lets an own profile be
overtaken; once it is reached fetches can only fail, and the proofs have no such
bound. Other endpoints share nothing with this one; the proofs hold for any number of
them.

`CHECK_DEADLOCK` is left on except in `deployment`, where the system may stop:
no daemon is left and no client can connect. Elsewhere a request can always
arrive.

Fairness. `BackendFairness` lets a method that runs go on (it is code, and
nobody preempts it for ever) and a process that was killed die. `Fairness` of the
server is weak fairness of each task (the runtime polls what can go on; each
network attempt has a timeout of 30 s, so `FetchReturns` happens), of the method
in progress and of the death of a killed process. `FetchReturns` also covers a fetch that
asks the happ helper, which has no time-out: a helper that hangs keeps `fetch_lock`, and
then neither it nor any FETCH behind it is answered. In `Deployment`, a daemon that runs
boots as far as it can, the sleep of `start()` ends, and a client
reads what has arrived. A daemon that serves handles each request, with strong
fairness: a handler that needs the backend is disabled whenever another
holds it and enabled again in between, and that it gets its turn among others
is the FIFO order of tokio's locks, which `AllAnswered` shows of `IpcServer`.
Nobody has to launch a daemon, to kill one or to call. Nothing is assumed of clients,
of sing-box processes that were not killed, or of faults. A fetch goes on because
every attempt ends, with an answer or the time-out; `FetchEnds` begins where the URL is
there, and nothing is assumed of the helper. That a killed process dies is assumed where
`stop()` waits for it without bound (`process.rs:158`). That the FIFO locks
are enough for `AllAnswered` is what the run shows; with readers that overtake,
its mutant starves a FETCH.

## 4. Findings

1. A failed `kill` drops the handle of a live process (`process.rs:148`,
   `process.rs:152`). The state is then Error; the next `apply_profile` or `stop`
   makes it Idle while sing-box runs, and a CONNECT starts a second one.
   `docs/backend-singbox.md:140` says of Idle: "No sing-box process".
2. `apply_profile` after a crash goes from Error to Idle (`runtime.rs:182`)
   and leaves the file of the crashed run; `stop` in Idle returns at once
   (`runtime.rs:250`). `traits.rs:18`: "Stop the backend process and release
   resources." The server hides this, since CONNECT always starts what it
   applies: `IdleLeavesNoFile` holds there.
3. CONNECT clones the profile before it waits for the backend mutex
   (`server.rs:315`), so that it may apply an older profile than the last
   one fetched. `README.md:113`: "Apply last fetched profile".
4. A body that is neither a stub nor parsable ends the attempts of a fetch at
   once (`fetch/mod.rs:129`): an HTML page with status 200, or placeholders in
   Base64, which `is_stub_body` cannot look into. `fetch/mod.rs:25`:
   "User-Agents tried in order when a panel returns a stub or unknown format."
5. The id of a node hashes a header type that is the protocol for a Clash item
   (`normalize/mod.rs:573`) and nothing for a URI, so that a refresh answered in
   the other format changes every id. `docs/architecture.md:164`: "This ID
   survives subscription refreshes when the underlying endpoint is unchanged".

Modelling `Profile` also showed two things no doc speaks of: Clash items that
differ only in `servername`, REALITY keys or `ws-opts` share one id, so that
CONNECT starts the first of them; and Clash trojan and hysteria2 items get an
outbound without TLS. The same holds of all that `stable_node_id` leaves out and
`config.rs` passes on: entries that differ only in flow (`config.rs:170`), vmess
security (182), hop ports (250) or obfs (257) share one id, and CONNECT with that of the
second starts the first. `SelectionReaches` leaves these out and says so.

Other behaviour worth knowing, which no doc contradicts and no property states:

- A CONNECT that waits is not cancelled by a DISCONNECT that is answered before
  it, nor by its client going away; sing-box starts after the OK to DISCONNECT.
- The successor of a daemon prefetches before it takes the lock, so that it may
  serve a profile older than the last one its predecessor fetched.
- Without a configuration file the daemon's endpoint is the name of the Windows
  pipe on every platform (`conflux-daemon/src/config.rs:64`), where no client of
  a Unix system looks for it.
- A URI with port 0 or an empty server, or any entry with a server of blanks, becomes
  a node that `conflux validate` or the JSON schema refuses; `FilesValidate` names these
  exceptions.
- A trojan or hysteria2 URI with user:pass keeps the user only, or the password if there
  is no user, and what is percent-encoded stays so (`normalize/mod.rs:166`, `320`):
  sing-box gets another password than the panel stated. `SelectionReaches` excepts these
  entries (`Distorted`).
- A `subscription-userinfo` header without a readable number is a quota of zeros and
  hides the directive; a directive that says nothing takes back an earlier one.
- A happ helper that hangs blocks every later FETCH (`fetch/happ.rs:66`).
- A Clash trojan, hysteria2 or ss item without a password is a node with the empty
  password (a URI without one is refused), so that `SelectionReaches` compares the
  secret of the outbound with the stated one or, if none is stated, with "".
- An OK of CONNECT means that sing-box was alive after 400 ms (`runtime.rs:232`), not
  that it listens: one that exits later, for want of the port that an orphan of a killed
  daemon or the sing-box of another endpoint holds, is noticed by the next STATUS.

## 5. Proofs

The eight proof modules prove, for every value of the constants that satisfies
`BackendAssumption`, `ServerAssumption`, `DaemonAssumption`, `DeploymentAssumption`,
`FetchAssumption`, `ProfileAssumption` and `SubscriptionAssumption`:

| Theorem | Statement |
|---|---|
| `BackendTypeCorrect` | `BackendSpec => []TypeOK` |
| `NoneForgotten` | `BackendSpec => []NoProcessForgotten` |
| `ChildServesApplied` | `BackendSpec => []ServesApplied` |
| `ErrorsExplained` | `BackendSpec => []ErrorExplained` |
| `HandlesMeanRunning` | `BackendSpec => []HandleMeansRunning` |
| `CallsDescend` | `BackendSpec => [][CallDescends]_bvars` |
| `SecretsTracked` | with `FilesKept`, `BackendSpec => []SecretTracked` |
| `BackendImplementsTunnel` | with `HandlesKept`, `BackendSpec => ImplementsTunnel` |
| `BackendOneTunnel` | with `HandlesKept`, `BackendSpec => []OneTunnel` |
| `ServerTypeCorrect` | `Spec => []ServerTypeOK` |
| `ServerUsesBackend` | `Spec => BackendSpec` |
| `FetchOrder` | `Spec => []FetchesInOrder` |
| `OneMethod` | `Spec => []BackendExclusive` |
| `NoDeadlock` | `Spec => []NeverStuck` |
| `TrueAnswers` | `Spec => []AnswersTrue` |
| `NoFileLeft` | with `FilesKept`, `Spec => []IdleLeavesNoFile` |
| `TrueStatus` | `Spec => StatusTrue` |
| `ServerImplementsService` | `EngineSpec => ImplementsEngine` |
| `DaemonTypeCorrect` | `DaemonSpec => []DaemonTypeOK` |
| `SingleServer` | `DaemonSpec => []OneServer` |
| `SocketStays` | `DaemonSpec => []ServedSocketStays` |
| `SuccessorBinds` | `DaemonSpec => []NoneBlocked` |
| `DeploymentRunsDaemons` | `Spec => DaemonSpec` (of `Deployment`) |
| `DeploymentTypeCorrect` | `Spec => []DeploymentTypeOK` |
| `OwnProfileReturned` | `Spec => FetchReturnsOwn` |
| `FetchedIsConnected` | `Spec => ConnectUsesFetched` |
| `FetchTypeCorrect` | `FetchSpec => []FetchTypeOK` |
| `UsableAnswerWins` | `FetchSpec => []FirstUsableWins` |
| `ErrorsAreFinal` | `FetchSpec => []ErrorOnlyWhenAllFailed` |
| `FetchDescends` | `FetchSpec => [][Descends]_fvars` |
| `EntriesAreIndependent` | `FetchSpec => []EntriesIndependent` |
| `SelectionAlwaysReaches` | `FetchSpec => []SelectionReaches` |
| `FilesAlwaysValidate` | `FetchSpec => []FilesValidate` |
| `MetadataAlwaysKept` | `FetchSpec => []MetadataKept` |
| `IntervalsAlwaysAgree` | `FetchSpec => []IntervalsAgree` |

Assumptions. `BackendAssumption`: `Usable` pairs profiles with selections,
`Faults` is a set of fault kinds, and `None` is no process id and no pair.
`ServerAssumption`: requests are those `parse_request_line` accepts, and `None`
is no profile. `DaemonAssumption`: each daemon has an endpoint, and `None` is no
daemon; any fault may happen. `DeploymentAssumption`: commands are those of the
client, `None` is no client, and `MaxVersion` is a number. `FilesKept` (no failure after the file is written, no failing
remove_file) and `HandlesKept` (kill and try_wait do not fail) are hypotheses of
the theorems that name them, because without them the statements are false:
finding 1 is what happens without `HandlesKept`.
`FetchAssumption`: there is a User-Agent to retry with, stubs are bodies, and
errors and `None` are not bodies; nothing is assumed of the panel or the parser.
`ProfileAssumption`: a field that is missing is neither a UUID nor a number nor a
secret that a URI encodes.
`SubscriptionAssumption`: a body is one of the five forms with a sequence of entries, a
sequence of directives and three headers, in which an interval is a number and a quota a
sequence if they are stated; `Stubs` and
`Parsed` are what `IsStub` and `UsableNodes` say of the bodies; and the two markers of
what is missing are no profile, no outbound and no quota.

Argument for the backend. None of the properties is inductive, since they
speak of the states between calls or forget where a method stands. `IInv` adds
`CallInv`, the annotation of each step: what `state`, `child`, `held` and `config`
are when a method is about to write, spawn, settle, kill or reap (for instance
that a start which is about to spawn has no child, and that the file on disk is
the applied config). A refresh changes nothing or forgets a child that is dead
or becomes `abandoned`; a handle leaves `held` only for a dead or abandoned
process. For the refinement, `NoneAbandoned` is added: with `HandlesKept`
nothing is ever abandoned, so that a state without a handle has no process.
`CallsDescend` is the well-founded part of `CallsReturn`: a step while a method is in
progress leaves it fewer steps to take, or is the exit of one more process.

Argument for the server. `TypeInv` (types, what a task holds at each await, and
that a task past a lock owns it) gives `StepBackend`: each step of the server is
a step of the backend or leaves it alone, hence `ServerUsesBackend`, and `IInv`
holds in the daemon. `FetchInv` relates `before` to the queue of `fetch_lock`:
the FETCHes that came before a task are in front of it. `MutexInv` says
that a method in progress belongs to the head of the backend mutex and what the
backend looks like when that task is about to start or to answer.

Argument for `NoDeadlock`. `NeverStuck` says nothing of who is in which queue, which
is what a circle of waiting tasks is made of. `QueueInv` does: the queue of the data
lock holds each task that awaits it once and nobody else, that of the backend mutex
those that await it or are inside, and the readers are the STATUS handlers that await
the backend; `FetchInv` says the same of `fetch_lock`. `SomebodyMayGo` then follows
the order of the locks: whoever is first at the backend mutex can go on, since no
method is half done when it is outside; if nobody is there, there is no reader, and
the first at the data lock can; if nobody is there either, the first FETCH can. The
mutant that records a failed apply under the data lock, inside the backend mutex,
reverses that order, and TLC finds the circle.

Argument for the engine. The mapping is preserved by every step: most steps of
`IpcServer` map to a stutter, the step that returns a response to the abstract
request, `ConnectClones` to `Choose`. What has to be
known is what a CONNECT or DISCONNECT that works in the backend owes to what
clients saw before: `CommitInv` says that `committed` is the backend itself
whenever no handler is inside, and, through `Called`, that a `start()` in
progress ends in running or in error with the new config, and that a `stop()` has
kept the config and can fail only if the backend had been seen running. With
`SInv`, the invariant of the server, it is inductive (`EInv`).

Argument for the daemons. `DaemonInv` adds to the properties `OwnersHoldLock`, a
daemon past the lock is its holder, which makes two of them equal, and
`BindFindsNoFile`: between unlink and bind nobody can put a file there, since only
an owner binds. `DeploymentRunsDaemons` lifts these to the composition.
`DeploymentInv` adds `StartHasClient` (a `start()` in progress belongs to a
client that still waits for that daemon), `OwnIsKept` (what a client was
answered is at most the engine's version as long as that daemon lives) and `StartIsFresh`
(the clone that a `start()` works with is at least as new as what the client that asked
for it was answered by this daemon): a client does not fetch while it waits for its
CONNECT, and a profile is only ever replaced by a newer one.

Argument for the fetch. The properties speak of a fetch that has ended;
`LoopInv` says what the loop knows before: the number of answers is given by
`stage` and `agent` (`Made`), none of them is usable, `best` is the first stub,
and without a stub `lastErr` is the last answer. `FetchDescends` is the well-founded
part of `FetchEnds`: each step of a fetch leaves fewer to make, at most one per
attempt and one to conclude. That the steps are taken is fairness, and stays with TLC.

Argument for the profile. `Delivered`, an invariant of the fetch, reduces the
properties of `Subscription` to statements about operators: a fetched profile is that
of the body the fetch rests on. These are the lemmas of `ProfileProofs`. `NthPosition`
shows that the positions of a finite set of numbers can be counted off: the number of
positions up to one is a bijection onto `1 .. Cardinality`, by the theorems on finite
sets and the least element of a set of numbers (`LeastPosition`), with no induction
over the data. Hence `UsableNodesAre`: the nodes of a body are those of its
usable positions, each usable because of its own entry (a repeated URI adds nothing),
which is `EntriesIndependent`. `SelectNodeFacts` is the first match;
`RedactionKeepsIds`, `IdDetermines` (what two nodes of one id share, down to the
outbound) and `OutboundOf` (whose credentials it carries) give `SelectionReaches`.
`NormalizeSkips` shows that no error of an entry is of a kind that fails the body.
`WrittenAt` and `InvalidNode` say which entries a
node that `validate` refuses can come from. `MetadataKept` is stated by positions and
numbers, not with the operators `Merge` is made of: `BodySays` finds the last directive
of a key, by the greatest of its positions (`LastOfFacts`, `GreatestPosition`); `HoursRead`
and `QuotaRead` compare what was read with what was stated; and `KeyKept` goes through
the keys. `UnitsAgree` is what `IntervalsAgree` needs.

What stays with TLC: `AllAnswered`, `CallsReturn`, `FetchEnds` and `CallsEnd`
(liveness under fairness), and the five violations. Every other property of a run is
a theorem.

## 6. Not modelled

`Profile` leaves out the scan of URIs
inside other text, and packet encoding, which is read of a vless URI and passed on of a vmess
node only, and so never is; announcement, support link, proxy groups and rules are
passed through. Windows pipes differ from Unix sockets in how connections arrive
and have no socket file; `DaemonInstances` is Unix only. JSON, YAML, Base64 and
URI text, TLS and HTTP, logging, file permissions, the work of the happ-decrypt helper,
the ports that sing-box binds, what becomes of the sing-box of a dead daemon, and
the lookup of the sing-box binary are outside the models. Reading `conflux.toml`
is the constant `EndpointOf`; the flags and messages of the command line are not
modelled. Time is not: `start` blocking a runtime thread for 400 ms while others
wait is not visible. PING, the example and the facade have no state.

## 7. Plan

Done: the backend and its tunnel, the server, the fetch and the profile, daemons,
deployment and the atomic engine, with proofs of all their safety properties.

Left, in this order:

1. The well-founded part of `CallsEnd` and `AllAnswered`, as `CallsDescend` and
   `FetchDescends` are those of `CallsReturn` and `FetchEnds`.
2. An abstract fetch (some usable answer, or an error after all attempts) that
   `SubscriptionFetch` implements, and the fetches of `IpcServer` as its
   instances.
3. `Usable` of the backend as what `GenerateConfig` accepts of the profiles of
   `Profile`.
4. `EngineService` with clients that retry: which of CONNECT and DISCONNECT may
   be repeated after a lost answer.
5. The named pipe of Windows beside `DaemonInstances`.
