# TLA+ verification of eltanin

Eltanin decides which local process may use a protected compute resource (a GPU).
A client asks the agent, `eltanin-agentd`, over a Unix socket for a *compute lease*; the agent
observes who is on the other end of the socket, evaluates policy, issues a short-lived lease
bound to that process and its executable, asks a compute backend to enforce it, and
records what happened. `eltanin run` is the client: it launches a workload
under a lease, renews the lease while the workload runs and releases it afterwards.

This directory models both sides: of the agent its authorization core, the policy decision it
makes, the collectors that observe its peers, the server around them, the socket path it owns and
the audit trail it leaves; and `eltanin run`, from its argv to the release of its last lease. TLC
checks the models, TLAPS proves their safety properties.

## 1. Inventory

| Component | State | Operations | What is hard |
|---|---|---|---|
| Authorization handler (`eltanin-agent/src/authz/mod.rs`, `state.rs`) | `Mutex<LeaseState>`: lease map, `reserved` counter, the issuer | `handle_status`, `handle_request_lease`, `handle_release_lease`, `issue_reserving_capacity` | The lock is dropped across `backend.enforce` and kept across `backend.revoke`; a failure after issue must be undone; a panic unwinds to `serve_connection` |
| Lease issuer (`eltanin-core/src/lease.rs`) | `instance`, `next_sequence`, `revoked` | `issue`, `revoke`, `validate` | Order of checks, expiry at the exact instant, u64 overflow, ids across restarts |
| Identity (`identity.rs`, `peer.rs`) | none | `compare_process`, `compare_executable`, `classify_consistency`, `authorizable` | Three-valued answers that must fail closed; pid reuse, `execve` |
| Policy (`policy.rs`) | none | `PolicySet::evaluate` | Missing evidence must never widen access |
| Backend (`eltanin-backend`) | enforcement per resource | `enforce`, `revoke` | Any class of failure, any duration, panics |
| Accept loop (`server.rs`, `daemon.rs`) | `active` counter, shutdown flag, thread handles | accept, spawn, drain | Counter shared with connection threads, waking a blocked accept, deadline of the drain |
| Connection (`connection.rs`, `eltanin-protocol`) | one socket | read a frame, decode, handle, answer | Partial reads, time-outs, catching a handler's panic |
| Socket lifecycle (`listener.rs`) | a path in the file system | bind, probe, recover a stale socket, remove on drop | Two agents starting or stopping on one path |
| Audit sink and explain (`eltanin-audit`) | file, `next_sequence`, `failed_writes` | `append`, scan, gap detection | Order of lines, failed writes, restarts appending to one file |
| `eltanin run` (`eltanin-cli`) | lease, deadline, child process | launch S0–S11, supervise, renew, release | Lost answers, renewal racing the deadline, agent restarts under a running workload |
| CLI arguments and profiles (`args.rs`, `profile.rs`) | environment, profile files | `parse_run`, `ProfileName::parse`, `profile_dir`, `load_profile_from_dir` | Options that look like values and values that look like options; which directory decides |
| Collectors (`eltanin-linux`, `eltanin-macos`) | none | `collect_peer_context`: a dozen reads of one pid | The credential is of connect time, the process is observed later, read by read, while pids are reused |
| Apple backend (`eltanin-apple`) | none | probe, `enforce` | None: it enforces nothing and says so |

How they interact: the accept loop gives each accepted socket to a thread of its own;
`serve_connection` derives the peer *before* it reads the request, decodes one request, calls
`RequestHandler::handle` inside `catch_unwind` and writes one answer. All handler threads
share one `AuthorizationHandler`. The handler calls the policy and the issuer under its lock,
the backend with or without it, and the event sink with no lock held. The client opens one
connection per exchange, so an answer can be lost after the agent has acted on the request.

## 2. Modules

| Module | Models |
|---|---|
| `WorkloadIdentity` | Evidence and the comparisons made on it, as operators |
| `LeaseAuthority` | Handler threads, lease store, issuer, backend enforcement, clock, restarts; all its properties |
| `LeaseLedger` | Abstract specification: what a lease service promises its clients |
| `LeaseRefinement` | The mapping from `LeaseAuthority` to `LeaseLedger` |
| `MCLeaseAuthority` | Small instances for TLC |
| `LeaseAuthority_proofs` | Typing, capacity and pairing theorems |
| `LeaseSafety_proofs` | Freshness of ids, single release, teardown, holder, answer and grant theorems; the refinement of the ledger |
| `PolicySet` | Validation of a policy document and its evaluation, rule by rule |
| `MCPolicySet`, `PolicySet_proofs` | Its instances and its theorems |
| `AgentServer` | Accept loop, slot counter, connection threads, `shutdown()`, drain |
| `MCAgentServer`, `AgentServer_proofs` | Its instances and its theorems |
| `AuditLog` | The audit sink, the file it writes over several lives of the agent, and what explain reads |
| `MCAuditLog`, `AuditLog_proofs` | Its instances and its theorems |
| `SocketLifecycle` | Agent processes on one socket path: bind, recovery of a stale socket, shutdown by path, Drop |
| `MCSocketLifecycle`, `SocketLifecycle_proofs` | Its instances and its theorems |
| `CliInvocation` | What `eltanin run` makes of argv and environment, as operators |
| `LaunchSupervisor` | `eltanin run`: launch sequence, supervision, renewal, lapse, release, signals; the agent and the workload around it |
| `MCLaunchSupervisor`, `LaunchSupervisor_proofs` | Its instances and its theorems, those about `CliInvocation` included |
| `PeerCollector` | One collection of a peer's context, on Linux and on macOS, among processes that come and go |
| `MCPeerCollector`, `PeerCollector_proofs` | Its instances and its theorems |

The modules fit together at these seams. `AgentServer.Handle` is the stretch of
`LeaseAuthority` from `Receive` to `Reply` (panics included); conversely `ServedBound`, proved of
`AgentServer`, is why a finite set `Threads` is all the handler ever sees. `PolicySet`
is what `Decision(_, _)` stands for in `LeaseAuthority`: the theorems about leases hold for any
decision function, those about policies say which function it is. `AuditLog.AppendEntry` is what
`LeaseAuthority.Record` calls, by the same threads and with no lock of the handler's held.
`PeerCollector` ends with the verdict that `Authorizable` of `WorkloadIdentity` asks for; the same
operator, `ClassifyConsistency`, is in both. `SocketLifecycle.Drained` is one step because `AgentServer`
shows that the drain returns (`ShutdownCompletes`), and `AgentServer`'s wake reaches its own loop because
`SocketLifecycle` shows that the path names the agent's own socket (`LiveSocketUntouched`). The agent
inside `LaunchSupervisor` is `LeaseAuthority` reduced to what a client can tell: leases of at most
`Ttl`, a remaining time that is never overstated (`GrantNeverOverstates`), releases that end a lease
or are refused, requests acted on whether their client still waits or not.

### LeaseAuthority and the code

A thread's `pc` says where in the handler it is:

| `pc` | Code |
|---|---|
| `idle` | no connection, or reading a request |
| `begin` | `handle` entered, no lock taken yet |
| `enforce` | inside `backend.enforce`, no lock, one reservation |
| `allowed` | `enforce` answered `Allowed`; the clock is about to be read again, outside the lock |
| `insert` | `remaining` computed and positive, about to lock and insert |
| `rollback` | a failure after issue, about to lock, revoke and release the reservation |
| `teardown` | inside `backend.revoke`, **holding the lock** |
| `record` | about to call `EventSink::record` |
| `reply` | about to send the answer |

A critical section without a backend call is one action: no other thread can see it
half done. A release is split at `backend.revoke`, so `LockFree` (nobody is at `teardown`) is
the mutex. The code's saturating subtraction, its checks' order in `issue` and `validate`, its
`expires_at <= now` pruning and its clock reads (inside the lock for issue and release, outside
it for `remaining`) are all kept. `Decision(_, _)` stands for `PolicySet::evaluate`; it is an
arbitrary function of workload and request in the proofs. `EnforceFails` covers `Denied`,
`Unsupported`, `Error` and `Err`. `EnforcePanics` and `TeardownPanics` are the panics
`serve_connection` catches; `BackendPanics` says whether the backend is one that panics. A
panicking `enforce` may or may not have installed its enforcement, and never gives its reservation
back: `leaked` counts those.
`Restart` is the death of the process at any moment: everything the agent keeps is in memory,
so it starts empty with a new instance id, and the threads' clients are gone. Whether
enforcement survives a restart is the backend's affair and left open.

Abstracted: payloads, strings and reasons; uid, gid and ancestry, which only policy reads; the
lease's copy of the policy provenance.

### PolicySet and the code

`Load` and `Reject` are `PolicySet::from_versioned` followed by `from_document`; `RuleError` keeps
the order of the checks, `DocumentError` returns the first failure met. `BeginEvaluate`,
`EvaluateRule` and `Decide` are the three parts of `evaluate`: empty sets, one iteration of the
loop per step, precedence. A condition is a field, an expected value and a trust floor; a context
gives each field present (with a source), missing or unsupported evidence. The policy's revision
and provenance, which are only copied, are left out. A rejected document ends the agent's start,
which is why these runs do not ask for deadlock freedom.

The reference (`Permits`, `Holds`, `Excluded`) says what a *set* of rules means, with no order, no
cursor and no three-valued outcome.

### AgentServer and the code

`loop` is the accept-loop thread: `accept`, `check` (the flag), `load` and `admit` (the two
operations on the counter), `spawn`, then `poll` and `unfinished` in `drain`, and `returned`.
`phase[c]` is a connection: unopened, queued in the backlog, accepted, dropped, or where its thread
is in `serve_connection` (`derive`, `header`, `body`, `decode`, `handle`, `send`), after which the
slot guard is dropped (`closing` to `released`) before `is_finished` may say so (`finished`).
`caller[k]` is a thread inside `shutdown()`; its self-connect is in the same backlog as clients'
connections. Time is two countdowns: what is left of the current read's `io_timeout`, restarted by
every read as the socket option is, and what is left of the drain. `Tick` lets time pass, never
past the end of a blocked read. A read delivers bytes (`ReadChunk`, `ReadHeader`, `ReadBody`), ends the stream
(`ReadEof`), is interrupted and made again with the whole timeout before it (`ReadInterrupted`), times out
(`ReadTimesOut`) or fails at once (`ReadFails`). Frames are a number of chunks; what a frame contains is the
choice of `ReadHeader` and `Decode`.

### AuditLog and the code

A thread is `idle`, in `write_line` with the sink's lock held (`head`, `tail`, `end`: the piece it
writes next), or past the lock with an error in its hand (`failed`). A line is three pieces: the
JSON text cut at an arbitrary place, and its newline. `WriteFails` and `Restart` may come before
each piece, which gives every kind of remains `write_all` can leave: nothing, part of the text, or
the text without its newline. The end of a process is modelled, the loss of power is not: the
sink never calls `fsync`, and bytes handed to the kernel survive the process.
`Restart` takes a new instance id, as a restart within one boot does. Across a reboot that is an
assumption: the id is made of pid and start token (`runtime.rs:81`), and on Linux the token counts
ticks since boot.

`versions` gives each instance the schema version of its build, `Current` being the reader's.
`Stands(i)` is a line that is one JSON document. `Records`, `Recovered`, `DetectGaps` and `Select`
are `read_log`, `recover_event_id`, `detect_gaps` and `select` as operators on the file, so that
every invariant about them covers a reader at any moment, in the middle of a write included. A file with a torn
character in it is `Unreadable`: `read_to_string` refuses it, no line of it stands and `select` answers with
the error.

### SocketLifecycle and the code

An agent is a process and `pc[a]` the system call it makes next: `stat_parent`, `mkdir` and
`chmod_parent` in `ensure_parent_directory_is_safe`; `bind`, then `stat`, `probe`, `remove` and
`rebind` in `recover_stale_socket`; `listen`, `chmod`, `signals`, `serving`, `draining`, `unlink` (Drop)
and `close`. `UnixListener::bind` is two calls, and between them a probe is refused as by a dead
agent's file. Every call may fail (`SystemCallFails`), an agent may be killed anywhere (`Killed`), and entries that
are no sockets come and go (`ForeignAppears`, `ForeignGoes`). `path` is a name: it holds whose socket it
names now, and whoever unlinks it unlinks that. `Shutdown` sets the flag and connects by path, as the
code does, so its wake goes to whoever listens there.

`TurnSpec` assumes that one agent at a time is between exec and its accept loop
(`StartersTakeTurns`), as under a service manager; agents that serve, drain or are killed
overlap freely. The run `socket_race` shows that the assumption is needed.

### LaunchSupervisor, CliInvocation and the code

`ParseArgv`, `ResolveProfile` and `SocketFromEnv` are S1 to S3, with the operators of `CliInvocation`: one turn
of `parse_run`'s loop per word, the checks after it in their order, the first variable that is set, and every
way a document can fail to load. An exchange (`Connect` to `ExchangeOver`) is a connection of its own: `wire` says
how far it has come, `elapsed` how long it has taken, `patience` what is left of the timeout of the current
read. `connect` has no timeout: in `connecting` the client waits until the listener has room
(`AgentConnects`), for ever if nobody accepts. A read that has got some bytes, or was interrupted, is made again with
the whole timeout (`ReadRestarts`). `Abandon` leaves the agent with
a request it will act on later (`LateRequest`, `LateRelease`) or with a lease nobody knows of.
`poll`, `signals`, `deadline` and `sleep` are one turn of `supervise`'s loop; `renew`, `release` with its three
attempts and two backoffs, and `terminate`, `grace`, `kill` are its calls. Durations are
countdowns, so runs of any length are explored; `deadline` goes negative after it has passed, down to one
below the bound that `OverrunBounded` claims.

The outcome is kept by name in `code`; `ExitCode` gives its number, and the workload's own `status`, any number
up to 255, is among them as in the code. `Message` is what is printed about the end.

Assumed: time passes only while the supervisor sleeps or waits (its own steps are short against
its poll interval); the request fits the socket's buffer, so that writing it takes no time. How often an answer can trickle is
bounded in the code by the length of its frame and not in the model. Lease names are reused
once a lease is gone everywhere, the agent's ids are not. An exit with `GovernedContextFailed` cannot happen
with the one `LaunchContext` there is (`NullContext`).

### PeerCollector and the code

`phase` is the read that comes next: the credential (`SO_PEERCRED`, or `LOCAL_PEERCRED` and then `LOCAL_PEERPID`,
which is live), `start`, `uid`, `gid`, `exe`, the walk up the parents, `cgroup`, and the uids the verdict
is made from. On macOS one `bsd_info` yields start, uid and gid at once, and there is no cgroup. Between any two
reads `Exits`, `Spawns`, `ChangesIds` and `HandsOver` may happen: exit with reparenting to init, reuse of a free pid,
set-user-id, a connected descriptor used by another process. A piece of evidence is the start token
of the process it was read from, since the properties ask whose evidence it is; the uids keep
their values. `hidden` are the processes this agent may not read.

Assumed: a pid is not given to a new process within one tick of the start token's clock, so tokens of one pid
differ; a procfs file that can be read also parses, but for the uids. `MAX_ANCESTRY_DEPTH` is a
constant.

## 3. Runs

| Run | Bounds | Shows |
|---|---|---|
| `lifecycle` | 2 threads, 2 slots, 3 leases, TTL 2, clock 0..3, a backend that may panic | The capacity bound is never overshot, reservations pair but for panics, nobody is refused while a slot is free; a failed request leaves no lease, a grant never overstates its lifetime (near the end of the clock's range too), teardown spares stored leases; every request is answered, with one event on record or, after a panic, none |
| `identity` | 5 kinds of peer, a policy that allows, denies and is indeterminate, 1 slot, 2 leases per life, a backend that may panic, 1 restart | Refinement of `LeaseLedger`; only the holder ends a lease; the holder is never refused |
| `decision` | every document of at most 3 rules out of 6, all 5 rule errors and 2 document errors, 2 fields with every evidence | The loop decides and explains what the set of rules means; unread evidence never helps |
| `server` | 2 clients, 2 callers of `shutdown()`, 1 slot, frames of 3 reads | Slot accounting, the drain's report; shutdown completes, every thread ends unless it is interrupted for ever, every handled request is answered |
| `trail` | 2 threads, 3 appends per life, 1 restart, both schema versions, first record of each life with a character of several bytes | Order of the file, honest gaps, honest "not found", every number accounted for, what a torn write costs |
| `socket` | 3 agents, a fresh directory that the umask leaves shared | Nobody takes another's path or binds in a shared directory; a signal ends its agent; a dead agent's file keeps nobody out |
| `launch` | every argv of up to 5 words out of 6 and five more, every environment; 3 leases, TTL 3, poll 1, timeout 1, grace 1, remaining capped at 2, 1 late request, a workload that exits with 77 | Resolution as documented; deadline, overrun, held lease, leases left behind, exit code and message; signals are forwarded, the run ends |
| `collector` | 4 pids, 3 process trees, depth 2, 3 changes, both platforms | Whose evidence passes as consistent, what the start token stands for, the ancestry |

Every property of a passing run has a mutant: a change to one definition that a plausible bug would
make (an operator marked as a fault), under which TLC finds it violated. Properties that are
proved for every instance and say little more than a run could (types, fresh ids, first release, the service
bound, the wake, trusted allowances, foreign entries, no file after a normal exit) are theorems
only.

Two clients and one slot let one be refused while the other is served, and the
slot be given back between the load and the increment; two callers let a wake arrive while the loop is already
draining. Two fields and three rules suffice for a deny rule that is undecided, one that holds and
an allow rule to meet in any order.

The passing runs have between ten thousand and two million distinct states each; `identity`, the largest, has 1.7 million.

Three leases are the fewest with which one is being released while a second is in flight and a
third is stored; two threads suffice for every race of a
release with a grant and of two grants for the last slot, and what is said about capacity is proved
for any number of threads. `LeaseTtl` =
2 lets a lease be issued, aged and expired at three different instants, and `MaxTime` is
reached, so that the overflow refusal happens. `MaxSequence` bounds how many leases are issued
and `MaxRestarts` how often the agent dies; both are guards of `Receive` and `Restart` only.
Symmetry over threads is used in safety runs only. Three appends let a torn line, the record it
swallows and a sound one follow each other; one restart lets the swallowed record be of another
instance than the torn one.

Three agents let one serve, one be recovered from and one start. A fresh directory that is left
shared is the worst umask: an agent killed between `mkdir` and `chmod` leaves it to the next. In `launch`,
three leases are one in use, one being acquired and one whose exchange was lost; a lifetime
of 3 with polls and a timeout of 1 lets a renewal fail and be retried before the deadline, and lets the
deadline pass inside an exchange; a cap of 2 below the lifetime is `MAX_LEASE_REMAINING` at work. An exit status
of 77 is also the code of `Denied`. `MaxElapsed` caps the time of an exchange where longer ones no longer differ: past its
timeout, every lease and every backoff. In
`collector`, a parent chain of three under a limit of 2 meets the limit, and three changes are an exit, a
reuse of its pid and one more; what is said of evidence is proved for any number.

Fairness: `FairSpec` asks for strong fairness of each thread's `Handle`. A thread waiting for
the mutex is enabled whenever no release is inside the backend, so weak fairness would be too
little under a stream of releases; strong fairness is what a mutex that does not starve its
waiters gives. It also says that backend calls return: the contract has no time-out, and
an `enforce` that never returned would hang its client for good.

`ShutdownSpec` assumes only that the accept-loop thread runs, that a `shutdown()` which stored the
flag goes on to connect, that time passes, and that a read whose timeout is up returns. Handlers may
hang and clients may stall for ever: the drain's deadline has to cope. The two properties about
connection threads state their own assumption, `ThreadsRun`: threads run, and so handlers
return. `SlotComesBack` also assumes, of the connection it speaks of, that its reads are not interrupted by
signals without end, since each such read starts again. Clients are never assumed to do anything.

In `SocketLifecycle` each agent process runs (weak fairness of its own steps); nobody is assumed to
connect. In `LaunchSupervisor` the supervisor runs and time passes; the agent may be silent for
ever, not even accepting, and the workload may run for ever. An exchange may then hang, and `WorkloadExitEndsRun` and
`SignalsForwarded` say what holds but for that: with `<>[]Hanging`, one exchange that is never over, as the
only alternative.

Runs that violate what the repository says of itself:

* `release_races_grant`: the comment at `authz/mod.rs:468` says that holding the lock across
  `backend.revoke` closes the race with a concurrent grant. The lock serializes the release
  against `insert`, not against the `enforce` that precedes it. TLC's trace: lease 0 is stored;
  a second request issues lease 1 and enforces; the release of lease 0 finds no *other stored*
  lease, revokes the backend; lease 1 is inserted and answered `LeaseGranted`, with nothing
  enforced. What does hold, and is proved, is `TeardownSparesStoredLeases`.
* `socket_race`: `listener.rs:26` says of a live agent's path that it is "never unlinked". TLC's trace: one
  agent has bound the path and not yet called `listen`; the other, starting, finds the path taken, probes it
  and is refused as by a dead agent's file; the first goes on to serve; the second removes its
  socket by name and binds its own. With a stale file on the path the same happens between the probe of the one and
  the bind of the other. The first agent then serves a path nobody reaches, and its
  `shutdown()` wakes the other.
* `descendant_survives`: `supervise.rs:185` says that after a lapse "no descendant keeps touching the protected
  resource". `SIGKILL` goes to the group only if the *direct child* outlives the grace; when it heeds
  `SIGTERM` and a descendant does not, `eltanin run` exits with 76 and the descendant runs on.
* `wedged_agent`: `client.rs:38` gives as the reason of `IO_TIMEOUT` that without it "a wedged or malicious agent could
  hang `eltanin run` forever" while the workload runs unsupervised. The timeout is that of single reads and
  writes, and `connect` comes before it. TLC's trace: a renewal begins, its `connect` waits for a listener that does not
  accept, the deadline passes, and the workload runs on beyond any sum of timeouts. What does hold, and is
  proved, is `OverrunBounded`: the bound stands on every path without an exchange longer than one timeout.

Seen while modelling: lines of the repository that the code does not meet, where the property states what
the code does instead.

* `authz/mod.rs:269` has each reservation paired with an insert or a release "on every path". A panicking `enforce`
  never gives its own back, and the agent's capacity is less by one for the rest of its life:
  `ReservationsPaired` and `NoSpuriousExhaustion` count it as `leaked`.
* `event.rs:88` has the sink called "exactly once per request". A panic under the handler answers a request of which
  the sink never hears: `AnswersAreRecorded` says one event for every other answer, and none for that.
* `server.rs:43` says that abandoned threads are bounded in wall-clock time by `io_timeout`. It bounds each read and
  each write; a read that delivers a byte or is interrupted starts it anew, and the handler in between
  is bounded by nothing. `SlotComesBack` says that the thread ends, not when.
* `explain.rs:26` says that an unreadable line is never fatal to reading the rest of the log. A line torn inside
  a character of several bytes makes `read_to_string` refuse the whole file, at the cost of every
  record: the second part of `TornWriteCostsOneRecord`, which also says that nothing else does.
* `CLI_CONTRACT.md:162` has a release that fails or is refused warned of. A release that the agent answers with a refusal
  ends `release` without the warning (`supervise.rs:226`): the `Refused` of `ExitTellsTheTruth`.
* `exit.rs:40` says that a message on stderr tells an exit code of `eltanin run` from the same code of a workload. After
  a failed spawn nothing is printed: 126 and 127 may be either's (`ExitTellsTheTruth`, its third part).
* `CLI_CONTRACT.md:139` has every signal forwarded exactly once. Once the authorization has lapsed the channel is not drained
  any more, although the workload may live through the grace (`supervise.rs:196`), and a signal before a
  spawn that fails has nowhere to go: the exceptions of `SignalsForwarded`.
* An unauthorizable peer is answered `LeaseDenied` before policy is asked (`authz/mod.rs:315`),
  although `domain-model.md:453` reserves that answer for a policy's deny.
* Evidence below a rule's floor counts as an observed mismatch (`policy.rs:195`), so a self-asserted
  value removes a deny rule that missing evidence would have kept. No collector yields
  self-asserted evidence today.

## 4. Proofs

Every invariant and action property that a passing run checks is also a theorem, for every value of the
constants, and so is the refinement; what is left to TLC is liveness. The assumptions are the ones
each module names at its constants, which TLC evaluates on its runs. An invariant that had to be
found for a proof was checked on the run's instance before.

### Leases

For every finite set of threads, all peers, resources, requests, every policy, TTL, capacity and clock
range (`ThreadsAssumption`, `RequestsAssumption`, `DecisionAssumption`, `ConfigAssumption`).

* `TypeCorrect`: `TypeOK` is not inductive, because what an action does with `held[t]` depends
  on where the thread is. `TypeInv` adds `ControlInv`, which ties `pc`, `call`, `held` and
  `outcome` together.
* `CapacityNeverOvershot`: `CapacityBound` alone is not inductive: an insert adds a lease and
  takes a reservation away, which keeps the sum only if there is a reservation to take. The
  invariant adds finiteness of the store and `ReservationsCover`.
* `ReservationsExactlyPaired`: each reservation is that of a lease in flight or one that a panic left behind, and
  without `BackendPanics` there are none of the latter.
* `LeaseIdsFresh`: `IdsInv` says that ids of stored and in-flight leases are pairwise
  different, issued and unrevoked; the two sets have to be treated together, since a lease
  moves from one to the other.
* `EveryReleaseIsTheFirst`, `TeardownSparesOthers`: `ReleaseInv` adds that the lock's holder is
  alone and that no stored lease names the resource it tears down.
* `OnlyTheHolderEndsALease`, `TheHolderIsNeverRefused`: action properties, from the same
  invariant. The second needs freshness of ids: without it a refusal could come from a
  revoked namesake.
* `FailedRequestsLeaveNothing`, `AnswersFollowTheirEvents`: `AnswerInv`, thread by thread. What a rolled-back
  request relies on, its id revoked and out of the store, must survive the steps of the other
  threads: revocation is for good (until a restart, which ends the request too) and ids in flight
  differ from stored ones (`IdsInv`). Nothing but a release is ever inside `backend.revoke`.
* `GrantsAreHonest`: `HeldTermInv` carries the lease's dates, without a wrap and with an issue in the
  past, from the first critical section over the unlocked enforcement to the answer; the clock may
  advance at any point in between.
* `ExhaustionIsReal`: rests on `ReservationsPaired`, which turns the reservations counted into leases in flight
  and those lost to panics.
* `HandlerImplementsLedger`: `Spec => Ledger!Spec` under the mapping of `LeaseRefinement`. An issue
  changes nothing the ledger shows, an insert is its `Grant`, a rollback its `Withdraw`, a prune or a release
  its `End`, a restart its `NewEpoch`. The step lemmas
  are about three sets, ids issued, stored and held (`SpentSplit`), and `RefinementInv` adds the capacity
  invariant, without which an insert would not be a step the ledger allows, and `BoundInv` (ids left for the
  requests under way), without which an id might be none of the ledger's.

### Policy

* `DecisionsMeanThePolicy`, `MissingEvidenceIsSafe`, `AllowanceNeedsEvidence`: for every set of
  documents, contexts and requests (`PolicyAssumption` says which fields they have). `HitsInv`: after
  `cursor - 1` rules each set holds exactly the ids of the rules before the cursor that the
  reference puts there; `DecisionInv` carries it through `Decide`. The second theorem follows from
  the first, since evidence that is added can neither unsatisfy a condition nor un-refute one.

### Server

* `ServerTypeCorrect`, `SlotsAccounted`, `ServedBounded`, `WakeIsNeverServed`: for every finite set of
  connections, every set of callers and all time-outs. The counter's type already
  depends on the accounting (it must not be decremented at zero). `QueueInv` and `StreamInv` say that
  a connection is in one place only, in the backlog, in the loop's hand or in a thread; `FlagInv`
  that a caller whose wake is in the backlog has stored the flag; `SlotInv` is the accounting with
  the bound on the counter at each point of the loop.
* `ReportIsComplete`: `HandlesInv` makes `handles` a bijection between its indices and the threads ever started, whence
  the equality of the two counts; `HandInv` says that nothing is in the loop's hand when the drain
  begins; `ReapInv` that what was counted as drained is within `Joined`, the threads among the
  handles looked at so far that have finished. Finished threads stay finished, so the count stands.

### Audit trail

* `TrailTypeCorrect`, `FileFollowsSequence`, `GapsNeverPremature`, `NotFoundExplained`: for every finite
  set of threads, any number of appends and restarts, with and without characters of several
  bytes. `WriterInv` says that the thread that writes is alone and writes the id minted last, of which
  the file has nothing before its head; `FileInv` that pieces were minted, are in the order of their
  ids, and that no id has two heads. The order of standing lines needs both: a head that follows a
  head of the same id would break it.
* `NumbersAlwaysAddUp`: with `AckInv` (only minted ids are acknowledged, the one being written not yet) each step moves
  a number from one account to another, and the sets counted are disjoint.
* `TornWritesAreCheap`: for a file that can be read `LineInv` says that the pieces of an acknowledged line are next to each other and nowhere else.
  An acknowledged line that does not stand therefore lacks only a beginning of its own, and what is glued
  before it is the end of a line that broke off; mapping the former to the latter is an injection into the ids never
  acknowledged. A file that cannot be read has a head whose tail never followed; with nobody writing, its id was not
  acknowledged.

### Socket

* `SocketTypeCorrect`, `LiveSocketSafe`, `SharedDirectoryNeverUsed`, `NoFileAfterNormalExit`, `ForeignEntrySafe`: for any
  set of agents whose starts take turns. `LiveSocketUntouched` is not inductive: that `RemoveStale`
  removes nobody's socket needs `RefusedIsStale` (what was refused is still not listened on) and
  `ListeningIsOpen` (an owner past `listen` is listening), and the turns rule out an owner that does
  not listen yet. `ParentChecked` carries the directory's mode from the check to the bind.

### Collector

* `CollectorTypeCorrect`, `SwitchIsCaught`, `TokenStandsForIdentity`: for any number of pids, any
  tables of processes, any depth limit and any number of changes. `TokensKnown` says that every token in sight was
  given out, so that the next one is new; hence a token that has left a pid does not come back, and
  `BracketInv` (as long as the pid bears the token read first, all that was read is of one process)
  survives what the others do. `SwitchInv` says what can have been read after none and after one
  replacement of the process behind the socket; `VerdictInv` turns it into the property, because
  the uids are read last and a pid that cannot be read is never Consistent.

* `AncestryIsTheParentChain`: `AncestrySound`, its second half by `QuietInv`: as long as nothing has changed, the
  processes are a tree in which a parent has the lower pid, so the walk goes down in pids and the test for a
  process already seen never ends it; it ends at init, at a hidden process or at the limit.

### eltanin run

For every lease duration, timeout, poll interval, grace and backoff, every set of leases and
every behaviour of the agent (`LaunchAssumption`), and for every set of command lines (`ArgvsAssumption`: sequences of words).

* `LaunchTypeCorrect`, `SignalsReachAWorkload`: `StageInv` says for each stage which leases there are, whether there is
  a workload and whether the outcome is decided; `WireInv` the same for an exchange.
* `DeadlineIsSafe`, `CountedLeaseIsHeld`: `CountInv`. The deadline is safe when it is taken because an answer's remaining time,
  less the time since the request began, is at most what is left; from then on both go down
  together. That the lease stays with the agent needs the same of the lease being granted, and
  that no late release is under way for either: a lease is given back only after another took its place.
* `LeasesAreAccountedFor`, `ExitIsTruthful`: `AccountInv`, inductive with the fact that a lease whose release
  was answered with success is no longer stored. The statuses of the workload are any set of numbers up to 255,
  so code and message are shown to tell the truth together, where the code alone could not.
* `OverrunIsBounded`: the bound says nothing about where the time may be spent, `TimeInv` does: for each stage, how far the
  deadline may lie back, as the sum of the exchanges, backoffs and polls that come before that
  stage on the longest path to SIGKILL, less what the current wait still has to run. All of it is
  for paths on which no exchange was `stalled`: an exchange that takes longer than one timeout sets it, and only
  a deadline seen ahead clears it.
* `ResolutionIsDocumented`: what `parse_run` computes for a command line of any length. The loop is a recursive function, so
  this is an induction over its words; `SetInduction` provides it for sets of naturals (the least number
  outside the set would be a successor of one inside, by `WFMin`). `LoopExists` shows that the
  function is defined, `LoopIsDetermined` that whatever takes the same turns ends in the same state; hence
  an error ends the parse (`ErrorSticks`), and what follows the separator is the command, word for word (`CommandGrows`).
  `ParseRunMeaning` is then a case analysis over the first four words. The other half, the search for the profile, is
  a case analysis over the variables that are set (`LoadProfileMeaning`).

### Only model-checked

Liveness, which is out of the prover's reach: `EveryRequestAnswered`, `ShutdownCompletes`, `SlotComesBack`, `HandledIsAnswered`,
`SignalEndsAgent`, `StaleSocketRecovered`, `WorkloadExitEndsRun` and the second half of `SignalsForwarded`. The four properties that runs refute are not theorems,
of course.

## 5. Plan

Every component with a state of its own is modelled and every safety property a run checks is
proved. What is left:

1. The safety core of the liveness properties, as invariants: that a thread of the server, a handler and the
   supervisor always has a step to take (no stage without a way on), with the time bound `OverrunIsBounded` already
   gives.
2. The seams of section 2 as theorems: that the agent inside `LaunchSupervisor` does nothing that the ledger
   does not allow.

## 6. Not modelled

The Apple backend and its probe (it never enforces: one of `EnforceFails`' results), the backend's
`discover` and `observe`, which authorization does not consult, `narrow_expiry`, which only tests
call, loading of configuration and policy files, the wording of messages and of
rendered reports, scripts and the web site.
