-------------------------- MODULE LaunchSupervisor --------------------------
(***************************************************************************)
(* `eltanin run`: the launch sequence (`launch::run`), the supervision     *)
(* loop with its renewals, lapse and release (`supervise`), the client's   *)
(* exchanges with their timeouts (`AgentClient::exchange`), the workload   *)
(* it starts and the signals it forwards, against an agent that may be     *)
(* slow, leave connections waiting, trickle its answers, refuse, close     *)
(* connections, restart, or act on a request whose client has given up.    *)
(*                                                                         *)
(* The agent's side is what LeaseAuthority shows of it: it issues leases   *)
(* of at most Ttl, and what it says remains of one never exceeds what does *)
(* (GrantNeverOverstates).                                                 *)
(*                                                                         *)
(* Instants are kept as countdowns, so runs of any length are explored:    *)
(* `deadline` is what is left until renewal.deadline (negative once it has *)
(* passed, and no longer counted once the outcome is decided).  The        *)
(* supervisor is prompt: time passes only while it sleeps or waits for the *)
(* agent.                                                                  *)
(***************************************************************************)
EXTENDS Integers, FiniteSets, CliInvocation

CONSTANTS
    Argvs,              \* bound: command lines, the program's name left out
    Statuses,           \* bound: exit statuses the workload may end with
    Leases,             \* bound: names for leases; a forgotten one is reused
    Ttl,                \* the agent's lease duration
    Poll,               \* POLL_INTERVAL
    IoTimeout,          \* IO_TIMEOUT of the client
    Grace,              \* TERMINATION_GRACE
    MinRetry,           \* MIN_RENEWAL_RETRY_INTERVAL
    RetryBackoff,       \* RENEWAL_RETRY_BACKOFF
    FirstBackoff,       \* RELEASE_RETRY_BACKOFFS[0]
    SecondBackoff,      \* RELEASE_RETRY_BACKOFFS[1]
    MaxRemaining,       \* MAX_LEASE_REMAINING
    MaxConnections,     \* the agent's bound on connections it serves
    MaxSignals          \* bound: signals waiting in the channel

NoLease == "NoLease"

ASSUME ArgvsAssumption == Argvs \subseteq Seq(STRING)

ASSUME LaunchAssumption ==
    /\ NoLease \notin Leases
    /\ Statuses \subseteq 0..255
    /\ {Ttl, Poll} \subseteq Nat \ {0}
    /\ {IoTimeout, Grace, MinRetry, RetryBackoff, MaxRemaining, MaxConnections,
        MaxSignals, FirstBackoff, SecondBackoff} \subseteq Nat

Least(m, n) == IF m <= n THEN m ELSE n
Greatest(m, n) == IF m <= n THEN n ELSE m
Down(n) == IF n > 0 THEN n - 1 ELSE 0

VARIABLES
    \* eltanin run
    input,          \* the argv, then the environment, last looked at
    pc,             \* the stage, or the call it is in
    lease,          \* renewal.lease_id
    deadline,       \* until renewal.deadline
    renew_at,       \* until renewal.renew_at
    releasing,      \* the argument of `release`
    attempt,        \* its attempts so far
    timer,          \* what is left of a sleep
    grace,          \* what is left of the termination grace
    code,           \* the outcome that is decided, or "None"
    outcome,        \* how the last `release` ended: "Warned" is the warning
                    \* on stderr that names the lease
    queued,         \* signals in the channel
    \* the exchange
    wire,           \* how far the current exchange has come
    patience,       \* what is left of the timeout of the current read
    elapsed,        \* time since attempted_at
    stalled,        \* history: since the deadline was last seen ahead, some
                    \* exchange has taken longer than one IO_TIMEOUT
    granted,        \* the lease the agent issued in it
    remaining,      \* LeaseView::remaining in the answer
    reply,          \* the answer
    \* the agent
    store,          \* the leases it holds
    left,           \* per name: what is left of that lease
    late,           \* requests whose client has given up
    late_releases,  \* leases whose release awaits although its client gave up
    \* the workload
    child,          \* the direct child
    status,         \* its exit status: its own code, or 128 + a signal's
    group,          \* whether a descendant runs in the child's group
    \* history
    lost,           \* leases of exchanges that failed or were refused
    forgotten       \* leases that an agent's restart made it forget

renewal == <<lease, deadline, renew_at>>
release_vars == <<releasing, attempt, outcome>>
supervisor ==
    <<input, pc, renewal, release_vars, timer, grace, code, queued>>
waiting == <<patience, elapsed, stalled>>
exchange == <<wire, waiting, granted, remaining, reply>>
agent == <<store, left, late, late_releases, forgotten>>
workload == <<child, group, status>>
vars == <<supervisor, exchange, agent, workload, lost>>

\* How a run may end: 0 after --help, a LaunchFailure, a failed spawn, a lapse
\* or the workload's own exit.
Failures == {"Usage", "ProfileUnresolved", "AgentUnavailable", "Denied",
             "AgentError"}
SpawnFailures == {"NotExecutable", "NotFound"}
NeverRan == {"Success"} \cup Failures \cup SpawnFailures
Codes == NeverRan \cup {"AuthorizationLapsed", "Workload"}

Exchanging == {"request", "renew", "release"}
Sleeping == {"sleep", "backoff", "grace_sleep"}
Ended == {"exited", "dead"}
Stages == {"start", "profile", "client", "install", "spawn", "poll", "signals",
           "deadline", "terminate", "grace", "kill"}
              \cup Exchanging \cup Sleeping \cup Ended

Init ==
    /\ input = <<>>
    /\ pc = "start"
    /\ lease = NoLease
    /\ deadline = 0
    /\ renew_at = 0
    /\ releasing = NoLease
    /\ attempt = 0
    /\ timer = 0
    /\ grace = 0
    /\ code = "None"
    /\ outcome = "None"
    /\ queued = 0
    /\ wire = "idle"
    /\ patience = 0
    /\ elapsed = 0
    /\ stalled = FALSE
    /\ granted = NoLease
    /\ remaining = 0
    /\ reply = "None"
    /\ store = {}
    /\ left = [l \in Leases |-> 0]
    /\ late = 0
    /\ late_releases = {}
    /\ child = "none"
    /\ status = 0
    /\ group = FALSE
    /\ lost = {}
    /\ forgotten = {}

-----------------------------------------------------------------------------
(* AgentClient::exchange *)

IsRequest == pc \in {"request", "renew"}

\* A fresh connection, with no timeout.  It is refused, or it waits for room
\* in the listener's backlog: for no time, or for as long as nobody accepts.
Connect ==
    /\ pc \in Exchanging
    /\ wire = "idle"
    /\ wire' \in {"closed", "connecting"}
    /\ UNCHANGED <<supervisor, waiting, granted, remaining, reply, agent,
                   workload, lost>>

ExchangeOver ==
    /\ wire' = "idle"
    /\ granted' = NoLease
    /\ reply' = "None"
    /\ remaining' = 0
    /\ patience' = 0
    /\ elapsed' = 0
    /\ UNCHANGED stalled

Unanswered == {"sent", "issued", "viewed"}

\* The timeout is that of one read.  read_exact reads again, with the whole
\* timeout before it, when some bytes have come and when a signal interrupts.
ReadRestarts ==
    /\ wire \in Unanswered
    /\ patience < IoTimeout
    /\ patience' = IoTimeout
    /\ UNCHANGED <<supervisor, wire, elapsed, stalled, granted, remaining,
                   reply, agent, workload, lost>>

Failed == wire = "closed" \/ (wire \in Unanswered /\ patience = 0)

\* The client drops the stream.  The agent is not told: a request it has not
\* handled yet it still will, and the lease it has issued nobody will use.
Abandon ==
    /\ ExchangeOver
    /\ late' = IF wire = "sent" /\ IsRequest THEN late + 1 ELSE late
    /\ late_releases' = IF wire = "sent" /\ pc = "release"
                            THEN late_releases \cup {releasing}
                            ELSE late_releases
    /\ lost' = lost \cup
                   ({IF IsRequest THEN granted ELSE releasing} \ {NoLease})
    /\ UNCHANGED <<store, left, forgotten>>

-----------------------------------------------------------------------------
(* launch::run, up to the spawn *)

Exit(c) ==
    /\ pc' = "exited"
    /\ code' = c

\* main, S0: --help and --version, then parse_run.
ParseArgv ==
    /\ pc = "start"
    /\ \E argv \in Argvs :
          /\ input' = argv
          /\ IF argv # <<>> /\ Head(argv) \in {"--help", "-h", "--version", "-V"}
                 THEN Exit("Success")
             ELSE IF ParseRun(argv).error # "None" THEN Exit("Usage")
             ELSE pc' = "profile" /\ UNCHANGED code
    /\ UNCHANGED <<renewal, release_vars, timer, grace, queued, exchange,
                   agent, workload, lost>>

\* S1 and S2: the profile is read and the null context established.
ResolveProfile ==
    /\ pc = "profile"
    /\ \E env \in SUBSET Directories, docs \in [Directories -> Documents] :
          /\ input' = [env |-> env, docs |-> docs]
          /\ IF LoadProfile(env, docs) \in Directories
                 THEN pc' = "client" /\ UNCHANGED code
                 ELSE Exit("ProfileUnresolved")
    /\ UNCHANGED <<renewal, release_vars, timer, grace, queued, exchange,
                   agent, workload, lost>>

\* AgentClient::from_env: the socket's path may be no UTF-8.
SocketFromEnv ==
    /\ pc = "client"
    /\ input' = <<>>
    /\ \/ Exit("AgentUnavailable")
       \/ pc' = "request" /\ UNCHANGED code
    /\ UNCHANGED <<renewal, release_vars, timer, grace, queued, exchange,
                   agent, workload, lost>>

\* safe_deadline, counted from now instead of from `base`, which was
\* `elapsed` ago.
SafeDeadline(r) == Least(r, MaxRemaining) - elapsed

\* Fault: the lease is counted from the moment the answer was read.
AdoptFromAnswer ==
    /\ lease' = granted
    /\ deadline' = Least(remaining, MaxRemaining)
    /\ renew_at' = Least(remaining \div 2, MaxRemaining)

\* The lease just granted is the one to renew from now on.
Adopt ==
    /\ lease' = granted
    /\ deadline' = SafeDeadline(remaining)
    /\ renew_at' = Greatest(0, SafeDeadline(remaining \div 2))

\* request_initial_lease and the classification of what is not a grant.
InitialAnswer ==
    /\ pc = "request"
    /\ wire = "answered"
    /\ \/ /\ reply = "LeaseGranted"
          /\ Adopt
          /\ pc' = "install"
          /\ UNCHANGED code
       \/ /\ reply = "LeaseDenied"
          /\ Exit("Denied")
          /\ UNCHANGED renewal
       \/ /\ reply = "Error"
          /\ Exit("AgentError")
          /\ UNCHANGED renewal
    /\ ExchangeOver
    /\ UNCHANGED <<input, release_vars, timer, grace, queued, agent, workload,
                   lost>>

InitialFails ==
    /\ pc = "request"
    /\ Failed
    /\ Abandon
    /\ Exit("AgentUnavailable")
    /\ UNCHANGED <<input, renewal, release_vars, timer, grace, queued,
                   workload>>

\* Calling `release`, with the outcome known or, after a renewal, not yet.
BeginRelease(l, c) ==
    /\ pc' = "release"
    /\ releasing' = l
    /\ attempt' = 0
    /\ outcome' = "None"
    /\ code' = c

InstallSignals ==
    /\ pc = "install"
    /\ \/ /\ pc' = "spawn"
          /\ UNCHANGED <<release_vars, code>>
       \/ BeginRelease(lease, "AgentUnavailable")
    /\ UNCHANGED <<input, renewal, timer, grace, queued, exchange, agent,
                   workload, lost>>

\* Fault: a failed spawn exits without giving the lease back.
SpawnWithoutCleanup ==
    /\ pc = "spawn"
    /\ \/ /\ child' = "running"
          /\ pc' = "poll"
          /\ UNCHANGED code
       \/ /\ Exit("NotExecutable")
          /\ UNCHANGED child
    /\ UNCHANGED <<input, renewal, release_vars, timer, grace, queued,
                   exchange, agent, group, status, lost>>

Spawn ==
    /\ pc = "spawn"
    /\ \/ /\ child' = "running"
          /\ pc' = "poll"
          /\ UNCHANGED <<release_vars, code>>
       \/ /\ \E c \in SpawnFailures : BeginRelease(lease, c)
          /\ UNCHANGED child
    /\ UNCHANGED <<input, renewal, timer, grace, queued, exchange, agent,
                   group, status, lost>>

-----------------------------------------------------------------------------
(* supervise *)

Sleep(stage, n) ==
    /\ pc' = stage
    /\ timer' = n

\* Fault: the channel is drained only once the deadline has passed.
TryWaitSkippingSignals ==
    /\ pc = "poll"
    /\ \/ /\ child = "zombie"
          /\ child' = "reaped"
          /\ BeginRelease(lease, "Workload")
       \/ /\ child = "running"
          /\ pc' = IF deadline <= 0 THEN "signals" ELSE "deadline"
          /\ UNCHANGED <<child, release_vars, code>>
    /\ UNCHANGED <<input, renewal, timer, grace, queued, exchange, agent,
                   group, status, lost>>

TryWait ==
    /\ pc = "poll"
    /\ \/ /\ child = "zombie"
          /\ child' = "reaped"
          /\ BeginRelease(lease, "Workload")
       \/ /\ child = "running"
          /\ pc' = "signals"
          /\ UNCHANGED <<child, release_vars, code>>
    /\ UNCHANGED <<input, renewal, timer, grace, queued, exchange, agent,
                   group, status, lost>>

\* kill_process for each of them: the child, running or not, is not reaped.
ForwardSignals ==
    /\ pc = "signals"
    /\ queued' = 0
    /\ pc' = "deadline"
    /\ UNCHANGED <<input, renewal, release_vars, timer, grace, code, exchange,
                   agent, workload, lost>>

CheckDeadline ==
    /\ pc = "deadline"
    /\ \/ /\ deadline <= 0
          /\ pc' = "terminate"
          /\ UNCHANGED timer
       \/ /\ deadline > 0
          /\ renew_at <= 0
          /\ pc' = "renew"
          /\ UNCHANGED timer
       \/ /\ deadline > 0
          /\ renew_at > 0
          /\ Sleep("sleep", Poll)
    /\ stalled' = IF deadline > 0 THEN FALSE ELSE stalled
    /\ UNCHANGED <<input, renewal, release_vars, grace, code, queued, wire,
                   patience, elapsed, granted, remaining, reply, agent,
                   workload, lost>>

\* Fault: it is the new lease that is given back.
RenewedReleasesNew ==
    /\ pc = "renew"
    /\ wire = "answered"
    /\ reply = "LeaseGranted"
    /\ Adopt
    /\ BeginRelease(granted, "None")
    /\ ExchangeOver
    /\ UNCHANGED <<input, timer, grace, queued, agent, workload, lost>>

Renewed ==
    /\ pc = "renew"
    /\ wire = "answered"
    /\ reply = "LeaseGranted"
    /\ Adopt
    /\ BeginRelease(lease, "None")
    /\ ExchangeOver
    /\ UNCHANGED <<input, timer, grace, queued, agent, workload, lost>>

\* next_renewal_retry, counted from attempted_at.
NextRenewalRetry ==
    Greatest(0, Least(Greatest(RetryBackoff, MinRetry) - elapsed, deadline))

\* Fault: a failed renewal is repeated at once, until one succeeds.
RetryWithinRenew ==
    /\ pc = "renew"
    /\ \/ /\ wire = "answered"
          /\ reply # "LeaseGranted"
          /\ ExchangeOver
          /\ UNCHANGED <<agent, lost>>
       \/ /\ Failed
          /\ Abandon
    /\ UNCHANGED <<input, pc, timer, renewal, release_vars, grace, code,
                   queued, workload>>

RenewalSetBack ==
    /\ pc = "renew"
    /\ \/ /\ wire = "answered"
          /\ reply # "LeaseGranted"
          /\ ExchangeOver
          /\ UNCHANGED <<agent, lost>>
       \/ /\ Failed
          /\ Abandon
    /\ renew_at' = NextRenewalRetry
    /\ Sleep("sleep", Poll)
    /\ UNCHANGED <<input, lease, deadline, release_vars, grace, code, queued,
                   workload>>

\* `release` returns: into the loop after a renewal, else to the exit.
Released ==
    /\ releasing' = NoLease
    /\ attempt' = 0
    /\ IF code = "None" THEN Sleep("sleep", Poll)
       ELSE pc' = "exited" /\ UNCHANGED timer

\* Any LeaseReleased ends it, whatever its outcome.
ReleaseAnswered ==
    /\ pc = "release"
    /\ wire = "answered"
    /\ reply \in {"Released", "Refused"}
    /\ Released
    /\ ExchangeOver
    /\ lost' = IF reply = "Refused" THEN lost \cup {releasing} ELSE lost
    /\ outcome' = reply
    /\ UNCHANGED <<input, renewal, grace, code, queued, agent, workload>>

\* Fault: an attempt that failed is repeated for ever.
ReleaseForever ==
    /\ pc = "release"
    /\ \/ /\ wire = "answered"
          /\ reply = "Error"
          /\ ExchangeOver
          /\ lost' = lost \cup {releasing}
          /\ UNCHANGED agent
       \/ /\ Failed
          /\ Abandon
    /\ Sleep("backoff", 1)
    /\ UNCHANGED <<input, renewal, release_vars, grace, code, queued,
                   workload>>

\* Fault: the backoffs are indexed one too far.
ReleaseFailsOnceMore ==
    /\ pc = "release"
    /\ Failed
    /\ Abandon
    /\ \/ /\ attempt <= 2
          /\ Sleep("backoff",
                   IF attempt = 0 THEN FirstBackoff ELSE SecondBackoff)
          /\ attempt' = attempt + 1
          /\ UNCHANGED <<releasing, outcome>>
       \/ /\ attempt = 3
          /\ Released
          /\ outcome' = "Warned"
    /\ UNCHANGED <<input, renewal, grace, code, queued, workload>>

\* Fault: an answer that is an error ends the attempts like any other.
ReleaseTakesAnyAnswer ==
    /\ pc = "release"
    /\ wire = "answered"
    /\ reply = "Error"
    /\ Released
    /\ ExchangeOver
    /\ lost' = lost \cup {releasing}
    /\ UNCHANGED <<input, renewal, grace, code, outcome, queued, agent,
                   workload>>

ReleaseFails ==
    /\ pc = "release"
    /\ \/ /\ wire = "answered"
          /\ reply = "Error"
          /\ ExchangeOver
          /\ lost' = lost \cup {releasing}
          /\ UNCHANGED agent
       \/ /\ Failed
          /\ Abandon
    /\ \/ /\ attempt < 2
          /\ Sleep("backoff",
                   IF attempt = 0 THEN FirstBackoff ELSE SecondBackoff)
          /\ attempt' = attempt + 1
          /\ UNCHANGED <<releasing, outcome>>
       \/ /\ attempt = 2
          /\ Released
          /\ outcome' = "Warned"
    /\ UNCHANGED <<input, renewal, grace, code, queued, workload>>

Wake ==
    /\ pc \in Sleeping
    /\ timer = 0
    /\ pc' = CASE pc = "sleep" -> "poll"
               [] pc = "backoff" -> "release"
               [] pc = "grace_sleep" -> "grace"
    /\ UNCHANGED <<input, renewal, release_vars, timer, grace, code, queued,
                   exchange, agent, workload, lost>>

\* terminate_for_lapsed_authorization: SIGTERM to the group, which may heed
\* it or not.
Terminate ==
    /\ pc = "terminate"
    /\ grace' = Grace
    /\ pc' = "grace"
    /\ UNCHANGED <<input, renewal, release_vars, timer, code, queued, exchange,
                   agent, workload, lost>>

GraceLoop ==
    /\ pc = "grace"
    /\ \/ /\ grace > 0
          /\ child = "zombie"
          /\ child' = "reaped"
          /\ BeginRelease(lease, "AuthorizationLapsed")
          /\ UNCHANGED timer
       \/ /\ grace > 0
          /\ child = "running"
          /\ Sleep("grace_sleep", Poll)
          /\ UNCHANGED <<child, release_vars, code>>
       \/ /\ grace <= 0
          /\ pc' = "kill"
          /\ UNCHANGED <<child, release_vars, code, timer>>
    /\ UNCHANGED <<input, renewal, grace, queued, exchange, agent, group,
                   status, lost>>

\* SIGKILL to the group, Child::kill and Child::wait.
Kill ==
    /\ pc = "kill"
    /\ child' = "reaped"
    /\ status' = IF child = "zombie" THEN status ELSE 128 + 9
    /\ group' = FALSE
    /\ BeginRelease(lease, "AuthorizationLapsed")
    /\ UNCHANGED <<input, renewal, timer, grace, queued, exchange, agent,
                   lost>>

-----------------------------------------------------------------------------
(* The agent, the workload, the signals and time *)

Fresh ==
    Leases \ (store \cup {lease, releasing, granted} \cup late_releases)

\* Ids are never reused; which free name stands for the next one is no matter.
NextLease == CHOOSE l \in Fresh : TRUE

Hold(l) ==
    /\ store' = store \cup {l}
    /\ left' = [left EXCEPT ![l] = Ttl]
    /\ forgotten' = forgotten \ {l}

\* The listener has room for the connection; the frame goes into the socket's
\* buffer.
AgentConnects ==
    /\ wire = "connecting"
    /\ late + Cardinality(late_releases) < MaxConnections
    /\ wire' = "sent"
    /\ patience' = IoTimeout
    /\ UNCHANGED <<supervisor, elapsed, stalled, granted, remaining, reply,
                   agent, workload, lost>>

AgentIssues ==
    /\ wire = "sent"
    /\ IsRequest
    /\ Fresh # {}
    /\ Hold(NextLease)
    /\ granted' = NextLease
    /\ lost' = lost \ {NextLease}
    /\ wire' = "issued"
    /\ UNCHANGED <<supervisor, waiting, remaining, reply, late, late_releases,
                   workload>>

\* The answer is written, some time after the lease was issued.
AgentViews ==
    /\ wire = "issued"
    /\ wire' = "viewed"
    /\ remaining' = left[granted]
    /\ reply' = "LeaseGranted"
    /\ UNCHANGED <<supervisor, waiting, granted, agent, workload,
                   lost>>

\* It arrives.
AnswerArrives ==
    /\ wire = "viewed"
    /\ wire' = "answered"
    /\ UNCHANGED <<supervisor, waiting, granted, remaining, reply,
                   agent, workload, lost>>

AgentDeclines ==
    /\ wire = "sent"
    /\ wire' = "answered"
    /\ reply' \in (IF IsRequest THEN {"LeaseDenied"} ELSE {}) \cup {"Error"}
    /\ UNCHANGED <<supervisor, waiting, granted, remaining, agent,
                   workload, lost>>

\* handle_release_lease: an unknown lease is refused, and a known one too
\* when the peer could not be observed.
AgentReleases ==
    /\ wire = "sent"
    /\ pc = "release"
    /\ wire' = "answered"
    /\ \/ /\ releasing \in store
          /\ store' = store \ {releasing}
          /\ reply' = "Released"
       \/ /\ UNCHANGED store
          /\ reply' = "Refused"
    /\ UNCHANGED <<supervisor, waiting, granted, remaining, left,
                   late, late_releases, forgotten, workload, lost>>

\* A handler that panics before it decides, a connection that breaks, or one
\* that is closed because the agent serves MaxConnections.
AgentCloses ==
    /\ wire \in Unanswered \cup {"connecting"}
    /\ wire' = "closed"
    /\ UNCHANGED <<supervisor, waiting, granted, remaining, reply,
                   agent, workload, lost>>

\* A request whose client has given up is handled all the same.
LateRequest ==
    /\ late > 0
    /\ late' = late - 1
    /\ \/ /\ Fresh # {}
          /\ Hold(NextLease)
          /\ lost' = lost \cup {NextLease}
       \/ UNCHANGED <<store, left, forgotten, lost>>
    /\ UNCHANGED <<supervisor, exchange, late_releases, workload>>

LateRelease ==
    /\ \E l \in late_releases : /\ late_releases' = late_releases \ {l}
                                /\ store' = store \ {l} \/ UNCHANGED store
    /\ UNCHANGED <<supervisor, exchange, left, late, forgotten, workload,
                   lost>>

\* Leases live in memory.
AgentRestarts ==
    /\ forgotten' = forgotten \cup store
    /\ store' = {}
    /\ late' = 0
    /\ late_releases' = {}
    /\ wire' = IF wire \in Unanswered \cup {"connecting"} THEN "closed" ELSE wire
    /\ UNCHANGED <<supervisor, waiting, granted, remaining, reply,
                   left, workload, lost>>

ChildExits ==
    /\ child = "running"
    /\ child' = "zombie"
    /\ status' \in Statuses
    /\ UNCHANGED <<supervisor, exchange, agent, group, lost>>

DescendantStarts ==
    /\ child = "running"
    /\ ~group
    /\ group' = TRUE
    /\ UNCHANGED <<supervisor, exchange, agent, child, status, lost>>

DescendantExits ==
    /\ group
    /\ group' = FALSE
    /\ UNCHANGED <<supervisor, exchange, agent, child, status, lost>>

\* After S5 a signal waits in the channel; before it, it is deadly.
SignalArrives ==
    /\ pc \notin {"start", "profile", "client", "request", "install"} \cup Ended
    /\ queued < MaxSignals
    /\ queued' = queued + 1
    /\ UNCHANGED <<input, pc, renewal, release_vars, timer, grace, code,
                   exchange, agent, workload, lost>>

\* SIGKILL, or a signal before S5: whatever it held it leaves behind.
Dies ==
    /\ pc \notin Ended
    /\ pc' = "dead"
    /\ ExchangeOver
    /\ lost' = lost \cup ({lease, releasing, granted} \ {NoLease})
    /\ UNCHANGED <<input, renewal, release_vars, timer, grace, code, queued,
                   agent, workload>>

\* The supervisor can do nothing but wait.
Blocked ==
    \/ pc \in Ended
    \/ pc \in Sleeping /\ timer > 0
    \/ wire = "connecting"
    \/ wire \in Unanswered /\ patience > 0

MaxOverrun ==
    4 * IoTimeout + FirstBackoff + SecondBackoff + 2 * Poll + Grace

\* bound: a longer exchange has had its timeout, has outlived every lease and
\* every backoff.
MaxElapsed ==
    Greatest(IoTimeout + 1, Greatest(Ttl, Greatest(RetryBackoff, MinRetry)))

\* An expired lease is as good as pruned.
Tick ==
    /\ Blocked
    /\ deadline' = IF pc \in Ended \/ code # "None" THEN deadline
                    ELSE Greatest(deadline - 1, -MaxOverrun - 1)
    /\ renew_at' = Down(renew_at)
    /\ timer' = Down(timer)
    /\ grace' = Down(grace)
    /\ patience' = Down(patience)
    /\ elapsed' = IF pc \in Exchanging THEN Least(elapsed + 1, MaxElapsed)
                   ELSE elapsed
    /\ stalled' = IF elapsed' > IoTimeout THEN TRUE ELSE stalled
    /\ left' = [l \in Leases |-> Down(left[l])]
    /\ store' = {l \in store : left[l] > 1}
    /\ lost' = {l \in lost : left[l] > 1}
    /\ forgotten' = {l \in forgotten : left[l] > 1}
    /\ UNCHANGED <<input, pc, lease, release_vars, code, queued, wire, granted,
                   remaining, reply, late, late_releases, workload>>

-----------------------------------------------------------------------------
Resolve == ParseArgv \/ ResolveProfile \/ SocketFromEnv

Supervisor ==
    \/ Connect
    \/ InitialAnswer \/ InitialFails \/ InstallSignals \/ Spawn
    \/ TryWait \/ ForwardSignals \/ CheckDeadline
    \/ Renewed \/ RenewalSetBack \/ ReleaseAnswered \/ ReleaseFails
    \/ Wake \/ Terminate \/ GraceLoop \/ Kill

Agent ==
    \/ AgentConnects \/ ReadRestarts \/ AgentIssues \/ AgentViews
    \/ AnswerArrives \/ AgentDeclines \/ AgentReleases \/ AgentCloses
    \/ LateRequest \/ LateRelease \/ AgentRestarts

Workload ==
    \/ ChildExits \/ DescendantStarts \/ DescendantExits \/ SignalArrives

Next == Resolve \/ Supervisor \/ Agent \/ Workload \/ Dies \/ Tick

Spec == Init /\ [][Next]_vars

\* eltanin run is scheduled and time passes.  The agent may never do anything,
\* not even accept, no more than the workload may ever exit.
FairSpec == Spec /\ WF_vars(Supervisor) /\ WF_vars(Tick)

-----------------------------------------------------------------------------
(* Properties *)

\* Types; `release` makes at most three attempts, and no wait outlives its limit.
TypeOK ==
    /\ pc \in Stages
    /\ lease \in Leases \cup {NoLease}
    /\ deadline \in Int
    /\ renew_at \in Nat
    /\ releasing \in Leases \cup {NoLease}
    /\ attempt \in 0..2
    /\ timer \in Nat
    /\ grace \in 0..Grace
    /\ code \in Codes \cup {"None"}
    /\ outcome \in {"None", "Released", "Refused", "Warned"}
    /\ queued \in 0..MaxSignals
    /\ wire \in {"idle", "connecting", "sent", "issued", "viewed", "answered",
                 "closed"}
    /\ patience \in 0..IoTimeout
    /\ elapsed \in 0..MaxElapsed
    /\ stalled \in BOOLEAN
    /\ granted \in Leases \cup {NoLease}
    /\ remaining \in 0..Ttl
    /\ reply \in {"None", "LeaseGranted", "LeaseDenied", "Released", "Refused",
                  "Error"}
    /\ store \in SUBSET Leases
    /\ left \in [Leases -> 0..Ttl]
    /\ late \in 0..MaxConnections
    /\ late_releases \in SUBSET Leases
    /\ child \in {"none", "running", "zombie", "reaped"}
    /\ status \in 0..255
    /\ group \in BOOLEAN
    /\ lost \in SUBSET Leases
    /\ forgotten \in SUBSET Leases

\* parse_run accepts exactly the command lines of the documented grammar,
\* and what it takes for the command is the rest of the line, verbatim.  The
\* directory of the first variable set is authoritative: the profile is
\* resolved if and only if its document is there and current, never from
\* another directory in its place.
ResolvedAsDocumented ==
    LET rank == [ELTANIN_PROFILE_DIR |-> 1, XDG_CONFIG_HOME |-> 2, HOME |-> 3]
        resolvable == \E d \in input.env :
                          /\ \A e \in input.env : rank[d] <= rank[e]
                          /\ input.docs[d] = "current"
    IN  /\ pc = "profile" =>
              /\ InGrammar(input)
              /\ ParseRun(input).command = SubSeq(input, 5, Len(input))
        /\ pc = "client" => resolvable
        /\ pc = "exited" /\ code = "Usage" => ~InGrammar(input)
        /\ pc = "exited" /\ code = "ProfileUnresolved" => ~resolvable

\* The workload is under the supervisor's watch.
Supervising == child = "running" /\ pc # "dead"

\* supervise.rs, Renewal::deadline: "never later than the agent's true
\* expiry", however long the answers took.
DeadlineNeverLate == Supervising => deadline <= left[lease]

\* A workload whose authorization has lapsed is gone within a bounded time,
\* although the supervisor may be inside a renewal or a release when the
\* deadline passes and the workload ignore SIGTERM: as long as no exchange on
\* the way takes longer than one IO_TIMEOUT, which the code does not ensure.
OverrunBounded == Supervising /\ ~stalled => deadline >= -MaxOverrun

\* renew, acquire-then-release: until it expires, the lease the supervisor
\* counts on is one the agent holds and nobody, no late release either, has
\* given back; unless the agent restarted and forgot it.
HeldLeaseIsStored ==
    Supervising /\ left[lease] > 0 => lease \in store \cup forgotten

\* The agent holds nothing for this run but the lease in use, the ones being
\* granted and released, and those whose exchange failed; and after an exit
\* only the last, which their Ttl ends.
EveryLeaseAccountedFor ==
    /\ store \subseteq {lease, releasing, granted} \cup lost
    /\ pc = "exited" => store \subseteq lost

\* The process's exit code: ExitCode::code, spawn_failure_code, and the
\* workload's own status, which may be any of the others.
ExitCode ==
    CASE code = "Success" -> 0
      [] code = "Usage" -> 64
      [] code = "AgentUnavailable" -> 69
      [] code = "AgentError" -> 70
      [] code = "AuthorizationLapsed" -> 76
      [] code = "Denied" -> 77
      [] code = "ProfileUnresolved" -> 78
      [] code = "NotExecutable" -> 126
      [] code = "NotFound" -> 127
      [] code = "Workload" -> status

\* What eltanin run prints about its end: main's `report`, or the suppressed
\* status after a lapse.
Message ==
    CASE code \in Failures -> "failure"
      [] code = "AuthorizationLapsed" -> "suppressed"
      [] OTHER -> "None"

\* What the caller of eltanin run is told.  No workload is left running.  One
\* that ran has its own status passed on without a word, unless it was ended
\* for an authorization that has lapsed, which is said.  When none ran, that is
\* said too, except after a failed spawn: then nothing is printed and the code
\* is 126 or 127, which a workload may return as well.  A run that exits while
\* the agent holds its lease has printed the warning, or the agent has refused
\* the release: of a refusal nothing is printed.
ExitTellsTheTruth ==
    pc = "exited" =>
        /\ child \in {"none", "reaped"}
        /\ child = "reaped" =>
               \/ ExitCode = status /\ Message = "None"
               \/ ExitCode = 76 /\ Message = "suppressed" /\ deadline <= 0
        /\ child = "none" =>
               \/ Message = "failure" /\ ExitCode \notin {0, 76, 126, 127}
               \/ Message = "None" /\ ExitCode \in {0, 126, 127}
        /\ lease \in store => outcome \in {"Warned", "Refused"}

\* The exchange has taken longer than IO_TIMEOUT, and is not over.
Hanging == wire # "idle" /\ elapsed > IoTimeout

\* eltanin run ends once its workload has, although the agent may never
\* answer; the one thing that can keep it for ever is a single exchange that
\* hangs.
WorkloadExitEndsRun ==
    (child = "zombie" ~> pc \in Ended) \/ <>[]Hanging

\* Where the supervisor no longer drains the channel.
Lapsing ==
    pc \in {"terminate", "grace", "grace_sleep", "kill"} \cup Ended

\* Only forwarding takes a signal out of the channel, and there is a workload
\* then, not reaped, for it to go to.
SignalsNotLost ==
    [][queued' < queued =>
           pc = "signals" /\ child \in {"running", "zombie"}]_vars

\* A signal for a running workload is forwarded to it, also one that arrived
\* before the spawn: unless the workload exits first, the authorization lapses
\* or eltanin run is killed, after which nothing is forwarded, or an exchange
\* hangs.
SignalsForwarded ==
    /\ SignalsNotLost
    /\ queued > 0 /\ child = "running"
           ~> queued = 0 \/ child # "running" \/ Lapsing \/ Hanging

-----------------------------------------------------------------------------
(* What the repository says and the code does not do.                       *)

\* client.rs, IO_TIMEOUT: "without a client-side timeout, a wedged or malicious
\* agent could hang `eltanin run` forever while the workload it's supervising
\* (if already spawned) runs unsupervised".
AgentCannotHangTheRun == Supervising => deadline >= -MaxOverrun

\* supervise.rs, terminate_for_lapsed_authorization: "the fail-closed goal
\* here is that no descendant keeps touching the protected resource".
NoDescendantSurvivesLapse ==
    pc = "exited" /\ code = "AuthorizationLapsed" => ~group
=============================================================================
