--------------------------- MODULE SocketLifecycle ---------------------------
(***************************************************************************)
(* How eltanin-agentd processes take, hold and give up one socket path:    *)
(* `BoundSocket::bind` and its Drop, `ensure_parent_directory_is_safe`,    *)
(* `recover_stale_socket`, `ShutdownHandle::shutdown` and `daemon::run`.   *)
(*                                                                         *)
(* An agent is one process, from exec to exit; one step is one system      *)
(* call.  `UnixListener::bind` is two of them, bind(2), which creates the  *)
(* socket's file, and listen(2): between the two a connect is refused just *)
(* as it is by the file of a dead agent.  A path is a name: whoever        *)
(* unlinks it unlinks what it names by then.                               *)
(***************************************************************************)
EXTENDS Naturals, FiniteSets

CONSTANTS
    Agents,     \* processes that may be started on the path
    FreshMode   \* what the umask leaves of a directory create_dir_all makes

Nothing == "Nothing"    \* no entry at the path
Foreign == "Foreign"    \* an entry that is no socket

\* Modes of the parent directory: group- or other-writable (or a symlink, or
\* not ours), readable by others, and 0o700.
Modes == {"shared", "open", "private"}

ASSUME SocketAssumption ==
    /\ {Nothing, Foreign} \cap Agents = {}
    /\ FreshMode \in Modes

VARIABLES
    path,       \* what the path names: nothing, a foreign entry, or the
                \* socket that an agent's bind created
    parent,     \* the parent directory's mode, or "absent"
    pc,         \* per agent: the system call it makes next
    error,      \* per agent: the StartupError it ends with
    listening,  \* agents with a listening descriptor
    pending,    \* agents with a connection in their backlog
    flag        \* agents whose shutdown flag is set

vars == <<path, parent, pc, error, listening, pending, flag>>

\* Inside BoundSocket::bind.
ParentSteps == {"stat_parent", "mkdir", "chmod_parent"}
RecoverySteps == {"stat", "probe", "remove", "rebind"}
BindSteps == ParentSteps \cup {"bind"} \cup RecoverySteps \cup {"listen", "chmod"}
Starting == BindSteps \cup {"signals"}
\* The process has created the socket's file and not yet unlinked it.
Owning == {"listen", "chmod", "signals", "serving", "draining", "unlink"}
Ended == {"stopped", "failed", "dead"}
Steps == Starting \cup Owning \cup {"close", "off"} \cup Ended
Errors == {"None", "ParentDirectoryUnsafe", "SocketInUse",
           "StaleSocketPathNotASocket", "Io"}

Starters == {a \in Agents : pc[a] \in Starting}

Init ==
    /\ path \in {Nothing, Foreign}
    /\ parent \in Modes \cup {"absent"}
    /\ pc = [a \in Agents |-> "off"]
    /\ error = [a \in Agents |-> "None"]
    /\ listening = {}
    /\ pending = {}
    /\ flag = {}

-----------------------------------------------------------------------------
(* BoundSocket::bind *)

Goto(a, step) == pc' = [pc EXCEPT ![a] = step]

\* `?`: bind returns, the listener it may hold by then is closed, and no
\* BoundSocket exists whose Drop would unlink the path.
FailBind(a, e) ==
    /\ Goto(a, "failed")
    /\ error' = [error EXCEPT ![a] = e]
    /\ listening' = listening \ {a}
    /\ pending' = pending \ {a}
    /\ UNCHANGED <<path, parent, flag>>

Start(a) ==
    /\ pc[a] = "off"
    /\ Goto(a, "stat_parent")
    /\ UNCHANGED <<path, parent, error, listening, pending, flag>>

\* Fault: an existing directory is trusted as it is.
TrustParent(a) ==
    /\ pc[a] = "stat_parent"
    /\ Goto(a, IF parent = "absent" THEN "mkdir" ELSE "bind")
    /\ UNCHANGED <<path, parent, error, listening, pending, flag>>

StatParent(a) ==
    /\ pc[a] = "stat_parent"
    /\ \/ /\ parent = "shared"
          /\ FailBind(a, "ParentDirectoryUnsafe")
       \/ /\ parent # "shared"
          /\ Goto(a, IF parent = "absent" THEN "mkdir" ELSE "bind")
          /\ UNCHANGED <<path, parent, error, listening, pending, flag>>

\* create_dir_all, content with a directory that has appeared, then chmod.
MakeParent(a) ==
    \/ /\ pc[a] = "mkdir"
       /\ parent' = IF parent = "absent" THEN FreshMode ELSE parent
       /\ Goto(a, "chmod_parent")
       /\ UNCHANGED <<path, error, listening, pending, flag>>
    \/ /\ pc[a] = "chmod_parent"
       /\ parent' = "private"
       /\ Goto(a, "bind")
       /\ UNCHANGED <<path, error, listening, pending, flag>>

\* bind(2): EADDRINUSE whatever the path names.  The first bind goes on to
\* the recovery, the one after the recovery gives up.
BindFile(a) ==
    /\ pc[a] \in {"bind", "rebind"}
    /\ \/ /\ path = Nothing
          /\ path' = a
          /\ Goto(a, "listen")
          /\ UNCHANGED <<parent, error, listening, pending, flag>>
       \/ /\ path # Nothing
          /\ pc[a] = "bind"
          /\ Goto(a, "stat")
          /\ UNCHANGED <<path, parent, error, listening, pending, flag>>
       \/ /\ path # Nothing
          /\ pc[a] = "rebind"
          /\ FailBind(a, "Io")

Listen(a) ==
    /\ pc[a] = "listen"
    /\ listening' = listening \cup {a}
    /\ Goto(a, "chmod")
    /\ UNCHANGED <<path, parent, error, pending, flag>>

StatPath(a) ==
    /\ pc[a] = "stat"
    /\ \/ /\ path = Nothing
          /\ FailBind(a, "Io")
       \/ /\ path = Foreign
          /\ FailBind(a, "StaleSocketPathNotASocket")
       \/ /\ path \in Agents
          /\ Goto(a, "probe")
          /\ UNCHANGED <<path, parent, error, listening, pending, flag>>

\* Fault: a socket file is taken for a stale one without asking.
NoProbe(a) ==
    /\ pc[a] = "probe"
    /\ Goto(a, "remove")
    /\ UNCHANGED <<path, parent, error, listening, pending, flag>>

\* Fault: a refused connection is reported as an address in use.
RefusedMeansInUse(a) ==
    /\ pc[a] = "probe"
    /\ FailBind(a, "SocketInUse")

\* The connect of the probe.  It succeeds as soon as somebody listens, and
\* then sits in that agent's backlog; it is refused by every other entry.
Probe(a) ==
    /\ pc[a] = "probe"
    /\ \/ /\ path \in listening
          /\ Goto(a, "failed")
          /\ error' = [error EXCEPT ![a] = "SocketInUse"]
          /\ pending' = pending \cup {path}
          /\ UNCHANGED <<path, parent, listening, flag>>
       \/ /\ path = Nothing
          /\ FailBind(a, "Io")
       \/ /\ path # Nothing
          /\ path \notin listening
          /\ Goto(a, "remove")
          /\ UNCHANGED <<path, parent, error, listening, pending, flag>>

\* remove_file, of whatever the path names now.
RemoveStale(a) ==
    /\ pc[a] = "remove"
    /\ \/ /\ path = Nothing
          /\ FailBind(a, "Io")
       \/ /\ path # Nothing
          /\ path' = Nothing
          /\ Goto(a, "rebind")
          /\ UNCHANGED <<parent, error, listening, pending, flag>>

\* set_permissions on the path.
ChmodPath(a) ==
    /\ pc[a] = "chmod"
    /\ \/ /\ path = Nothing
          /\ FailBind(a, "Io")
       \/ /\ path # Nothing
          /\ Goto(a, "signals")
          /\ UNCHANGED <<path, parent, error, listening, pending, flag>>

\* Any other failure of a system call of bind.
SystemCallFails(a) ==
    /\ pc[a] \in BindSteps
    /\ FailBind(a, "Io")

-----------------------------------------------------------------------------
(* daemon::run, the wake of shutdown() and the drop of the BoundSocket *)

\* Signals::new.  Its failure drops the server, and with it the BoundSocket.
InstallSignals(a) ==
    /\ pc[a] = "signals"
    /\ \/ /\ Goto(a, "serving")
          /\ UNCHANGED error
       \/ /\ Goto(a, "unlink")
          /\ error' = [error EXCEPT ![a] = "Io"]
    /\ UNCHANGED <<path, parent, listening, pending, flag>>

\* Fault: the flag is stored and nothing wakes accept.
FlagOnly(a) ==
    /\ pc[a] = "serving"
    /\ a \notin flag
    /\ flag' = flag \cup {a}
    /\ UNCHANGED <<path, parent, pc, error, listening, pending>>

\* SIGTERM or SIGINT: the signal thread stores the flag and connects to the
\* path, which reaches whoever listens there.
Shutdown(a) ==
    /\ pc[a] = "serving"
    /\ a \notin flag
    /\ flag' = flag \cup {a}
    /\ pending' = IF path \in listening THEN pending \cup {path} ELSE pending
    /\ UNCHANGED <<path, parent, pc, error, listening>>

ClientConnects ==
    /\ path \in listening \ pending
    /\ pending' = pending \cup {path}
    /\ UNCHANGED <<path, parent, pc, error, listening, flag>>

Accept(a) ==
    /\ pc[a] = "serving"
    /\ a \in pending
    /\ pending' = pending \ {a}
    /\ IF a \in flag THEN Goto(a, "draining") ELSE UNCHANGED pc
    /\ UNCHANGED <<path, parent, error, listening, flag>>

\* `drain` returns: AgentServer shows that it does.
Drained(a) ==
    /\ pc[a] = "draining"
    /\ Goto(a, "unlink")
    /\ UNCHANGED <<path, parent, error, listening, pending, flag>>

\* Drop::drop, by name.  The listener field is dropped after it.
Unlink(a) ==
    /\ pc[a] = "unlink"
    /\ path' = Nothing
    /\ Goto(a, "close")
    /\ UNCHANGED <<parent, error, listening, pending, flag>>

Close(a) ==
    /\ pc[a] = "close"
    /\ listening' = listening \ {a}
    /\ pending' = pending \ {a}
    /\ Goto(a, IF error[a] = "None" THEN "stopped" ELSE "failed")
    /\ UNCHANGED <<path, parent, error, flag>>

\* SIGKILL or a crash: the descriptor closes, the file stays.
Killed(a) ==
    /\ pc[a] \notin Ended \cup {"off"}
    /\ Goto(a, "dead")
    /\ listening' = listening \ {a}
    /\ pending' = pending \ {a}
    /\ UNCHANGED <<path, parent, error, flag>>

\* Somebody creates or removes an entry that is no socket.
ForeignAppears ==
    /\ Starters = {}
    /\ path = Nothing
    /\ path' = Foreign
    /\ UNCHANGED <<parent, pc, error, listening, pending, flag>>

ForeignGoes ==
    /\ Starters = {}
    /\ path = Foreign
    /\ path' = Nothing
    /\ UNCHANGED <<parent, pc, error, listening, pending, flag>>

-----------------------------------------------------------------------------
BindStep(a) ==
    \/ StatParent(a)
    \/ MakeParent(a)
    \/ BindFile(a)
    \/ Listen(a)
    \/ StatPath(a)
    \/ Probe(a)
    \/ RemoveStale(a)
    \/ ChmodPath(a)

RunStep(a) ==
    \/ InstallSignals(a)
    \/ Accept(a)
    \/ Drained(a)
    \/ Unlink(a)
    \/ Close(a)

Next ==
    \/ \E a \in Agents : \/ Start(a)
                         \/ BindStep(a)
                         \/ SystemCallFails(a)
                         \/ RunStep(a)
                         \/ Shutdown(a)
                         \/ Killed(a)
    \/ ClientConnects
    \/ ForeignAppears
    \/ ForeignGoes

Fairness == \A a \in Agents : WF_vars(BindStep(a)) /\ WF_vars(RunStep(a))

Spec == Init /\ [][Next]_vars /\ Fairness

\* One agent at a time is between exec and the accept loop, as under a
\* service manager that runs one instance.  The others may be serving,
\* draining, or being killed.
StartersTakeTurns == \A a, b \in Starters : a = b

TurnNext == Next /\ StartersTakeTurns'

TurnSpec == Init /\ [][TurnNext]_vars /\ Fairness

-----------------------------------------------------------------------------
(* Properties *)

\* Types of the path, its directory and the agents' control states.
TypeOK ==
    /\ path \in Agents \cup {Nothing, Foreign}
    /\ parent \in Modes \cup {"absent"}
    /\ pc \in [Agents -> Steps]
    /\ error \in [Agents -> Errors]
    /\ listening \in SUBSET Agents
    /\ pending \in SUBSET Agents
    /\ flag \in SUBSET Agents

\* From the bind(2) that creates its file until its own Drop, an agent's
\* path names its own socket: no start, no recovery of a stale socket and no
\* Drop of another agent takes it away.  Two agents are therefore never both
\* reachable lease authorities, and shutdown()'s wake reaches its own loop.
LiveSocketUntouched ==
    \A a \in Agents : pc[a] \in Owning => path = a

\* The same, said only of an agent that is in its accept loop.
ServingAgentKeepsPath ==
    \A a \in Agents : pc[a] = "serving" => path = a

\* A socket file is never created in a directory that others may write to,
\* also when the directory was created by this or by a killed agent: the
\* window before the file's own chmod is closed by the directory.
NeverBoundInSharedDirectory ==
    \A a \in Agents : pc[a] \in Owning => parent # "shared"

\* A normally exiting agent leaves no file of its own behind.
NormalExitLeavesNoFile ==
    \A a \in Agents : pc[a] = "stopped" => path # a

\* No agent unlinks an entry that is no socket.
ForeignEntryKept ==
    [][path = Foreign => path' = Foreign \/ pc' = pc]_vars

\* A signalled agent ends, even when no client ever connects again.
SignalEndsAgent ==
    \A a \in Agents : a \in flag ~> pc[a] \in Ended

Stale == path \in Agents /\ pc[path] \in Ended

\* The file a killed agent leaves never keeps the next start out: the start
\* gets to its accept loop unless a system call fails or it is killed too.
StaleSocketRecovered ==
    \A a \in Agents :
        pc[a] = "bind" /\ Stale
            ~> pc[a] \in {"serving", "dead"} \/ error[a] = "Io"
=============================================================================
