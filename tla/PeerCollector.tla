--------------------------- MODULE PeerCollector ---------------------------
(***************************************************************************)
(* collect_peer_context, on Linux (eltanin-linux) and on macOS             *)
(* (eltanin-macos): the agent asks the kernel who is at the other end of a *)
(* socket and then reads that pid's state, one read after another, while   *)
(* processes exit, pids are reused, orphans are reparented, ids change and *)
(* the socket is handed on.  One collection is followed from connect(2).   *)
(*                                                                         *)
(* A piece of evidence is abstracted to the start token of the process it  *)
(* was read from: what the properties ask is whose evidence it is.  The    *)
(* uids are kept, the cross-check compares them.  A file of procfs that    *)
(* can be read also parses, but for the uids, which the verdict depends on.*)
(***************************************************************************)
EXTENDS Integers, Sequences, FiniteSets, WorkloadIdentity

CONSTANTS
    Pids,         \* the pids 1..n; 1 is init, the reaper of orphans
    Uids,         \* user ids; Root is one of them
    Root,
    Tables,       \* process tables at connect(2): trees under init
    HiddenSets,   \* the sets of pids the agent may be barred from reading
    MaxDepth,     \* MAX_ANCESTRY_DEPTH (32 in both collectors)
    MaxChanges    \* bound on what the other processes do during one collection

VARIABLES
    platform,    \* which collector the agent is built with
    table,       \* pid -> the process that has it now, or Gone
    hidden,      \* pids whose state this agent may not read
    born,        \* the last start token given out
    changes,     \* how often the processes have changed anything
    conn,        \* the process that connected, and its euid at connect(2)
    holder,      \* pid of the last process to operate on the peer's socket
    switches,    \* how often the process behind `holder` became another one
    phase,       \* the read the collector makes next
    pid,         \* PeerCredential::pid, 0 when the kernel names no process
    obs,         \* ExecutionContext: field -> evidence
    ancestry,    \* WorkloadIdentity::ancestry
    ids,         \* the uids read last, and the process they were read from
    consistency  \* PeerConsistency, or "None" before the verdict

world == <<platform, table, hidden, born, changes, conn, holder, switches>>
vars == <<world, phase, pid, obs, ancestry, ids, consistency>>

Gone == [start |-> 0]

Process(start, ruid, euid, ppid) ==
    [start |-> start, ruid |-> ruid, euid |-> euid, ppid |-> ppid]

Processes ==
    [start : Nat \ {0}, ruid : Uids, euid : Uids, ppid : Pids \cup {0}]

\* Every process but init descends from one with a lower pid, and the token of
\* each process is that pid.
IsTree(t) ==
    /\ t[1] = Process(1, Root, Root, 0)
    /\ \A p \in Pids \ {1} : t[p] # Gone =>
           \E q \in Pids, r \in Uids, e \in Uids :
               q < p /\ t[q] # Gone /\ t[p] = Process(p, r, e, q)

ASSUME ConstantsAssumption ==
    /\ Cardinality(Pids) \in Nat \ {0} /\ Pids = 1..Cardinality(Pids)
    /\ Root \in Uids
    /\ HiddenSets \subseteq SUBSET Pids
    /\ Tables \subseteq [Pids -> Processes \cup {Gone}]
    /\ \A t \in Tables : IsTree(t)
    /\ MaxDepth \in Nat \ {0} /\ MaxChanges \in Nat

\* pid 0 is no process on Linux (/proc/0 does not exist), kernel_task on macOS.
Zero == IF platform = "MacOS" THEN Process(0, Root, Root, 0) ELSE Gone

Lookup(p) == IF p = 0 THEN Zero ELSE table[p]

\* A read of p's state succeeds: p is there and the agent may look at it.
Readable(p) == Lookup(p) # Gone /\ p \notin hidden

Read(p) == IF Readable(p) THEN Present(Lookup(p).start, "KernelObserved") ELSE Missing

Fields == {"process_start", "uid", "gid", "executable_path", "cgroup_path"}

Phases == {"cred", "peerpid", "start", "uid", "gid", "exe", "parent", "ancestor_start",
           "ancestor_exe", "cgroup", "ids", "done", "failed"}

\* A tree of processes under init, one of which has just connected.
Init ==
    /\ platform \in {"Linux", "MacOS"}
    /\ table \in Tables
    /\ hidden \in HiddenSets
    /\ born = Cardinality(Pids)
    /\ changes = 0
    /\ \E p \in Pids : /\ table[p] # Gone
                       /\ conn = [pid |-> p, start |-> table[p].start, uid |-> table[p].euid]
                       /\ holder = p
    /\ switches = 0
    /\ phase = "cred"
    /\ pid = 0
    /\ obs = [f \in Fields |-> Missing]
    /\ ancestry = <<>>
    /\ ids = [real |-> Missing, effective |-> Missing, of |-> 0]
    /\ consistency = "None"
-----------------------------------------------------------------------------
(***************************************************************************)
(* The collector.                                                          *)
(***************************************************************************)

\* SO_PEERCRED: pid and effective ids as they were at connect(2); pid 0 when
\* the process is not visible from this pid namespace.
SocketPeercred ==
    /\ platform = "Linux" /\ phase = "cred"
    /\ pid' \in {conn.pid, 0}
    /\ phase' = "start"
    /\ UNCHANGED <<world, obs, ancestry, ids, consistency>>

\* LOCAL_PEERCRED: the effective ids alone, fixed at connect(2).
LocalPeerCred ==
    /\ platform = "MacOS" /\ phase = "cred"
    /\ phase' = "peerpid"
    /\ UNCHANGED <<world, pid, obs, ancestry, ids, consistency>>

\* LOCAL_PEERPID: read now, of whoever used the socket last; not positive
\* when the kernel cannot tell.
LocalPeerPid ==
    /\ phase = "peerpid"
    /\ pid' \in {holder, 0}
    /\ phase' = "start"
    /\ UNCHANGED <<world, obs, ancestry, ids, consistency>>

\* PeerCredentialError::Io: a socket option fails, or has another shape.
CredentialFails ==
    /\ phase \in {"cred", "peerpid"}
    /\ phase' = "failed"
    /\ UNCHANGED <<world, pid, obs, ancestry, ids, consistency>>

\* Linux: /proc/<pid>/stat, then /proc/<pid>/status twice.
ProcessStart ==
    /\ platform = "Linux" /\ phase = "start"
    /\ obs' = [obs EXCEPT !["process_start"] = Read(pid)]
    /\ phase' = "uid"
    /\ UNCHANGED <<world, pid, ancestry, ids, consistency>>

ReadStatusId ==
    /\ \/ phase = "uid" /\ phase' = "gid"
       \/ phase = "gid" /\ phase' = "exe"
    /\ obs' = [obs EXCEPT ![phase] = Read(pid)]
    /\ UNCHANGED <<world, pid, ancestry, ids, consistency>>

\* macOS: start, uid and gid come out of one bsd_info.
BsdInfo ==
    /\ platform = "MacOS" /\ phase = "start"
    /\ obs' = [f \in Fields |->
                   IF f \in {"process_start", "uid", "gid"} THEN Read(pid) ELSE obs[f]]
    /\ phase' = "exe"
    /\ UNCHANGED <<world, pid, ancestry, ids, consistency>>

\* readlink /proc/<pid>/exe or proc_pidpath; fails for its own reasons too.
\* The macOS collector walks no ancestry when bsd_info failed.
ExecutablePath ==
    /\ phase = "exe"
    /\ \E e \in {Read(pid), Missing} : obs' = [obs EXCEPT !["executable_path"] = e]
    /\ phase' = IF platform = "MacOS" /\ obs["process_start"] = Missing
                    THEN "cgroup"
                    ELSE "parent"
    /\ UNCHANGED <<world, pid, ancestry, ids, consistency>>

\* One turn of ancestry's loop: `current` and `seen` are what was pushed so far.
Current == IF ancestry = <<>> THEN pid ELSE ancestry[Len(ancestry)].pid

Seen == {pid} \cup {ancestry[i].pid : i \in 1..Len(ancestry)}

\* The loop without its HashSet (a faulty step).
WalkWithoutSeen ==
    \/ Len(ancestry) = MaxDepth
    \/ ~Readable(Current)
    \/ Lookup(Current).ppid = 0

WalkEnds ==
    \/ Len(ancestry) = MaxDepth
    \/ ~Readable(Current)
    \/ Lookup(Current).ppid \in {0} \cup Seen

ParentPid ==
    /\ phase = "parent"
    /\ IF WalkEnds
           THEN phase' = "cgroup" /\ UNCHANGED ancestry
           ELSE /\ ancestry' = Append(ancestry, [pid |-> Lookup(Current).ppid,
                                                 start |-> Missing,
                                                 executable_path |-> Missing])
                /\ phase' = "ancestor_start"
    /\ UNCHANGED <<world, pid, obs, ids, consistency>>

AncestorStart ==
    /\ phase = "ancestor_start"
    /\ ancestry' = [ancestry EXCEPT ![Len(ancestry)].start = Read(Current)]
    /\ phase' = "ancestor_exe"
    /\ UNCHANGED <<world, pid, obs, ids, consistency>>

AncestorExe ==
    /\ phase = "ancestor_exe"
    /\ \E e \in {Read(Current), Missing} :
           ancestry' = [ancestry EXCEPT ![Len(ancestry)].executable_path = e]
    /\ phase' = "parent"
    /\ UNCHANGED <<world, pid, obs, ids, consistency>>

\* A collector that takes the start token again when it has read the rest, so
\* that the token is the newest evidence and not the oldest (a faulty step).
CgroupThenStart ==
    /\ phase = "cgroup"
    /\ obs' = [obs EXCEPT !["cgroup_path"] = Read(pid), !["process_start"] = Read(pid)]
    /\ IF pid = 0
           THEN phase' = "done" /\ consistency' = "PeerUnmapped"
           ELSE phase' = "ids" /\ UNCHANGED consistency
    /\ UNCHANGED <<world, pid, ancestry, ids>>

\* Linux reads /proc/<pid>/cgroup; Darwin has no cgroups.  The rest of the
\* context is Unsupported on both.  An unmapped peer gets its verdict here:
\* no uids are read for pid 0.
CgroupPath ==
    /\ phase = "cgroup"
    /\ obs' = [obs EXCEPT !["cgroup_path"] =
                   IF platform = "Linux" THEN Read(pid) ELSE [state |-> "Unsupported"]]
    /\ IF pid = 0
           THEN phase' = "done" /\ consistency' = "PeerUnmapped"
           ELSE phase' = "ids" /\ UNCHANGED consistency
    /\ UNCHANGED <<world, pid, ancestry, ids>>

\* read_status_ids / read_uids: both uids in one read, and the verdict.  A
\* line of /proc/<pid>/status that does not parse leaves its uid Missing.
ReadUids ==
    IF Readable(pid)
        THEN LET p == Lookup(pid)
                 Parsed(u) == {Present(u, "KernelObserved")} \cup
                                  (IF platform = "Linux" THEN {Missing} ELSE {})
             IN  {[real |-> r, effective |-> e, of |-> p.start] :
                      r \in Parsed(p.ruid), e \in Parsed(p.euid)}
        ELSE {[real |-> Missing, effective |-> Missing, of |-> 0]}

\* The uids are checked and the context is refreshed afterwards, so that the
\* verdict is older than the evidence it vouches for (a faulty step).
RefreshedAfterVerdict ==
    /\ phase = "ids"
    /\ IF consistency = "None"
           THEN /\ ids' \in ReadUids
                /\ consistency' = ClassifyConsistency(conn.uid, ids'.real, ids'.effective)
                /\ phase' = "exe"
           ELSE phase' = "done" /\ UNCHANGED <<ids, consistency>>
    /\ UNCHANGED <<world, pid, obs, ancestry>>

FromKernelObservation ==
    /\ phase = "ids"
    /\ ids' \in ReadUids
    /\ consistency' = ClassifyConsistency(conn.uid, ids'.real, ids'.effective)
    /\ phase' = "done"
    /\ UNCHANGED <<world, pid, obs, ancestry>>

CollectorStep ==
    \/ SocketPeercred \/ LocalPeerCred \/ LocalPeerPid
    \/ ProcessStart \/ ReadStatusId \/ BsdInfo \/ ExecutablePath
    \/ ParentPid \/ AncestorStart \/ AncestorExe
    \/ CgroupPath \/ FromKernelObservation
-----------------------------------------------------------------------------
(***************************************************************************)
(* The other processes.  Nothing they do after the last read matters.      *)
(***************************************************************************)

collector == <<phase, pid, obs, ancestry, ids, consistency>>

Changing ==
    /\ phase \notin {"done", "failed"}
    /\ changes < MaxChanges
    /\ changes' = changes + 1
    /\ UNCHANGED <<platform, hidden, conn, collector>>

\* A process ends; its children go to init.
Exits(p) ==
    /\ Changing
    /\ p # 1 /\ table[p] # Gone
    /\ table' = [q \in Pids |-> IF q = p THEN Gone
                                ELSE IF table[q] # Gone /\ table[q].ppid = p
                                         THEN [table[q] EXCEPT !.ppid = 1]
                                ELSE table[q]]
    /\ UNCHANGED <<born, holder, switches>>

\* fork: a free pid goes to a child of q, which inherits q's ids.  Its start
\* token is its own: a pid is not reused within one clock tick.
Spawns(q, p) ==
    /\ Changing
    /\ table[q] # Gone /\ table[p] = Gone
    /\ born' = born + 1
    /\ table' = [table EXCEPT ![p] = Process(born + 1, table[q].ruid, table[q].euid, q)]
    /\ switches' = IF p = holder THEN switches + 1 ELSE switches
    /\ UNCHANGED holder

\* exec of a set-user-id file changes the effective uid; setuid(2) both.
ChangesIds(p, u) ==
    /\ Changing
    /\ p # 1 /\ table[p] # Gone
    /\ \E r \in {table[p].ruid, u} :
           table' = [table EXCEPT ![p].ruid = r, ![p].euid = u]
    /\ UNCHANGED <<born, holder, switches>>

\* The connected descriptor is passed on and used: macOS's last_pid follows.
HandsOver(q) ==
    /\ Changing
    /\ platform = "MacOS" /\ phase \in {"cred", "peerpid"}
    /\ table[q] # Gone /\ q # holder
    /\ holder' = q
    /\ switches' = switches + 1
    /\ UNCHANGED <<table, born>>

Others ==
    \/ \E p \in Pids : Exits(p)
    \/ \E q \in Pids, p \in Pids : Spawns(q, p)
    \/ \E p \in Pids, u \in Uids : ChangesIds(p, u)
    \/ \E q \in Pids : HandsOver(q)

Next == CollectorStep \/ CredentialFails \/ Others

Spec == Init /\ [][Next]_vars

-----------------------------------------------------------------------------
TokenEvidence ==
    [state : {"Present"}, value : Nat, source : {"KernelObserved"}]
        \cup [state : {"Missing", "Unsupported"}]

\* Types of everything the kernel and the collection hold.
TypeOK ==
    /\ platform \in {"Linux", "MacOS"}
    /\ table \in [Pids -> Processes \cup {Gone}]
    /\ hidden \in SUBSET Pids
    /\ born \in Nat
    /\ changes \in 0..MaxChanges
    /\ conn \in [pid : Pids, start : Nat \ {0}, uid : Uids]
    /\ holder \in Pids
    /\ switches \in Nat
    /\ phase \in Phases
    /\ pid \in Pids \cup {0}
    /\ obs \in [Fields -> TokenEvidence]
    /\ ancestry \in Seq([pid : Pids, start : TokenEvidence,
                         executable_path : TokenEvidence])
    /\ Len(ancestry) <= MaxDepth
    /\ ids.of \in Nat
    /\ consistency \in {"None", "Consistent", "CredentialDivergence",
                        "PeerUnmapped", "Indeterminate"}

IsPresent(e) == e.state = "Present"

\* While the process behind the pid became another one at most once since
\* connect(2), by reuse of the pid or by handing the socket on, evidence that
\* passes as Consistent is of the connecting process or of the very process
\* whose uids passed the check: what the module docs of both peer.rs call the
\* cross-uid case.  It rests on the uids being read after everything else.
SingleSwitchCaught ==
    phase = "done" /\ consistency = "Consistent" /\ switches <= 1 =>
        \A f \in Fields : IsPresent(obs[f]) => obs[f].value \in {conn.start, ids.of}

\* If the pid still bears the collected start token when the collection ends,
\* then all of the evidence, the uids included, is of that one process:
\* compare_process may take pid and token for the whole identity.  It rests on
\* the token being read before everything else.
StartTokenBrackets ==
    phase = "done" /\ pid # 0 /\ IsPresent(obs["process_start"])
        /\ table[pid].start = obs["process_start"].value =>
        /\ \A f \in Fields : IsPresent(obs[f]) => obs[f].value = obs["process_start"].value
        /\ IsPresent(ids.real) \/ IsPresent(ids.effective) =>
               ids.of = obs["process_start"].value

\* However processes are reparented and pids reused under the walk, the
\* ancestry names no process twice, never the workload itself and never pid 0
\* ("terminates and does not include self", the collectors' own test).
AncestryWellFormed ==
    /\ \A i, j \in 1..Len(ancestry) : ancestry[i].pid = ancestry[j].pid => i = j
    /\ \A i \in 1..Len(ancestry) : ancestry[i].pid \notin {0, pid}

\* The ancestry is well formed; and if nothing changed meanwhile, it is the
\* parent chain: every link is a parent, it stops only at the top, at a
\* process this agent may not read, or at the depth limit, and the entries
\* are those processes' own.
AncestrySound ==
    /\ AncestryWellFormed
    /\ phase = "done" /\ changes = 0 /\ pid # 0 =>
           LET n == Len(ancestry)
               Chain(i) == IF i = 0 THEN pid ELSE ancestry[i].pid
           IN  /\ n <= MaxDepth
               /\ \A i \in 1..n : /\ ancestry[i].pid = table[Chain(i - 1)].ppid
                                  /\ ancestry[i].start = Read(ancestry[i].pid)
               /\ n = MaxDepth \/ Chain(n) \in hidden \/ table[Chain(n)].ppid = 0
=============================================================================
