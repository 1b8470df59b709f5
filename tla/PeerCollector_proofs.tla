------------------------ MODULE PeerCollector_proofs ------------------------
(***************************************************************************)
(* What collect_peer_context guarantees for any number of processes, any   *)
(* depth limit and any number of changes: whose evidence a verdict vouches *)
(* for, what the start token stands for, and the shape of the ancestry.    *)
(***************************************************************************)
EXTENDS PeerCollector, TLAPS

\* Every token in sight was given out: the next one is new.
TokensKnown ==
    /\ \A p \in Pids : table[p].start <= born
    /\ \A f \in Fields : IsPresent(obs[f]) =>
           obs[f].value <= born /\ (pid # 0 => obs[f].value # 0)

\* Nothing is observed before the pid is known; the token comes first, and
\* from then on the pid is the one that used the socket last.
Started == phase \notin {"cred", "peerpid", "start", "failed"}

OrderInv ==
    /\ ~Started => \A f \in Fields : ~IsPresent(obs[f])
    /\ phase \in {"cred", "peerpid"} => pid = 0 /\ ancestry = <<>>
    /\ phase \in {"ancestor_start", "ancestor_exe"} => ancestry # <<>>
    /\ platform = "Linux" => holder = conn.pid
    /\ phase \notin {"cred", "peerpid"} => pid \in {0, holder}
    /\ phase = "peerpid" => platform = "MacOS"
    /\ pid = 0 /\ phase \notin {"cred", "peerpid"} => phase # "ids" /\ consistency # "Consistent"
    /\ phase # "done" => consistency = "None"

\* As long as the pid bears the token read first, all that was read is of the
\* same process.
BracketInv ==
    pid # 0 /\ IsPresent(obs["process_start"])
        /\ table[pid].start = obs["process_start"].value =>
        \A f \in Fields : IsPresent(obs[f]) => obs[f].value = obs["process_start"].value

\* Until the process behind the socket was replaced, everything is of the one
\* that connected; after the first time, of that or of the present one.
SwitchInv ==
    /\ switches = 0 => table[holder].start \in {conn.start, 0}
    /\ pid # 0 /\ switches = 0 =>
           \A f \in Fields : IsPresent(obs[f]) => obs[f].value = conn.start
    /\ pid # 0 /\ switches = 1 =>
           \A f \in Fields : IsPresent(obs[f]) =>
               \/ obs[f].value = conn.start
               \/ table[pid].start \in {obs[f].value, 0}

\* What the verdict rests on.
VerdictInv ==
    phase = "done" =>
        /\ SingleSwitchCaught
        /\ pid # 0 /\ (IsPresent(ids.real) \/ IsPresent(ids.effective)) =>
               ids.of = table[pid].start

IInv ==
    TypeOK /\ TokensKnown /\ OrderInv /\ BracketInv /\ SwitchInv /\ VerdictInv
        /\ AncestryWellFormed

-----------------------------------------------------------------------------
(* Reading a process *)

\* What a read of a pid yields: nothing, or the token of who has the pid now.
LEMMA ReadFacts ==
    ASSUME TypeOK, NEW p \in Pids \cup {0}
    PROVE  /\ Read(p) \in TokenEvidence
           /\ IsPresent(Read(p)) =>
                  /\ p \in Pids => /\ Read(p).value = table[p].start
                                   /\ table[p].start # 0
                  /\ p = 0 => Read(p).value = 0
<1>1. Missing \in TokenEvidence /\ ~IsPresent(Missing)
  BY DEF Missing, TokenEvidence, IsPresent
<1>2. CASE ~Readable(p)
  BY <1>1, <1>2 DEF Read
<1>3. CASE Readable(p) /\ p \in Pids
  <2>1. p # 0 /\ Lookup(p) = table[p] /\ table[p] \in Processes
    BY <1>3, ConstantsAssumption DEF Readable, Lookup, TypeOK
  <2>2. table[p].start \in Nat \ {0}
    BY <2>1 DEF Processes
  <2> QED
    BY <2>1, <2>2, <1>3 DEF Read, Present, TokenEvidence, IsPresent
<1>4. CASE Readable(p) /\ p = 0
  <2>1. 0 \notin Pids
    BY ConstantsAssumption
  <2>2. Lookup(p).start = 0
    BY <1>4 DEF Lookup, Zero, Gone, Process
  <2> QED
    BY <2>1, <2>2, <1>4 DEF Read, Present, TokenEvidence, IsPresent
<1> QED
  BY <1>2, <1>3, <1>4

\* A read by the collector, of any number of fields at once, keeps what is
\* known of the evidence, if the start token is not read a second time.
LEMMA ReadingKeepsEvidence ==
    ASSUME IInv, UNCHANGED <<world, pid>>,
           phase \notin {"cred", "peerpid"},
           \A f \in Fields : \/ obs'[f] = obs[f]
                             \/ obs'[f] = Read(pid)
                             \/ ~IsPresent(obs'[f]),
           \/ obs'["process_start"] = obs["process_start"]
           \/ \A f \in Fields : ~IsPresent(obs[f])
    PROVE  TokensKnown' /\ BracketInv' /\ SwitchInv'
<1> USE DEF IInv
<1>0. pid \in Pids \cup {0} /\ 0 \notin Pids /\ (pid # 0 => pid = holder)
  BY ConstantsAssumption DEF TypeOK, OrderInv
<1>1. IsPresent(Read(pid)) => /\ pid \in Pids => /\ Read(pid).value = table[pid].start
                                                 /\ table[pid].start # 0
                              /\ pid = 0 => Read(pid).value = 0
  BY <1>0, ReadFacts
<1>2. table' = table /\ born' = born /\ born \in Nat /\ switches' = switches
        /\ holder' = holder /\ conn' = conn /\ pid' = pid
  BY DEF world, TypeOK
<1>3. TokensKnown'
  <2>1. ASSUME NEW f \in Fields, IsPresent(obs'[f])
        PROVE  obs'[f].value <= born /\ (pid # 0 => obs'[f].value # 0)
    BY <2>1, <1>0, <1>1, <1>2 DEF TokensKnown
  <2> QED
    BY <2>1, <1>2 DEF TokensKnown, IsPresent
<1>4. BracketInv'
  <2>1. "process_start" \in Fields
    BY DEF Fields
  <2>2. ASSUME pid # 0, IsPresent(obs'["process_start"]),
               table[pid].start = obs'["process_start"].value,
               NEW f \in Fields, IsPresent(obs'[f])
        PROVE  obs'[f].value = obs'["process_start"].value
    BY <2>1, <2>2, <1>0, <1>1 DEF BracketInv
  <2> QED
    BY <2>2, <1>2 DEF BracketInv, IsPresent
<1>5. SwitchInv'
  <2>1. ASSUME pid # 0, switches = 0, NEW f \in Fields, IsPresent(obs'[f])
        PROVE  obs'[f].value = conn.start
    BY <2>1, <1>0, <1>1 DEF SwitchInv
  <2>2. ASSUME pid # 0, switches = 1, NEW f \in Fields, IsPresent(obs'[f])
        PROVE  obs'[f].value = conn.start \/ table[pid].start \in {obs'[f].value, 0}
    BY <2>2, <1>0, <1>1 DEF SwitchInv
  <2> QED
    BY <2>1, <2>2, <1>2 DEF SwitchInv, IsPresent
<1> QED
  BY <1>3, <1>4, <1>5

-----------------------------------------------------------------------------
(* The other processes *)

\* What a step of the others comes to: a pid keeps its token, loses it, or
\* gets a new one; and the process behind the socket becomes another one only
\* where that is counted.
OthersEffect ==
    /\ table' \in [Pids -> Processes \cup {Gone}]
    /\ holder' \in Pids
    /\ born' \in {born, born + 1}
    /\ \A p \in Pids : \/ table'[p].start \in {table[p].start, 0}
                       \/ table'[p].start = born + 1 /\ born' = born + 1
    /\ \/ switches' = switches + 1
       \/ /\ switches' = switches /\ holder' = holder
          /\ table'[holder].start \in {table[holder].start, 0}
    /\ holder' # holder => phase \in {"cred", "peerpid"} /\ platform = "MacOS"

\* Every action of another process has that effect.
LEMMA OthersStep ==
    ASSUME TypeOK, Others
    PROVE  Changing /\ OthersEffect
<1>0. table \in [Pids -> Processes \cup {Gone}] /\ born \in Nat /\ switches \in Nat
        /\ holder \in Pids /\ 1 \in Pids /\ Gone.start = 0
  BY ConstantsAssumption DEF TypeOK, Gone
<1>1. ASSUME NEW p \in Pids, Exits(p) PROVE Changing /\ OthersEffect
  <2>1. ASSUME NEW q \in Pids
        PROVE  /\ table'[q] \in Processes \cup {Gone}
               /\ table'[q].start \in {table[q].start, 0}
    <3>1. CASE q = p
      BY <3>1, <1>1, <1>0 DEF Exits
    <3>2. CASE q # p /\ table[q] # Gone /\ table[q].ppid = p
      <4>1. table'[q] = [table[q] EXCEPT !.ppid = 1] /\ table[q] \in Processes
        BY <3>2, <1>1, <1>0 DEF Exits
      <4> QED
        BY <4>1, <1>0 DEF Processes
    <3>3. CASE q # p /\ ~(table[q] # Gone /\ table[q].ppid = p)
      BY <3>3, <1>1, <1>0 DEF Exits
    <3> QED
      BY <3>1, <3>2, <3>3
  <2>2. table' \in [Pids -> Processes \cup {Gone}]
    <3>1. DOMAIN table' = Pids /\ table' = [q \in Pids |-> table'[q]]
      BY <1>1 DEF Exits
    <3> QED
      BY <2>1, <3>1
  <2> QED
    BY <2>1, <2>2, <1>1, <1>0 DEF Exits, OthersEffect
<1>2. ASSUME NEW q \in Pids, NEW p \in Pids, Spawns(q, p)
      PROVE  Changing /\ OthersEffect
  <2>1. table[q] \in Processes
    BY <1>2, <1>0 DEF Spawns
  <2>2. Process(born + 1, table[q].ruid, table[q].euid, q) \in Processes
    BY <2>1, <1>0 DEF Process, Processes
  <2>3. Process(born + 1, table[q].ruid, table[q].euid, q).start = born + 1
    BY DEF Process
  <2> QED
    BY <2>2, <2>3, <1>2, <1>0 DEF Spawns, OthersEffect
<1>3. ASSUME NEW p \in Pids, NEW u \in Uids, ChangesIds(p, u)
      PROVE  Changing /\ OthersEffect
  <2>1. table[p] \in Processes
    BY <1>3, <1>0 DEF ChangesIds
  <2>2. PICK r \in {table[p].ruid, u} :
            table' = [table EXCEPT ![p].ruid = r, ![p].euid = u]
    BY <1>3 DEF ChangesIds
  <2>3. r \in Uids
    BY <2>1 DEF Processes
  <2>4. table' = [table EXCEPT ![p] = [[table[p] EXCEPT !.ruid = r] EXCEPT !.euid = u]]
    BY <2>2, <1>0
  <2>5. /\ [[table[p] EXCEPT !.ruid = r] EXCEPT !.euid = u] \in Processes
        /\ [[table[p] EXCEPT !.ruid = r] EXCEPT !.euid = u].start = table[p].start
    BY <2>1, <2>3 DEF Processes
  <2> QED
    BY <2>4, <2>5, <1>3, <1>0 DEF ChangesIds, OthersEffect
<1>4. ASSUME NEW q \in Pids, HandsOver(q) PROVE Changing /\ OthersEffect
  BY <1>4, <1>0 DEF HandsOver, OthersEffect
<1> QED
  BY <1>1, <1>2, <1>3, <1>4 DEF Others

\* Whatever the others do, what is known of the evidence stays known: a token
\* that is gone from a pid does not come back to it.
LEMMA OthersKeepInvariant ==
    ASSUME IInv, Others
    PROVE  IInv'
<1> USE DEF IInv
<1>1. Changing /\ OthersEffect
  BY OthersStep
<1>2. /\ platform' = platform /\ hidden' = hidden /\ conn' = conn
      /\ phase' = phase /\ pid' = pid /\ obs' = obs /\ ancestry' = ancestry
      /\ ids' = ids /\ consistency' = consistency
      /\ phase \notin {"done", "failed"}
      /\ changes' = changes + 1 /\ changes < MaxChanges
  BY <1>1 DEF Changing, collector
<1>3. born \in Nat /\ switches \in Nat /\ holder \in Pids /\ 0 \notin Pids
        /\ born' \in Nat /\ switches' \in Nat /\ pid \in Pids \cup {0}
  BY <1>1, ConstantsAssumption DEF OthersEffect, TypeOK
<1>4. TypeOK'
  BY <1>1, <1>2, <1>3, ConstantsAssumption DEF OthersEffect, TypeOK
<1>5. TokensKnown'
  <2>1. \A p \in Pids : table'[p].start <= born'
    <3> SUFFICES ASSUME NEW p \in Pids PROVE table'[p].start <= born'
      OBVIOUS
    <3>1. table[p].start <= born /\ table'[p].start \in Nat
      BY <1>4 DEF TokensKnown, TypeOK, Processes, Gone
    <3> QED
      BY <3>1, <1>1, <1>3 DEF OthersEffect
  <2>2. \A f \in Fields : IsPresent(obs[f]) => obs[f].value \in Nat
    BY DEF TypeOK, TokenEvidence, IsPresent
  <2> QED
    BY <2>1, <2>2, <1>1, <1>2, <1>3 DEF TokensKnown, OthersEffect, IsPresent
<1>6. OrderInv'
  BY <1>1, <1>2, <1>3 DEF OrderInv, Started, OthersEffect, IsPresent
<1>7. BracketInv'
  <2> SUFFICES ASSUME pid # 0, IsPresent(obs["process_start"]),
                      table'[pid].start = obs["process_start"].value,
                      NEW f \in Fields, IsPresent(obs[f])
               PROVE  obs[f].value = obs["process_start"].value
    BY <1>2 DEF BracketInv, IsPresent
  <2>1. obs["process_start"].value <= born /\ obs["process_start"].value # 0
           /\ obs["process_start"].value \in Nat
    BY DEF TokensKnown, Fields, TypeOK, TokenEvidence, IsPresent
  <2>2. table[pid].start = obs["process_start"].value
    BY <2>1, <1>1, <1>3 DEF OthersEffect
  <2> QED
    BY <2>2 DEF BracketInv
<1>8. SwitchInv'
  <2>1. switches' = 0 => table'[holder'].start \in {conn.start, 0}
    BY <1>1, <1>3 DEF SwitchInv, OthersEffect
  <2>2. ASSUME pid # 0, switches' = 0, NEW f \in Fields, IsPresent(obs[f])
        PROVE  obs[f].value = conn.start
    BY <2>2, <1>1, <1>3 DEF SwitchInv, OthersEffect
  <2>3. ASSUME pid # 0, switches' = 1, NEW f \in Fields, IsPresent(obs[f])
        PROVE  obs[f].value = conn.start \/ table'[pid].start \in {obs[f].value, 0}
    <3>1. CASE switches = 0
      BY <3>1, <2>3 DEF SwitchInv
    <3>2. CASE switches # 0
      <4>1. switches = 1 /\ table'[holder].start \in {table[holder].start, 0}
        BY <3>2, <2>3, <1>1, <1>3 DEF OthersEffect
      <4>2. pid = holder
        BY <2>3 DEF OrderInv, Started
      <4> QED
        BY <4>1, <4>2, <2>3 DEF SwitchInv
    <3> QED
      BY <3>1, <3>2
  <2> QED
    BY <2>1, <2>2, <2>3, <1>2 DEF SwitchInv, IsPresent
<1>9. VerdictInv' /\ AncestryWellFormed'
  BY <1>2 DEF VerdictInv, AncestryWellFormed
<1> QED
  BY <1>4, <1>5, <1>6, <1>7, <1>8, <1>9

-----------------------------------------------------------------------------
(* The collector *)

\* The credential: the pid becomes known, and nothing else.
LEMMA CredentialKeepsInvariant ==
    ASSUME IInv, SocketPeercred \/ LocalPeerCred \/ LocalPeerPid \/ CredentialFails
    PROVE  IInv'
<1> USE DEF IInv
<1>1. /\ UNCHANGED <<world, obs, ancestry, ids, consistency>>
      /\ phase \in {"cred", "peerpid"}
      /\ \/ phase' = "start" /\ pid' \in {0, holder}
         \/ phase' = "peerpid" /\ platform = "MacOS" /\ pid' = pid
         \/ phase' = "failed" /\ pid' = pid
  BY DEF SocketPeercred, LocalPeerCred, LocalPeerPid, CredentialFails, OrderInv
<1>2. /\ UNCHANGED <<platform, table, hidden, born, changes, conn, holder, switches>>
      /\ ancestry = <<>> /\ pid = 0
      /\ \A f \in Fields : ~IsPresent(obs[f]) /\ ~IsPresent(obs'[f])
  BY <1>1 DEF world, OrderInv, Started, IsPresent
<1>3. TypeOK'
  BY <1>1, <1>2 DEF TypeOK, Phases
<1>4. TokensKnown' /\ BracketInv'
  BY <1>1, <1>2 DEF TokensKnown, BracketInv, Fields
<1>5. SwitchInv'
  BY <1>1, <1>2 DEF SwitchInv
<1>6. OrderInv'
  BY <1>1, <1>2 DEF OrderInv, Started
<1>7. VerdictInv' /\ AncestryWellFormed'
  BY <1>1, <1>2 DEF VerdictInv, AncestryWellFormed
<1> QED
  BY <1>3, <1>4, <1>5, <1>6, <1>7

\* The reads that make up the execution context, apart from the ancestry.
LEMMA ContextKeepsInvariant ==
    ASSUME IInv,
           ProcessStart \/ ReadStatusId \/ BsdInfo \/ ExecutablePath \/ CgroupPath
    PROVE  IInv'
<1> USE DEF IInv
<1>0. /\ pid \in Pids \cup {0} /\ 0 \notin Pids
      /\ Read(pid) \in TokenEvidence
      /\ Missing \in TokenEvidence /\ ~IsPresent(Missing)
      /\ [state |-> "Unsupported"] \in TokenEvidence
      /\ ~IsPresent([state |-> "Unsupported"])
  BY ReadFacts, ConstantsAssumption DEF TypeOK, Missing, TokenEvidence, IsPresent
<1>1. /\ UNCHANGED <<world, pid, ancestry, ids>>
      /\ phase \notin {"cred", "peerpid", "done", "failed"}
      /\ phase' \in {"uid", "gid", "exe", "parent", "cgroup", "ids", "done"}
      /\ \A f \in Fields : obs'[f] \in {obs[f], Read(pid), Missing, [state |-> "Unsupported"]}
      /\ obs' = [f \in Fields |-> obs'[f]]
      /\ \/ obs'["process_start"] = obs["process_start"]
         \/ phase = "start"
      /\ \/ phase' # "done" /\ consistency' = consistency /\ (pid = 0 => phase' # "ids")
         \/ phase' = "done" /\ consistency' = "PeerUnmapped" /\ pid = 0
  <2>0. obs \in [Fields -> TokenEvidence]
    BY DEF TypeOK
  <2>1. CASE ProcessStart
    BY <2>0, <2>1 DEF ProcessStart, Fields
  <2>2. CASE ReadStatusId
    BY <2>0, <2>2 DEF ReadStatusId, Fields
  <2>3. CASE BsdInfo
    BY <2>0, <2>3 DEF BsdInfo, Fields
  <2>4. CASE ExecutablePath
    BY <2>0, <2>4 DEF ExecutablePath, Fields
  <2>5. CASE CgroupPath
    BY <2>0, <2>5 DEF CgroupPath, Fields
  <2> QED
    BY <2>1, <2>2, <2>3, <2>4, <2>5
<1>2. /\ UNCHANGED <<platform, table, hidden, born, changes, conn, holder, switches>>
  BY <1>1 DEF world
<1>3. obs' \in [Fields -> TokenEvidence]
  BY <1>0, <1>1 DEF TypeOK
<1>4. TypeOK'
  BY <1>1, <1>2, <1>3 DEF TypeOK, Phases
<1>5. TokensKnown' /\ BracketInv' /\ SwitchInv'
  <2>1. phase = "start" => \A f \in Fields : ~IsPresent(obs[f])
    BY DEF OrderInv, Started
  <2>2. \A f \in Fields : \/ obs'[f] = obs[f] \/ obs'[f] = Read(pid)
                          \/ ~IsPresent(obs'[f])
    BY <1>0, <1>1
  <2> QED
    BY <2>1, <2>2, <1>1, ReadingKeepsEvidence
<1>6. OrderInv'
  BY <1>1, <1>2 DEF OrderInv, Started
<1>7. VerdictInv' /\ AncestryWellFormed'
  BY <1>1, <1>2 DEF VerdictInv, SingleSwitchCaught, AncestryWellFormed
<1> QED
  BY <1>4, <1>5, <1>6, <1>7

\* The walk up the parents.
LEMMA WalkKeepsInvariant ==
    ASSUME IInv, ParentPid \/ AncestorStart \/ AncestorExe
    PROVE  IInv'
<1> USE DEF IInv
<1> DEFINE Entry == [pid : Pids, start : TokenEvidence, executable_path : TokenEvidence]
<1>0. /\ ancestry \in Seq(Entry) /\ Len(ancestry) \in Nat /\ Len(ancestry) <= MaxDepth
      /\ MaxDepth \in Nat /\ pid \in Pids \cup {0} /\ 0 \notin Pids
      /\ \A i \in 1..Len(ancestry) : ancestry[i] \in Entry /\ ancestry[i].pid \in Pids
      /\ Missing \in TokenEvidence
  <2>1. ancestry \in Seq(Entry) /\ Len(ancestry) <= MaxDepth /\ pid \in Pids \cup {0}
    BY DEF TypeOK
  <2> HIDE DEF Entry
  <2>2. Len(ancestry) \in Nat /\ \A i \in 1..Len(ancestry) : ancestry[i] \in Entry
    BY <2>1
  <2>3. \A i \in 1..Len(ancestry) : ancestry[i].pid \in Pids
    BY <2>2 DEF Entry
  <2>4. Missing \in TokenEvidence
    BY DEF Missing, TokenEvidence
  <2> QED
    BY <2>1, <2>2, <2>3, <2>4, ConstantsAssumption
<1>1. Current \in Pids \cup {0}
  BY <1>0 DEF Current
<1>2. Read(Current) \in TokenEvidence
  BY <1>1, ReadFacts
<1>3. /\ UNCHANGED <<world, pid, obs, ids, consistency>>
      /\ phase \in {"parent", "ancestor_start", "ancestor_exe"}
      /\ phase' \in {"parent", "ancestor_start", "ancestor_exe", "cgroup"}
  BY DEF ParentPid, AncestorStart, AncestorExe
<1>4. /\ ancestry' \in Seq(Entry) /\ Len(ancestry') <= MaxDepth
      /\ AncestryWellFormed'
      /\ phase' \in {"ancestor_start", "ancestor_exe"} => ancestry' # <<>>
  <2>1. CASE ParentPid /\ WalkEnds
    BY <2>1, <1>0 DEF ParentPid, AncestryWellFormed
  <2>2. CASE ParentPid /\ ~WalkEnds
    <3>1. Lookup(Current).ppid \notin {0} \cup Seen /\ Readable(Current)
            /\ Len(ancestry) # MaxDepth
      BY <2>2 DEF WalkEnds
    <3>2. Current # 0
      BY <3>1 DEF Lookup, Zero, Process, Readable
    <3>3. Lookup(Current) \in Processes
      BY <3>1, <3>2, <1>1 DEF TypeOK, Lookup, Readable
    <3>4. Lookup(Current).ppid \in Pids
      BY <3>1, <3>3 DEF Processes
    <3> DEFINE new == [pid |-> Lookup(Current).ppid, start |-> Missing,
                       executable_path |-> Missing]
    <3>5. new \in Entry /\ new.pid = Lookup(Current).ppid
      BY <3>4, <1>0
    <3>6. ancestry' = Append(ancestry, new)
      BY <2>2 DEF ParentPid
    <3> HIDE DEF new
    <3>7. /\ ancestry' \in Seq(Entry) /\ Len(ancestry') = Len(ancestry) + 1
          /\ \A i \in 1..Len(ancestry) : ancestry'[i] = ancestry[i]
          /\ ancestry'[Len(ancestry) + 1] = new
      BY <3>5, <3>6, <1>0
    <3>8. new.pid # pid /\ \A i \in 1..Len(ancestry) : new.pid # ancestry[i].pid
      BY <3>1, <3>5 DEF Seen
    <3>9. AncestryWellFormed'
      <4>1. pid' = pid /\ new.pid \notin {0, pid}
        BY <3>4, <3>5, <3>8, <1>0, <1>3
      <4>2. \A i \in 1..Len(ancestry') : i \in 1..Len(ancestry) \/ i = Len(ancestry) + 1
        BY <3>7, <1>0
      <4>3. \A i \in 1..Len(ancestry') : ancestry'[i].pid \notin {0, pid'}
        BY <4>1, <4>2, <3>7 DEF AncestryWellFormed
      <4>4. \A i, j \in 1..Len(ancestry') :
                ancestry'[i].pid = ancestry'[j].pid => i = j
        BY <4>2, <3>7, <3>8 DEF AncestryWellFormed
      <4> QED
        BY <4>3, <4>4 DEF AncestryWellFormed
    <3> QED
      BY <3>1, <3>7, <3>9, <1>0
  <2>3. CASE AncestorStart \/ AncestorExe
    <3>1. ancestry # <<>> /\ Len(ancestry) \in 1..Len(ancestry)
      BY <2>3, <1>0 DEF AncestorStart, AncestorExe, OrderInv
    <3>2. \E e \in TokenEvidence :
              \/ ancestry' = [ancestry EXCEPT ![Len(ancestry)].start = e]
              \/ ancestry' = [ancestry EXCEPT ![Len(ancestry)].executable_path = e]
      BY <2>3, <1>0, <1>2 DEF AncestorStart, AncestorExe
    <3>3. /\ ancestry' \in Seq(Entry) /\ Len(ancestry') = Len(ancestry)
          /\ \A i \in 1..Len(ancestry) : ancestry'[i].pid = ancestry[i].pid
      <4>1. PICK e \in TokenEvidence :
              \/ ancestry' = [ancestry EXCEPT ![Len(ancestry)].start = e]
              \/ ancestry' = [ancestry EXCEPT ![Len(ancestry)].executable_path = e]
        BY <3>2
      <4> DEFINE last == ancestry[Len(ancestry)]
      <4>2. /\ last \in Entry
            /\ [last EXCEPT !.start = e] \in Entry
            /\ [last EXCEPT !.executable_path = e] \in Entry
            /\ [last EXCEPT !.start = e].pid = last.pid
            /\ [last EXCEPT !.executable_path = e].pid = last.pid
        BY <1>0, <3>1
      <4>3. \E new \in Entry : /\ new.pid = last.pid
                               /\ ancestry' = [ancestry EXCEPT ![Len(ancestry)] = new]
        BY <4>1, <4>2
      <4> QED
        BY <4>3, <1>0, <3>1
    <3>4. AncestryWellFormed'
      BY <3>3, <1>3 DEF AncestryWellFormed
    <3> QED
      BY <3>1, <3>3, <3>4, <1>0
  <2> QED
    BY <2>1, <2>2, <2>3
<1>5. /\ UNCHANGED <<platform, table, hidden, born, changes, conn, holder, switches>>
  BY <1>3 DEF world
<1>6. TypeOK'
  BY <1>3, <1>4, <1>5 DEF TypeOK, Phases
<1>7. TokensKnown' /\ BracketInv' /\ SwitchInv'
  BY <1>3, <1>5 DEF TokensKnown, BracketInv, SwitchInv
<1>8. OrderInv'
  BY <1>3, <1>4, <1>5 DEF OrderInv, Started
<1>9. VerdictInv'
  BY <1>3 DEF VerdictInv, SingleSwitchCaught
<1> QED
  BY <1>4, <1>6, <1>7, <1>8, <1>9

\* The verdict: Consistent is only said of a pid that could be read last.
LEMMA VerdictKeepsInvariant ==
    ASSUME IInv, FromKernelObservation
    PROVE  IInv'
<1> USE DEF IInv
<1>1. /\ UNCHANGED <<platform, table, hidden, born, changes, conn, holder, switches,
                     pid, obs, ancestry>>
      /\ phase = "ids" /\ phase' = "done" /\ ids' \in ReadUids
      /\ consistency' = ClassifyConsistency(conn.uid, ids'.real, ids'.effective)
  BY DEF FromKernelObservation, world
<1>2. pid \in Pids /\ pid # 0 /\ pid = holder /\ Lookup(pid) = table[pid]
  BY <1>1 DEF OrderInv, TypeOK, Lookup
<1>3. /\ ids'.of \in Nat
      /\ IsPresent(ids'.real) \/ IsPresent(ids'.effective) =>
             ids'.of = table[pid].start /\ table[pid].start # 0
  <2>1. CASE Readable(pid)
    <3>1. table[pid] \in Processes
      BY <2>1, <1>2 DEF Readable, TypeOK
    <3>2. ids'.of = table[pid].start
      BY <2>1, <1>1, <1>2 DEF ReadUids
    <3> QED
      BY <3>1, <3>2 DEF Processes
  <2>2. CASE ~Readable(pid)
    BY <2>2, <1>1 DEF ReadUids, IsPresent, Missing
  <2> QED
    BY <2>1, <2>2
<1>4. consistency' = "Consistent" => IsPresent(ids'.real) \/ IsPresent(ids'.effective)
  BY <1>1 DEF ClassifyConsistency, Usable, IsPresent
<1>5. TypeOK'
  BY <1>1, <1>3 DEF TypeOK, Phases, ClassifyConsistency
<1>6. TokensKnown' /\ BracketInv' /\ SwitchInv' /\ AncestryWellFormed'
  BY <1>1 DEF TokensKnown, BracketInv, SwitchInv, AncestryWellFormed
<1>7. OrderInv'
  BY <1>1, <1>2 DEF OrderInv, Started
<1>8. VerdictInv'
  <2>1. ASSUME consistency' = "Consistent", switches <= 1,
               NEW f \in Fields, IsPresent(obs[f])
        PROVE  obs[f].value \in {conn.start, ids'.of}
    <3>1. switches \in {0, 1}
      BY <2>1 DEF TypeOK
    <3> QED
      BY <3>1, <2>1, <1>2, <1>3, <1>4 DEF SwitchInv
  <2> QED
    BY <2>1, <1>1, <1>3 DEF VerdictInv, SingleSwitchCaught, IsPresent
<1> QED
  BY <1>5, <1>6, <1>7, <1>8

-----------------------------------------------------------------------------
\* The invariant holds of a connection nobody has looked at.
LEMMA InitInvariant == Init => IInv
<1> SUFFICES ASSUME Init PROVE IInv
  OBVIOUS
<1>1. /\ table \in Tables /\ table \in [Pids -> Processes \cup {Gone}] /\ IsTree(table)
      /\ Cardinality(Pids) \in Nat \ {0} /\ Pids = 1..Cardinality(Pids)
      /\ 0 \notin Pids /\ Gone.start = 0
  BY ConstantsAssumption DEF Init, Gone
<1>2. \A p \in Pids : /\ table[p].start \in {0, p}
                      /\ table[p] # Gone => table[p] \in Processes
  <2> TAKE p \in Pids
  <2>1. CASE p = 1
    BY <2>1, <1>1 DEF IsTree, Process
  <2>2. CASE p # 1
    BY <2>2, <1>1 DEF IsTree, Process
  <2> QED
    BY <2>1, <2>2
<1>3. PICK p \in Pids :
          /\ table[p] # Gone /\ holder = p
          /\ conn = [pid |-> p, start |-> table[p].start, uid |-> table[p].euid]
  BY DEF Init
<1>4. table[p].start \in Nat \ {0} /\ table[p].euid \in Uids
  BY <1>2, <1>3 DEF Processes
<1>5. \A f \in Fields : obs[f] = Missing
  BY DEF Init
<1>6. Missing \in TokenEvidence /\ ~IsPresent(Missing)
  BY DEF Missing, TokenEvidence, IsPresent
<1>7. TypeOK
  <2>1. /\ platform \in {"Linux", "MacOS"} /\ hidden \in SUBSET Pids
        /\ born \in Nat /\ changes \in 0..MaxChanges /\ switches \in Nat
        /\ phase \in Phases /\ pid \in Pids \cup {0} /\ ids.of \in Nat
        /\ consistency = "None"
    BY <1>1, ConstantsAssumption DEF Init, Phases
  <2>2. conn \in [pid : Pids, start : Nat \ {0}, uid : Uids] /\ holder \in Pids
    BY <1>3, <1>4
  <2>3. obs \in [Fields -> TokenEvidence]
    BY <1>6 DEF Init
  <2>4. /\ ancestry \in Seq([pid : Pids, start : TokenEvidence,
                             executable_path : TokenEvidence])
        /\ Len(ancestry) <= MaxDepth
    BY ConstantsAssumption DEF Init
  <2> QED
    BY <1>1, <2>1, <2>2, <2>3, <2>4 DEF TypeOK
<1>8. TokensKnown
  BY <1>1, <1>2, <1>5, <1>6 DEF TokensKnown, Init
<1>9. OrderInv /\ BracketInv /\ VerdictInv /\ AncestryWellFormed
  BY <1>3, <1>5, <1>6
  DEF Init, OrderInv, BracketInv, VerdictInv, AncestryWellFormed, Started, Fields
<1>10. SwitchInv
  BY <1>3, <1>5, <1>6 DEF Init, SwitchInv
<1> QED
  BY <1>7, <1>8, <1>9, <1>10 DEF IInv

\* The invariant is inductive: it holds throughout every collection.
THEOREM CollectorInvariant == Spec => []IInv
<1>1. IInv /\ [Next]_vars => IInv'
  <2> SUFFICES ASSUME IInv, [Next]_vars PROVE IInv'
    OBVIOUS
  <2>1. CASE CollectorStep \/ CredentialFails
    BY <2>1, CredentialKeepsInvariant, ContextKeepsInvariant, WalkKeepsInvariant,
       VerdictKeepsInvariant DEF CollectorStep
  <2>2. CASE Others
    BY <2>2, OthersKeepInvariant
  <2>3. CASE UNCHANGED vars
    BY <2>3 DEF vars, world, IInv, TypeOK, TokensKnown, OrderInv, Started, BracketInv,
                SwitchInv, VerdictInv, SingleSwitchCaught, AncestryWellFormed
  <2> QED
    BY <2>1, <2>2, <2>3 DEF Next
<1> QED
  BY <1>1, InitInvariant, PTL DEF Spec

\* Every variable of the collection has its type, and the ancestry is never
\* longer than MAX_ANCESTRY_DEPTH.
THEOREM CollectorTypeCorrect == Spec => []TypeOK
<1>1. IInv => TypeOK
  BY DEF IInv
<1> QED
  BY <1>1, CollectorInvariant, PTL

\* Evidence that passes as Consistent, with the process behind the socket
\* replaced at most once since connect(2), is of the connecting process or of
\* the one whose uids passed the check.
THEOREM SwitchIsCaught == Spec => []SingleSwitchCaught
<1>1. IInv => SingleSwitchCaught
  BY DEF IInv, VerdictInv, SingleSwitchCaught
<1> QED
  BY <1>1, CollectorInvariant, PTL

\* Pid and start token stand for the whole identity: if the pid still bears
\* the token, every piece of evidence is of that process.
THEOREM TokenStandsForIdentity == Spec => []StartTokenBrackets
<1>1. IInv => StartTokenBrackets
  BY DEF IInv, VerdictInv, BracketInv, StartTokenBrackets
<1> QED
  BY <1>1, CollectorInvariant, PTL

\* Under any reparenting and reuse of pids, the ancestry repeats no process
\* and names neither the workload nor pid 0.
THEOREM AncestryHasNoCycle == Spec => []AncestryWellFormed
<1>1. IInv => AncestryWellFormed
  BY DEF IInv
<1> QED
  BY <1>1, CollectorInvariant, PTL

-----------------------------------------------------------------------------
(* A collection during which nothing changes *)

Above(i) == IF i = 0 THEN pid ELSE ancestry[i].pid

Link(i) ==
    /\ ancestry[i].pid = table[Above(i - 1)].ppid
    /\ table[ancestry[i].pid] # Gone
    /\ \/ i = Len(ancestry) /\ phase = "ancestor_start"
       \/ ancestry[i].start = Read(ancestry[i].pid)

AtTop == Len(ancestry) = MaxDepth \/ Current \in hidden \/ table[Current].ppid = 0

\* The processes are still the tree they were, in which a parent has the lower
\* pid; so the walk goes down in pids, meets nobody twice, and ends for no
\* other reason than the three it should.
QuietInv ==
    changes = 0 =>
        /\ IsTree(table) /\ table[holder] # Gone
        /\ phase \in {"cred", "peerpid", "start", "uid", "gid", "exe"} => ancestry = <<>>
        /\ Started /\ pid # 0 => obs["process_start"] = Read(pid)
        /\ pid # 0 => /\ \A i \in 1..Len(ancestry) : Link(i)
                      /\ \A p \in Seen : Current <= p
        /\ pid # 0 /\ phase \in {"cgroup", "ids", "done"} => AtTop

\* In the tree a parent is there and has the lower pid.
LEMMA ParentBelow ==
    ASSUME IsTree(table), NEW p \in Pids, table[p] # Gone, table[p].ppid # 0
    PROVE  table[p].ppid \in Pids /\ table[p].ppid < p /\ table[table[p].ppid] # Gone
<1>1. p # 1
  BY DEF IsTree, Process
<1>2. PICK q \in Pids, r \in Uids, e \in Uids :
          q < p /\ table[q] # Gone /\ table[p] = Process(p, r, e, q)
  BY <1>1 DEF IsTree
<1> QED
  BY <1>2 DEF Process

\* Of a process that is there, only a hidden one cannot be read.
LEMMA ReadFails ==
    ASSUME NEW p \in Pids, table[p] # Gone
    PROVE  /\ ~Readable(p) => p \in hidden
           /\ Read(p) = Missing => p \in hidden
<1>1. Lookup(p) = table[p]
  BY ConstantsAssumption DEF Lookup
<1> QED
  BY <1>1 DEF Readable, Read, Present, Missing

\* Where the walk stands is a process that is there.
LEMMA CurrentThere ==
    ASSUME IInv, QuietInv, changes = 0, pid # 0
    PROVE  /\ Len(ancestry) \in Nat
           /\ Current \in Pids /\ table[Current] # Gone /\ Current = Above(Len(ancestry))
           /\ Pids \subseteq Nat
<1>0. Pids \subseteq Nat /\ 0 \notin Pids
  BY ConstantsAssumption
<1>1. pid = holder /\ holder \in Pids
  BY DEF IInv, OrderInv, TypeOK
<1>2. CASE ancestry = <<>>
  BY <1>0, <1>1, <1>2 DEF QuietInv, Current, Above
<1>3. CASE ancestry # <<>>
  <2> DEFINE Entry == [pid : Pids, start : TokenEvidence, executable_path : TokenEvidence]
  <2>0. ancestry \in Seq(Entry)
    BY DEF IInv, TypeOK
  <2> HIDE DEF Entry
  <2>1. Len(ancestry) \in Nat /\ Len(ancestry) \in 1..Len(ancestry)
        /\ ancestry[Len(ancestry)] \in Entry
    BY <1>3, <2>0
  <2>2. ancestry[Len(ancestry)].pid \in Pids
    BY <2>1 DEF Entry
  <2>3. Link(Len(ancestry))
    BY <2>1 DEF QuietInv
  <2> QED
    BY <1>0, <1>3, <2>1, <2>2, <2>3 DEF Link, Current, Above
<1> QED
  BY <1>2, <1>3

\* A step of the collector that leaves the ancestry alone.
LEMMA WalkUntouched ==
    ASSUME QuietInv, changes = 0, UNCHANGED <<world, pid, ancestry>>, pid # 0,
           phase # "ancestor_start"
    PROVE  /\ \A i \in 1..Len(ancestry') : Link(i)'
           /\ \A p \in Seen' : Current' <= p
           /\ AtTop' <=> AtTop
<1>1. UNCHANGED <<platform, table, hidden>>
  BY DEF world
<1>2. \A p : Read(p)' = Read(p)
  BY <1>1 DEF Read, Readable, Lookup, Zero
<1>3. ASSUME NEW i \in 1..Len(ancestry) PROVE Link(i)'
  <2>1. Link(i)
    BY DEF QuietInv
  <2>2. ancestry[i].start = Read(ancestry[i].pid)
    BY <2>1 DEF Link
  <2>3. ancestry'[i].start = Read(ancestry[i].pid)'
    BY <1>2, <2>2
  <2> QED
    BY <1>1, <2>1, <2>3 DEF Link, Above
<1>4. Seen' = Seen /\ Current' = Current
  BY DEF Seen, Current
<1>5. AtTop' <=> AtTop
  BY <1>1, <1>4 DEF AtTop
<1> QED
  BY <1>3, <1>4, <1>5 DEF QuietInv

\* While nothing changes, each read of the walk goes one process up.
LEMMA QuietStep == ASSUME IInv, IInv', QuietInv, [Next]_vars PROVE QuietInv'
<1>0. changes \in Nat
  BY DEF IInv, TypeOK
<1>1. CASE Others
  BY <1>0, <1>1, OthersStep DEF IInv, Changing, QuietInv
<1> SUFFICES ASSUME changes' = 0, CollectorStep \/ CredentialFails \/ UNCHANGED vars
             PROVE  QuietInv'
  BY <1>1 DEF Next, QuietInv
<1>a. UNCHANGED world
  BY DEF CollectorStep, CredentialFails, SocketPeercred, LocalPeerCred, LocalPeerPid,
         ProcessStart, ReadStatusId, BsdInfo, ExecutablePath, ParentPid, AncestorStart,
         AncestorExe, CgroupPath, FromKernelObservation, vars
<1>b. /\ UNCHANGED <<platform, table, hidden, holder, changes>>
      /\ changes = 0
  BY <1>a DEF world
<1>c. \A p : Read(p)' = Read(p)
  BY <1>b DEF Read, Readable, Lookup, Zero
<1>d. IsTree(table') /\ table'[holder'] # Gone
  BY <1>b DEF QuietInv
<1>e. Pids \subseteq Nat /\ pid \in Pids \cup {0} /\ pid' \in Pids \cup {0}
  BY ConstantsAssumption DEF IInv, TypeOK
<1>2. CASE SocketPeercred \/ LocalPeerCred \/ LocalPeerPid \/ CredentialFails
  <2>1. ancestry' = <<>> /\ phase' \in {"peerpid", "start", "failed"}
    BY <1>2, <1>b DEF SocketPeercred, LocalPeerCred, LocalPeerPid, CredentialFails, QuietInv
  <2>2. Len(ancestry') = 0 /\ Seen' = {pid'} /\ Current' = pid'
    BY <2>1 DEF Seen, Current
  <2>3. ~Started'
    BY <2>1 DEF Started
  <2>4. pid' <= pid'
    BY <1>e
  <2> QED
    BY <1>d, <2>1, <2>2, <2>3, <2>4 DEF QuietInv
<1>3. CASE \/ ProcessStart \/ ReadStatusId \/ BsdInfo \/ ExecutablePath \/ CgroupPath
           \/ FromKernelObservation
  <2>1. /\ UNCHANGED <<pid, ancestry>>
        /\ phase \in {"start", "uid", "gid", "exe", "cgroup", "ids"}
        /\ phase' \in {"uid", "gid", "exe"} => phase \in {"start", "uid", "gid", "exe"}
        /\ phase' \notin {"cred", "peerpid", "start"}
    BY <1>3 DEF ProcessStart, ReadStatusId, BsdInfo, ExecutablePath, CgroupPath,
                FromKernelObservation
  <2>2. phase' \in {"cred", "peerpid", "start", "uid", "gid", "exe"} => ancestry' = <<>>
    BY <1>b, <2>1 DEF QuietInv
  <2>3. pid # 0 => obs'["process_start"] = Read(pid)
    <3>0. obs \in [Fields -> TokenEvidence] /\ "process_start" \in Fields
      BY DEF IInv, TypeOK, Fields
    <3>1. CASE ProcessStart \/ BsdInfo
      BY <3>0, <3>1 DEF ProcessStart, BsdInfo
    <3>2. CASE ReadStatusId \/ ExecutablePath \/ CgroupPath \/ FromKernelObservation
      <4>1. obs'["process_start"] = obs["process_start"]
        BY <3>0, <3>2 DEF ReadStatusId, ExecutablePath, CgroupPath, FromKernelObservation
      <4>2. Started
        BY <3>2 DEF ReadStatusId, ExecutablePath, CgroupPath, FromKernelObservation, Started
      <4> QED
        BY <1>b, <4>1, <4>2 DEF QuietInv
    <3> QED
      BY <1>3, <3>1, <3>2
  <2>4. pid' # 0 => obs'["process_start"] = Read(pid)'
    BY <1>c, <2>1, <2>3
  <2>5. ASSUME pid # 0
        PROVE  /\ \A i \in 1..Len(ancestry') : Link(i)'
               /\ \A p \in Seen' : Current' <= p
               /\ AtTop' <=> AtTop
    BY <1>a, <1>b, <2>1, <2>5, WalkUntouched
  <2>6. ASSUME pid # 0, phase' \in {"cgroup", "ids", "done"} PROVE AtTop
    <3>1. CASE phase \in {"cgroup", "ids", "done"}
      BY <1>b, <2>6, <3>1 DEF QuietInv
    <3>2. CASE phase \notin {"cgroup", "ids", "done"}
      <4>1. ExecutablePath /\ obs["process_start"] = Missing
        BY <1>3, <2>6, <3>2 DEF ProcessStart, ReadStatusId, BsdInfo, ExecutablePath,
                                CgroupPath, FromKernelObservation
      <4>2. phase = "exe" /\ Started
        BY <4>1 DEF ExecutablePath, Started
      <4>3. ancestry = <<>> /\ Read(pid) = Missing
        BY <1>b, <2>6, <4>1, <4>2 DEF QuietInv
      <4>4. Current = pid
        BY <4>3 DEF Current
      <4>5. Current \in Pids /\ table[Current] # Gone
        BY <1>b, <2>6, CurrentThere
      <4> QED
        BY <4>3, <4>4, <4>5, ReadFails DEF AtTop
    <3> QED
      BY <3>1, <3>2
  <2> QED
    BY <1>d, <2>1, <2>2, <2>4, <2>5, <2>6 DEF QuietInv
<1>4. CASE ParentPid \/ AncestorStart \/ AncestorExe
  <2>1. /\ UNCHANGED <<pid, obs>>
        /\ phase \in {"parent", "ancestor_start", "ancestor_exe"}
        /\ phase' \in {"parent", "ancestor_start", "ancestor_exe", "cgroup"}
        /\ phase' = "cgroup" => ParentPid /\ WalkEnds /\ ancestry' = ancestry
    BY <1>4 DEF ParentPid, AncestorStart, AncestorExe
  <2>2. Started /\ Started'
    BY <2>1 DEF Started
  <2>3. pid' # 0 => obs'["process_start"] = Read(pid)'
    BY <1>b, <1>c, <2>1, <2>2 DEF QuietInv
  <2>4. ASSUME pid # 0
        PROVE  /\ \A i \in 1..Len(ancestry') : Link(i)'
               /\ \A p \in Seen' : Current' <= p
               /\ phase' = "cgroup" => AtTop'
    <3> DEFINE n == Len(ancestry)
               Entry == [pid : Pids, start : TokenEvidence, executable_path : TokenEvidence]
    <3>0. /\ n \in Nat
          /\ Current \in Pids /\ table[Current] # Gone /\ Current = Above(n)
          /\ Pids \subseteq Nat /\ 0 \notin Pids
      BY <1>b, <2>4, CurrentThere, ConstantsAssumption
    <3>1. ancestry \in Seq(Entry)
      BY DEF IInv, TypeOK
    <3>2. /\ \A i \in 1..n : Link(i)
          /\ \A p \in Seen : Current <= p
      BY <1>b, <2>4 DEF QuietInv
    <3>3. CASE ParentPid /\ WalkEnds
      <4>1. ancestry' = ancestry /\ phase = "parent"
        BY <3>3 DEF ParentPid
      <4>2. AtTop
        <5>1. Lookup(Current) = table[Current]
          BY <3>0 DEF Lookup
        <5>2. CASE ~Readable(Current)
          BY <3>0, <5>2, ReadFails DEF AtTop
        <5>3. CASE table[Current].ppid # 0 /\ table[Current].ppid \in Seen
          <6>1. table[Current].ppid \in Pids /\ table[Current].ppid < Current
            BY <1>b, <3>0, <5>3, ParentBelow DEF QuietInv
          <6>2. Current <= table[Current].ppid
            BY <3>2, <5>3
          <6> QED
            BY <3>0, <6>1, <6>2
        <5> QED
          BY <3>3, <5>1, <5>2, <5>3 DEF WalkEnds, AtTop
      <4> QED
        BY <1>a, <1>b, <2>1, <2>4, <4>1, <4>2, WalkUntouched
    <3>4. CASE ParentPid /\ ~WalkEnds
      <4> DEFINE up == table[Current].ppid
                 new == [pid |-> up, start |-> Missing, executable_path |-> Missing]
      <4>1. Lookup(Current) = table[Current]
        BY <3>0 DEF Lookup
      <4>2. up # 0
        BY <3>4, <4>1 DEF WalkEnds
      <4>3. up \in Pids /\ up < Current /\ table[up] # Gone
        BY <1>b, <3>0, <4>2, ParentBelow DEF QuietInv
      <4>4. phase = "parent" /\ phase' = "ancestor_start" /\ ancestry' = Append(ancestry, new)
        BY <3>4, <4>1 DEF ParentPid
      <4>5. new \in Entry /\ new.pid = up
        BY <4>3 DEF Missing, TokenEvidence
      <4> HIDE DEF new
      <4>6. /\ Len(ancestry') = n + 1
            /\ \A i \in 1..n : ancestry'[i] = ancestry[i]
            /\ ancestry'[n + 1] = new
            /\ \A i \in 1..(n + 1) : i \in 1..n \/ i = n + 1
        BY <3>0, <3>1, <4>4, <4>5
      <4> DEFINE Chain(i) == IF i = 0 THEN pid ELSE ancestry'[i].pid
      <4>7. \A i \in 0..n : Chain(i) = Above(i)
        BY <3>0, <4>6 DEF Above
      <4>8. ASSUME NEW i \in 1..n PROVE Link(i)'
        <5>1. Link(i) /\ ancestry[i].start = Read(ancestry[i].pid)
          BY <3>2, <4>4 DEF Link
        <5>2. i - 1 \in 0..n /\ Chain(i - 1) = Above(i - 1)
          BY <3>0, <4>7
        <5>3. /\ ancestry'[i].pid = table'[Chain(i - 1)].ppid
              /\ table'[ancestry'[i].pid] # Gone
          BY <1>b, <4>6, <5>1, <5>2 DEF Link
        <5>4. ancestry'[i].start = Read(ancestry[i].pid)'
          <6>1. ancestry'[i] = ancestry[i]
            BY <4>6
          <6>2. ancestry'[i].start = Read(ancestry'[i].pid)
            BY <5>1, <6>1
          <6> QED
            BY <1>b, <6>2 DEF Read, Readable, Lookup, Zero
        <5> QED
          BY <2>1, <5>3, <5>4 DEF Link, Above
      <4>9. ASSUME NEW k \in Nat, k = n + 1 PROVE Link(k)'
        <5>1. ancestry'[k] = new /\ Len(ancestry') = k /\ k - 1 = n /\ n \in 0..n
          BY <3>0, <4>6, <4>9
        <5>2. Chain(k - 1) = Current
          BY <3>0, <4>7, <5>1
        <5>3. ancestry'[k].pid = table'[Chain(k - 1)].ppid /\ table'[ancestry'[k].pid] # Gone
          BY <1>b, <4>3, <4>5, <5>1, <5>2
        <5> QED
          BY <2>1, <4>4, <5>1, <5>3 DEF Link, Above
      <4>10. Current' = up /\ Seen' = Seen \cup {up}
        <5>1. ancestry' # <<>>
          BY <3>0, <4>6
        <5>2. Current' = up
          BY <4>5, <4>6, <5>1 DEF Current
        <5>3. {ancestry'[i].pid : i \in 1..(n + 1)} = {ancestry[i].pid : i \in 1..n} \cup {up}
          BY <3>0, <4>5, <4>6
        <5> QED
          BY <2>1, <4>6, <5>2, <5>3 DEF Seen
      <4>11. \A p \in Seen' : Current' <= p
        <5>1. Seen \subseteq Nat
          <6>1. \A i \in 1..n : ancestry[i].pid \in Pids
            <7> HIDE DEF Entry
            <7>1. \A i \in 1..n : ancestry[i] \in Entry
              BY <3>1
            <7> QED
              BY <7>1 DEF Entry
          <6>2. pid \in Nat
            BY <1>e
          <6>3. \A p \in Seen : p = pid \/ \E i \in 1..n : p = ancestry[i].pid
            BY DEF Seen
          <6> QED
            BY <3>0, <6>1, <6>2, <6>3
        <5>2. up \in Nat /\ Current \in Nat /\ up < Current
          BY <3>0, <4>3
        <5> HIDE DEF up
        <5>3. \A p \in Seen : up <= p
          BY <3>2, <5>1, <5>2
        <5> QED
          BY <4>10, <5>2, <5>3
      <4>12. \A i \in 1..Len(ancestry') : Link(i)'
        <5> SUFFICES ASSUME NEW i \in 1..(n + 1) PROVE Link(i)'
          BY <4>6
        <5>1. CASE i \in 1..n
          BY <4>8, <5>1
        <5>2. CASE i = n + 1
          BY <3>0, <4>9, <5>2
        <5> QED
          BY <4>6, <5>1, <5>2
      <4> QED
        BY <4>4, <4>11, <4>12
    <3>5. CASE AncestorStart \/ AncestorExe
      <4>1. ancestry # <<>> /\ n \in 1..n
        BY <3>0, <3>1, <3>5 DEF AncestorStart, AncestorExe, IInv, OrderInv
      <4>2. Current = ancestry[n].pid
        BY <4>1 DEF Current
      <4>3. /\ Len(ancestry') = n
            /\ \A i \in 1..n : ancestry'[i].pid = ancestry[i].pid
            /\ \A i \in 1..n : i # n => ancestry'[i] = ancestry[i]
            /\ ancestry'[n].start = Read(Current)
            /\ phase' # "cgroup"
        <5>1. ancestry[n] \in Entry
          <6> HIDE DEF Entry
          <6> QED
            BY <3>1, <4>1
        <5>2. CASE AncestorStart
          <6>1. ancestry' = [ancestry EXCEPT ![n] = [ancestry[n] EXCEPT !.start = Read(Current)]]
            BY <3>1, <5>2 DEF AncestorStart
          <6>2. /\ [ancestry[n] EXCEPT !.start = Read(Current)].pid = ancestry[n].pid
                /\ [ancestry[n] EXCEPT !.start = Read(Current)].start = Read(Current)
            BY <5>1
          <6> QED
            BY <3>1, <4>1, <5>2, <6>1, <6>2 DEF AncestorStart
        <5>3. CASE AncestorExe
          <6>0. phase = "ancestor_exe" /\ phase' = "parent"
            BY <5>3 DEF AncestorExe
          <6>1. PICK e : ancestry' =
                    [ancestry EXCEPT ![n] = [ancestry[n] EXCEPT !.executable_path = e]]
            BY <3>1, <5>3 DEF AncestorExe
          <6>2. /\ [ancestry[n] EXCEPT !.executable_path = e].pid = ancestry[n].pid
                /\ [ancestry[n] EXCEPT !.executable_path = e].start = ancestry[n].start
            BY <5>1
          <6>3. ancestry[n].start = Read(Current)
            BY <3>2, <4>1, <4>2, <6>0 DEF Link
          <6> QED
            BY <3>1, <4>1, <6>0, <6>1, <6>2, <6>3
        <5> QED
          BY <3>5, <5>2, <5>3
      <4>4. ASSUME NEW i \in 1..n PROVE Link(i)'
        <5>1. Link(i)
          BY <3>2
        <5>2. i - 1 = 0 \/ i - 1 \in 1..n
          BY <3>0
        <5>3. /\ ancestry'[i].pid = table'[IF i - 1 = 0 THEN pid ELSE ancestry'[i - 1].pid].ppid
              /\ table'[ancestry'[i].pid] # Gone
          BY <1>b, <4>3, <5>1, <5>2 DEF Link, Above
        <5>4. ancestry'[i].start = Read(ancestry[i].pid)
          BY <4>2, <4>3, <5>1 DEF Link
        <5>5. ancestry'[i].start = Read(ancestry[i].pid)'
          <6>1. ancestry'[i].start = Read(ancestry'[i].pid)
            BY <4>3, <5>4
          <6> QED
            BY <1>b, <6>1 DEF Read, Readable, Lookup, Zero
        <5> QED
          BY <2>1, <5>3, <5>5 DEF Link, Above
      <4>5. Seen' = Seen /\ Current' = Current
        <5>1. ancestry' # <<>>
          BY <3>0, <4>1, <4>3
        <5> QED
          BY <2>1, <4>1, <4>3, <5>1 DEF Seen, Current
      <4> QED
        BY <3>2, <4>3, <4>4, <4>5
    <3> QED
      BY <1>4, <3>3, <3>4, <3>5
  <2> QED
    BY <1>d, <2>1, <2>3, <2>4 DEF QuietInv
<1>5. CASE UNCHANGED vars
  BY <1>5, <1>b DEF vars, world, QuietInv, Started, Link, Above, Read, Readable, Lookup, Zero,
                    Seen, Current, AtTop, IsTree
<1> QED
  BY <1>2, <1>3, <1>4, <1>5 DEF CollectorStep

\* Both collectors: the ancestry never repeats a process, and when nothing
\* changed during the collection it is exactly the chain of parents up to init,
\* to a process this agent may not read or to MAX_ANCESTRY_DEPTH; for process
\* trees of any size and depth.
THEOREM AncestryIsTheParentChain == Spec => []AncestrySound
<1>1. Init => QuietInv
  <2> SUFFICES ASSUME Init PROVE QuietInv
    OBVIOUS
  <2>1. IsTree(table) /\ table[holder] # Gone
    BY ConstantsAssumption DEF Init
  <2>2. ancestry = <<>> /\ pid = 0 /\ phase = "cred"
    BY DEF Init
  <2> QED
    BY <2>1, <2>2 DEF QuietInv, Started
<1>2. IInv /\ IInv' /\ QuietInv /\ [Next]_vars => QuietInv'
  BY QuietStep
<1>3. IInv /\ QuietInv => AncestrySound
  <2> SUFFICES ASSUME IInv, QuietInv PROVE AncestrySound
    OBVIOUS
  <2>1. ASSUME phase = "done", changes = 0, pid # 0
        PROVE  /\ Len(ancestry) <= MaxDepth
               /\ \A i \in 1..Len(ancestry) :
                      /\ ancestry[i].pid = table[Above(i - 1)].ppid
                      /\ ancestry[i].start = Read(ancestry[i].pid)
               /\ \/ Len(ancestry) = MaxDepth
                  \/ Above(Len(ancestry)) \in hidden
                  \/ table[Above(Len(ancestry))].ppid = 0
    <3>1. Len(ancestry) <= MaxDepth
      BY DEF IInv, TypeOK
    <3>2. \A i \in 1..Len(ancestry) : Link(i)
      BY <2>1 DEF QuietInv
    <3>3. AtTop /\ Current = Above(Len(ancestry))
      BY <2>1, CurrentThere DEF QuietInv
    <3> QED
      BY <2>1, <3>1, <3>2, <3>3 DEF Link, AtTop
  <2>2. AncestryWellFormed
    BY DEF IInv
  <2> QED
    BY <2>1, <2>2 DEF AncestrySound, Above
<1> QED
  BY <1>1, <1>2, <1>3, CollectorInvariant, PTL DEF Spec
=============================================================================
