------------------------ MODULE SocketLifecycle_proofs ------------------------
(***************************************************************************)
(* Proofs about SocketLifecycle for any set of agents, when one agent at a *)
(* time is between exec and its accept loop (TurnSpec).                    *)
(*                                                                         *)
(* LiveSocketUntouched is not inductive: that RemoveStale takes nobody's   *)
(* socket away needs that what the path names was refused by the probe and *)
(* is still not listened on, and that no other agent is in the window      *)
(* between bind(2) and listen(2).                                          *)
(***************************************************************************)
EXTENDS SocketLifecycle, TLAPS

\* Steps at which the agent's descriptor is listening.
Open == {"chmod", "signals", "serving", "draining", "unlink", "close"}

ListeningIsOpen == \A a \in Agents : a \in listening <=> pc[a] \in Open

\* What recover_stale_socket has found out and nobody has undone since.
ProbedIsSocket ==
    \A a \in Agents : pc[a] \in {"probe", "remove"} => path # Foreign

RefusedIsStale ==
    \A a \in Agents : pc[a] = "remove" => path \notin listening

\* ensure_parent_directory_is_safe has returned Ok.
ParentChecked ==
    \A a \in Agents :
        pc[a] \in Owning \cup RecoverySteps \cup {"bind"}
            => parent \notin {"shared", "absent"}

UnlinkedStaysUnlinked ==
    \A a \in Agents : pc[a] \in {"close", "stopped"} => path # a

Inv ==
    /\ TypeOK
    /\ StartersTakeTurns
    /\ LiveSocketUntouched
    /\ ListeningIsOpen
    /\ ProbedIsSocket
    /\ RefusedIsStale
    /\ ParentChecked
    /\ UnlinkedStaysUnlinked

-----------------------------------------------------------------------------
\* The initial state satisfies the inductive invariant: no agent runs.
LEMMA InitInv == Init => Inv
BY SocketAssumption
   DEF Init, Inv, TypeOK, StartersTakeTurns, Starters, LiveSocketUntouched,
       ListeningIsOpen, ProbedIsSocket, RefusedIsStale, ParentChecked,
       UnlinkedStaysUnlinked, Modes, Errors, Steps, Starting, BindSteps,
       ParentSteps, RecoverySteps, Owning, Ended, Open

\* No step of an agent, of a client or of whoever puts other entries at the
\* path leaves the inductive invariant while starters take turns.
LEMMA StepInv == Inv /\ [TurnNext]_vars => Inv'
<1> SUFFICES ASSUME Inv, [TurnNext]_vars PROVE Inv'
    OBVIOUS
<1> USE SocketAssumption
    DEF Inv, TypeOK, StartersTakeTurns, Starters, LiveSocketUntouched,
        ListeningIsOpen, ProbedIsSocket, RefusedIsStale, ParentChecked,
        UnlinkedStaysUnlinked, Modes, Errors, Steps, Starting, BindSteps,
        ParentSteps, RecoverySteps, Owning, Ended, Open, Goto, Nothing,
        Foreign
<1>0. CASE UNCHANGED vars
    BY <1>0 DEF vars
<1>1. ASSUME Next, StartersTakeTurns' PROVE Inv'
  <2>1. ASSUME NEW a \in Agents, Start(a) PROVE Inv'
      BY <1>1, <2>1 DEF Start
  <2>2. ASSUME NEW a \in Agents, BindStep(a) PROVE Inv'
    <3>1. CASE StatParent(a)
        BY <1>1, <3>1 DEF StatParent, FailBind
    <3>2. CASE MakeParent(a)
        BY <1>1, <3>2 DEF MakeParent
    <3>3. CASE BindFile(a)
        BY <1>1, <3>3 DEF BindFile, FailBind
    <3>4. CASE Listen(a)
        BY <1>1, <3>4 DEF Listen
    <3>5. CASE StatPath(a)
        BY <1>1, <3>5 DEF StatPath, FailBind
    <3>6. CASE Probe(a)
        BY <1>1, <3>6 DEF Probe, FailBind
    <3>7. CASE RemoveStale(a)
        BY <1>1, <3>7 DEF RemoveStale, FailBind
    <3>8. CASE ChmodPath(a)
        BY <1>1, <3>8 DEF ChmodPath, FailBind
    <3>9. QED
        BY <2>2, <3>1, <3>2, <3>3, <3>4, <3>5, <3>6, <3>7, <3>8 DEF BindStep
  <2>3. ASSUME NEW a \in Agents, SystemCallFails(a) PROVE Inv'
      BY <1>1, <2>3 DEF SystemCallFails, FailBind
  <2>4. ASSUME NEW a \in Agents, RunStep(a) PROVE Inv'
    <3>1. CASE InstallSignals(a)
        BY <1>1, <3>1 DEF InstallSignals
    <3>2. CASE Accept(a)
        BY <1>1, <3>2 DEF Accept
    <3>3. CASE Drained(a)
        BY <1>1, <3>3 DEF Drained
    <3>4. CASE Unlink(a)
        BY <1>1, <3>4 DEF Unlink
    <3>5. CASE Close(a)
        BY <1>1, <3>5 DEF Close
    <3>6. QED
        BY <2>4, <3>1, <3>2, <3>3, <3>4, <3>5 DEF RunStep
  <2>5. ASSUME NEW a \in Agents, Shutdown(a) PROVE Inv'
      BY <1>1, <2>5 DEF Shutdown
  <2>6. ASSUME NEW a \in Agents, Killed(a) PROVE Inv'
      BY <1>1, <2>6 DEF Killed
  <2>7. CASE ClientConnects
      BY <1>1, <2>7 DEF ClientConnects
  <2>8. CASE ForeignAppears
      BY <1>1, <2>8 DEF ForeignAppears
  <2>9. CASE ForeignGoes
      BY <1>1, <2>9 DEF ForeignGoes
  <2>10. QED
      BY <1>1, <2>1, <2>2, <2>3, <2>4, <2>5, <2>6, <2>7, <2>8, <2>9 DEF Next
<1>2. QED
    BY <1>0, <1>1 DEF TurnNext

\* The inductive invariant holds throughout.
LEMMA Invariance == TurnSpec => []Inv
BY InitInv, StepInv, PTL DEF TurnSpec

\* Every variable keeps its type.
THEOREM SocketTypeCorrect == TurnSpec => []TypeOK
BY Invariance, PTL DEF Inv

\* No start, recovery or Drop takes the path of an agent that has bound it,
\* however many agents there are and whenever they are killed.
THEOREM LiveSocketSafe == TurnSpec => []LiveSocketUntouched
BY Invariance, PTL DEF Inv

\* No socket file is ever in a directory that others may write to.
THEOREM SharedDirectoryNeverUsed == TurnSpec => []NeverBoundInSharedDirectory
<1>1. Inv => NeverBoundInSharedDirectory
    BY DEF Inv, ParentChecked, NeverBoundInSharedDirectory
<1>2. QED
    BY <1>1, Invariance, PTL

\* An agent that was signalled and has ended has left no file.
THEOREM NoFileAfterNormalExit == TurnSpec => []NormalExitLeavesNoFile
<1>1. Inv => NormalExitLeavesNoFile
    BY DEF Inv, UnlinkedStaysUnlinked, NormalExitLeavesNoFile
<1>2. QED
    BY <1>1, Invariance, PTL

\* An entry that is no socket is only ever removed by whoever put it there.
THEOREM ForeignEntrySafe == TurnSpec => ForeignEntryKept
<1>1. Inv /\ [TurnNext]_vars
        => [path = Foreign => path' = Foreign \/ pc' = pc]_vars
  <2> SUFFICES ASSUME Inv, Next, path = Foreign
               PROVE  path' = Foreign \/ pc' = pc
      BY DEF TurnNext
  <2>1. \A a \in Agents : pc[a] \notin Owning \cup {"probe", "remove"}
      BY SocketAssumption DEF Inv, LiveSocketUntouched, ProbedIsSocket
  <2>2. QED
      BY <2>1, SocketAssumption
         DEF Next, BindStep, RunStep, Start, StatParent, MakeParent, BindFile,
             Listen, StatPath, Probe, RemoveStale, ChmodPath, SystemCallFails,
             InstallSignals, Accept, Drained, Unlink, Close, Shutdown, Killed,
             ClientConnects, ForeignAppears, ForeignGoes, FailBind, Owning,
             Nothing, Foreign
<1>2. QED
    BY <1>1, Invariance, PTL DEF TurnSpec, ForeignEntryKept

=============================================================================
