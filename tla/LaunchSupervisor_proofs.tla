----------------------- MODULE LaunchSupervisor_proofs -----------------------
(***************************************************************************)
(* Proofs about LaunchSupervisor: for every lease duration, poll interval, *)
(* timeout, grace and backoff, for every set of leases and every agent.    *)
(***************************************************************************)
EXTENDS LaunchSupervisor, FiniteSetTheorems, SequenceTheorems,
        WellFoundedInduction, TLAPS

-----------------------------------------------------------------------------
(* Control *)

Early == {"start", "profile", "client", "request"}
Armed == {"install", "spawn"}
Watching == {"poll", "signals", "deadline", "renew", "sleep", "terminate",
             "grace", "grace_sleep", "kill"}
Releasing == {"release", "backoff"}

Alive == {"running", "zombie"}

\* Where the supervisor is says which leases it has, whether there is a
\* workload, and whether the outcome is decided.
StageInv ==
    /\ pc \in Early =>
           /\ lease = NoLease /\ releasing = NoLease
           /\ child = "none" /\ code = "None"
    /\ pc \in Armed =>
           /\ lease \in Leases /\ releasing = NoLease
           /\ child = "none" /\ code = "None"
    /\ pc \in Watching =>
           /\ lease \in Leases /\ releasing = NoLease
           /\ child \in Alive /\ code = "None"
    /\ pc \in Releasing =>
           /\ lease \in Leases /\ releasing \in Leases
           /\ \/ code = "None" /\ child \in Alive /\ releasing # lease
              \/ /\ code \in {"AgentUnavailable"} \cup SpawnFailures
                 /\ child = "none" /\ releasing = lease
              \/ /\ code \in {"Workload", "AuthorizationLapsed"}
                 /\ child = "reaped" /\ releasing = lease
    /\ pc = "exited" =>
           /\ releasing = NoLease
           /\ \/ code \in NeverRan /\ child = "none"
              \/ code \in Codes \ NeverRan /\ child = "reaped"
    /\ pc \in {"terminate", "grace", "grace_sleep", "kill"} => deadline <= 0
    /\ code = "AuthorizationLapsed" => deadline <= 0

\* How far an exchange has come says what it has produced.
WireInv ==
    /\ IsFiniteSet(late_releases)
    /\ wire = "idle" => elapsed = 0
    /\ wire # "idle" => pc \in Exchanging
    /\ wire \in {"idle", "connecting", "sent"} => granted = NoLease
    /\ wire = "sent" => late < MaxConnections
    /\ wire \in {"issued", "viewed"} => granted \in Leases
    /\ wire = "viewed" => reply = "LeaseGranted"
    /\ wire = "answered" =>
           (reply = "LeaseGranted" <=> granted \in Leases)
    /\ granted # NoLease => IsRequest /\ granted # lease

\* An exchange that takes longer than IoTimeout is on record.
StallInv == elapsed > IoTimeout => stalled = TRUE

ControlInv == TypeOK /\ StageInv /\ WireInv /\ StallInv

-----------------------------------------------------------------------------
(* Leases *)

\* The supervisor counts on `lease`: it watches over a workload, or is about
\* to start one.
Counting == pc \in Armed \cup Watching \/ (pc \in Releasing /\ code = "None")

\* The agent holds l until it expires, unless it restarted, and no release of
\* l is on its way.
Kept(l) ==
    /\ left[l] > 0 => l \in store \cup forgotten
    /\ l \notin late_releases

CountInv ==
    /\ Counting => Kept(lease) /\ deadline <= left[lease]
    /\ granted \in Leases => Kept(granted)
    /\ wire \in {"viewed", "answered"} /\ granted \in Leases =>
           remaining - elapsed <= left[granted]

AccountInv ==
    /\ EveryLeaseAccountedFor
    /\ wire = "answered" /\ reply = "Released" => releasing \notin store
    /\ pc = "exited" /\ lease \in store => outcome \in {"Warned", "Refused"}

-----------------------------------------------------------------------------
(* Time *)

\* How far the deadline may lie back when an attempt to release begins: the
\* renewal before it, the earlier attempts and their backoffs.
SpentBefore ==
    IF attempt = 0 THEN IoTimeout
    ELSE IF attempt = 1 THEN 2 * IoTimeout + FirstBackoff
    ELSE 3 * IoTimeout + FirstBackoff + SecondBackoff

\* The same when the deadline is looked at again.
BeforeTerm == 4 * IoTimeout + FirstBackoff + SecondBackoff + Poll

\* What the termination may still take after a sleep of n.
GraceLeft(n) == IF grace > n THEN grace + Poll ELSE n

\* OverrunBounded made inductive: in every stage the deadline lies back no
\* further than the stages before it can have taken.
OnTime ==
    /\ pc \in Armed => deadline >= -IoTimeout
    /\ pc \in {"poll", "signals", "deadline", "terminate"} =>
           deadline >= -BeforeTerm
    /\ pc = "sleep" => deadline >= timer - BeforeTerm
    /\ pc = "renew" => deadline >= -elapsed
    /\ pc = "release" /\ code = "None" => deadline >= -SpentBefore - elapsed
    /\ pc = "backoff" /\ code = "None" => deadline >= timer - SpentBefore
    /\ pc = "grace" => deadline >= GraceLeft(0) - MaxOverrun
    /\ pc = "grace_sleep" => deadline >= GraceLeft(timer) - MaxOverrun
    /\ pc = "kill" => deadline >= -MaxOverrun

TimeInv == stalled = FALSE => OnTime

-----------------------------------------------------------------------------
(* ControlInv is inductive *)

\* The deadline taken from a grant is an integer, also when it has passed.
LEMMA AdoptType ==
    ASSUME ControlInv, Adopt
    PROVE  deadline' \in Int /\ renew_at' \in Nat
  <1>1. /\ remaining \in Nat /\ elapsed \in Nat /\ MaxRemaining \in Nat
        /\ remaining \div 2 \in Nat
    BY LaunchAssumption DEF ControlInv, TypeOK
  <1>2. /\ SafeDeadline(remaining) \in Int
        /\ SafeDeadline(remaining \div 2) \in Int
    BY <1>1 DEF SafeDeadline, Least
  <1> QED
    BY <1>2 DEF Adopt, Greatest

\* The clock of an exchange runs past its timeout, and past every lease.
LEMMA ElapsedBound ==
    MaxElapsed \in Nat /\ IoTimeout < MaxElapsed /\ Ttl <= MaxElapsed
  BY LaunchAssumption DEF MaxElapsed, Greatest

\* The name for the next lease stands for no other.
LEMMA NextLeaseIsFresh ==
    Fresh # {} => /\ NextLease \in Leases
                  /\ NextLease \notin store \cup {lease, releasing, granted}
                  /\ NextLease \notin late_releases
  BY DEF NextLease, Fresh

\* A client that gives up adds at most one late release.
LEMMA AbandonFinite ==
    ASSUME IsFiniteSet(late_releases), Abandon \/ UNCHANGED late_releases
    PROVE  IsFiniteSet(late_releases')
  BY FS_AddElement DEF Abandon

\* eltanin run starts with no lease and no exchange.
LEMMA ControlInit == Init => ControlInv
  <1> SUFFICES ASSUME Init PROVE ControlInv
    OBVIOUS
  <1>1. TypeOK
    <2>0. group \in BOOLEAN /\ stalled \in BOOLEAN
      BY DEF Init
    <2>1. left \in [Leases -> 0..Ttl]
      BY LaunchAssumption DEF Init
    <2>2. /\ lease = NoLease /\ releasing = NoLease /\ granted = NoLease
          /\ 0 \in 0..Grace /\ 0 \in 0..MaxSignals /\ 0 \in 0..IoTimeout
          /\ 0 \in 0..Ttl /\ 0 \in 0..MaxConnections /\ 0 \in 0..MaxElapsed
      BY LaunchAssumption, ElapsedBound DEF Init
    <2> QED
      BY <2>0, <2>1, <2>2 DEF Init, TypeOK, Stages, Codes
  <1>2. StageInv
    BY DEF Init, StageInv, Early, Armed, Watching, Releasing
  <1>3. WireInv
    BY FS_EmptySet DEF Init, WireInv
  <1>4. StallInv
    BY LaunchAssumption DEF Init, StallInv
  <1> QED
    BY <1>1, <1>2, <1>3, <1>4 DEF ControlInv

\* Every step keeps the stages and the exchange in line.
LEMMA ControlStep == ControlInv /\ [Next]_vars => ControlInv'
  <1> SUFFICES ASSUME ControlInv, [Next]_vars PROVE ControlInv'
    OBVIOUS
  <1> USE LaunchAssumption, ElapsedBound
      DEF ControlInv, TypeOK, StageInv, WireInv, StallInv, Stages, Exchanging,
          Sleeping, Ended, Early, Armed, Watching, Releasing, Alive, IsRequest,
          Failures, SpawnFailures, NeverRan, Codes, supervisor, renewal,
          release_vars, exchange, waiting, agent, workload
  <1>1. CASE ParseArgv
    <2>1. /\ pc = "start"
          /\ \/ pc' = "exited" /\ code' \in {"Success", "Usage"}
             \/ pc' = "profile" /\ code' = code
          /\ UNCHANGED <<renewal, release_vars, timer, grace, queued, exchange,
                         agent, workload, lost>>
      BY <1>1 DEF ParseArgv, Exit
    <2> QED
      BY <2>1
  <1>2. CASE ResolveProfile
    BY <1>2 DEF ResolveProfile, Exit
  <1>3. CASE SocketFromEnv
    BY <1>3 DEF SocketFromEnv, Exit
  <1>4. CASE Connect
    BY <1>4 DEF Connect
  <1>5. CASE InitialAnswer
    <2>1. deadline' \in Int /\ renew_at' \in Nat
      <3>1. CASE Adopt
        BY <3>1, AdoptType
      <3>2. CASE UNCHANGED renewal
        BY <3>2
      <3> QED
        BY <1>5, <3>1, <3>2 DEF InitialAnswer
    <2> QED
      BY <1>5, <2>1 DEF InitialAnswer, Adopt, Exit, ExchangeOver
  <1>6. CASE InitialFails
    <2>1. IsFiniteSet(late_releases')
      BY <1>6, AbandonFinite DEF InitialFails
    <2> QED
      BY <1>6, <2>1
         DEF InitialFails, Failed, Unanswered, Abandon, ExchangeOver, Exit
  <1>7. CASE InstallSignals
    BY <1>7 DEF InstallSignals, BeginRelease
  <1>8. CASE Spawn
    BY <1>8 DEF Spawn, BeginRelease
  <1>9. CASE TryWait
    BY <1>9 DEF TryWait, BeginRelease
  <1>10. CASE ForwardSignals
    BY <1>10 DEF ForwardSignals
  <1>11. CASE CheckDeadline
    <2>1. stalled' \in BOOLEAN
      BY <1>11 DEF CheckDeadline
    <2>2. /\ pc = "deadline"
          /\ \/ pc' = "terminate" /\ deadline <= 0 /\ timer' = timer
             \/ pc' = "renew" /\ timer' = timer
             \/ pc' = "sleep" /\ timer' = Poll
          /\ UNCHANGED <<input, renewal, release_vars, grace, code, queued,
                         wire, patience, elapsed, granted, remaining, reply,
                         agent, workload, lost>>
      BY <1>11 DEF CheckDeadline, Sleep
    <2>3. elapsed = 0
      BY <2>2
    <2> QED
      BY <2>1, <2>2, <2>3
  <1>12. CASE Renewed
    <2>1. deadline' \in Int /\ renew_at' \in Nat
      BY <1>12, AdoptType DEF Renewed
    <2> QED
      BY <1>12, <2>1 DEF Renewed, Adopt, BeginRelease, ExchangeOver
  <1>13. CASE RenewalSetBack
    <2>1. IsFiniteSet(late_releases')
      BY <1>13, AbandonFinite DEF RenewalSetBack
    <2>2. NextRenewalRetry \in Nat
      BY DEF NextRenewalRetry, Least, Greatest
    <2> QED
      BY <1>13, <2>1, <2>2
         DEF RenewalSetBack, Failed, Unanswered, Abandon, ExchangeOver, Sleep
  <1>14. CASE ReleaseAnswered
    BY <1>14 DEF ReleaseAnswered, Released, Sleep, ExchangeOver
  <1>15. CASE ReleaseFails
    <2>1. IsFiniteSet(late_releases')
      BY <1>15, AbandonFinite DEF ReleaseFails
    <2> QED
      BY <1>15, <2>1
         DEF ReleaseFails, Failed, Unanswered, Abandon, ExchangeOver, Released,
             Sleep
  <1>16. CASE Wake
    BY <1>16 DEF Wake, Sleeping
  <1>17. CASE Terminate
    BY <1>17 DEF Terminate
  <1>18. CASE GraceLoop
    BY <1>18 DEF GraceLoop, BeginRelease, Sleep
  <1>19. CASE Kill
    <2>1. group' \in BOOLEAN
      BY <1>19 DEF Kill
    <2> QED
      BY <1>19, <2>1 DEF Kill, BeginRelease
  <1>20. CASE AgentIssues
    BY <1>20, NextLeaseIsFresh DEF AgentIssues, Hold
  <1>21. CASE AgentViews
    BY <1>21 DEF AgentViews
  <1>22. CASE AnswerArrives
    BY <1>22 DEF AnswerArrives
  <1>23. CASE AgentDeclines
    BY <1>23 DEF AgentDeclines
  <1>24. CASE AgentReleases
    BY <1>24 DEF AgentReleases
  <1>25. CASE AgentCloses
    BY <1>25 DEF AgentCloses, Unanswered
  <1>26. CASE LateRequest
    BY <1>26, NextLeaseIsFresh DEF LateRequest, Hold
  <1>27. CASE LateRelease
    <2>1. IsFiniteSet(late_releases')
      BY <1>27, FS_Subset DEF LateRelease
    <2> QED
      BY <1>27, <2>1 DEF LateRelease
  <1>28. CASE AgentRestarts
    <2>1. IsFiniteSet(late_releases')
      BY <1>28, FS_EmptySet DEF AgentRestarts
    <2> QED
      BY <1>28, <2>1 DEF AgentRestarts, Unanswered
  <1>29. CASE ChildExits
    BY <1>29 DEF ChildExits
  <1>30. CASE DescendantStarts
    BY <1>30 DEF DescendantStarts
  <1>31. CASE DescendantExits
    <2>1. group' \in BOOLEAN
      BY <1>31 DEF DescendantExits
    <2> QED
      BY <1>31, <2>1 DEF DescendantExits
  <1>32. CASE SignalArrives
    BY <1>32 DEF SignalArrives, Ended
  <1>33. CASE Dies
    BY <1>33 DEF Dies, ExchangeOver
  <1>34. CASE Tick
    <2>1. stalled' \in BOOLEAN
      BY <1>34 DEF Tick
    <2>2. elapsed' \in 0..MaxElapsed
      BY <1>34 DEF Tick, Least
    <2>3. StallInv'
      BY <1>34, <2>2 DEF Tick
    <2>4. deadline' \in Int /\ (deadline <= 0 => deadline' <= 0)
      BY <1>34 DEF Tick, Greatest, MaxOverrun
    <2>5. wire = "idle" => elapsed' = 0
      BY <1>34 DEF Tick, Blocked, Unanswered
    <2>6. /\ renew_at' \in Nat /\ timer' \in Nat /\ grace' \in 0..Grace
          /\ patience' \in 0..IoTimeout
      BY <1>34 DEF Tick, Down
    <2>7. left' \in [Leases -> 0..Ttl]
      BY <1>34 DEF Tick, Down
    <2>8. /\ store' \subseteq store /\ lost' \subseteq lost
          /\ forgotten' \subseteq forgotten
          /\ UNCHANGED <<input, pc, lease, release_vars, code, queued, wire,
                         granted, remaining, reply, late, late_releases,
                         workload>>
      BY <1>34 DEF Tick
    <2>9. TypeOK'
      BY <2>1, <2>2, <2>4, <2>6, <2>7, <2>8
    <2>10. StageInv' /\ WireInv'
      BY <2>4, <2>5, <2>8
    <2> QED
      BY <2>3, <2>9, <2>10
  <1>35. CASE UNCHANGED vars
    BY <1>35 DEF vars
  <1>36. CASE AgentConnects
    <2>1. Cardinality(late_releases) \in Nat
      BY FS_CardinalityType
    <2> QED
      BY <1>36, <2>1 DEF AgentConnects
  <1>37. CASE ReadRestarts
    BY <1>37 DEF ReadRestarts, Unanswered
  <1> QED
    BY <1>1, <1>2, <1>3, <1>4, <1>5, <1>6, <1>7, <1>8, <1>9, <1>10, <1>11,
       <1>12, <1>13, <1>14, <1>15, <1>16, <1>17, <1>18, <1>19, <1>20, <1>21,
       <1>22, <1>23, <1>24, <1>25, <1>26, <1>27, <1>28, <1>29, <1>30, <1>31,
       <1>32, <1>33, <1>34, <1>35, <1>36, <1>37
       DEF Next, Resolve, Supervisor, Agent, Workload

-----------------------------------------------------------------------------
(* CountInv and AccountInv are inductive *)

\* At first there is nothing to count on or to account for.
LEMMA CountInit == Init => CountInv /\ AccountInv
  BY LaunchAssumption
     DEF Init, CountInv, AccountInv, Counting, EveryLeaseAccountedFor, Armed,
         Watching, Releasing

\* What is adopted ends no later than the lease, and no earlier than the
\* exchange began.
LEMMA AdoptDeadline ==
    ASSUME ControlInv, CountInv, wire = "answered", reply = "LeaseGranted",
           Adopt
    PROVE  /\ granted \in Leases
           /\ deadline' \in Int
           /\ deadline' <= left[granted]
           /\ -elapsed <= deadline'
  <1>1. granted \in Leases
    BY DEF ControlInv, WireInv
  <1>2. remaining - elapsed <= left[granted]
    BY <1>1 DEF CountInv
  <1>3. /\ remaining \in Nat /\ elapsed \in Nat /\ MaxRemaining \in Nat
        /\ left[granted] \in Nat
    BY <1>1, LaunchAssumption DEF ControlInv, TypeOK
  <1>4. deadline' = Least(remaining, MaxRemaining) - elapsed
    BY DEF Adopt, SafeDeadline
  <1>5. /\ Least(remaining, MaxRemaining) \in Nat
        /\ Least(remaining, MaxRemaining) <= remaining
    BY <1>3 DEF Least
  <1> QED
    BY <1>1, <1>2, <1>3, <1>4, <1>5

\* One tick takes at most one from every countdown.
LEMMA TickDown ==
    ASSUME NEW n \in Nat
    PROVE  Down(n) \in Nat /\ Down(n) <= n /\ n - 1 <= Down(n)
  BY DEF Down

\* The lease counted on stays with the agent through every step, those of
\* late requests and releases included.
LEMMA CountStep == ControlInv /\ CountInv /\ [Next]_vars => CountInv'
  <1> SUFFICES ASSUME ControlInv, CountInv, [Next]_vars PROVE CountInv'
    OBVIOUS
  <1> USE LaunchAssumption, ElapsedBound
      DEF ControlInv, TypeOK, StageInv, WireInv, Exchanging, Sleeping, Ended,
          Early, Armed, Watching, Releasing, Alive, IsRequest,
          CountInv, Counting, Kept,
          supervisor, renewal, release_vars, exchange, waiting, agent,
          workload
  <1>1. CASE ParseArgv
    BY <1>1 DEF ParseArgv, Exit
  <1>2. CASE ResolveProfile
    BY <1>2 DEF ResolveProfile, Exit
  <1>3. CASE SocketFromEnv
    BY <1>3 DEF SocketFromEnv, Exit
  <1>4. CASE Connect
    BY <1>4 DEF Connect
  <1>5. CASE InitialAnswer
    <2>1. CASE reply = "LeaseGranted"
      <3>1. Adopt
        BY <1>5, <2>1 DEF InitialAnswer
      <3> QED
        BY <1>5, <2>1, <3>1, AdoptDeadline
           DEF InitialAnswer, Adopt, ExchangeOver, Exit
    <2>2. CASE reply # "LeaseGranted"
      BY <1>5, <2>2 DEF InitialAnswer, ExchangeOver, Exit
    <2> QED
      BY <2>1, <2>2
  <1>6. CASE InitialFails
    BY <1>6 DEF InitialFails, Failed, Unanswered, Abandon, ExchangeOver, Exit
  <1>7. CASE InstallSignals
    BY <1>7 DEF InstallSignals, BeginRelease
  <1>8. CASE Spawn
    BY <1>8 DEF Spawn, BeginRelease
  <1>9. CASE TryWait
    BY <1>9 DEF TryWait, BeginRelease
  <1>10. CASE ForwardSignals
    BY <1>10 DEF ForwardSignals
  <1>11. CASE CheckDeadline
    BY <1>11 DEF CheckDeadline, Sleep
  <1>12. CASE Renewed
    BY <1>12, AdoptDeadline DEF Renewed, Adopt, BeginRelease, ExchangeOver
  <1>13. CASE RenewalSetBack
    BY <1>13 DEF RenewalSetBack, ExchangeOver, Failed, Unanswered, Abandon,
           NextRenewalRetry, Sleep
  <1>14. CASE ReleaseAnswered
    BY <1>14 DEF ReleaseAnswered, Released, Sleep, ExchangeOver
  <1>15. CASE ReleaseFails
    <2>1. /\ pc = "release" /\ granted' = NoLease /\ wire' = "idle"
          /\ late_releases' \subseteq late_releases \cup {releasing}
          /\ UNCHANGED <<renewal, code, store, left, forgotten>>
      BY <1>15 DEF ReleaseFails, Abandon, ExchangeOver
    <2>2. code = "None" => releasing # lease
      BY <2>1 DEF SpawnFailures
    <2>3. pc' \in Releasing \cup {"sleep", "exited"}
          /\ (pc' = "sleep" => code = "None")
      BY <1>15 DEF ReleaseFails, Released, Sleep
    <2>4. Counting' => Counting /\ code = "None"
      BY <2>1, <2>3
    <2> QED
      BY <2>1, <2>2, <2>4
  <1>16. CASE Wake
    BY <1>16 DEF Wake, Sleeping
  <1>17. CASE Terminate
    BY <1>17 DEF Terminate
  <1>18. CASE GraceLoop
    BY <1>18 DEF GraceLoop, BeginRelease, Sleep
  <1>19. CASE Kill
    BY <1>19 DEF Kill, BeginRelease
  <1>20. CASE AgentIssues
    BY <1>20, NextLeaseIsFresh DEF AgentIssues, Hold
  <1>21. CASE AgentViews
    BY <1>21 DEF AgentViews
  <1>22. CASE AnswerArrives
    BY <1>22 DEF AnswerArrives
  <1>23. CASE AgentDeclines
    BY <1>23 DEF AgentDeclines
  <1>24. CASE AgentReleases
    <2>1. /\ pc = "release" /\ granted = NoLease
          /\ store' = store \ {releasing} \/ store' = store
          /\ UNCHANGED <<pc, renewal, code, left, late_releases, forgotten,
                         granted>>
      BY <1>24 DEF AgentReleases
    <2>2. code = "None" => releasing # lease
      BY <2>1 DEF SpawnFailures
    <2> QED
      BY <2>1, <2>2
  <1>25. CASE AgentCloses
    BY <1>25 DEF AgentCloses, Unanswered
  <1>26. CASE LateRequest
    BY <1>26, NextLeaseIsFresh DEF LateRequest, Hold
  <1>27. CASE LateRelease
    BY <1>27 DEF LateRelease
  <1>28. CASE AgentRestarts
    BY <1>28 DEF AgentRestarts, Unanswered
  <1>29. CASE ChildExits
    BY <1>29 DEF ChildExits
  <1>30. CASE DescendantStarts
    BY <1>30 DEF DescendantStarts
  <1>31. CASE DescendantExits
    BY <1>31 DEF DescendantExits
  <1>32. CASE SignalArrives
    BY <1>32 DEF SignalArrives, Ended
  <1>33. CASE Dies
    BY <1>33 DEF Dies, ExchangeOver
  <1>34. CASE Tick
    <2>1. \A l \in Leases : left[l] \in Nat /\ left'[l] = Down(left[l])
      BY <1>34 DEF Tick
    <2>2. \A l \in Leases : left'[l] > 0 <=> left[l] > 1
      BY <2>1 DEF Down
    <2>3. ASSUME NEW l \in Leases, Kept(l) PROVE Kept(l)'
      BY <1>34, <2>1, <2>2, <2>3 DEF Tick, Down
    <2>4. ASSUME Counting
          PROVE  deadline' <= left'[lease]
      <3>1. /\ lease \in Leases /\ deadline <= left[lease]
            /\ deadline' = Greatest(deadline - 1, -MaxOverrun - 1)
        BY <1>34, <2>4 DEF Tick
      <3>2. MaxOverrun \in Nat /\ deadline \in Int
        BY DEF MaxOverrun
      <3> QED
        BY <2>1, <3>1, <3>2 DEF Greatest, Down
    <2>5. ASSUME wire \in {"viewed", "answered"}, granted \in Leases
          PROVE  remaining - elapsed' <= left'[granted]
      <3>1. elapsed' = elapsed + 1 \/ elapsed' = MaxElapsed
        BY <1>34, <2>5 DEF Tick, Least
      <3>2. /\ remaining \in Nat /\ remaining <= MaxElapsed
            /\ left'[granted] \in Nat /\ left[granted] - 1 <= left'[granted]
            /\ remaining - elapsed <= left[granted] /\ elapsed \in Nat
        BY <2>1, <2>5, TickDown
      <3> QED
        BY <2>1, <2>5, <3>1, <3>2
    <2>6. UNCHANGED <<pc, lease, code, wire, granted, remaining>>
      BY <1>34 DEF Tick
    <2> QED
      BY <2>3, <2>4, <2>5, <2>6
  <1>35. CASE UNCHANGED vars
    BY <1>35 DEF vars
  <1>36. CASE AgentConnects
    BY <1>36 DEF AgentConnects
  <1>37. CASE ReadRestarts
    BY <1>37 DEF ReadRestarts, Unanswered
  <1> QED
    BY <1>1, <1>2, <1>3, <1>4, <1>5, <1>6, <1>7, <1>8, <1>9, <1>10, <1>11,
       <1>12, <1>13, <1>14, <1>15, <1>16, <1>17, <1>18, <1>19, <1>20, <1>21,
       <1>22, <1>23, <1>24, <1>25, <1>26, <1>27, <1>28, <1>29, <1>30, <1>31,
       <1>32, <1>33, <1>34, <1>35, <1>36, <1>37
       DEF Next, Resolve, Supervisor, Agent, Workload

\* Every step that lets go of a lease accounts for it.
LEMMA AccountStep == ControlInv /\ AccountInv /\ [Next]_vars => AccountInv'
  <1> SUFFICES ASSUME ControlInv, AccountInv, [Next]_vars PROVE AccountInv'
    OBVIOUS
  <1> USE LaunchAssumption, ElapsedBound
      DEF ControlInv, TypeOK, StageInv, WireInv, Exchanging, Sleeping, Ended,
          Early, Armed, Watching, Releasing, Alive, IsRequest,
          AccountInv, EveryLeaseAccountedFor,
          supervisor, renewal, release_vars, exchange, waiting, agent,
          workload
  <1>1. CASE ParseArgv
    BY <1>1 DEF ParseArgv, Exit
  <1>2. CASE ResolveProfile
    BY <1>2 DEF ResolveProfile, Exit
  <1>3. CASE SocketFromEnv
    BY <1>3 DEF SocketFromEnv, Exit
  <1>4. CASE Connect
    BY <1>4 DEF Connect
  <1>5. CASE InitialAnswer
    BY <1>5 DEF InitialAnswer, Adopt, SafeDeadline, Exit, ExchangeOver
  <1>6. CASE InitialFails
    BY <1>6 DEF InitialFails, Failed, Unanswered, Abandon, ExchangeOver, Exit
  <1>7. CASE InstallSignals
    BY <1>7 DEF InstallSignals, BeginRelease
  <1>8. CASE Spawn
    BY <1>8 DEF Spawn, BeginRelease
  <1>9. CASE TryWait
    BY <1>9 DEF TryWait, BeginRelease
  <1>10. CASE ForwardSignals
    BY <1>10 DEF ForwardSignals
  <1>11. CASE CheckDeadline
    BY <1>11 DEF CheckDeadline, Sleep
  <1>12. CASE Renewed
    BY <1>12 DEF Renewed, Adopt, SafeDeadline, BeginRelease, ExchangeOver
  <1>13. CASE RenewalSetBack
    BY <1>13 DEF RenewalSetBack, ExchangeOver, Failed, Unanswered, Abandon,
           NextRenewalRetry, Sleep
  <1>14. CASE ReleaseAnswered
    BY <1>14 DEF ReleaseAnswered, Released, Sleep, ExchangeOver
  <1>15. CASE ReleaseFails
    BY <1>15 DEF ReleaseFails, ExchangeOver, Failed, Unanswered, Abandon, Released,
           Sleep
  <1>16. CASE Wake
    BY <1>16 DEF Wake, Sleeping
  <1>17. CASE Terminate
    BY <1>17 DEF Terminate
  <1>18. CASE GraceLoop
    BY <1>18 DEF GraceLoop, BeginRelease, Sleep
  <1>19. CASE Kill
    BY <1>19 DEF Kill, BeginRelease
  <1>20. CASE AgentIssues
    BY <1>20, NextLeaseIsFresh DEF AgentIssues, Hold
  <1>21. CASE AgentViews
    BY <1>21 DEF AgentViews
  <1>22. CASE AnswerArrives
    BY <1>22 DEF AnswerArrives
  <1>23. CASE AgentDeclines
    BY <1>23 DEF AgentDeclines
  <1>24. CASE AgentReleases
    BY <1>24 DEF AgentReleases
  <1>25. CASE AgentCloses
    BY <1>25 DEF AgentCloses, Unanswered
  <1>26. CASE LateRequest
    BY <1>26, NextLeaseIsFresh DEF LateRequest, Hold
  <1>27. CASE LateRelease
    BY <1>27 DEF LateRelease
  <1>28. CASE AgentRestarts
    BY <1>28 DEF AgentRestarts, Unanswered
  <1>29. CASE ChildExits
    BY <1>29 DEF ChildExits
  <1>30. CASE DescendantStarts
    BY <1>30 DEF DescendantStarts
  <1>31. CASE DescendantExits
    BY <1>31 DEF DescendantExits
  <1>32. CASE SignalArrives
    BY <1>32 DEF SignalArrives, Ended
  <1>33. CASE Dies
    BY <1>33 DEF Dies, ExchangeOver
  <1>34. CASE Tick
    BY <1>34 DEF Tick, Blocked, Down, Greatest
  <1>35. CASE UNCHANGED vars
    BY <1>35 DEF vars
  <1>36. CASE AgentConnects
    BY <1>36 DEF AgentConnects
  <1>37. CASE ReadRestarts
    BY <1>37 DEF ReadRestarts, Unanswered
  <1> QED
    BY <1>1, <1>2, <1>3, <1>4, <1>5, <1>6, <1>7, <1>8, <1>9, <1>10, <1>11,
       <1>12, <1>13, <1>14, <1>15, <1>16, <1>17, <1>18, <1>19, <1>20, <1>21,
       <1>22, <1>23, <1>24, <1>25, <1>26, <1>27, <1>28, <1>29, <1>30, <1>31,
       <1>32, <1>33, <1>34, <1>35, <1>36, <1>37
       DEF Next, Resolve, Supervisor, Agent, Workload

-----------------------------------------------------------------------------
(* TimeInv is inductive *)

\* No deadline has passed at first.
LEMMA TimeInit == Init => TimeInv
  BY DEF Init, TimeInv, OnTime, Armed

\* Each stage passes on what it has left of the time.
LEMMA TimeStep == ControlInv /\ CountInv /\ TimeInv /\ [Next]_vars => TimeInv'
  <1> SUFFICES ASSUME ControlInv, CountInv, TimeInv, [Next]_vars,
                      stalled' = FALSE
               PROVE  OnTime'
    BY DEF TimeInv
  <1>a. elapsed \in Nat /\ (stalled = FALSE => OnTime /\ elapsed <= IoTimeout)
    <2>1. elapsed \in Nat /\ (elapsed > IoTimeout => stalled = TRUE)
      BY ElapsedBound DEF ControlInv, TypeOK, StallInv
    <2>2. stalled = FALSE => ~(elapsed > IoTimeout)
      BY <2>1
    <2> QED
      BY <2>1, <2>2, LaunchAssumption DEF TimeInv
  <1> USE LaunchAssumption, ElapsedBound
      DEF ControlInv, TypeOK, StageInv, WireInv, Exchanging, Sleeping, Ended,
          Early, Armed, Watching, Releasing, Alive, IsRequest,
          OnTime, SpentBefore, BeforeTerm, GraceLeft, MaxOverrun,
          supervisor, renewal, release_vars, exchange, waiting, agent,
          workload
  <1>1. CASE ParseArgv
    BY <1>1, <1>a DEF ParseArgv, Exit
  <1>2. CASE ResolveProfile
    BY <1>2, <1>a DEF ResolveProfile, Exit
  <1>3. CASE SocketFromEnv
    BY <1>3, <1>a DEF SocketFromEnv, Exit
  <1>4. CASE Connect
    BY <1>4, <1>a DEF Connect
  <1>5. CASE InitialAnswer
    <2>1. CASE reply = "LeaseGranted"
      <3>1. Adopt
        BY <1>5, <2>1 DEF InitialAnswer
      <3> QED
        <4>1. -elapsed <= deadline' /\ deadline' \in Int
          BY <1>5, <2>1, <3>1, AdoptDeadline DEF InitialAnswer
        <4>2. stalled = FALSE /\ pc' = "install"
          BY <1>5, <2>1 DEF InitialAnswer, ExchangeOver
        <4> QED
          BY <1>a, <4>1, <4>2
    <2>2. CASE reply # "LeaseGranted"
      BY <1>5, <2>2 DEF InitialAnswer, ExchangeOver, Exit
    <2> QED
      BY <2>1, <2>2
  <1>6. CASE InitialFails
    BY <1>6, <1>a DEF InitialFails, Failed, Unanswered, Abandon, ExchangeOver, Exit
  <1>7. CASE InstallSignals
    BY <1>7, <1>a DEF InstallSignals, BeginRelease
  <1>8. CASE Spawn
    BY <1>8, <1>a DEF Spawn, BeginRelease
  <1>9. CASE TryWait
    BY <1>9, <1>a DEF TryWait, BeginRelease
  <1>10. CASE ForwardSignals
    BY <1>10, <1>a DEF ForwardSignals
  <1>11. CASE CheckDeadline
    BY <1>11, <1>a DEF CheckDeadline, Sleep
  <1>12. CASE Renewed
    BY <1>12, <1>a, AdoptDeadline DEF Renewed, Adopt, BeginRelease, ExchangeOver
  <1>13. CASE RenewalSetBack
    BY <1>13, <1>a DEF RenewalSetBack, ExchangeOver, Failed, Unanswered, Abandon,
           NextRenewalRetry, Sleep
  <1>14. CASE ReleaseAnswered
    BY <1>14, <1>a DEF ReleaseAnswered, Released, Sleep, ExchangeOver
  <1>15. CASE ReleaseFails
    BY <1>15, <1>a DEF ReleaseFails, ExchangeOver, Failed, Unanswered, Abandon, Released,
           Sleep
  <1>16. CASE Wake
    BY <1>16, <1>a DEF Wake, Sleeping
  <1>17. CASE Terminate
    BY <1>17, <1>a DEF Terminate
  <1>18. CASE GraceLoop
    BY <1>18, <1>a DEF GraceLoop, BeginRelease, Sleep
  <1>19. CASE Kill
    BY <1>19, <1>a DEF Kill, BeginRelease
  <1>20. CASE AgentIssues
    BY <1>20, <1>a, NextLeaseIsFresh DEF AgentIssues, Hold
  <1>21. CASE AgentViews
    BY <1>21, <1>a DEF AgentViews
  <1>22. CASE AnswerArrives
    BY <1>22, <1>a DEF AnswerArrives
  <1>23. CASE AgentDeclines
    BY <1>23, <1>a DEF AgentDeclines
  <1>24. CASE AgentReleases
    BY <1>24, <1>a DEF AgentReleases
  <1>25. CASE AgentCloses
    BY <1>25, <1>a DEF AgentCloses, Unanswered
  <1>26. CASE LateRequest
    BY <1>26, <1>a, NextLeaseIsFresh DEF LateRequest, Hold
  <1>27. CASE LateRelease
    BY <1>27, <1>a DEF LateRelease
  <1>28. CASE AgentRestarts
    BY <1>28, <1>a DEF AgentRestarts, Unanswered
  <1>29. CASE ChildExits
    BY <1>29, <1>a DEF ChildExits
  <1>30. CASE DescendantStarts
    BY <1>30, <1>a DEF DescendantStarts
  <1>31. CASE DescendantExits
    BY <1>31, <1>a DEF DescendantExits
  <1>32. CASE SignalArrives
    BY <1>32, <1>a DEF SignalArrives, Ended
  <1>33. CASE Dies
    BY <1>33, <1>a DEF Dies, ExchangeOver
  <1>34. CASE Tick
    <2>1. stalled = FALSE /\ ~(elapsed' > IoTimeout)
      BY <1>34 DEF Tick
    <2>2. OnTime
      BY <1>a, <2>1
    <2>3. CASE pc \in Ended \/ code # "None"
      BY <1>34, <2>3 DEF Tick
    <2>4. CASE pc \notin Ended /\ code = "None"
      <3>1. /\ deadline' = Greatest(deadline - 1, -MaxOverrun - 1)
            /\ timer' = Down(timer) /\ grace' = Down(grace)
            /\ UNCHANGED <<pc, code, attempt>>
        BY <1>34, <2>4 DEF Tick
      <3>2. deadline' >= deadline - 1 /\ deadline' \in Int
        BY <3>1 DEF Greatest
      <3>3. pc \in Sleeping => timer > 0
        BY <1>34, <2>4 DEF Tick, Blocked, Unanswered
      <3>4. pc \in Exchanging =>
                /\ elapsed' \in Nat /\ elapsed' <= IoTimeout
                /\ elapsed' = elapsed + 1
        BY <1>34, <1>a, <2>1 DEF Tick, Least
      <3>5. pc \in Sleeping \cup Exchanging
        BY <1>34, <2>4 DEF Tick, Blocked, Unanswered
      <3>6. CASE pc \in Exchanging
        BY <2>2, <3>1, <3>2, <3>4, <3>6
      <3>7. CASE pc \in Sleeping
        BY <2>2, <3>1, <3>2, <3>3, <3>7 DEF Down
      <3> QED
        BY <3>5, <3>6, <3>7
    <2> QED
      BY <2>3, <2>4
  <1>35. CASE UNCHANGED vars
    BY <1>35, <1>a DEF vars
  <1>36. CASE AgentConnects
    BY <1>36, <1>a DEF AgentConnects
  <1>37. CASE ReadRestarts
    BY <1>37, <1>a DEF ReadRestarts, Unanswered
  <1> QED
    BY <1>1, <1>2, <1>3, <1>4, <1>5, <1>6, <1>7, <1>8, <1>9, <1>10, <1>11,
       <1>12, <1>13, <1>14, <1>15, <1>16, <1>17, <1>18, <1>19, <1>20, <1>21,
       <1>22, <1>23, <1>24, <1>25, <1>26, <1>27, <1>28, <1>29, <1>30, <1>31,
       <1>32, <1>33, <1>34, <1>35, <1>36, <1>37
       DEF Next, Resolve, Supervisor, Agent, Workload

-----------------------------------------------------------------------------
(* Theorems *)

LaunchInv == ControlInv /\ CountInv /\ AccountInv /\ TimeInv

\* LaunchInv holds of every execution: what the theorems below rest on.
LEMMA LaunchInvariant == Spec => []LaunchInv
  <1>1. Init => LaunchInv
    BY ControlInit, CountInit, TimeInit DEF LaunchInv
  <1>2. LaunchInv /\ [Next]_vars => LaunchInv'
    BY ControlStep, CountStep, AccountStep, TimeStep DEF LaunchInv
  <1> QED
    BY <1>1, <1>2, PTL DEF Spec

\* Every variable of the supervisor, the exchange and the agent keeps its type
\* for every choice of the timeouts: `release` makes at most three attempts,
\* no wait outlives its limit, and abandoned requests never hold more than
\* the connections the agent serves.
THEOREM LaunchTypeCorrect == Spec => []TypeOK
  <1>1. LaunchInv => TypeOK
    BY DEF LaunchInv, ControlInv
  <1> QED
    BY LaunchInvariant, <1>1, PTL

\* A workload under supervision is in one of the stages that count on a lease.
LEMMA SupervisingCounts ==
    ASSUME ControlInv, Supervising
    PROVE  Counting /\ lease \in Leases
  BY DEF ControlInv, TypeOK, StageInv, Supervising, Counting, Stages,
         Exchanging, Sleeping, Ended, Early, Armed, Watching, Releasing,
         Failures, SpawnFailures, NeverRan, Codes

\* Renewal::deadline is never later than the agent's true expiry, however
\* long the answer took: it is counted from before the request was sent.
THEOREM DeadlineIsSafe == Spec => []DeadlineNeverLate
  <1>1. LaunchInv => DeadlineNeverLate
    BY SupervisingCounts DEF LaunchInv, CountInv, DeadlineNeverLate
  <1> QED
    BY LaunchInvariant, <1>1, PTL

\* Acquire-then-release: the lease the supervisor counts on is one the agent
\* holds, and no release of it, late ones included, is on its way.
THEOREM CountedLeaseIsHeld == Spec => []HeldLeaseIsStored
  <1>1. LaunchInv => HeldLeaseIsStored
    BY SupervisingCounts DEF LaunchInv, CountInv, Kept, HeldLeaseIsStored
  <1> QED
    BY LaunchInvariant, <1>1, PTL

\* The agent holds no lease of this run that the run does not know of or has
\* lost to a failed exchange; after the exit, only the latter.
THEOREM LeasesAreAccountedFor == Spec => []EveryLeaseAccountedFor
  <1>1. LaunchInv => EveryLeaseAccountedFor
    BY DEF LaunchInv, AccountInv
  <1> QED
    BY LaunchInvariant, <1>1, PTL

\* What the caller is told, by exit code and message together, for every set
\* of statuses a workload may end with, those that eltanin run uses itself
\* included: no workload is left, its status is passed on unless a lapse ended
\* it, and a lease the agent still holds was warned of or refused.
THEOREM ExitIsTruthful == Spec => []ExitTellsTheTruth
  <1>1. LaunchInv => ExitTellsTheTruth
    <2> SUFFICES ASSUME LaunchInv, pc = "exited"
                 PROVE  /\ child \in {"none", "reaped"}
                        /\ child = "reaped" =>
                             \/ ExitCode = status /\ Message = "None"
                             \/ /\ ExitCode = 76 /\ Message = "suppressed"
                                /\ deadline <= 0
                        /\ child = "none" =>
                             \/ /\ Message = "failure"
                                /\ ExitCode \notin {0, 76, 126, 127}
                             \/ Message = "None" /\ ExitCode \in {0, 126, 127}
                        /\ lease \in store => outcome \in {"Warned", "Refused"}
      BY DEF ExitTellsTheTruth
    <2>1. /\ \/ code \in NeverRan /\ child = "none"
             \/ code \in Codes \ NeverRan /\ child = "reaped"
          /\ code = "AuthorizationLapsed" => deadline <= 0
          /\ lease \in store => outcome \in {"Warned", "Refused"}
      BY DEF LaunchInv, ControlInv, StageInv, AccountInv
    <2>2. CASE code = "Workload"
      <3>1. ExitCode = status /\ Message = "None"
        BY <2>2 DEF ExitCode, Message, Failures
      <3> QED
        BY <2>1, <2>2, <3>1 DEF NeverRan, Failures, SpawnFailures
    <2>3. CASE code = "AuthorizationLapsed"
      <3>1. ExitCode = 76 /\ Message = "suppressed"
        BY <2>3 DEF ExitCode, Message, Failures
      <3> QED
        BY <2>1, <2>3, <3>1 DEF NeverRan, Failures, SpawnFailures
    <2>4. CASE code \in Failures
      <3>1. ExitCode \in {64, 69, 70, 77, 78} /\ Message = "failure"
        BY <2>4 DEF ExitCode, Message, Failures
      <3>2. ExitCode \notin {0, 76, 126, 127}
        BY <3>1
      <3> QED
        BY <2>1, <2>4, <3>1, <3>2 DEF NeverRan, Codes, Failures
    <2>5. CASE code \in {"Success"} \cup SpawnFailures
      <3>1. ExitCode \in {0, 126, 127} /\ Message = "None"
        BY <2>5 DEF ExitCode, Message, Failures, SpawnFailures
      <3> QED
        BY <2>1, <2>5, <3>1 DEF NeverRan, Codes
    <2> QED
      BY <2>1, <2>2, <2>3, <2>4, <2>5 DEF NeverRan, Codes
  <1> QED
    BY LaunchInvariant, <1>1, PTL

\* A workload whose authorization has lapsed is gone within MaxOverrun, the
\* sum of the timeouts on the longest path from a passed deadline to SIGKILL,
\* on every path along which no exchange outlasts one IO_TIMEOUT: that is the
\* one thing missing, for `exchange` connects without a timeout and its reads
\* start theirs anew.
THEOREM OverrunIsBounded == Spec => []OverrunBounded
  <1>1. LaunchInv => OverrunBounded
    <2> SUFFICES ASSUME LaunchInv, Supervising, stalled = FALSE
                 PROVE  deadline >= -MaxOverrun
      <3>1. stalled \in BOOLEAN \/ ~LaunchInv
        BY DEF LaunchInv, ControlInv, TypeOK
      <3> QED
        BY <3>1 DEF OverrunBounded
    <2>1. Counting /\ TypeOK /\ OnTime
      BY SupervisingCounts DEF LaunchInv, ControlInv, TimeInv
    <2>2. elapsed <= IoTimeout /\ elapsed \in Nat
      <3>1. elapsed \in Nat /\ (elapsed > IoTimeout => stalled = TRUE)
        BY ElapsedBound DEF LaunchInv, ControlInv, TypeOK, StallInv
      <3>2. ~(elapsed > IoTimeout)
        BY <3>1
      <3> QED
        BY <3>1, <3>2, LaunchAssumption
    <2> QED
      BY <2>1, <2>2, LaunchAssumption
         DEF Counting, TypeOK, OnTime, SpentBefore, BeforeTerm, GraceLeft,
             MaxOverrun, Armed, Watching, Releasing
  <1> QED
    BY LaunchInvariant, <1>1, PTL

\* A forwarded signal always has a workload to go to, and no other step takes
\* a signal out of the channel.
THEOREM SignalsReachAWorkload == Spec => SignalsNotLost
  <1>1. LaunchInv /\ [Next]_vars
            => [queued' < queued =>
                    pc = "signals" /\ child \in {"running", "zombie"}]_vars
    <2> SUFFICES ASSUME LaunchInv, [Next]_vars, queued' < queued
                 PROVE  pc = "signals" /\ child \in {"running", "zombie"}
      OBVIOUS
    <2>1. ForwardSignals
      <3>1. queued \in Nat
        BY LaunchAssumption DEF LaunchInv, ControlInv, TypeOK
      <3>2. queued' = queued \/ queued' = queued + 1 \/ ForwardSignals
        BY DEF Next, Resolve, Supervisor, Agent, Workload, supervisor,
               ParseArgv, ResolveProfile, SocketFromEnv, Connect,
               AgentConnects, ReadRestarts, InitialAnswer, InitialFails,
               InstallSignals, Spawn, TryWait, CheckDeadline, Renewed, RenewalSetBack, ReleaseAnswered,
               ReleaseFails, Wake, Terminate, GraceLoop, Kill, AgentIssues,
               AgentViews, AnswerArrives, AgentDeclines, AgentReleases,
               AgentCloses, LateRequest, LateRelease, AgentRestarts,
               ChildExits, DescendantStarts, DescendantExits, SignalArrives,
               Dies, Tick, vars
      <3> QED
        BY <3>1, <3>2
    <2> QED
      BY <2>1
         DEF ForwardSignals, LaunchInv, ControlInv, StageInv, Watching, Alive
  <1> QED
    BY LaunchInvariant, <1>1, PTL DEF Spec, SignalsNotLost

-----------------------------------------------------------------------------
(* What parse_run accepts, for command lines of every length *)

\* Induction over the naturals, for sets: the least number outside of T would
\* be the successor of one in T.
LEMMA LeastElement ==
  ASSUME NEW T \in SUBSET Nat, T # {}
  PROVE  \E x \in T : \A y \in T : x <= y
  <1> DEFINE R == OpToRel(<, Nat)
  <1>0. IsWellFoundedOn(R, Nat)
    BY NatLessThanWellFounded
  <1>2. R = {ss \in Nat \X Nat : ss[1] < ss[2]}
    BY DEF OpToRel
  <1> HIDE DEF R
  <1>1. PICK x \in T : \A y \in T : ~(<<y, x>> \in R)
    BY <1>0, WFMin
  <1>3. ASSUME NEW y \in T, y < x PROVE FALSE
    <2>1. <<y, x>> \in Nat \X Nat /\ <<y, x>>[1] < <<y, x>>[2]
      BY <1>3
    <2> QED
      BY <1>1, <1>2, <2>1
  <1>4. \A y \in T : x <= y
    BY <1>3
  <1> QED
    BY <1>4
\* What zero has and a successor inherits, every number has.
LEMMA SetInduction ==
  ASSUME NEW T \in SUBSET Nat, 0 \in T, \A n \in T : n + 1 \in T
  PROVE  T = Nat
  <1> SUFFICES ASSUME Nat \ T # {} PROVE FALSE
    OBVIOUS
  <1>1. PICK x \in Nat \ T : \A y \in Nat \ T : x <= y
    BY LeastElement
  <1>2. x # 0 /\ x - 1 \in Nat /\ x - 1 \in T
    BY <1>1
  <1>3. (x - 1) + 1 = x
    BY <1>2
  <1> QED
    BY <1>1, <1>2, <1>3

\* f follows the loop of parse_run over the first k words of argv.
Follows(f, argv, k) ==
    f = [n \in 1..k |-> IF n = 1 THEN Unparsed ELSE ParseWord(f[n - 1], argv[n])]

\* The recursion in parse_run defines a function.
LEMMA LoopExists ==
    ASSUME NEW argv, NEW k \in Nat
    PROVE  \E f : Follows(f, argv, k)
  <1> DEFINE T == {n \in Nat : \E f : Follows(f, argv, n)}
  <1>1. 0 \in T
    <2> DEFINE f == [n \in 1..0 |-> Unparsed]
    <2>1. 1..0 = {}
      OBVIOUS
    <2>2. Follows(f, argv, 0)
      BY <2>1 DEF Follows
    <2> QED
      BY <2>2
  <1>2. ASSUME NEW n \in T PROVE n + 1 \in T
    <2>1. PICK f : Follows(f, argv, n)
      OBVIOUS
    <2> DEFINE last == IF n + 1 = 1 THEN Unparsed
                       ELSE ParseWord(f[n], argv[n + 1])
               g == [i \in 1..(n + 1) |-> IF i = n + 1 THEN last ELSE f[i]]
    <2> HIDE DEF last
    <2>2. \A i \in 1..(n + 1) : i \in 1..n \/ i = n + 1
      OBVIOUS
    <2>3. ASSUME NEW i \in 1..n
          PROVE  g[i] = IF i = 1 THEN Unparsed ELSE ParseWord(g[i - 1], argv[i])
      <3>1. g[i] = f[i] /\ f[i] = IF i = 1 THEN Unparsed
                                  ELSE ParseWord(f[i - 1], argv[i])
        BY <2>1 DEF Follows
      <3>2. i # 1 => g[i - 1] = f[i - 1]
        OBVIOUS
      <3> HIDE DEF g
      <3> QED
        BY <3>1, <3>2
    <2>4. g[n + 1] = IF n + 1 = 1 THEN Unparsed
                     ELSE ParseWord(g[(n + 1) - 1], argv[n + 1])
      <3>1. g[n + 1] = last
        OBVIOUS
      <3>2. n + 1 # 1 => g[(n + 1) - 1] = f[n]
        OBVIOUS
      <3> HIDE DEF g
      <3> QED
        BY <3>1, <3>2 DEF last
    <2>5. DOMAIN g = 1..(n + 1) /\ g = [i \in DOMAIN g |-> g[i]]
      OBVIOUS
    <2> HIDE DEF g
    <2>6. Follows(g, argv, n + 1)
      BY <2>2, <2>3, <2>4, <2>5 DEF Follows
    <2> QED
      BY <2>6
  <1> HIDE DEF T
  <1>3. T = Nat
    <2>1. T \in SUBSET Nat
      BY DEF T
    <2> QED
      BY <1>1, <1>2, <2>1, SetInduction
  <1> QED
    BY <1>3 DEF T

\* ParseRun is the checks after the loop, on where the loop ends.
LEMMA ParseRunFollows ==
    ASSUME NEW argv \in Seq(STRING), argv # <<>>, Head(argv) = "run"
    PROVE  \E f : /\ Follows(f, argv, Len(argv))
                  /\ ParseRun(argv) = Finish(f[Len(argv)])
  <1> DEFINE after[n \in 1..Len(argv)] ==
                 IF n = 1 THEN Unparsed ELSE ParseWord(after[n - 1], argv[n])
  <1>1. ParseRun(argv) = Finish(after[Len(argv)])
    BY DEF ParseRun
  <1>3. Len(argv) \in Nat
    OBVIOUS
  <1>0. \E f : Follows(f, argv, Len(argv))
    BY <1>3, LoopExists
  <1>2. Follows(after, argv, Len(argv))
    BY <1>0 DEF Follows
  <1> QED
    BY <1>1, <1>2

\* A state of the loop, by its fields.
State(profile, value_next, separator, command, error) ==
    [profile |-> profile, value_next |-> value_next, separator |-> separator,
     command |-> command, error |-> error]

\* Behind the separator, with this command so far.
InCommand(prof, cmd) == State(prof, FALSE, TRUE, cmd, "None")

\* One turn of the loop, from each state the grammar passes through.
LEMMA WordAfterError ==
    ASSUME NEW p, NEW word, p.error # "None"
    PROVE  ParseWord(p, word) = p
  BY DEF ParseWord

\* The word after `run` is the separator, --profile, or an error.
LEMMA FirstWord ==
    ASSUME NEW word
    PROVE  /\ word = "--" => ParseWord(Unparsed, word)
                                 = InCommand(<<>>, <<>>)
           /\ word = "--profile" => ParseWord(Unparsed, word)
                                        = State(<<>>, TRUE, FALSE, <<>>, "None")
           /\ word \notin {"--", "--profile"} =>
                  ParseWord(Unparsed, word).error # "None"
  BY DEF ParseWord, InCommand, State, Unparsed, Fails

\* The word after --profile is a name or an error.
LEMMA NameWord ==
    ASSUME NEW word
    PROVE  LET p == State(<<>>, TRUE, FALSE, <<>>, "None")
           IN  IF ValidName(word)
               THEN ParseWord(p, word) = State(<<word>>, FALSE, FALSE, <<>>, "None")
               ELSE ParseWord(p, word).error # "None"
  BY DEF ParseWord, InCommand, State, TakeValue, Fails

\* After the name only the separator is no error.
LEMMA SeparatorWord ==
    ASSUME NEW word, NEW name
    PROVE  LET p == State(<<name>>, FALSE, FALSE, <<>>, "None")
           IN  IF word = "--"
               THEN ParseWord(p, word) = InCommand(<<name>>, <<>>)
               ELSE ParseWord(p, word).error # "None"
  <1>1. <<name>> # <<>>
    OBVIOUS
  <1> QED
    BY <1>1 DEF ParseWord, InCommand, State, Fails

\* The turn of the loop from one word to the next.
LEMMA FollowsStep ==
    ASSUME NEW argv, NEW f, NEW k \in Nat, Follows(f, argv, k),
           NEW n \in 1..k
    PROVE  /\ f[1] = Unparsed
           /\ n + 1 <= k => f[n + 1] = ParseWord(f[n], argv[n + 1])
  <1>1. \A i \in 1..k : f[i] = IF i = 1 THEN Unparsed
                               ELSE ParseWord(f[i - 1], argv[i])
    BY DEF Follows
  <1>2. 1 \in 1..k
    OBVIOUS
  <1>3. ASSUME n + 1 <= k PROVE n + 1 \in 1..k /\ n + 1 # 1 /\ (n + 1) - 1 = n
    BY <1>3
  <1> QED
    BY <1>1, <1>2, <1>3

\* Whatever takes the same turns from some word on ends where the loop ends.
LEMMA LoopIsDetermined ==
    ASSUME NEW argv, NEW f, NEW k \in Nat, Follows(f, argv, k),
           NEW m \in 1..k, NEW g, g[m] = f[m],
           \A n \in m..(k - 1) : g[n + 1] = ParseWord(g[n], argv[n + 1])
    PROVE  f[k] = g[k]
  <1> DEFINE T == {d \in Nat : m + d <= k => f[m + d] = g[m + d]}
  <1>1. 0 \in T
    OBVIOUS
  <1>2. ASSUME NEW d \in T PROVE d + 1 \in T
    <2> SUFFICES ASSUME m + (d + 1) <= k PROVE f[m + (d + 1)] = g[m + (d + 1)]
      OBVIOUS
    <2>1. /\ m + d \in 1..k /\ m + (d + 1) = (m + d) + 1 /\ f[m + d] = g[m + d]
          /\ m + d \in m..(k - 1) /\ (m + d) + 1 <= k
      OBVIOUS
    <2>2. f[(m + d) + 1] = ParseWord(f[m + d], argv[(m + d) + 1])
      BY <2>1, FollowsStep
    <2>3. g[(m + d) + 1] = ParseWord(g[m + d], argv[(m + d) + 1])
      BY <2>1
    <2> QED
      BY <2>1, <2>2, <2>3
  <1> HIDE DEF T
  <1>3. T = Nat
    <2>1. T \in SUBSET Nat
      BY DEF T
    <2> QED
      BY <1>1, <1>2, <2>1, SetInduction
  <1>4. k - m \in T /\ m + (k - m) = k
    BY <1>3
  <1> QED
    BY <1>4 DEF T

\* An error ends the parse.
LEMMA ErrorSticks ==
    ASSUME NEW argv, NEW f, NEW k \in Nat, Follows(f, argv, k),
           NEW m \in 1..k, f[m].error # "None"
    PROVE  f[k] = f[m]
  <1> DEFINE g == [n \in 1..k |-> f[m]]
  <1>1. \A n \in m..(k - 1) : n \in 1..k /\ n + 1 \in 1..k
    OBVIOUS
  <1>2. ParseWord(f[m], argv) = f[m] /\ \A w : ParseWord(f[m], w) = f[m]
    BY WordAfterError
  <1>3. \A n \in 1..k : g[n] = f[m]
    OBVIOUS
  <1>4. k \in 1..k
    OBVIOUS
  <1> HIDE DEF g
  <1>5. \A n \in m..(k - 1) : g[n + 1] = ParseWord(g[n], argv[n + 1])
    BY <1>1, <1>2, <1>3
  <1>6. f[k] = g[k]
    BY <1>3, <1>5, LoopIsDetermined
  <1> QED
    BY <1>3, <1>4, <1>6

\* The words from m + 1 on, one more at a time.
LEMMA SubSeqGrows ==
    ASSUME NEW argv \in Seq(STRING), NEW m \in Nat, NEW n \in Nat,
           m <= n, n + 1 <= Len(argv)
    PROVE  /\ SubSeq(argv, m + 1, m) = <<>>
           /\ SubSeq(argv, m + 1, n + 1)
                  = Append(SubSeq(argv, m + 1, n), argv[n + 1])
  OBVIOUS

\* Behind the separator a word is not looked at.
LEMMA InCommandWord ==
    ASSUME NEW prof, NEW cmd, NEW word
    PROVE  ParseWord(InCommand(prof, cmd), word)
               = InCommand(prof, Append(cmd, word))
  BY DEF ParseWord, State, InCommand

\* Each word extends the command by itself.
Grows(cmd, argv, m, k) ==
    \A n \in m..(k - 1) : cmd[n + 1] = Append(cmd[n], argv[n + 1])

\* Behind the separator the loop copies.
LEMMA CommandLoop ==
    ASSUME NEW argv, NEW f, NEW k \in Nat, Follows(f, argv, k), NEW m \in 1..k,
           NEW prof, NEW begun, f[m] = InCommand(prof, begun),
           NEW cmd, cmd[m] = begun, Grows(cmd, argv, m, k)
    PROVE  f[k] = InCommand(prof, cmd[k])
  <1> DEFINE g == [n \in 1..k |-> InCommand(prof, cmd[n])]
  <1>1. \A n \in m..(k - 1) : n \in 1..k /\ n + 1 \in 1..k
    OBVIOUS
  <1>2. \A n \in 1..k : g[n] = InCommand(prof, cmd[n])
    OBVIOUS
  <1>3. k \in 1..k
    OBVIOUS
  <1> HIDE DEF g
  <1>4. \A n \in m..(k - 1) : g[n + 1] = ParseWord(g[n], argv[n + 1])
    <2>1. \A c, w : ParseWord(InCommand(prof, c), w)
                        = InCommand(prof, Append(c, w))
      BY InCommandWord
    <2> SUFFICES ASSUME NEW n \in m..(k - 1)
                 PROVE  g[n + 1] = ParseWord(g[n], argv[n + 1])
      OBVIOUS
    <2>2. /\ g[n] = InCommand(prof, cmd[n])
          /\ g[n + 1] = InCommand(prof, Append(cmd[n], argv[n + 1]))
      BY <1>1, <1>2 DEF Grows
    <2> QED
      BY <2>1, <2>2
  <1>5. g[m] = f[m]
    BY <1>2
  <1>6. f[k] = g[k]
    BY <1>4, <1>5, LoopIsDetermined
  <1> QED
    BY <1>2, <1>3, <1>6

\* What follows the separator is the command, word for word.
LEMMA CommandGrows ==
    ASSUME NEW argv \in Seq(STRING), NEW k \in Nat, k <= Len(argv),
           NEW f, Follows(f, argv, k),
           NEW m \in 1..k, NEW prof, NEW i, i = m + 1,
           f[m] = InCommand(prof, <<>>)
    PROVE  f[k] = InCommand(prof, SubSeq(argv, i, k))
  <1> DEFINE cmd == [n \in 1..k |-> SubSeq(argv, i, n)]
  <1>1. \A n \in m..(k - 1) : /\ n \in 1..k /\ n + 1 \in 1..k
                              /\ n \in Nat /\ m <= n /\ n + 1 <= Len(argv) /\ m \in Nat
    OBVIOUS
  <1>2. cmd[m] = <<>>
    <2>1. SubSeq(argv, m + 1, m) = <<>>
      OBVIOUS
    <2> QED
      BY <2>1
  <1>3. \A n \in m..(k - 1) : cmd[n + 1] = Append(cmd[n], argv[n + 1])
    BY <1>1, SubSeqGrows
  <1>4. cmd[k] = SubSeq(argv, i, k)
    OBVIOUS
  <1> HIDE DEF cmd
  <1>6. f[k] = InCommand(prof, cmd[k])
    <2>1. Grows(cmd, argv, m, k)
      BY <1>3 DEF Grows
    <2> QED
      BY <1>2, <2>1, CommandLoop
  <1> QED
    BY <1>4, <1>6

\* The checks after the loop.
LEMMA FinishChecks ==
    /\ \A p : p.error # "None" => Finish(p).error # "None"
    /\ Finish(Unparsed).error # "None"
    /\ Finish(State(<<>>, TRUE, FALSE, <<>>, "None")).error # "None"
    /\ \A name : Finish(State(<<name>>, FALSE, FALSE, <<>>, "None")).error # "None"
    /\ \A cmd : Finish(InCommand(<<>>, cmd)).error # "None"
    /\ \A name :
          Finish(InCommand(<<name>>, <<>>)).error # "None"
    /\ \A name, cmd : cmd # <<>> =>
          Finish(InCommand(<<name>>, cmd))
              = InCommand(<<name>>, cmd)
  <1>1. \A p : p.error # "None" => Finish(p).error # "None"
    BY DEF Finish
  <1>2. Finish(Unparsed).error # "None"
    BY DEF Finish, Unparsed, Fails
  <1>3. Finish(State(<<>>, TRUE, FALSE, <<>>, "None")).error # "None"
    BY DEF Finish, InCommand, State, Fails
  <1>4. ASSUME NEW name
        PROVE  Finish(State(<<name>>, FALSE, FALSE, <<>>, "None")).error # "None"
    BY DEF Finish, InCommand, State, Fails
  <1>5. ASSUME NEW cmd
        PROVE  Finish(InCommand(<<>>, cmd)).error # "None"
    BY DEF Finish, InCommand, State, Fails
  <1>6. ASSUME NEW name
        PROVE  /\ Finish(InCommand(<<name>>, <<>>)).error # "None"
               /\ \A cmd : cmd # <<>> =>
                      Finish(InCommand(<<name>>, cmd))
                          = InCommand(<<name>>, cmd)
    <2>1. <<name>> # <<>>
      OBVIOUS
    <2> QED
      BY <2>1 DEF Finish, InCommand, State, Fails
  <1> QED
    BY <1>1, <1>2, <1>3, <1>4, <1>5, <1>6

\* A sequence of length two, by its elements.
LEMMA TwoLong ==
    ASSUME NEW S, NEW s \in Seq(S), Len(s) = 2
    PROVE  s = <<s[1], s[2]>>
  <1>1. \A j \in 1..2 : j = 1 \/ j = 2
    OBVIOUS
  <1>2. s[1] \in S /\ s[2] \in S
    BY 1 \in 1..Len(s), 2 \in 1..Len(s), ElementOfSeq
  <1>3. PICK a, b : a = s[1] /\ b = s[2] /\ a \in S /\ b \in S
    BY <1>2
  <1>4. <<a, b>> \in Seq(S) /\ Len(<<a, b>>) = 2
        /\ <<a, b>>[1] = a /\ <<a, b>>[2] = b
    BY <1>3
  <1> QED
    BY <1>1, <1>3, <1>4, SeqEqual

\* The grammar, word by word.
LEMMA GrammarWords ==
    ASSUME NEW argv \in Seq(STRING), NEW k \in Nat, k = Len(argv)
    PROVE  InGrammar(argv) <=>
               /\ k >= 5 /\ argv[1] = "run" /\ argv[2] = "--profile"
               /\ ValidName(argv[3]) /\ argv[4] = "--"
  <1>1. ASSUME k >= 5
        PROVE  SubSeq(argv, 1, 2) = <<"run", "--profile">>
                   <=> argv[1] = "run" /\ argv[2] = "--profile"
    <2> DEFINE s == SubSeq(argv, 1, 2)
    <2>1. /\ s \in Seq(STRING) /\ Len(s) = 2
          /\ s[1] = argv[1] /\ s[2] = argv[2]
      BY <1>1
    <2> HIDE DEF s
    <2>2. s = <<"run", "--profile">> <=> s[1] = "run" /\ s[2] = "--profile"
      <3>1. ASSUME s[1] = "run", s[2] = "--profile"
            PROVE  s = <<"run", "--profile">>
        <4>1. s = <<s[1], s[2]>>
          BY <2>1, TwoLong
        <4> QED
          BY <3>1, <4>1
      <3> QED
        BY <3>1
    <2> QED
      BY <2>1, <2>2 DEF s
  <1> QED
    BY <1>1 DEF InGrammar

\* parse_run accepts exactly the grammar, and what it takes for the command is
\* the rest of the line.
LEMMA ParseRunMeaning ==
    ASSUME NEW argv \in Seq(STRING)
    PROVE  /\ ParseRun(argv).error = "None" <=> InGrammar(argv)
           /\ InGrammar(argv) =>
                  ParseRun(argv).command = SubSeq(argv, 5, Len(argv))
  <1>0. PICK k \in Nat : k = Len(argv)
    OBVIOUS
  <1>g. InGrammar(argv) <=>
            /\ k >= 5 /\ argv[1] = "run" /\ argv[2] = "--profile"
            /\ ValidName(argv[3]) /\ argv[4] = "--"
    BY <1>0, GrammarWords
  <1>1. CASE argv = <<>> \/ Head(argv) # "run"
    <2>1. ParseRun(argv) = Fails(Unparsed, "NotRunSubcommand")
      BY <1>1 DEF ParseRun
    <2>2. ParseRun(argv).error # "None"
      BY <2>1 DEF Fails, Unparsed
    <2>3. ~InGrammar(argv)
      BY <1>0, <1>1, <1>g
    <2> QED
      BY <2>2, <2>3
  <1>2. CASE argv # <<>> /\ Head(argv) = "run"
    <2>1. PICK f : Follows(f, argv, k) /\ ParseRun(argv) = Finish(f[k])
      BY <1>0, <1>2, ParseRunFollows
    <2>2. k >= 1 /\ argv[1] = "run" /\ 1 \in 1..k
      BY <1>0, <1>2
    <2>3. f[1] = Unparsed
      BY <1>0, <2>1, <2>2, FollowsStep
    <2>e. ASSUME NEW m \in 1..k, f[m].error # "None"
          PROVE  ParseRun(argv).error # "None"
      BY <1>0, <2>1, <2>e, ErrorSticks, FinishChecks
    <2>n. ASSUME NEW n \in 1..k, NEW j, j = n + 1, j <= k
          PROVE  j \in 1..k /\ f[j] = ParseWord(f[n], argv[j])
      <3>1. n + 1 <= k /\ j \in 1..k
        BY <2>n
      <3> QED
        BY <1>0, <2>1, <2>n, <3>1, FollowsStep
    <2>o. ASSUME ~InGrammar(argv), Finish(f[k]).error # "None"
          PROVE  /\ ParseRun(argv).error = "None" <=> InGrammar(argv)
                 /\ InGrammar(argv) =>
                        ParseRun(argv).command = SubSeq(argv, 5, Len(argv))
      BY <2>1, <2>o
    <2>4. CASE k = 1
      <3>1. Finish(f[k]).error # "None"
        BY <2>3, <2>4, FinishChecks
      <3> QED
        BY <1>g, <2>4, <2>o, <3>1
    <2>5. CASE k >= 2 /\ argv[2] = "--"
      <3>1. 2 \in 1..k /\ f[2] = ParseWord(Unparsed, argv[2])
        BY <2>2, <2>3, <2>5, <2>n
      <3>2. f[2] = InCommand(<<>>, <<>>)
        BY <2>5, <3>1, FirstWord
      <3>3. f[k] = InCommand(<<>>, SubSeq(argv, 3, k))
        <4>1. 3 = 2 + 1
          OBVIOUS
        <4> QED
          BY <1>0, <2>1, <3>1, <3>2, <4>1, CommandGrows
      <3>4. Finish(f[k]).error # "None"
        BY <3>3, FinishChecks
      <3> QED
        BY <1>g, <2>5, <2>o, <3>4
    <2>6. CASE k >= 2 /\ argv[2] \notin {"--", "--profile"}
      <3>1. 2 \in 1..k /\ f[2] = ParseWord(Unparsed, argv[2])
        BY <2>2, <2>3, <2>6, <2>n
      <3> QED
        BY <1>g, <2>6, <2>e, <3>1, FirstWord
    <2>7. CASE k >= 2 /\ argv[2] = "--profile"
      <3>0. 2 \in 1..k /\ f[2] = ParseWord(Unparsed, argv[2])
        BY <2>2, <2>3, <2>7, <2>n
      <3>1. f[2] = State(<<>>, TRUE, FALSE, <<>>, "None")
        BY <2>7, <3>0, FirstWord
      <3>2. CASE k = 2
        <4>1. Finish(f[k]).error # "None"
          BY <3>1, <3>2, FinishChecks
        <4> QED
          BY <1>g, <2>o, <3>2, <4>1
      <3>3. ASSUME k >= 3
            PROVE  /\ 3 \in 1..k
                   /\ f[3] = ParseWord(State(<<>>, TRUE, FALSE, <<>>, "None"), argv[3])
        <4>1. 3 \in 1..k /\ f[3] = ParseWord(f[2], argv[3])
          BY <2>n, <3>0, <3>3
        <4> QED
          BY <3>1, <4>1
      <3>4. CASE k >= 3 /\ ~ValidName(argv[3])
        BY <1>g, <2>e, <3>3, <3>4, NameWord
      <3>5. CASE k >= 3 /\ ValidName(argv[3])
        <4>0. PICK name : name = argv[3]
          OBVIOUS
        <4>1. 3 \in 1..k /\ f[3] = State(<<name>>, FALSE, FALSE, <<>>, "None")
          BY <3>3, <3>5, <4>0, NameWord
        <4>2. CASE k = 3
          <5>1. Finish(f[k]).error # "None"
            BY <4>1, <4>2, FinishChecks
          <5> QED
            BY <1>g, <2>o, <4>2, <5>1
        <4>3. ASSUME k >= 4
              PROVE  /\ 4 \in 1..k
                     /\ f[4] = ParseWord(State(<<name>>, FALSE, FALSE, <<>>, "None"),
                                         argv[4])
          <5>1. 4 \in 1..k /\ f[4] = ParseWord(f[3], argv[4])
            <6>1. 4 = 3 + 1 /\ 4 <= k
              BY <4>3
            <6> QED
              BY <2>n, <4>1, <6>1
          <5> QED
            BY <4>1, <5>1
        <4>4. CASE k >= 4 /\ argv[4] # "--"
          BY <1>g, <2>e, <4>3, <4>4, SeparatorWord
        <4>5. CASE k >= 4 /\ argv[4] = "--"
          <5>1. 4 \in 1..k /\ f[4] = InCommand(<<name>>, <<>>)
            BY <4>3, <4>5, SeparatorWord
          <5>0. PICK cmd : cmd = SubSeq(argv, 5, k)
            OBVIOUS
          <5>2. f[k] = InCommand(<<name>>, cmd)
            <6>1. 5 = 4 + 1
              OBVIOUS
            <6>2. f[k] = InCommand(<<name>>, SubSeq(argv, 5, k))
              BY <1>0, <2>1, <5>1, <6>1, CommandGrows
            <6> QED
              BY <5>0, <6>2
          <5>3. CASE k = 4
            <6>1. cmd = <<>>
              BY <1>0, <5>0, <5>3
            <6>2. Finish(f[k]).error # "None"
              BY <5>2, <6>1, FinishChecks
            <6> QED
              BY <1>g, <2>o, <5>3, <6>2
          <5>4. CASE k >= 5
            <6>1. cmd # <<>>
              <7>1. Len(cmd) = k - 4
                BY <1>0, <5>0, <5>4
              <7>2. Len(cmd) # 0
                BY <5>4, <7>1
              <7>3. Len(<<>>) = 0
                OBVIOUS
              <7> QED
                BY <7>2, <7>3
            <6>2. ParseRun(argv) = InCommand(<<name>>, cmd)
              BY <2>1, <5>2, <6>1, FinishChecks
            <6>3. /\ InCommand(<<name>>, cmd).error = "None"
                  /\ InCommand(<<name>>, cmd).command = cmd
              BY DEF InCommand, State
            <6>4. InGrammar(argv)
              BY <1>g, <2>2, <2>7, <3>5, <4>5, <5>4
            <6> QED
              BY <1>0, <5>0, <6>2, <6>3, <6>4
          <5> QED
            BY <4>5, <5>3, <5>4
        <4> QED
          BY <3>5, <4>2, <4>4, <4>5
      <3> QED
        BY <2>7, <3>2, <3>4, <3>5
    <2> QED
      BY <2>2, <2>4, <2>5, <2>6, <2>7
  <1> QED
    BY <1>1, <1>2

-----------------------------------------------------------------------------
(* What ends the launch before the agent is asked *)

Rank == [ELTANIN_PROFILE_DIR |-> 1, XDG_CONFIG_HOME |-> 2, HOME |-> 3]

\* The document of the first variable that is set is there and current.
Resolvable(env, docs) ==
    \E d \in env : (\A e \in env : Rank[d] <= Rank[e]) /\ docs[d] = "current"

\* load_profile_from_dir finds a profile exactly then.
LEMMA LoadProfileMeaning ==
    ASSUME NEW env \in SUBSET Directories, NEW docs \in [Directories -> Documents]
    PROVE  LoadProfile(env, docs) \in Directories <=> Resolvable(env, docs)
  <1>1. /\ Rank["ELTANIN_PROFILE_DIR"] = 1 /\ Rank["XDG_CONFIG_HOME"] = 2
        /\ Rank["HOME"] = 3
    BY DEF Rank
  <1>2. ASSUME NEW d \in Directories, docs[d] # "current", ProfileDir(env) = d
        PROVE  LoadProfile(env, docs) \notin Directories
    <2>1. docs[d] \in Documents \ {"current"} /\ d # "NoSearchDir"
      BY <1>2 DEF Directories
    <2>2. LoadProfile(env, docs) \in {"NotFound", "Io", "Json", "Version"}
      BY <1>2, <2>1 DEF LoadProfile, Documents
    <2> QED
      BY <2>2 DEF Directories
  <1>3. ASSUME NEW d \in Directories, docs[d] = "current", ProfileDir(env) = d
        PROVE  LoadProfile(env, docs) \in Directories
    BY <1>3 DEF LoadProfile
  <1>4. ASSUME NEW d \in env, ProfileDir(env) = d,
               \A e \in env : e # d => /\ Rank[d] < Rank[e]
                                      /\ Rank[d] \in Nat /\ Rank[e] \in Nat
        PROVE  Resolvable(env, docs) <=> docs[d] = "current"
    <2>1. Rank[d] \in Nat
      BY <1>1 DEF Directories
    <2>2. \A e \in env : Rank[d] <= Rank[e]
      BY <1>4, <2>1
    <2>3. \A c \in env : (\A e \in env : Rank[c] <= Rank[e]) => c = d
      BY <1>4, <2>1
    <2> QED
      BY <2>2, <2>3 DEF Resolvable
  <1>5. CASE "ELTANIN_PROFILE_DIR" \in env
    <2>1. ProfileDir(env) = "ELTANIN_PROFILE_DIR"
      BY <1>5 DEF ProfileDir
    <2>2. \A e \in env : e # "ELTANIN_PROFILE_DIR" =>
              /\ Rank["ELTANIN_PROFILE_DIR"] < Rank[e]
              /\ Rank["ELTANIN_PROFILE_DIR"] \in Nat /\ Rank[e] \in Nat
      BY <1>1 DEF Directories
    <2> QED
      BY <1>2, <1>3, <1>4, <1>5, <2>1, <2>2
  <1>6. CASE "ELTANIN_PROFILE_DIR" \notin env /\ "XDG_CONFIG_HOME" \in env
    <2>1. ProfileDir(env) = "XDG_CONFIG_HOME"
      BY <1>6 DEF ProfileDir
    <2>2. \A e \in env : e # "XDG_CONFIG_HOME" =>
              /\ Rank["XDG_CONFIG_HOME"] < Rank[e]
              /\ Rank["XDG_CONFIG_HOME"] \in Nat /\ Rank[e] \in Nat
      BY <1>1, <1>6 DEF Directories
    <2> QED
      BY <1>2, <1>3, <1>4, <1>6, <2>1, <2>2
  <1>7. CASE env = {"HOME"}
    <2>1. ProfileDir(env) = "HOME"
      BY <1>7 DEF ProfileDir
    <2>2. \A e \in env : e # "HOME" =>
              Rank["HOME"] < Rank[e] /\ Rank["HOME"] \in Nat /\ Rank[e] \in Nat
      BY <1>7
    <2> QED
      BY <1>2, <1>3, <1>4, <1>7, <2>1, <2>2
  <1>8. CASE env = {}
    <2>1. LoadProfile(env, docs) = "NoSearchDir"
      BY <1>8 DEF LoadProfile, ProfileDir
    <2> QED
      BY <1>8, <2>1 DEF Directories, Resolvable
  <1> QED
    BY <1>5, <1>6, <1>7, <1>8 DEF Directories

\* ResolvedAsDocumented over the values it speaks of.
Documented(i, stage, c) ==
    /\ stage = "profile" =>
           /\ InGrammar(i)
           /\ ParseRun(i).command = SubSeq(i, 5, Len(i))
    /\ stage = "client" => Resolvable(i.env, i.docs)
    /\ stage = "exited" /\ c = "Usage" => ~InGrammar(i)
    /\ stage = "exited" /\ c = "ProfileUnresolved" =>
           ~Resolvable(i.env, i.docs)

\* Both are the same, now and after a step.
LEMMA DocumentedMeaning ==
    /\ ResolvedAsDocumented <=> Documented(input, pc, code)
    /\ ResolvedAsDocumented' <=> Documented(input', pc', code')
  BY DEF ResolvedAsDocumented, Documented, Resolvable, Rank

\* Only the three steps of resolution touch what the invariant speaks of.
LEMMA ResolvedStep ==
    LaunchInv /\ ResolvedAsDocumented /\ [Next]_vars => ResolvedAsDocumented'
  <1> SUFFICES ASSUME LaunchInv, Documented(input, pc, code), [Next]_vars
               PROVE  Documented(input', pc', code')
    BY DocumentedMeaning
  <1>0. ControlInv
    BY DEF LaunchInv
  <1>1. CASE ParseArgv
    <2>1. PICK argv \in Argvs :
              /\ input' = argv
              /\ \/ pc' = "exited" /\ code' = "Success"
                 \/ /\ ParseRun(argv).error # "None"
                    /\ pc' = "exited" /\ code' = "Usage"
                 \/ ParseRun(argv).error = "None" /\ pc' = "profile"
      BY <1>1 DEF ParseArgv, Exit
    <2>2. argv \in Seq(STRING)
      BY ArgvsAssumption
    <2>3. /\ ParseRun(argv).error = "None" <=> InGrammar(argv)
          /\ InGrammar(argv) =>
                 ParseRun(argv).command = SubSeq(argv, 5, Len(argv))
      BY <2>2, ParseRunMeaning
    <2> QED
      BY <2>1, <2>3 DEF Documented
  <1>2. CASE ResolveProfile
    <2>1. PICK env \in SUBSET Directories, docs \in [Directories -> Documents] :
              /\ input' = [env |-> env, docs |-> docs]
              /\ \/ LoadProfile(env, docs) \in Directories /\ pc' = "client"
                 \/ /\ LoadProfile(env, docs) \notin Directories
                    /\ pc' = "exited" /\ code' = "ProfileUnresolved"
      BY <1>2 DEF ResolveProfile, Exit
    <2>2. LoadProfile(env, docs) \in Directories <=> Resolvable(env, docs)
      BY LoadProfileMeaning
    <2>3. input'.env = env /\ input'.docs = docs
      BY <2>1
    <2> QED
      BY <2>1, <2>2, <2>3 DEF Documented
  <1>3. CASE SocketFromEnv
    BY <1>3 DEF SocketFromEnv, Exit, Documented
  <1>4. ASSUME \/ UNCHANGED <<input, pc, code>>
               \/ /\ pc' \notin {"profile", "client"}
                  /\ code' \notin {"Usage", "ProfileUnresolved"} \/ pc' # "exited"
        PROVE  Documented(input', pc', code')
    BY <1>4 DEF Documented
  <1>5. CASE Supervisor
    <2>1. CASE Connect
      BY <1>4, <2>1 DEF Connect, supervisor
    <2>2. CASE InitialAnswer \/ InitialFails
      BY <1>4, <2>2 DEF InitialAnswer, InitialFails, Exit
    <2>3. CASE InstallSignals \/ Spawn \/ TryWait \/ GraceLoop \/ Kill \/ Renewed
      BY <1>4, <2>3 DEF InstallSignals, Spawn, TryWait, GraceLoop, Kill,
                        Renewed, BeginRelease, Sleep
    <2>4. CASE ForwardSignals \/ CheckDeadline \/ RenewalSetBack \/ Terminate
      BY <1>4, <2>4 DEF ForwardSignals, CheckDeadline, RenewalSetBack,
                        Terminate, Sleep
    <2>5. CASE ReleaseAnswered \/ ReleaseFails
      <3>1. code' = code /\ pc = "release"
        BY <2>5 DEF ReleaseAnswered, ReleaseFails
      <3>2. code \notin {"Usage", "ProfileUnresolved"}
        BY <1>0, <3>1 DEF ControlInv, StageInv, Releasing, SpawnFailures
      <3>3. pc' \in {"sleep", "exited", "backoff"}
        BY <2>5 DEF ReleaseAnswered, ReleaseFails, Released, Sleep
      <3> QED
        BY <1>4, <3>1, <3>2, <3>3
    <2>6. CASE Wake
      BY <1>4, <2>6 DEF Wake, Sleeping
    <2> QED
      BY <1>5, <2>1, <2>2, <2>3, <2>4, <2>5, <2>6 DEF Supervisor
  <1>6. CASE Agent \/ Workload \/ Tick
    <2>1. UNCHANGED <<input, pc, code>>
      BY <1>6 DEF Agent, Workload, AgentConnects, ReadRestarts, AgentIssues,
         AgentViews, AnswerArrives, AgentDeclines, AgentReleases, AgentCloses, LateRequest, LateRelease,
         AgentRestarts, ChildExits, DescendantStarts, DescendantExits,
         SignalArrives, Tick, supervisor
    <2> QED
      BY <1>4, <2>1
  <1>7. CASE Dies
    BY <1>4, <1>7 DEF Dies
  <1>8. CASE UNCHANGED vars
    BY <1>4, <1>8 DEF vars, supervisor
  <1> QED
    BY <1>1, <1>2, <1>3, <1>5, <1>6, <1>7, <1>8 DEF Next, Resolve

\* parse_run accepts the documented grammar and nothing else, whatever the
\* length of the command line, and takes all that follows the separator for
\* the command; a profile resolves exactly when the document in the directory
\* of the first variable that is set is current.
THEOREM ResolutionIsDocumented == Spec => []ResolvedAsDocumented
  <1>1. Init => ResolvedAsDocumented
    BY DEF Init, ResolvedAsDocumented
  <1> QED
    BY LaunchInvariant, ResolvedStep, <1>1, PTL DEF Spec
=============================================================================
