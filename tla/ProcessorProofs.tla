--------------------------- MODULE ProcessorProofs ---------------------------
(***************************************************************************)
(* Proofs about Processor, for all accounts, sizes and faults.             *)
(***************************************************************************)
EXTENDS Processor, DiscoveryProofs

\* The goroutine of an installation has passed a point, and what it left there is
\* still there; main is where it is because of where they are.
StageInv ==
  /\ mpc \in {"config", "preflight", "boot"} => \A i \in Installations : ipc[i] = "off"
  /\ mpc \in {"drain", "exited"} => \A i \in Installations : ipc[i] = "done"
  /\ \A i \in Installations : ipc[i] = "create" => scaleSets[i] = 0
  /\ \A i \in sessions :
       ipc[i] \in {"metrics", "web", "append", "listener", "run", "close"}
  /\ \A i \in working : ipc[i] = "run"
  /\ \A i \in Installations : ipc[i] \in {"listener", "run"} =>
       i \in scalers \intersect metricsReg
  /\ \A i \in Installations : ipc[i] \in {"web", "append"} => i \in metricsReg

\* A scaler that main drained has nothing left in its map, or was too slow.
DrainedInv ==
  /\ mpc \in {"drain", "exited"} =>
       \A i \in scalers \ toDrain : counted[i] = 0 \/ expired
  /\ mpc = "exited" => toDrain = {}

\* Every container that runs is in a map, also that of a process which has ended:
\* none outlives the restart.  A map with entries is known to main and to metrics.
ContainersInv ==
  /\ \A i \in Installations : live[i] <= counted[i]
  /\ \A i \in Installations : counted[i] > 0 => i \in scalers \intersect metricsReg

ProcessorIInv ==
  /\ TypeOK
  /\ DiscoveryIInv
  /\ OneScaleSet
  /\ StageInv /\ DrainedInv /\ ContainersInv

-----------------------------------------------------------------------------
(* The initial state, and the parts that few steps touch.                  *)

\* ResolveMaxRunners returns a natural number.
LEMMA MaxRunnersType == MaxRunners \in Nat
BY SizesAssumption DEF MaxRunners

\* The invariant holds when the unit is started for the first time.
LEMMA InitProcessor ==
  ASSUME Init PROVE ProcessorIInv
<1>1. DiscoveryIInv
  BY InitDiscovery DEF Init
<1>2. TypeOK
  <2>1. DiscoveryTypeOK
    BY <1>1 DEF DiscoveryIInv
  <2>2. /\ live \in [Installations -> Nat]
        /\ counted \in [Installations -> 0..MaxRunners]
    BY MaxRunnersType DEF Init
  <2>3. scaleSets \in [Installations -> Nat] /\ toDrain \subseteq scalers
    BY DEF Init
  <2> QED
    BY <2>1, <2>2, <2>3 DEF Init, TypeOK
<1>3. OneScaleSet /\ StageInv
  BY DEF Init, OneScaleSet, StageInv
<1>4. DrainedInv /\ ContainersInv
  BY DEF Init, DrainedInv, ContainersInv
<1> QED
  BY <1>1, <1>2, <1>3, <1>4 DEF ProcessorIInv

\* The steps of a process that do not start it.
Working ==
  \/ \E i \in Installations :
       \/ Installation(i) \/ BeginWork(i) \/ Launch(i) \/ EndWork(i)
       \/ Reap(i) \/ RunReturns(i) \/ ContainerEnds(i) \/ Drained(i)
       \/ ScrapeScaler(i)
  \/ BeginScrape \/ StatusBegin \/ StatusEnd
  \/ WaitListeners \/ Expire \/ MainReturns
  \/ Stop \/ RaceDetected \/ Crash

\* A step belongs to the start, to the user at GitHub, to the work, or to systemd.
LEMMA NextCases ==
  Next => \/ Starting
          \/ \E r \in Installations : Revoke(r) /\ UNCHANGED procs
          \/ Working \/ Restart \/ UNCHANGED vars
BY DEF Next, Working, Stopped

\* Once the goroutines run, nobody touches the discovery.
LEMMA WorkingFrame == Working => UNCHANGED discovery
BY DEF Working, Installation, CreateClient, GetScaleSet, CreateScaleSet, OpenSession,
       RegisterMetrics, RegisterWebBegin, RegisterWebEnd, AppendScaler, NewListener,
       CloseSession, BeginWork, Launch, EndWork, Reap, RunReturns, ContainerEnds, Drained,
       ScrapeScaler, BeginScrape, StatusBegin, StatusEnd, WaitListeners, Expire,
       MainReturns, Stop, RaceDetected, Crash

\* No step disturbs what the discovery has found.
LEMMA NextDiscovery ==
  ASSUME ProcessorIInv, [Next]_vars PROVE DiscoveryIInv'
<1> USE DEF ProcessorIInv
<1>1. CASE Starting
  <2>1. CASE LoadConfig \/ Preflight \/ DiscoveryFails
    BY <2>1, DiscoveryStutters DEF LoadConfig, Preflight, DiscoveryFails
  <2>2. CASE BeginDiscovery
    BY <2>2, DiscoverIInv DEF BeginDiscovery
  <2>3. CASE Boot
    BY <2>3, EndDiscoveryIInv DEF Boot
  <2>4. CASE DiscoveryStep
    BY <2>4, DiscoveryStepIInv
  <2> QED
    BY <1>1, <2>1, <2>2, <2>3, <2>4 DEF Starting
<1>2. ASSUME NEW r \in Installations, Revoke(r) PROVE DiscoveryIInv'
  BY <1>2, RevokeIInv
<1>3. CASE Working
  BY <1>3, WorkingFrame, DiscoveryStutters
<1>4. CASE Restart
  BY <1>4, EndDiscoveryIInv DEF Restart, FreshProcess
<1>5. CASE UNCHANGED vars
  BY <1>5, DiscoveryStutters DEF vars
<1> QED
  BY <1>1, <1>2, <1>3, <1>4, <1>5, NextCases

-----------------------------------------------------------------------------
(* Types.                                                                  *)

\* The start keeps the types.
LEMMA StartingType ==
  ASSUME ProcessorIInv, Starting, DiscoveryTypeOK' PROVE TypeOK'
<1> USE DEF ProcessorIInv, TypeOK, main, web, pools, containers, github, locks
<1>1. CASE LoadConfig \/ Preflight \/ DiscoveryFails
  BY <1>1 DEF LoadConfig, Preflight, DiscoveryFails
<1>2. CASE BeginDiscovery
  BY <1>2 DEF BeginDiscovery
<1>3. CASE Boot
  BY <1>3 DEF Boot
<1>4. CASE UNCHANGED procs
  BY <1>4 DEF procs
<1> QED
  BY <1>1, <1>2, <1>3, <1>4 DEF Starting

\* The calls of an installation's goroutine keep the types.
LEMMA InstallationType ==
  ASSUME ProcessorIInv, NEW i \in Installations, Installation(i), DiscoveryTypeOK'
  PROVE  TypeOK'
<1> USE DEF ProcessorIInv, TypeOK, main, web, pools, containers, github, locks,
            At, Goto, Leave
<1>1. CASE CreateClient(i) \/ GetScaleSet(i)
  BY <1>1 DEF CreateClient, GetScaleSet
<1>2. CASE CreateScaleSet(i)
  BY <1>2 DEF CreateScaleSet
<1>3. CASE OpenSession(i) \/ CloseSession(i)
  BY <1>3 DEF OpenSession, CloseSession
<1>4. CASE RegisterMetrics(i)
  BY <1>4 DEF RegisterMetrics
<1>5. CASE RegisterWebBegin(i)
  BY <1>5 DEF RegisterWebBegin
<1>6. CASE RegisterWebEnd(i)
  BY <1>6 DEF RegisterWebEnd
<1>7. CASE AppendScaler(i) \/ NewListener(i)
  BY <1>7 DEF AppendScaler, NewListener
<1> QED
  BY <1>1, <1>2, <1>3, <1>4, <1>5, <1>6, <1>7 DEF Installation

\* The work, the signal and the crash keep the types.
LEMMA WorkingType ==
  ASSUME ProcessorIInv, Working, DiscoveryTypeOK' PROVE TypeOK'
<1> USE DEF ProcessorIInv, TypeOK, main, web, pools, containers, github, locks
<1>1. ASSUME NEW i \in Installations, Installation(i) PROVE TypeOK'
  BY <1>1, InstallationType
<1>2. ASSUME NEW i \in Installations, BeginWork(i) \/ EndWork(i) \/ ScrapeScaler(i)
      PROVE  TypeOK'
  BY <1>2 DEF BeginWork, EndWork, ScrapeScaler
<1>3. ASSUME NEW i \in Installations, Launch(i) \/ Reap(i) \/ ContainerEnds(i)
      PROVE  TypeOK'
  <2>1. live' \in [Installations -> Nat]
    BY <1>3 DEF Launch, Reap, ContainerEnds
  <2>2. counted' \in [Installations -> 0..MaxRunners]
    BY <1>3, MaxRunnersType DEF Launch, Reap, ContainerEnds
  <2> QED
    BY <1>3, <2>1, <2>2 DEF Launch, Reap, ContainerEnds
<1>4. ASSUME NEW i \in Installations, RunReturns(i) PROVE TypeOK'
  BY <1>4 DEF RunReturns, Leave, Goto
<1>5. ASSUME NEW i \in Installations, Drained(i) PROVE TypeOK'
  BY <1>5 DEF Drained
<1>6. CASE BeginScrape \/ StatusBegin \/ StatusEnd
  BY <1>6 DEF BeginScrape, StatusBegin, StatusEnd
<1>7. CASE WaitListeners \/ Expire \/ MainReturns
  BY <1>7 DEF WaitListeners, Expire, MainReturns
<1>8. CASE Stop \/ RaceDetected \/ Crash
  BY <1>8 DEF Stop, RaceDetected, Crash
<1> QED
  BY <1>1, <1>2, <1>3, <1>4, <1>5, <1>6, <1>7, <1>8 DEF Working

\* Each step keeps the types.
LEMMA NextType ==
  ASSUME ProcessorIInv, [Next]_vars PROVE TypeOK'
<1>1. DiscoveryTypeOK'
  BY NextDiscovery DEF DiscoveryIInv
<1>2. CASE Starting
  BY <1>1, <1>2, StartingType
<1>3. CASE Working
  BY <1>1, <1>3, WorkingType
<1>4. CASE UNCHANGED procs
  BY <1>1, <1>4
  DEF procs, main, web, pools, containers, github, locks, ProcessorIInv, TypeOK
<1>5. CASE Restart
  <2>1. /\ live' \in [Installations -> Nat]
        /\ counted' \in [Installations -> 0..MaxRunners]
    BY <1>5, MaxRunnersType DEF Restart, FreshProcess, ProcessorIInv, TypeOK
  <2> QED
    BY <1>1, <1>5, <2>1 DEF Restart, FreshProcess, ProcessorIInv, TypeOK
<1> QED
  BY <1>2, <1>3, <1>4, <1>5, NextCases DEF vars

-----------------------------------------------------------------------------
(* Where the goroutines are, and the scale sets.                           *)

\* During the start no goroutine has left anything, and none is past its first call.
LEMMA StartingStage ==
  ASSUME ProcessorIInv, Starting PROVE StageInv' /\ OneScaleSet'
<1> USE DEF ProcessorIInv, TypeOK, StageInv, OneScaleSet, main, web, pools, containers,
            github, locks
<1>1. CASE LoadConfig \/ Preflight \/ DiscoveryFails
  BY <1>1 DEF LoadConfig, Preflight, DiscoveryFails
<1>2. CASE BeginDiscovery
  BY <1>2 DEF BeginDiscovery
<1>3. CASE Boot
  BY <1>3 DEF Boot
<1>4. CASE UNCHANGED procs
  BY <1>4 DEF procs
<1> QED
  BY <1>1, <1>2, <1>3, <1>4 DEF Starting

\* What one goroutine does, another's place and the rest of what it knows stay.
LEMMA InstallationStage ==
  ASSUME ProcessorIInv, NEW i \in Installations, Installation(i)
  PROVE  StageInv' /\ OneScaleSet'
<1> USE DEF ProcessorIInv, TypeOK, StageInv, OneScaleSet, main, web, pools, containers,
            github, locks, At, Up, Goto, Leave
<1>1. CASE CreateClient(i)
  BY <1>1 DEF CreateClient
<1>2. CASE GetScaleSet(i)
  BY <1>2 DEF GetScaleSet
<1>3. CASE CreateScaleSet(i)
  BY <1>3 DEF CreateScaleSet
<1>4. CASE OpenSession(i)
  BY <1>4 DEF OpenSession
<1>5. CASE RegisterMetrics(i)
  BY <1>5 DEF RegisterMetrics
<1>6. CASE RegisterWebBegin(i)
  BY <1>6 DEF RegisterWebBegin
<1>7. CASE RegisterWebEnd(i)
  BY <1>7 DEF RegisterWebEnd
<1>8. CASE AppendScaler(i)
  BY <1>8 DEF AppendScaler
<1>9. CASE NewListener(i)
  BY <1>9 DEF NewListener
<1>10. CASE CloseSession(i)
  BY <1>10 DEF CloseSession
<1> QED
  BY <1>1, <1>2, <1>3, <1>4, <1>5, <1>6, <1>7, <1>8, <1>9, <1>10 DEF Installation

\* A goroutine reaches a call only by way of those before it, and main drains
\* only when all have returned.
LEMMA WorkingStage ==
  ASSUME ProcessorIInv, Working PROVE StageInv' /\ OneScaleSet'
<1> USE DEF ProcessorIInv, TypeOK, StageInv, OneScaleSet, main, web, pools, containers,
            github, locks
<1>1. ASSUME NEW i \in Installations, Installation(i) PROVE StageInv' /\ OneScaleSet'
  BY <1>1, InstallationStage
<1>2. ASSUME NEW i \in Installations, BeginWork(i) \/ EndWork(i) \/ ScrapeScaler(i)
      PROVE  StageInv' /\ OneScaleSet'
  BY <1>2 DEF BeginWork, EndWork, ScrapeScaler, At
<1>3. ASSUME NEW i \in Installations, Launch(i) \/ Reap(i) \/ ContainerEnds(i)
      PROVE  StageInv' /\ OneScaleSet'
  BY <1>3 DEF Launch, Reap, ContainerEnds
<1>4. ASSUME NEW i \in Installations, RunReturns(i) PROVE StageInv' /\ OneScaleSet'
  BY <1>4 DEF RunReturns, Leave, Goto, At, Up
<1>5. ASSUME NEW i \in Installations, Drained(i) PROVE StageInv' /\ OneScaleSet'
  BY <1>5 DEF Drained
<1>6. CASE BeginScrape \/ StatusBegin \/ StatusEnd
  BY <1>6 DEF BeginScrape, StatusBegin, StatusEnd
<1>7. CASE WaitListeners \/ Expire \/ MainReturns
  BY <1>7 DEF WaitListeners, Expire, MainReturns
<1>8. CASE Stop \/ RaceDetected \/ Crash
  BY <1>8 DEF Stop, RaceDetected, Crash
<1> QED
  BY <1>1, <1>2, <1>3, <1>4, <1>5, <1>6, <1>7, <1>8 DEF Working

\* Each step keeps the stages and makes no second scale set.
LEMMA NextStage ==
  ASSUME ProcessorIInv, [Next]_vars PROVE StageInv' /\ OneScaleSet'
<1>1. CASE Starting
  BY <1>1, StartingStage
<1>2. CASE Working
  BY <1>2, WorkingStage
<1>3. CASE UNCHANGED procs
  BY <1>3
  DEF procs, main, web, pools, containers, github, locks, ProcessorIInv, StageInv,
      OneScaleSet
<1>4. CASE Restart
  BY <1>4 DEF Restart, FreshProcess, ProcessorIInv, StageInv, OneScaleSet
<1> QED
  BY <1>1, <1>2, <1>3, <1>4, NextCases DEF vars

-----------------------------------------------------------------------------
(* Containers and what is drained.                                         *)

\* A step that leaves the containers, the drain and main's place in it alone.
LEMMA PoolsStutter ==
  ASSUME ProcessorIInv, UNCHANGED <<live, counted, toDrain, expired>>,
         mpc' = mpc \/ mpc' \notin {"drain", "exited"},
         scalers \subseteq scalers', metricsReg \subseteq metricsReg',
         scalers' = scalers \/ mpc' \notin {"drain", "exited"}
  PROVE  DrainedInv' /\ ContainersInv'
BY DEF ProcessorIInv, DrainedInv, ContainersInv

\* The start has no pool to drain and no container.
LEMMA StartingPools ==
  ASSUME ProcessorIInv, Starting PROVE DrainedInv' /\ ContainersInv'
<1> USE DEF main, pools, containers
<1>1. CASE LoadConfig \/ Preflight \/ DiscoveryFails
  BY <1>1, PoolsStutter DEF LoadConfig, Preflight, DiscoveryFails
<1>2. CASE BeginDiscovery \/ Boot
  BY <1>2, PoolsStutter DEF BeginDiscovery, Boot
<1>3. CASE UNCHANGED procs
  BY <1>3, PoolsStutter DEF procs
<1> QED
  BY <1>1, <1>2, <1>3 DEF Starting

\* A goroutine that can still hand its scaler to main holds the drain up.
LEMMA InstallationPools ==
  ASSUME ProcessorIInv, NEW i \in Installations, Installation(i)
  PROVE  DrainedInv' /\ ContainersInv'
<1> USE DEF main, pools, containers
<1>1. CASE AppendScaler(i)
  <2>1. mpc \notin {"drain", "exited"}
    BY <1>1 DEF AppendScaler, At, ProcessorIInv, StageInv
  <2> QED
    BY <1>1, <2>1, PoolsStutter DEF AppendScaler
<1>2. CASE ~AppendScaler(i)
  <2>1. /\ UNCHANGED <<main, scalers, toDrain, live, counted>>
        /\ metricsReg \subseteq metricsReg'
    BY <1>2
    DEF Installation, CreateClient, GetScaleSet, CreateScaleSet, OpenSession,
        RegisterMetrics, RegisterWebBegin, RegisterWebEnd, NewListener, CloseSession
  <2> QED
    BY <2>1, PoolsStutter
<1> QED
  BY <1>1, <1>2

\* Only a listener whose scaler is in both lists launches, and a pool leaves the
\* drain only when it is empty or the timeout has passed.
LEMMA WorkingPools ==
  ASSUME ProcessorIInv, Working PROVE DrainedInv' /\ ContainersInv'
<1> USE DEF main, pools, containers
<1>1. ASSUME NEW i \in Installations, Installation(i)
      PROVE  DrainedInv' /\ ContainersInv'
  BY <1>1, InstallationPools
<1>2. ASSUME NEW i \in Installations,
             BeginWork(i) \/ EndWork(i) \/ ScrapeScaler(i) \/ RunReturns(i)
      PROVE  DrainedInv' /\ ContainersInv'
  BY <1>2, PoolsStutter DEF BeginWork, EndWork, ScrapeScaler, RunReturns
<1>3. ASSUME NEW i \in Installations, Launch(i) PROVE DrainedInv' /\ ContainersInv'
  <2>1. ipc[i] = "run" /\ mpc \notin {"drain", "exited"}
    BY <1>3 DEF Launch, ProcessorIInv, StageInv
  <2> QED
    BY <1>3, <2>1
    DEF Launch, ProcessorIInv, TypeOK, StageInv, DrainedInv, ContainersInv
<1>4. ASSUME NEW i \in Installations, Reap(i) \/ ContainerEnds(i)
      PROVE  DrainedInv' /\ ContainersInv'
  BY <1>4, MaxRunnersType
  DEF Reap, ContainerEnds, ProcessorIInv, TypeOK, DrainedInv, ContainersInv
<1>5. ASSUME NEW i \in Installations, Drained(i) PROVE DrainedInv' /\ ContainersInv'
  BY <1>5 DEF Drained, ProcessorIInv, TypeOK, DrainedInv, ContainersInv
<1>6. CASE BeginScrape \/ StatusBegin \/ StatusEnd
  BY <1>6, PoolsStutter DEF BeginScrape, StatusBegin, StatusEnd
<1>7. CASE WaitListeners \/ MainReturns
  BY <1>7 DEF WaitListeners, MainReturns, ProcessorIInv, DrainedInv, ContainersInv
<1>8. CASE Expire
  BY <1>8 DEF Expire, ProcessorIInv, DrainedInv, ContainersInv
<1>9. CASE Stop \/ RaceDetected \/ Crash
  BY <1>9, PoolsStutter DEF Stop, RaceDetected, Crash
<1> QED
  BY <1>1, <1>2, <1>3, <1>4, <1>5, <1>6, <1>7, <1>8, <1>9 DEF Working

\* Each step keeps what is known of the pools; a new process starts counting from
\* none when systemd has left nothing to count.
LEMMA NextPools ==
  ASSUME ProcessorIInv, [Next]_vars PROVE DrainedInv' /\ ContainersInv'
<1>1. CASE Starting
  BY <1>1, StartingPools
<1>2. CASE Working
  BY <1>2, WorkingPools
<1>3. CASE UNCHANGED procs
  BY <1>3, PoolsStutter DEF procs, main, pools, containers
<1>4. CASE Restart
  BY <1>4 DEF Restart, FreshProcess, KillMode, DrainedInv, ContainersInv
<1> QED
  BY <1>1, <1>2, <1>3, <1>4, NextCases DEF vars

-----------------------------------------------------------------------------
(* Theorems.                                                               *)

\* The strengthened invariant is inductive.
THEOREM Inductive == Spec => []ProcessorIInv
<1>1. ProcessorIInv /\ [Next]_vars => ProcessorIInv'
  BY NextDiscovery, NextType, NextStage, NextPools DEF ProcessorIInv
<1> QED
  BY <1>1, InitProcessor, PTL DEF Spec

\* The variables keep their types.
THEOREM TypeCorrect == Spec => []TypeOK
<1>1. ProcessorIInv => TypeOK
  BY DEF ProcessorIInv
<1> QED
  BY <1>1, Inductive, PTL

\* For all accounts, repositories and page sizes, a discovery that succeeds has
\* found all that the installations it read grant, unless access was revoked
\* while it read.
THEOREM DiscoveryWhole == Spec => []ListedWhole
<1>1. ProcessorIInv => ListedWhole
  BY FoundWhole DEF ProcessorIInv
<1> QED
  BY <1>1, Inductive, PTL

\* However often processes crash and answers are lost, an installation gets no
\* second scale set.
THEOREM AtMostOneScaleSet == Spec => []OneScaleSet
<1>1. ProcessorIInv => OneScaleSet
  BY DEF ProcessorIInv
<1> QED
  BY <1>1, Inductive, PTL

\* The containers that run never exceed the maximum, whichever process launched
\* them and however the earlier ones ended.
THEOREM CapacityKept == Spec => []CapacityAcrossRestarts
<1>1. ProcessorIInv => CapacityAcrossRestarts
  BY MaxRunnersType
  DEF ProcessorIInv, TypeOK, ContainersInv, CapacityAcrossRestarts
<1> QED
  BY <1>1, Inductive, PTL

\* A process that ends by itself leaves no session open and no container that it
\* did not drain.
THEOREM ExitsClean == Spec => []CleanExit
<1>1. ProcessorIInv => CleanExit
  <2> SUFFICES ASSUME ProcessorIInv, mpc = "exited"
               PROVE  (\A i \in Installations : live[i] = 0 \/ expired) /\ sessions = {}
    BY DEF CleanExit
  <2>1. ASSUME NEW i \in Installations PROVE live[i] = 0 \/ expired
    BY <2>1, MaxRunnersType DEF ProcessorIInv, TypeOK, DrainedInv, ContainersInv
  <2>2. sessions = {}
    BY DEF ProcessorIInv, TypeOK, StageInv
  <2> QED
    BY <2>1, <2>2
<1> QED
  BY <1>1, Inductive, PTL

\* A pool with containers is known to main and to the metrics.
THEOREM PoolsKnown == Spec => []LiveIsKnown
<1>1. ProcessorIInv => LiveIsKnown
  BY MaxRunnersType DEF ProcessorIInv, TypeOK, ContainersInv, LiveIsKnown
<1> QED
  BY <1>1, Inductive, PTL
=============================================================================
