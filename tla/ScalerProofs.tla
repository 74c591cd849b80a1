---------------------------- MODULE ScalerProofs ----------------------------
(***************************************************************************)
(* Proofs about Scaler, for every set of names, all sizes and all faults.  *)
(***************************************************************************)
EXTENDS Scaler, FiniteSetTheorems, TLAPS

IInv == TypeOK /\ CapacityIInv

-----------------------------------------------------------------------------
(* Cardinalities of sets of names.                                         *)

\* A set of names is finite and a subset of it is not larger.
LEMMA NamesCardinality ==
  ASSUME NEW S \in SUBSET Names, NEW T \in SUBSET S
  PROVE  /\ IsFiniteSet(S) /\ IsFiniteSet(T)
         /\ Cardinality(S) \in Nat /\ Cardinality(T) \in Nat
         /\ Cardinality(T) <= Cardinality(S)
<1>1. IsFiniteSet(S)
  BY FS_Subset, NamesAssumption
<1>2. IsFiniteSet(T) /\ Cardinality(T) <= Cardinality(S)
  BY <1>1, FS_Subset
<1> QED
  BY <1>1, <1>2, FS_CardinalityType

\* One more name is one more element.
LEMMA NamesAdd ==
  ASSUME NEW S \in SUBSET Names, NEW r \in Names, r \notin S
  PROVE  Cardinality(S \union {r}) = Cardinality(S) + 1
<1>1. IsFiniteSet(S)
  BY FS_Subset, NamesAssumption
<1> QED
  BY <1>1, FS_AddElement

\* A step that starts no container keeps within the maximum.
LEMMA NoNewContainer ==
  ASSUME CapacityInv, Alive' \subseteq Alive
  PROVE  CapacityInv'
<1>1. Cardinality(Alive') <= Cardinality(Alive)
  <2>1. Alive \in SUBSET Names /\ Alive' \in SUBSET Alive
    BY DEF Alive
  <2> QED
    BY <2>1, NamesCardinality
<1>2. Cardinality(Alive) \in Nat /\ Cardinality(Alive') \in Nat
  <2>1. Alive \in SUBSET Names /\ Alive' \in SUBSET Alive
    BY DEF Alive
  <2> QED
    BY <2>1, NamesCardinality
<1> QED
  BY <1>1, <1>2, SizesAssumption DEF CapacityInv

-----------------------------------------------------------------------------
(* The initial state.                                                      *)

\* The invariant holds when the processor has just been started.
LEMMA InitIInv == Init => IInv
<1> SUFFICES ASSUME Init PROVE IInv
  OBVIOUS
<1>1. TypeOK
  BY DEF Init, RunnerInit, TypeOK, RunnerTypeOK
<1>2. Alive = {}
  BY DEF Init, RunnerInit, Alive
<1>3. CapacityIInv
  BY <1>2 DEF Init, CapacityIInv, CapacityInv, Launching
<1> QED
  BY <1>1, <1>3 DEF IInv

-----------------------------------------------------------------------------
(* Every step keeps the types.                                             *)

\* The number of iterations HandleDesiredRunnerCount computes is an integer.
LEMMA ShortfallType ==
  ASSUME TypeOK, NEW count \in 0..MaxJobs
  PROVE  Shortfall(count) \in Int
<1>1. Cardinality(tracked) \in Nat
  BY NamesCardinality DEF TypeOK
<1> QED
  BY <1>1, SizesAssumption DEF Shortfall, Smaller

\* Jobs, output, exits and the passing of 30 seconds keep the types.
LEMMA ExternalType ==
  ASSUME TypeOK, External, UNCHANGED scalerVars PROVE TypeOK'
<1> USE DEF TypeOK, RunnerTypeOK, scalerVars
<1>1. PICK r \in Names :
        AcceptJob(r) \/ ShowJob(r) \/ FinishJob(r) \/ Exit(r) \/ Settle(r)
  BY DEF External
<1>2. CASE AcceptJob(r)
  BY <1>2 DEF AcceptJob
<1>3. CASE ShowJob(r)
  BY <1>3 DEF ShowJob
<1>4. CASE FinishJob(r)
  BY <1>4 DEF FinishJob
<1>5. CASE Exit(r)
  BY <1>5 DEF Exit
<1>6. CASE Settle(r)
  BY <1>6 DEF Settle
<1> QED
  BY <1>1, <1>2, <1>3, <1>4, <1>5, <1>6

\* The listener's handlers and startRunner keep the types.
LEMMA ListenerType ==
  ASSUME IInv, Listener PROVE TypeOK'
<1> USE DEF IInv, TypeOK, RunnerTypeOK, runnerVars
<1>1. CASE ListenerReturns
  BY <1>1 DEF ListenerReturns
<1>2. ASSUME NEW r \in Names, HandleJobStarted(r) PROVE TypeOK'
  BY <1>2 DEF HandleJobStarted, SetBusy, scalerVars
<1>3. ASSUME NEW r \in Names, HandleJobCompleted(r) PROVE TypeOK'
  BY <1>3 DEF HandleJobCompleted, SetBusy, scalerVars
<1>4. ASSUME NEW count \in 0..MaxJobs, HandleDesiredRunnerCount(count)
      PROVE  TypeOK'
  <2>1. need' \in Nat
    BY <1>4, ShortfallType DEF HandleDesiredRunnerCount
  <2> QED
    BY <1>4, <2>1 DEF HandleDesiredRunnerCount
<1>5. CASE GenerateJitFails
  BY <1>5 DEF GenerateJitFails, Abort
<1>6. ASSUME NEW r \in Names, GenerateJit(r) PROVE TypeOK'
  BY <1>6 DEF GenerateJit
<1>7. ASSUME NEW r \in Names, GenerateJitLost(r) PROVE TypeOK'
  BY <1>7 DEF GenerateJitLost, Abort
<1>8. ASSUME NEW r \in Names, LaunchWrites(r) PROVE TypeOK'
  BY <1>8 DEF LaunchWrites, WriteJITFile, WriteJITFileFails
<1>9. ASSUME NEW r \in Names, LaunchStarts(r) PROVE TypeOK'
  <2>1. need > 0
    BY <1>9 DEF LaunchStarts, CapacityIInv, Launching
  <2> QED
    BY <1>9, <2>1 DEF LaunchStarts, StartOK
<1>10. ASSUME NEW r \in Names, LaunchFails(r) PROVE TypeOK'
  BY <1>10 DEF LaunchFails, CleanupJIT
<1>11. ASSUME NEW r \in Names, UndoRegistration(r) PROVE TypeOK'
  BY <1>11 DEF UndoRegistration, RemoveRunnerRegistration, Abort
<1> QED
  BY <1>1, <1>2, <1>3, <1>4, <1>5, <1>6, <1>7, <1>8, <1>9, <1>10, <1>11
  DEF Listener

\* A monitor keeps the types.
LEMMA MonitorType ==
  ASSUME TypeOK, NEW r \in Names, Monitor(r) PROVE TypeOK'
<1> USE DEF TypeOK, RunnerTypeOK, runnerVars
<1>1. CASE MonitorWait(r)
  BY <1>1 DEF MonitorWait, CleanupJIT
<1>2. CASE MonitorDelete(r)
  BY <1>2 DEF MonitorDelete, Detach
<1>3. CASE MonitorRemove(r)
  BY <1>3 DEF MonitorRemove, RemoveRunnerRegistration, Forget
<1> QED
  BY <1>1, <1>2, <1>3 DEF Monitor

\* Shutdown keeps the types.
LEMMA ShutdownType ==
  ASSUME TypeOK, Shutdown PROVE TypeOK'
<1> USE DEF TypeOK, RunnerTypeOK, runnerVars
<1>1. CASE BeginShutdown
  BY <1>1 DEF BeginShutdown
<1>2. CASE KillIdle \/ ForceKillAll
  BY <1>2 DEF KillIdle, ForceKillAll, LockForSweep
<1>3. ASSUME NEW r \in Names, SweepIdle(r) PROVE TypeOK'
  BY <1>3 DEF SweepIdle, Kill
<1>4. ASSUME NEW r \in Names, SweepAll(r) PROVE TypeOK'
  BY <1>4 DEF SweepAll, Kill
<1>5. CASE SweepEnds \/ CheckDrained \/ Tick \/ Deadline
  BY <1>5 DEF SweepEnds, CheckDrained, Tick, Deadline, Advance
<1>6. CASE WaitCheck \/ WaitTick \/ WaitDone
  BY <1>6 DEF WaitCheck, WaitTick, WaitDone, Advance
<1>7. CASE ClearRunners \/ ProcessExits
  BY <1>7 DEF ClearRunners, ProcessExits
<1> QED
  BY <1>1, <1>2, <1>3, <1>4, <1>5, <1>6, <1>7 DEF Shutdown

\* Each step keeps the types.
LEMMA NextType ==
  ASSUME IInv, [Next]_vars PROVE TypeOK'
<1>1. CASE External /\ UNCHANGED scalerVars
  BY <1>1, ExternalType DEF IInv
<1>2. CASE Listener
  BY <1>2, ListenerType
<1>3. ASSUME NEW r \in Names, Monitor(r) PROVE TypeOK'
  BY <1>3, MonitorType DEF IInv
<1>4. CASE TerminationSignal \/ Expire
  BY <1>4 DEF TerminationSignal, Expire, IInv, TypeOK, RunnerTypeOK, runnerVars
<1>5. CASE Shutdown
  BY <1>5, ShutdownType DEF IInv
<1>6. CASE UNCHANGED vars
  BY <1>6 DEF IInv, TypeOK, RunnerTypeOK, vars, runnerVars, scalerVars
<1> QED
  BY <1>1, <1>2, <1>3, <1>4, <1>5, <1>6 DEF Next, Gone
-----------------------------------------------------------------------------
(* Every step keeps the capacity invariant.                                *)

\* What happens outside launches nothing.
LEMMA ExternalCapacity ==
  ASSUME IInv, External, UNCHANGED scalerVars PROVE CapacityIInv'
<1> USE DEF scalerVars
<1>1. Alive' \subseteq Alive
  BY DEF External, AcceptJob, ShowJob, FinishJob, Exit, Settle, Alive, IInv,
         TypeOK, RunnerTypeOK
<1>2. CapacityInv'
  BY <1>1, NoNewContainer DEF IInv, CapacityIInv
<1> QED
  BY <1>1, <1>2 DEF IInv, CapacityIInv, Launching

\* The steps of the listener that leave the containers and the map alone.
LEMMA ListenerIdleCapacity ==
  ASSUME IInv, UNCHANGED <<proc, tracked, mon, dpc>>, dpc = "off" \/ lpc' = "stopped",
         \/ Launching' /\ need' = need /\ Launching
         \/ ~Launching' /\ need' = 0,
         starting' \subseteq starting
  PROVE  CapacityIInv'
<1>1. Alive' = Alive
  BY DEF Alive
<1>2. CapacityInv'
  BY <1>1, NoNewContainer DEF IInv, CapacityIInv
<1>3. Cardinality(tracked) \in Nat /\ need \in Nat
  BY NamesCardinality DEF IInv, TypeOK
<1>4. tracked' # {} \/ Launching' => Cardinality(tracked') + need' <= MaxRunners
  BY <1>3, SizesAssumption DEF IInv, CapacityIInv
<1>5. Launching' <=> need' > 0
  BY DEF IInv, CapacityIInv
<1> QED
  BY <1>1, <1>2, <1>4, <1>5 DEF IInv, CapacityIInv

\* HandleDesiredRunnerCount asks for no more than what is left of the maximum.
LEMMA DesiredCapacity ==
  ASSUME IInv, NEW count \in 0..MaxJobs, HandleDesiredRunnerCount(count)
  PROVE  CapacityIInv'
<1> USE DEF HandleDesiredRunnerCount, runnerVars
<1>1. Cardinality(tracked) \in Nat
  BY NamesCardinality DEF IInv, TypeOK
<1>2. Cardinality(tracked) + Shortfall(count) <= MaxRunners
  BY <1>1, SizesAssumption DEF Shortfall, Smaller
<1>3. Alive' = Alive
  BY DEF Alive
<1>4. CapacityInv'
  BY <1>3, NoNewContainer DEF IInv, CapacityIInv
<1>5. Launching' /\ need' > 0
  BY DEF Launching
<1>6. dpc = "off"
  BY DEF IInv, CapacityIInv
<1> QED
  BY <1>2, <1>3, <1>4, <1>5, <1>6 DEF IInv, CapacityIInv

\* A fresh name is in no one's hands.
LEMMA GenerateCapacity ==
  ASSUME IInv, NEW r \in Names, GenerateJit(r) PROVE CapacityIInv'
<1> USE DEF GenerateJit
<1>1. Alive' = Alive
  BY DEF Alive
<1>2. CapacityInv'
  BY <1>1, NoNewContainer DEF IInv, CapacityIInv
<1>3. r \notin Alive /\ r \notin tracked
  BY DEF Fresh, Alive, IInv, CapacityIInv
<1>4. Launching /\ Launching'
  BY DEF Launching
<1> QED
  BY <1>1, <1>2, <1>3, <1>4 DEF IInv, CapacityIInv

\* The new container is the one name that the map gains.
LEMMA LaunchCapacity ==
  ASSUME IInv, NEW r \in Names, LaunchStarts(r) PROVE CapacityIInv'
<1> USE DEF LaunchStarts, StartOK
<1>1. /\ Alive' = Alive \union {r}
      /\ mon' = [mon EXCEPT ![r] = "waiting"]
      /\ tracked' = tracked \union {r}
  BY DEF Alive, IInv, TypeOK, RunnerTypeOK
<1>2. dpc = "off" /\ dpc' = "off"
  BY DEF IInv, CapacityIInv
<1>3. Alive' \subseteq tracked'
  BY <1>1, <1>2 DEF IInv, CapacityIInv
<1>4. /\ Cardinality(tracked') = Cardinality(tracked) + 1
      /\ Cardinality(tracked) \in Nat
  BY <1>1, NamesAdd, NamesCardinality DEF IInv, TypeOK, CapacityIInv
<1>5. need \in Nat /\ need > 0 /\ Cardinality(tracked) + need <= MaxRunners
  BY DEF IInv, TypeOK, CapacityIInv, Launching
<1>6. Cardinality(tracked') + need' <= MaxRunners
  BY <1>4, <1>5, SizesAssumption
<1>7. CapacityInv'
  <2>1. tracked' \in SUBSET Names
    BY <1>1 DEF IInv, TypeOK
  <2>2. /\ Cardinality(Alive') <= Cardinality(tracked')
        /\ Cardinality(Alive') \in Nat /\ Cardinality(tracked') \in Nat
    BY <2>1, <1>3, NamesCardinality
  <2> QED
    BY <2>2, <1>5, <1>6, SizesAssumption DEF CapacityInv
<1>8. Launching' <=> need' > 0
  BY <1>5 DEF Launching
<1>9. /\ \A n \in Alive' : mon'[n] = "waiting"
      /\ \A n \in tracked' : mon'[n] \in {"waiting", "returned"}
  BY <1>1 DEF IInv, TypeOK, CapacityIInv
<1> QED
  BY <1>2, <1>3, <1>6, <1>7, <1>8, <1>9 DEF CapacityIInv

\* The listener launches no more than it counted free, while Shutdown has not begun.
LEMMA ListenerCapacity ==
  ASSUME IInv, Listener PROVE CapacityIInv'
<1> USE DEF runnerVars, scalerVars, Abort
<1>a. /\ Launching => dpc = "off"
      /\ ~Launching => need = 0
      /\ lpc = "poll" => dpc = "off"
  BY DEF Launching, IInv, TypeOK, CapacityIInv
<1>1. CASE ListenerReturns
  BY <1>1, <1>a, ListenerIdleCapacity DEF ListenerReturns, Launching
<1>2. ASSUME NEW r \in Names, HandleJobStarted(r) \/ HandleJobCompleted(r)
      PROVE  CapacityIInv'
  BY <1>2, <1>a, ListenerIdleCapacity
  DEF HandleJobStarted, HandleJobCompleted, Launching
<1>3. ASSUME NEW count \in 0..MaxJobs, HandleDesiredRunnerCount(count)
      PROVE  CapacityIInv'
  BY <1>3, DesiredCapacity
<1>4. CASE GenerateJitFails
  BY <1>4, <1>a, ListenerIdleCapacity DEF GenerateJitFails, Launching
<1>5. ASSUME NEW r \in Names, GenerateJit(r) PROVE CapacityIInv'
  BY <1>5, GenerateCapacity
<1>6. ASSUME NEW r \in Names, GenerateJitLost(r) PROVE CapacityIInv'
  BY <1>6, <1>a, ListenerIdleCapacity DEF GenerateJitLost, Launching
<1>7. ASSUME NEW r \in Names, LaunchWrites(r) PROVE CapacityIInv'
  BY <1>7, <1>a, ListenerIdleCapacity DEF LaunchWrites, Launching
<1>8. ASSUME NEW r \in Names, LaunchStarts(r) PROVE CapacityIInv'
  BY <1>8, LaunchCapacity
<1>9. ASSUME NEW r \in Names, LaunchFails(r) PROVE CapacityIInv'
  BY <1>9, <1>a, ListenerIdleCapacity DEF LaunchFails, Launching
<1>10. ASSUME NEW r \in Names, UndoRegistration(r) PROVE CapacityIInv'
  BY <1>10, <1>a, ListenerIdleCapacity DEF UndoRegistration, Launching
<1> QED
  BY <1>1, <1>2, <1>3, <1>4, <1>5, <1>6, <1>7, <1>8, <1>9, <1>10 DEF Listener

\* A monitor takes only a runner that has exited out of the map.
LEMMA MonitorCapacity ==
  ASSUME IInv, NEW r \in Names, Monitor(r) PROVE CapacityIInv'
<1> USE DEF runnerVars
<1>1. r \notin Alive' /\ Alive' \subseteq Alive
  BY DEF Monitor, MonitorWait, MonitorDelete, MonitorRemove, Detach, Forget, Alive,
         IInv, TypeOK, RunnerTypeOK, CapacityIInv
<1>2. CapacityInv'
  BY <1>1, NoNewContainer DEF IInv, CapacityIInv
<1>3. CASE MonitorWait(r)
  BY <1>1, <1>2, <1>3
  DEF MonitorWait, IInv, TypeOK, CapacityIInv, Launching
<1>4. CASE MonitorDelete(r)
  <2> USE <1>4 DEF MonitorDelete, Detach
  <2>1. /\ Cardinality(tracked') <= Cardinality(tracked)
        /\ Cardinality(tracked') \in Nat /\ Cardinality(tracked) \in Nat
    BY NamesCardinality DEF IInv, TypeOK
  <2>2. ~Launching /\ ~Launching' /\ need \in Nat
    BY DEF Locked, Launching, IInv, TypeOK
  <2>3. tracked' # {} => Cardinality(tracked') + need' <= MaxRunners
    BY <2>1, <2>2, SizesAssumption DEF IInv, CapacityIInv
  <2>4. \A n \in tracked' : mon'[n] \in {"waiting", "returned"}
    BY DEF IInv, TypeOK, CapacityIInv
  <2> QED
    BY <1>1, <1>2, <2>2, <2>3, <2>4 DEF IInv, TypeOK, CapacityIInv
<1>5. CASE MonitorRemove(r)
  BY <1>1, <1>2, <1>5
  DEF MonitorRemove, IInv, TypeOK, CapacityIInv, Launching
<1> QED
  BY <1>3, <1>4, <1>5 DEF Monitor

\* The steps of Shutdown start nothing, and only the last one empties the map.
LEMMA ShutdownCapacity ==
  ASSUME IInv, Shutdown PROVE CapacityIInv'
<1> USE DEF runnerVars
<1> DEFINE Frame == /\ UNCHANGED <<proc, mon, lpc, need, starting>>
                    /\ dpc' # "off" => lpc = "stopped"
                    /\ \/ tracked' = tracked /\ (dpc' # "done" => dpc # "done")
                       \/ tracked' = {} /\ dpc' = "done"
<1>1. Frame
  <2>1. CASE BeginShutdown \/ ClearRunners \/ ProcessExits
    BY <2>1 DEF BeginShutdown, ClearRunners, ProcessExits, IInv, CapacityIInv
  <2>2. CASE KillIdle \/ ForceKillAll
    BY <2>2 DEF KillIdle, ForceKillAll, LockForSweep, IInv, CapacityIInv
  <2>3. ASSUME NEW r \in Names, SweepIdle(r) \/ SweepAll(r) PROVE Frame
    BY <2>3 DEF SweepIdle, SweepAll, IInv, CapacityIInv
  <2>4. CASE SweepEnds \/ CheckDrained \/ Tick \/ Deadline
    BY <2>4
    DEF SweepEnds, CheckDrained, Tick, Deadline, Advance, IInv, CapacityIInv
  <2>5. CASE WaitCheck \/ WaitTick \/ WaitDone
    BY <2>5 DEF WaitCheck, WaitTick, WaitDone, Advance, IInv, CapacityIInv
  <2> QED
    BY <2>1, <2>2, <2>3, <2>4, <2>5 DEF Shutdown
<1>2. Alive' = Alive
  BY <1>1 DEF Alive
<1>3. CapacityInv'
  BY <1>2, NoNewContainer DEF IInv, CapacityIInv
<1>4. Launching' <=> Launching
  BY <1>1 DEF Launching
<1>5. lpc = "stopped" => ~Launching
  BY DEF Launching
<1> QED
  BY <1>1, <1>2, <1>3, <1>4, <1>5 DEF IInv, CapacityIInv

\* Each step keeps the capacity invariant.
LEMMA NextCapacity ==
  ASSUME IInv, [Next]_vars PROVE CapacityIInv'
<1>1. CASE External /\ UNCHANGED scalerVars
  BY <1>1, ExternalCapacity
<1>2. CASE Listener
  BY <1>2, ListenerCapacity
<1>3. ASSUME NEW r \in Names, Monitor(r) PROVE CapacityIInv'
  BY <1>3, MonitorCapacity
<1>4. CASE TerminationSignal \/ Expire \/ UNCHANGED vars
  <2>1. UNCHANGED <<proc, tracked, mon, lpc, need, starting, dpc>>
    BY <1>4 DEF TerminationSignal, Expire, vars, runnerVars, scalerVars
  <2>2. Alive' = Alive
    BY <2>1 DEF Alive
  <2>3. CapacityInv'
    BY <2>2, NoNewContainer DEF IInv, CapacityIInv
  <2> QED
    BY <2>1, <2>2, <2>3 DEF IInv, CapacityIInv, Launching
<1>5. CASE Shutdown
  BY <1>5, ShutdownCapacity
<1> QED
  BY <1>1, <1>2, <1>3, <1>4, <1>5 DEF Next, Gone

-----------------------------------------------------------------------------
(* Theorems.                                                               *)

\* The strengthened invariant is inductive.
THEOREM Inductive == Spec => []IInv
<1>1. IInv /\ [Next]_vars => IInv'
  BY NextType, NextCapacity DEF IInv
<1> QED
  BY <1>1, InitIInv, PTL DEF Spec

\* The variables keep their types.
THEOREM TypeCorrect == Spec => []TypeOK
<1>1. IInv => TypeOK
  BY DEF IInv
<1> QED
  BY <1>1, Inductive, PTL

\* The containers in the map and the launches that HandleDesiredRunnerCount has
\* still to make stay within max_runners together, and whatever is alive is in
\* the map until Shutdown is over.
THEOREM CapacityStrengthened == Spec => []CapacityIInv
<1>1. IInv => CapacityIInv
  BY DEF IInv
<1> QED
  BY <1>1, Inductive, PTL

\* For all names, sizes and faults, there are never more containers than
\* max_runners, although only those in the map are counted and Shutdown clears
\* the map while containers live.
THEOREM Capacity == Spec => []CapacityInv
<1>1. IInv => CapacityInv
  BY DEF IInv, CapacityIInv
<1> QED
  BY <1>1, Inductive, PTL
=============================================================================
