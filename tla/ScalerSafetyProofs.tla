------------------------- MODULE ScalerSafetyProofs -------------------------
(***************************************************************************)
(* Proofs about Scaler: who owns a registration and a credential file,     *)
(* what killIdle kills, what Shutdown leaves behind, and that the scaler   *)
(* implements RunnerPool.                                                  *)
(***************************************************************************)
EXTENDS ScalerProofs

-----------------------------------------------------------------------------
(* The inductive invariant.                                                *)

\* startRunner works on at most one name; nothing of an earlier runner of that
\* name is left, and until cmd.Start has succeeded no process has it.
StartingInv ==
  /\ lpc \in {"poll", "jit", "stopped"} => starting = {}
  /\ \A r, s \in starting : r = s
  /\ \A r \in starting : proc[r] = "none" /\ mon[r] = "none"
  /\ lpc = "write" => starting \intersect jitFiles = {}

\* The name of a runner that is gone has no mark of it.
FreshInv == \A r \in Names : proc[r] = "none" => job[r] = "none" /\ killed[r] = "no"

\* A container that holds a job shows it, is within its assignment grace, or is
\* one that showed it too late.
PunctualInv ==
  \A r \in Alive : job[r] = "held" /\ r \in settled => r \in busy \union printed \union late

\* Once forceKillAll has gone over the map every container left is killed.
DrainInv ==
  /\ dpc = "sweepAll" => \A r \in Alive : r \in sweep \/ killed[r] # "no"
  /\ dpc \in {"waitCheck", "waitSelect", "clear", "done"} =>
       \A r \in Alive : killed[r] # "no"
  /\ dpc \in {"clear", "done"} /\ Alive # {} => expired
  /\ ~up => dpc = "done"

OwnedInv == RegistrationOwned /\ CredentialOwned

SafetyIInv ==
  /\ IInv
  /\ StartingInv /\ FreshInv /\ OwnedInv
  /\ PunctualInv /\ IdleKillSparesPunctualJobs
  /\ DrainInv

-----------------------------------------------------------------------------
(* The initial state.                                                      *)

\* The invariant holds when the processor has just been started.
LEMMA InitSafety == Init => SafetyIInv
<1> SUFFICES ASSUME Init PROVE SafetyIInv
  OBVIOUS
<1>1. IInv
  BY InitIInv
<1>2. StartingInv /\ FreshInv /\ OwnedInv
  BY DEF Init, RunnerInit, StartingInv, FreshInv, OwnedInv, RegistrationOwned,
         CredentialOwned
<1>3. PunctualInv /\ IdleKillSparesPunctualJobs /\ DrainInv
  BY DEF Init, RunnerInit, PunctualInv, IdleKillSparesPunctualJobs, DrainInv, Alive
<1> QED
  BY <1>1, <1>2, <1>3 DEF SafetyIInv

-----------------------------------------------------------------------------
(* startRunner's name, and names that are free.                            *)

\* What happens outside concerns only names with a process.
LEMMA ExternalStarting ==
  ASSUME SafetyIInv, External, UNCHANGED scalerVars PROVE StartingInv' /\ FreshInv'
<1> USE DEF scalerVars, SafetyIInv, IInv, TypeOK, RunnerTypeOK, StartingInv, FreshInv
<1>1. PICK r \in Names :
        AcceptJob(r) \/ ShowJob(r) \/ FinishJob(r) \/ Exit(r) \/ Settle(r)
  BY DEF External
<1>2. CASE AcceptJob(r)
  BY <1>2 DEF AcceptJob, Running
<1>3. CASE ShowJob(r)
  BY <1>3 DEF ShowJob
<1>4. CASE FinishJob(r)
  BY <1>4 DEF FinishJob, Running
<1>5. CASE Exit(r)
  BY <1>5 DEF Exit
<1>6. CASE Settle(r)
  BY <1>6 DEF Settle
<1> QED
  BY <1>1, <1>2, <1>3, <1>4, <1>5, <1>6

\* startRunner takes a free name, and gives it back or starts a process.
LEMMA ListenerStarting ==
  ASSUME SafetyIInv, Listener PROVE StartingInv' /\ FreshInv'
<1> USE DEF runnerVars, SafetyIInv, IInv, TypeOK, RunnerTypeOK, StartingInv, FreshInv
<1>1. CASE ListenerReturns \/ GenerateJitFails
  BY <1>1 DEF ListenerReturns, GenerateJitFails, Abort
<1>2. ASSUME NEW r \in Names, HandleJobStarted(r) \/ HandleJobCompleted(r)
      PROVE  StartingInv' /\ FreshInv'
  BY <1>2 DEF HandleJobStarted, HandleJobCompleted, scalerVars
<1>3. ASSUME NEW count \in 0..MaxJobs, HandleDesiredRunnerCount(count)
      PROVE  StartingInv' /\ FreshInv'
  BY <1>3 DEF HandleDesiredRunnerCount
<1>4. ASSUME NEW r \in Names, GenerateJit(r) PROVE StartingInv' /\ FreshInv'
  BY <1>4 DEF GenerateJit, Fresh
<1>5. ASSUME NEW r \in Names, GenerateJitLost(r) PROVE StartingInv' /\ FreshInv'
  BY <1>5 DEF GenerateJitLost, Abort
<1>6. ASSUME NEW r \in Names, LaunchWrites(r) PROVE StartingInv' /\ FreshInv'
  BY <1>6 DEF LaunchWrites
<1>7. ASSUME NEW r \in Names, LaunchStarts(r) PROVE StartingInv' /\ FreshInv'
  BY <1>7 DEF LaunchStarts, StartOK
<1>8. ASSUME NEW r \in Names, LaunchFails(r) PROVE StartingInv' /\ FreshInv'
  BY <1>8 DEF LaunchFails
<1>9. ASSUME NEW r \in Names, UndoRegistration(r) PROVE StartingInv' /\ FreshInv'
  BY <1>9 DEF UndoRegistration, Abort
<1> QED
  BY <1>1, <1>2, <1>3, <1>4, <1>5, <1>6, <1>7, <1>8, <1>9 DEF Listener

\* A monitor works on a name that startRunner has left.
LEMMA MonitorStarting ==
  ASSUME SafetyIInv, NEW r \in Names, Monitor(r) PROVE StartingInv' /\ FreshInv'
<1> USE DEF runnerVars, SafetyIInv, IInv, TypeOK, RunnerTypeOK, StartingInv, FreshInv
<1>1. CASE MonitorWait(r)
  BY <1>1 DEF MonitorWait, CleanupJIT
<1>2. CASE MonitorDelete(r)
  BY <1>2 DEF MonitorDelete
<1>3. CASE MonitorRemove(r)
  BY <1>3 DEF MonitorRemove, Forget
<1> QED
  BY <1>1, <1>2, <1>3 DEF Monitor

\* Shutdown touches nothing of a runner but its kill mark, and that only while
\* the runner lives.
LEMMA ShutdownFrame ==
  ASSUME SafetyIInv, Shutdown
  PROVE  /\ UNCHANGED <<proc, job, busy, printed, settled, jitFiles, spoilt,
                        registered, late, mon, lpc, starting, dropped>>
         /\ \A r \in Names : killed'[r] # killed[r] =>
              proc[r] = "alive" /\ killed[r] = "no" /\ killed'[r] # "no"
         /\ lpc = "stopped"
<1> USE DEF runnerVars, SafetyIInv, IInv, TypeOK, RunnerTypeOK
<1>1. CASE BeginShutdown \/ ClearRunners
  BY <1>1 DEF BeginShutdown, ClearRunners, CapacityIInv
<1>2. CASE KillIdle \/ ForceKillAll
  BY <1>2 DEF KillIdle, ForceKillAll, LockForSweep, CapacityIInv
<1>3. ASSUME NEW r \in Names, SweepIdle(r) \/ SweepAll(r)
      PROVE  /\ UNCHANGED <<proc, job, busy, printed, settled, jitFiles, spoilt,
                            registered, late, mon, lpc, starting, dropped>>
             /\ \A n \in Names : killed'[n] # killed[n] =>
                  proc[n] = "alive" /\ killed[n] = "no" /\ killed'[n] # "no"
             /\ lpc = "stopped"
  BY <1>3 DEF SweepIdle, SweepAll, Kill, Running, CapacityIInv
<1>4. CASE SweepEnds \/ CheckDrained \/ Tick \/ Deadline
  BY <1>4 DEF SweepEnds, CheckDrained, Tick, Deadline, Advance, CapacityIInv
<1>5. CASE WaitCheck \/ WaitTick \/ WaitDone
  BY <1>5 DEF WaitCheck, WaitTick, WaitDone, Advance, CapacityIInv
<1>6. CASE ProcessExits
  BY <1>6 DEF ProcessExits, CapacityIInv
<1> QED
  BY <1>1, <1>2, <1>3, <1>4, <1>5, <1>6 DEF Shutdown

\* The steps that are left: the signal, the clock, nothing.
LEMMA RestFrame ==
  ASSUME TerminationSignal \/ Expire \/ UNCHANGED vars
  PROVE  /\ UNCHANGED <<runnerVars, tracked, mon, lpc, need, starting, dpc, sweep,
                        up, dropped>>
         /\ expired => expired'
BY DEF TerminationSignal, Expire, vars, runnerVars, scalerVars

\* Each step keeps what is known of free names and of the one in progress.
LEMMA NextStarting ==
  ASSUME SafetyIInv, [Next]_vars PROVE StartingInv' /\ FreshInv'
<1>1. CASE External /\ UNCHANGED scalerVars
  BY <1>1, ExternalStarting
<1>2. CASE Listener
  BY <1>2, ListenerStarting
<1>3. ASSUME NEW r \in Names, Monitor(r) PROVE StartingInv' /\ FreshInv'
  BY <1>3, MonitorStarting
<1>4. CASE TerminationSignal \/ Expire \/ UNCHANGED vars
  BY <1>4, RestFrame DEF runnerVars, SafetyIInv, StartingInv, FreshInv
<1>5. CASE Shutdown
  BY <1>5, ShutdownFrame DEF SafetyIInv, StartingInv, FreshInv
<1> QED
  BY <1>1, <1>2, <1>3, <1>4, <1>5 DEF Next, Gone

-----------------------------------------------------------------------------
(* Who owns a registration and a credential file.                          *)

\* What happens outside neither registers a runner nor writes a file.
LEMMA ExternalOwned ==
  ASSUME SafetyIInv, External, UNCHANGED scalerVars PROVE OwnedInv'
<1> USE DEF scalerVars, SafetyIInv, OwnedInv, RegistrationOwned, CredentialOwned
<1>1. PICK r \in Names :
        AcceptJob(r) \/ ShowJob(r) \/ FinishJob(r) \/ Exit(r) \/ Settle(r)
  BY DEF External
<1>2. UNCHANGED <<jitFiles, spoilt>> /\ registered' \subseteq registered
  BY <1>1 DEF AcceptJob, ShowJob, FinishJob, Exit, Settle
<1> QED
  BY <1>2

\* On every path through startRunner the registration and the file pass to the
\* monitor, are taken back, or are those of a call that failed.
LEMMA ListenerOwned ==
  ASSUME SafetyIInv, Listener PROVE OwnedInv'
<1> USE DEF runnerVars, SafetyIInv, IInv, TypeOK, RunnerTypeOK, StartingInv, OwnedInv,
            RegistrationOwned, CredentialOwned
<1>1. CASE ListenerReturns \/ GenerateJitFails
  BY <1>1 DEF ListenerReturns, GenerateJitFails, Abort
<1>2. ASSUME NEW r \in Names, HandleJobStarted(r) \/ HandleJobCompleted(r)
      PROVE  OwnedInv'
  <2>1. UNCHANGED <<jitFiles, spoilt, registered, mon, lpc, starting, up, dropped>>
    BY <1>2 DEF HandleJobStarted, HandleJobCompleted, scalerVars
  <2> QED
    BY <2>1
<1>3. ASSUME NEW count \in 0..MaxJobs, HandleDesiredRunnerCount(count)
      PROVE  OwnedInv'
  BY <1>3 DEF HandleDesiredRunnerCount
<1>4. ASSUME NEW r \in Names, GenerateJit(r) PROVE OwnedInv'
  BY <1>4 DEF GenerateJit
<1>5. ASSUME NEW r \in Names, GenerateJitLost(r) PROVE OwnedInv'
  BY <1>5 DEF GenerateJitLost, Abort
<1>6. ASSUME NEW r \in Names, LaunchWrites(r) PROVE OwnedInv'
  BY <1>6 DEF LaunchWrites, WriteJITFile, WriteJITFileFails
<1>7. ASSUME NEW r \in Names, LaunchStarts(r) PROVE OwnedInv'
  BY <1>7 DEF LaunchStarts
<1>8. ASSUME NEW r \in Names, LaunchFails(r) PROVE OwnedInv'
  BY <1>8 DEF LaunchFails, CleanupJIT
<1>9. ASSUME NEW r \in Names, UndoRegistration(r) PROVE OwnedInv'
  BY <1>9 DEF UndoRegistration, RemoveRunnerRegistration, Abort
<1> QED
  BY <1>1, <1>2, <1>3, <1>4, <1>5, <1>6, <1>7, <1>8, <1>9 DEF Listener

\* A monitor is gone only when the registration and the file are, or a call failed.
LEMMA MonitorOwned ==
  ASSUME SafetyIInv, NEW r \in Names, Monitor(r) PROVE OwnedInv'
<1> USE DEF runnerVars, SafetyIInv, IInv, TypeOK, RunnerTypeOK, StartingInv, OwnedInv,
            RegistrationOwned, CredentialOwned
<1>1. CASE MonitorWait(r)
  BY <1>1 DEF MonitorWait, CleanupJIT
<1>2. CASE MonitorDelete(r)
  BY <1>2 DEF MonitorDelete
<1>3. CASE MonitorRemove(r)
  BY <1>3 DEF MonitorRemove, RemoveRunnerRegistration
<1> QED
  BY <1>1, <1>2, <1>3 DEF Monitor

\* Each step leaves an owner to every registration and file.
LEMMA NextOwned ==
  ASSUME SafetyIInv, [Next]_vars PROVE OwnedInv'
<1>1. CASE External /\ UNCHANGED scalerVars
  BY <1>1, ExternalOwned
<1>2. CASE Listener
  BY <1>2, ListenerOwned
<1>3. ASSUME NEW r \in Names, Monitor(r) PROVE OwnedInv'
  BY <1>3, MonitorOwned
<1>4. CASE TerminationSignal \/ Expire \/ UNCHANGED vars
  BY <1>4, RestFrame
  DEF runnerVars, SafetyIInv, OwnedInv, RegistrationOwned, CredentialOwned
<1>5. CASE Shutdown
  <2>1. up' => up
    BY <1>5
    DEF Shutdown, BeginShutdown, KillIdle, ForceKillAll, LockForSweep, SweepIdle,
        SweepAll, SweepEnds, CheckDrained, Tick, Deadline, WaitCheck, WaitTick,
        WaitDone, Advance, ClearRunners, ProcessExits
  <2> QED
    BY <1>5, <2>1, ShutdownFrame DEF SafetyIInv, OwnedInv, RegistrationOwned, CredentialOwned
<1> QED
  BY <1>1, <1>2, <1>3, <1>4, <1>5 DEF Next, Gone

-----------------------------------------------------------------------------
(* What killIdle sees of a container.                                      *)

\* A step that changes nothing killIdle looks at, launches nothing, and at most
\* kills containers that do not look idle.
LEMMA UnseenStep ==
  ASSUME SafetyIInv,
         UNCHANGED <<proc, job, busy, printed, settled, late>>,
         \A r \in Names : killed'[r] = "idle" => killed[r] = "idle"
  PROVE  PunctualInv' /\ IdleKillSparesPunctualJobs'
BY DEF SafetyIInv, PunctualInv, IdleKillSparesPunctualJobs, Alive

\* A job that shows only after the assignment grace makes its runner late.
LEMMA ExternalPunctual ==
  ASSUME SafetyIInv, External, UNCHANGED scalerVars
  PROVE  PunctualInv' /\ IdleKillSparesPunctualJobs'
<1> USE DEF SafetyIInv, IInv, TypeOK, RunnerTypeOK, PunctualInv, Alive,
            IdleKillSparesPunctualJobs
<1>1. PICK r \in Names :
        AcceptJob(r) \/ ShowJob(r) \/ FinishJob(r) \/ Exit(r) \/ Settle(r)
  BY DEF External
<1>2. CASE AcceptJob(r)
  BY <1>2 DEF AcceptJob, Running
<1>3. CASE ShowJob(r)
  BY <1>3 DEF ShowJob
<1>4. CASE FinishJob(r)
  BY <1>4 DEF FinishJob
<1>5. CASE Exit(r)
  BY <1>5 DEF Exit
<1>6. CASE Settle(r)
  BY <1>6 DEF Settle
<1> QED
  BY <1>1, <1>2, <1>3, <1>4, <1>5, <1>6

\* A JobCompleted resets the flag of a job that is over, and of no other.
LEMMA ListenerPunctual ==
  ASSUME SafetyIInv, Listener PROVE PunctualInv' /\ IdleKillSparesPunctualJobs'
<1>1. CASE ListenerReturns \/ GenerateJitFails
  BY <1>1, UnseenStep DEF ListenerReturns, GenerateJitFails, runnerVars
<1>2. ASSUME NEW r \in Names, HandleJobStarted(r) \/ HandleJobCompleted(r)
      PROVE  PunctualInv' /\ IdleKillSparesPunctualJobs'
  <2>1. /\ UNCHANGED <<proc, killed, job, printed, settled, late>>
        /\ busy' = busy \union {r} \/ (busy' = busy \ {r} /\ JobOver(r))
    BY <1>2 DEF HandleJobStarted, HandleJobCompleted, SetBusy
  <2> QED
    BY <2>1 DEF SafetyIInv, PunctualInv, IdleKillSparesPunctualJobs, Alive, JobOver
<1>3. ASSUME NEW count \in 0..MaxJobs, HandleDesiredRunnerCount(count)
      PROVE  PunctualInv' /\ IdleKillSparesPunctualJobs'
  BY <1>3, UnseenStep DEF HandleDesiredRunnerCount, runnerVars
<1>4. ASSUME NEW r \in Names,
             \/ GenerateJit(r) \/ GenerateJitLost(r) \/ LaunchWrites(r)
             \/ LaunchFails(r) \/ UndoRegistration(r)
      PROVE  PunctualInv' /\ IdleKillSparesPunctualJobs'
  BY <1>4, UnseenStep
  DEF GenerateJit, GenerateJitLost, LaunchWrites, LaunchFails, UndoRegistration
<1>5. ASSUME NEW r \in Names, LaunchStarts(r)
      PROVE  PunctualInv' /\ IdleKillSparesPunctualJobs'
  <2>1. job[r] = "none"
    BY <1>5 DEF LaunchStarts, SafetyIInv, StartingInv, FreshInv
  <2>2. /\ UNCHANGED <<killed, job, busy, printed, settled, late>>
        /\ Alive' = Alive \union {r}
    BY <1>5 DEF LaunchStarts, StartOK, SafetyIInv, IInv, TypeOK, RunnerTypeOK, Alive
  <2> QED
    BY <2>1, <2>2 DEF SafetyIInv, PunctualInv, IdleKillSparesPunctualJobs
<1> QED
  BY <1>1, <1>2, <1>3, <1>4, <1>5 DEF Listener

\* The marks of a runner go when it is in the map no more, and then it is dead.
LEMMA MonitorPunctual ==
  ASSUME SafetyIInv, NEW r \in Names, Monitor(r)
  PROVE  PunctualInv' /\ IdleKillSparesPunctualJobs'
<1> USE DEF SafetyIInv, IInv, TypeOK, RunnerTypeOK
<1>1. CASE MonitorWait(r)
  BY <1>1, UnseenStep DEF MonitorWait
<1>2. CASE MonitorDelete(r)
  <2>1. r \notin Alive
    BY <1>2 DEF MonitorDelete, CapacityIInv
  <2> QED
    BY <1>2, <2>1
    DEF MonitorDelete, Detach, PunctualInv, IdleKillSparesPunctualJobs, Alive
<1>3. CASE MonitorRemove(r)
  BY <1>3
  DEF MonitorRemove, Forget, PunctualInv, IdleKillSparesPunctualJobs, Alive
<1> QED
  BY <1>1, <1>2, <1>3 DEF Monitor

\* killIdle kills a settled runner without a sign of a job, which has none or is late.
LEMMA ShutdownPunctual ==
  ASSUME SafetyIInv, Shutdown PROVE PunctualInv' /\ IdleKillSparesPunctualJobs'
<1>1. ASSUME NEW r \in Names, SweepIdle(r)
      PROVE  PunctualInv' /\ IdleKillSparesPunctualJobs'
  <2>1. PunctualInv'
    BY <1>1 DEF SweepIdle, SafetyIInv, PunctualInv, Alive
  <2>2. ASSUME NEW n \in Names, killed'[n] = "idle", job'[n] = "held"
        PROVE  n \in late'
    <3>1. CASE killed[n] = "idle"
      BY <1>1, <2>2, <3>1 DEF SweepIdle, SafetyIInv, IdleKillSparesPunctualJobs
    <3>2. CASE killed[n] # "idle"
      <4>1. LooksIdle(n) /\ Running(n)
        BY <1>1, <2>2, <3>2
        DEF SweepIdle, Kill, SafetyIInv, IInv, TypeOK, RunnerTypeOK
      <4> QED
        BY <1>1, <2>2, <4>1
        DEF SweepIdle, LooksIdle, Running, IsBusy, RunningJob, Alive,
            AssignmentGraceElapsed, SafetyIInv, PunctualInv
    <3> QED
      BY <3>1, <3>2
  <2> QED
    BY <2>1, <2>2 DEF IdleKillSparesPunctualJobs
<1>2. ASSUME NEW r \in Names, SweepAll(r)
      PROVE  PunctualInv' /\ IdleKillSparesPunctualJobs'
  BY <1>2, UnseenStep
  DEF SweepAll, Kill, SafetyIInv, IInv, TypeOK, RunnerTypeOK
<1>3. CASE ~ \E r \in Names : SweepIdle(r) \/ SweepAll(r)
  <2>1. UNCHANGED killed
    BY <1>3
    DEF Shutdown, BeginShutdown, KillIdle, ForceKillAll, LockForSweep, SweepEnds,
        CheckDrained, Tick, Deadline, WaitCheck, WaitTick, WaitDone, Advance,
        ClearRunners, ProcessExits, runnerVars
  <2> QED
    BY <2>1, ShutdownFrame, UnseenStep
<1> QED
  BY <1>1, <1>2, <1>3

\* Each step keeps the signs of a job that showed in time.
LEMMA NextPunctual ==
  ASSUME SafetyIInv, [Next]_vars PROVE PunctualInv' /\ IdleKillSparesPunctualJobs'
<1>1. CASE External /\ UNCHANGED scalerVars
  BY <1>1, ExternalPunctual
<1>2. CASE Listener
  BY <1>2, ListenerPunctual
<1>3. ASSUME NEW r \in Names, Monitor(r)
      PROVE  PunctualInv' /\ IdleKillSparesPunctualJobs'
  BY <1>3, MonitorPunctual
<1>4. CASE TerminationSignal \/ Expire \/ UNCHANGED vars
  BY <1>4, RestFrame, UnseenStep DEF runnerVars
<1>5. CASE Shutdown
  BY <1>5, ShutdownPunctual
<1> QED
  BY <1>1, <1>2, <1>3, <1>4, <1>5 DEF Next, Gone

-----------------------------------------------------------------------------
(* What Shutdown leaves behind.                                            *)

\* Shutdown has begun and no listener launches: its steps apart, containers only
\* end, and the kill mark of one that lives stays.
LEMMA QuietStep ==
  ASSUME SafetyIInv, UNCHANGED <<dpc, sweep, up>>, expired => expired',
         Alive' \subseteq Alive,
         \A r \in Alive' : killed'[r] = killed[r]
  PROVE  DrainInv'
BY DEF SafetyIInv, DrainInv

\* The listener is gone when Shutdown begins.
LEMMA ListenerDrain ==
  ASSUME SafetyIInv, Listener PROVE DrainInv'
<1>1. dpc = "off"
  BY DEF SafetyIInv, IInv, CapacityIInv, Listener, ListenerReturns, HandleJobStarted,
         HandleJobCompleted, HandleDesiredRunnerCount, GenerateJitFails,
         GenerateJit, GenerateJitLost, LaunchWrites, LaunchStarts, LaunchFails,
         UndoRegistration
<1>2. UNCHANGED <<dpc, up>>
  BY DEF Listener, ListenerReturns, HandleJobStarted, HandleJobCompleted,
         HandleDesiredRunnerCount, GenerateJitFails, GenerateJit, GenerateJitLost,
         LaunchWrites, LaunchStarts, LaunchFails, UndoRegistration, scalerVars
<1> QED
  BY <1>1, <1>2 DEF SafetyIInv, DrainInv

\* The sweep reaches every container in the map, and all of them are in the map.
LEMMA ShutdownDrain ==
  ASSUME SafetyIInv, Shutdown PROVE DrainInv'
<1> USE DEF SafetyIInv, DrainInv
<1>1. Alive' = Alive /\ \A r \in Alive : killed[r] # "no" => killed'[r] # "no"
  BY ShutdownFrame DEF Alive
<1>2. dpc # "done" => Alive \subseteq tracked
  BY DEF IInv, CapacityIInv
<1>3. CASE BeginShutdown
  BY <1>1, <1>2, <1>3 DEF BeginShutdown
<1>4. CASE KillIdle \/ ForceKillAll
  BY <1>1, <1>2, <1>4 DEF KillIdle, ForceKillAll, LockForSweep
<1>5. ASSUME NEW r \in Names, SweepIdle(r) PROVE DrainInv'
  BY <1>1, <1>5 DEF SweepIdle
<1>6. ASSUME NEW r \in Names, SweepAll(r) PROVE DrainInv'
  <2>1. r \in Alive => killed'[r] # "no"
    BY <1>6 DEF SweepAll, Kill, Running, Alive, IInv, TypeOK, RunnerTypeOK
  <2> QED
    BY <1>1, <1>6, <2>1 DEF SweepAll
<1>7. CASE SweepEnds \/ CheckDrained \/ Tick \/ Deadline
  BY <1>1, <1>2, <1>7 DEF SweepEnds, CheckDrained, Tick, Deadline, Advance
<1>8. CASE WaitCheck \/ WaitTick \/ WaitDone
  BY <1>1, <1>2, <1>8 DEF WaitCheck, WaitTick, WaitDone, Advance
<1>9. CASE ClearRunners \/ ProcessExits
  BY <1>1, <1>9 DEF ClearRunners, ProcessExits
<1> QED
  BY <1>3, <1>4, <1>5, <1>6, <1>7, <1>8, <1>9 DEF Shutdown

\* Each step keeps what the sweeps have killed and what ended the wait.
LEMMA NextDrain ==
  ASSUME SafetyIInv, [Next]_vars PROVE DrainInv'
<1> USE DEF SafetyIInv, IInv, TypeOK, RunnerTypeOK
<1>1. CASE External /\ UNCHANGED scalerVars
  <2>1. Alive' \subseteq Alive /\ UNCHANGED killed
    BY <1>1 DEF External, AcceptJob, ShowJob, FinishJob, Exit, Settle, Alive
  <2> QED
    BY <1>1, <2>1, QuietStep DEF scalerVars
<1>2. CASE Listener
  BY <1>2, ListenerDrain
<1>3. ASSUME NEW r \in Names, Monitor(r) PROVE DrainInv'
  <2>1. /\ UNCHANGED <<dpc, sweep, up, expired>>
        /\ Alive' \subseteq Alive
        /\ \A n \in Alive' : killed'[n] = killed[n]
    BY <1>3 DEF Monitor, MonitorWait, MonitorDelete, MonitorRemove, Forget, Alive
  <2> QED
    BY <2>1, QuietStep
<1>4. CASE TerminationSignal \/ Expire \/ UNCHANGED vars
  <2>1. Alive' = Alive /\ UNCHANGED <<killed, dpc, sweep, up>> /\ (expired => expired')
    BY <1>4, RestFrame DEF runnerVars, Alive
  <2> QED
    BY <2>1, QuietStep
<1>5. CASE Shutdown
  BY <1>5, ShutdownDrain
<1> QED
  BY <1>1, <1>2, <1>3, <1>4, <1>5 DEF Next, Gone

-----------------------------------------------------------------------------
(* The scaler implements RunnerPool.                                       *)

\* What RunnerPool sees of the scaler.
Doomed == {r \in Alive : killed[r] # "no"}
Phase == IF ~up THEN "closed" ELSE IF dpc = "off" THEN "open" ELSE "draining"

\* A step that moves no container and no kill mark and stays in the phase.
LEMMA PoolStutters ==
  ASSUME Alive' = Alive, \A r \in Alive : killed'[r] = killed[r],
         UNCHANGED up, dpc = "off" <=> dpc' = "off"
  PROVE  UNCHANGED Pool!vars
BY DEF Pool!vars

\* An exit ends a container of the pool, everything else outside is a stutter.
LEMMA ExternalRefines ==
  ASSUME SafetyIInv, External, UNCHANGED scalerVars PROVE [Pool!Next]_(Pool!vars)
<1> USE DEF SafetyIInv, IInv, TypeOK, RunnerTypeOK, scalerVars
<1>1. PICK r \in Names :
        AcceptJob(r) \/ ShowJob(r) \/ FinishJob(r) \/ Exit(r) \/ Settle(r)
  BY DEF External
<1>2. CASE Exit(r)
  <2>1. /\ r \in Alive /\ Alive' = Alive \ {r}
        /\ UNCHANGED <<killed, up, dpc>>
    BY <1>2 DEF Exit, Alive
  <2>2. Pool!End(r)
    BY <2>1 DEF Pool!End
  <2> QED
    BY <2>2 DEF Pool!Next
<1>3. CASE AcceptJob(r) \/ ShowJob(r) \/ FinishJob(r) \/ Settle(r)
  <2>1. Alive' = Alive /\ UNCHANGED <<killed, up, dpc>>
    BY <1>3 DEF AcceptJob, ShowJob, FinishJob, Settle, Alive
  <2> QED
    BY <2>1, PoolStutters
<1> QED
  BY <1>1, <1>2, <1>3

\* cmd.Start is a launch of the open pool, below its maximum.
LEMMA LaunchRefines ==
  ASSUME SafetyIInv, NEW r \in Names, LaunchStarts(r) PROVE Pool!Launch(r)
<1> USE DEF SafetyIInv, IInv, TypeOK, RunnerTypeOK
<1>1. /\ r \notin Alive /\ killed[r] = "no" /\ Alive' = Alive \union {r}
      /\ UNCHANGED <<killed, up, dpc>>
  BY DEF LaunchStarts, StartOK, StartingInv, FreshInv, Alive
<1>2. dpc = "off" /\ up
  BY DEF LaunchStarts, CapacityIInv, DrainInv
<1>3. Cardinality(Alive) < MaxRunners
  <2>1. tracked \in SUBSET Names /\ Alive \in SUBSET tracked
    BY <1>2 DEF CapacityIInv
  <2>2. /\ Cardinality(Alive) <= Cardinality(tracked)
        /\ Cardinality(Alive) \in Nat /\ Cardinality(tracked) \in Nat
    BY <2>1, NamesCardinality
  <2>3. need > 0 /\ need \in Nat /\ Cardinality(tracked) + need <= MaxRunners
    BY DEF LaunchStarts, CapacityIInv, Launching
  <2> QED
    BY <2>2, <2>3, SizesAssumption
<1>4. Doomed' = Doomed
  BY <1>1 DEF Doomed
<1>5. Phase = "open" /\ Phase' = "open"
  BY <1>1, <1>2 DEF Phase
<1>6. Pool!Cardinality(Alive) < MaxRunners
  <2>1. Pool!Cardinality(Alive) = Cardinality(Alive)
    BY DEF Pool!Cardinality, Cardinality
  <2> QED
    BY <1>3, <2>1
<1> QED
  BY <1>1, <1>4, <1>5, <1>6 DEF Pool!Launch, Doomed, Phase

\* All else that the listener does is a stutter of the pool, its return before a
\* drain included.
LEMMA ListenerRefines ==
  ASSUME SafetyIInv, Listener PROVE [Pool!Next]_(Pool!vars)
<1>1. ASSUME NEW r \in Names, LaunchStarts(r) PROVE Pool!Next
  BY <1>1, LaunchRefines DEF Pool!Next
<1>2. CASE ~ \E r \in Names : LaunchStarts(r)
  <2>1. UNCHANGED <<proc, killed, up, dpc>>
    BY <1>2
    DEF Listener, ListenerReturns, HandleJobStarted, HandleJobCompleted,
        HandleDesiredRunnerCount, GenerateJitFails, GenerateJit, GenerateJitLost,
        LaunchWrites, LaunchFails, UndoRegistration, runnerVars, scalerVars
  <2> QED
    BY <2>1, PoolStutters DEF Alive
<1> QED
  BY <1>1, <1>2

\* The monitor works on a container that has ended.
LEMMA MonitorRefines ==
  ASSUME SafetyIInv, NEW r \in Names, Monitor(r) PROVE UNCHANGED Pool!vars
<1> USE DEF SafetyIInv, IInv, TypeOK, RunnerTypeOK
<1>1. r \notin Alive
  BY DEF Monitor, MonitorWait, MonitorDelete, MonitorRemove, CapacityIInv, Alive
<1>2. /\ Alive' = Alive /\ UNCHANGED <<up, dpc>>
      /\ \A n \in Alive : killed'[n] = killed[n]
  BY <1>1 DEF Monitor, MonitorWait, MonitorDelete, MonitorRemove, Forget, Alive
<1> QED
  BY <1>2, PoolStutters

\* A sweep dooms a container, or comes too late for it.
LEMMA SweepRefines ==
  ASSUME SafetyIInv, NEW r \in Names, SweepIdle(r) \/ SweepAll(r)
  PROVE  [Pool!Next]_(Pool!vars)
<1> USE DEF SafetyIInv, IInv, TypeOK, RunnerTypeOK
<1>1. /\ UNCHANGED <<up, dpc>> /\ Alive' = Alive
      /\ dpc \notin {"off", "done"}
  BY DEF SweepIdle, SweepAll, Alive
<1>2. CASE UNCHANGED killed
  BY <1>1, <1>2, PoolStutters
<1>3. CASE killed' # killed
  <2>1. PICK who \in {"idle", "forced"} : Running(r) /\ killed' = [killed EXCEPT ![r] = who]
    BY <1>3 DEF SweepIdle, SweepAll, Kill
  <2>2. r \in Alive /\ Doomed' = Doomed \union {r}
    BY <1>1, <2>1 DEF Running, Alive, Doomed
  <2>3. Phase = "draining" /\ Phase' = "draining"
    BY <1>1 DEF Phase, DrainInv
  <2>4. Pool!Doom(r)
    BY <1>1, <2>2, <2>3 DEF Pool!Doom, Doomed, Phase
  <2> QED
    BY <2>4 DEF Pool!Next
<1> QED
  BY <1>2, <1>3

\* Shutdown begins the drain, its kills doom, and the end of the process closes
\* the pool with nothing alive that was not killed.
LEMMA ShutdownRefines ==
  ASSUME SafetyIInv, Shutdown PROVE [Pool!Next]_(Pool!vars)
<1> USE DEF runnerVars
<1>1. CASE BeginShutdown
  <2>1. /\ dpc = "off" /\ dpc' # "off" /\ up
        /\ Alive' = Alive /\ UNCHANGED <<killed, up>>
    BY <1>1 DEF BeginShutdown, SafetyIInv, DrainInv, Alive
  <2>2. Pool!Drain
    BY <2>1 DEF Pool!Drain
  <2> QED
    BY <2>2 DEF Pool!Next
<1>2. ASSUME NEW r \in Names, SweepIdle(r) \/ SweepAll(r)
      PROVE  [Pool!Next]_(Pool!vars)
  BY <1>2, SweepRefines
<1>3. CASE ProcessExits
  <2>1. /\ dpc = "done" /\ up /\ ~up'
        /\ Alive' = Alive /\ UNCHANGED killed
    BY <1>3 DEF ProcessExits, Alive
  <2>2. \A r \in Alive : killed[r] # "no"
    BY <2>1 DEF SafetyIInv, DrainInv
  <2>3. Pool!Close
    BY <2>1, <2>2 DEF Pool!Close
  <2> QED
    BY <2>3 DEF Pool!Next
<1>4. CASE \/ KillIdle \/ ForceKillAll \/ SweepEnds \/ CheckDrained \/ Tick
           \/ Deadline \/ WaitCheck \/ WaitTick \/ WaitDone \/ ClearRunners
  <2>1. /\ dpc # "off" /\ dpc' # "off"
        /\ Alive' = Alive /\ UNCHANGED <<killed, up>>
    BY <1>4
    DEF KillIdle, ForceKillAll, LockForSweep, SweepEnds, CheckDrained, Tick, Deadline,
        WaitCheck, WaitTick, WaitDone, Advance, ClearRunners, Alive
  <2> QED
    BY <2>1, PoolStutters
<1> QED
  BY <1>1, <1>2, <1>3, <1>4 DEF Shutdown

\* Each step of the scaler is a step of the pool or a stutter.
LEMMA NextRefines ==
  ASSUME SafetyIInv, [Next]_vars PROVE [Pool!Next]_(Pool!vars)
<1>1. CASE External /\ UNCHANGED scalerVars
  BY <1>1, ExternalRefines
<1>2. CASE Listener
  BY <1>2, ListenerRefines
<1>3. ASSUME NEW r \in Names, Monitor(r) PROVE [Pool!Next]_(Pool!vars)
  BY <1>3, MonitorRefines
<1>4. CASE TerminationSignal \/ Expire \/ UNCHANGED vars
  <2>1. Alive' = Alive /\ UNCHANGED <<killed, up, dpc>>
    BY <1>4, RestFrame DEF runnerVars, Alive
  <2> QED
    BY <2>1, PoolStutters
<1>5. CASE Shutdown
  BY <1>5, ShutdownRefines
<1> QED
  BY <1>1, <1>2, <1>3, <1>4, <1>5 DEF Next, Gone

-----------------------------------------------------------------------------
(* Theorems.                                                               *)

\* The strengthened invariant is inductive.
THEOREM SafetyInductive == Spec => []SafetyIInv
<1>1. SafetyIInv /\ [Next]_vars => SafetyIInv'
  <2> SUFFICES ASSUME SafetyIInv, [Next]_vars PROVE SafetyIInv'
    OBVIOUS
  <2>1. IInv'
    BY NextType, NextCapacity DEF SafetyIInv, IInv
  <2> QED
    BY <2>1, NextStarting, NextOwned, NextPunctual, NextDrain DEF SafetyIInv
<1> QED
  BY <1>1, InitSafety, PTL DEF Spec

\* For all names, sizes and faults, a registration that GitHub keeps while the
\* processor runs is in the hands of startRunner, of a monitor, or was left by a
\* call that failed.
THEOREM Registrations == Spec => []RegistrationOwned
<1>1. SafetyIInv => RegistrationOwned
  BY DEF SafetyIInv, OwnedInv
<1> QED
  BY <1>1, SafetyInductive, PTL

\* For all names, sizes and faults, a credential file belongs to a launch or to a
\* container that is not reaped, or writeJITFile failed with it in place.
THEOREM Credentials == Spec => []CredentialOwned
<1>1. SafetyIInv => CredentialOwned
  BY DEF SafetyIInv, OwnedInv
<1> QED
  BY <1>1, SafetyInductive, PTL

\* killIdle spares every container with a job that showed within the assignment
\* grace, however the messages, the output and the sweeps interleave.
THEOREM PunctualJobsSpared == Spec => []IdleKillSparesPunctualJobs
<1>1. SafetyIInv => IdleKillSparesPunctualJobs
  BY DEF SafetyIInv
<1> QED
  BY <1>1, SafetyInductive, PTL

\* When Shutdown is over every container that lives was killed, and there is none
\* before the grace timeout.
THEOREM DrainAccounts == Spec => []DrainAccountsForAll
<1>1. SafetyIInv => DrainAccountsForAll
  BY DEF SafetyIInv, DrainInv, DrainAccountsForAll
<1> QED
  BY <1>1, SafetyInductive, PTL

\* Every behaviour of the scaler is one of the abstract pool: what Processor takes
\* for granted of each scaler.
THEOREM Refinement == Spec => ImplementsPool
<1>1. Init => Pool!Init
  BY DEF Init, RunnerInit, Alive, Pool!Init
<1>2. SafetyIInv /\ [Next]_vars => [Pool!Next]_(Pool!vars)
  BY NextRefines
<1> QED
  BY <1>1, <1>2, SafetyInductive, PTL DEF Spec, ImplementsPool, Pool!Spec
=============================================================================
