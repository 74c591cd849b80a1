------------------------------- MODULE Scaler -------------------------------
(***************************************************************************)
(* The scaler of one installation: internal/scaler/scaler.go, with the     *)
(* part of main.go that stops it.                                          *)
(*                                                                         *)
(* Three kinds of goroutine share the map of tracked runners under s.mu:   *)
(*   - the listener's, which calls HandleJobStarted, HandleJobCompleted    *)
(*     and HandleDesiredRunnerCount one after the other (lpc);             *)
(*   - one monitor per launched runner, which waits for its exit, deletes  *)
(*     it from the map and removes its registration (mon);                 *)
(*   - Shutdown's, started when every listener has returned (dpc).         *)
(* The containers and GitHub take steps of their own (Runner!External).    *)
(*                                                                         *)
(* s.mu is not a variable: Locked is the set of control points at which a  *)
(* goroutine holds it across a step, and a critical section that needs     *)
(* no call is one action guarded by ~Locked.                               *)
(***************************************************************************)
EXTENDS Runner

CONSTANTS
  MaxRunners,  \* runner.max_runners, after ResolveMaxRunners
  MinRunners,  \* runner.min_runners: runners kept beyond the assigned jobs
  MaxJobs      \* bound on the count HandleDesiredRunnerCount is called with

ASSUME SizesAssumption ==
  MaxRunners \in Int /\ MinRunners \in Int /\ MaxJobs \in Nat

VARIABLES
  tracked,     \* the keys of s.runners
  mon,         \* the monitor goroutine of each runner
  lpc,         \* the listener goroutine
  need,        \* the iterations left of HandleDesiredRunnerCount's loop
  starting,    \* the runner that startRunner is working on
  dpc,         \* Shutdown's goroutine; "off" before every listener returned
  sweep,       \* the runners a loop over s.runners has not looked at yet
  expired,     \* the shutdown grace timeout has passed
  term,        \* SIGINT or SIGTERM was received
  up,          \* main has not returned
  dropped      \* history: registrations GitHub kept after a failed call

scalerVars ==
  <<tracked, mon, lpc, need, starting, dpc, sweep, expired, term, up, dropped>>
vars == <<runnerVars, scalerVars>>

\* The listener holds s.mu in HandleDesiredRunnerCount, and Shutdown in the
\* loops of killIdle and forceKillAll.
Launching == lpc \in {"jit", "write", "start", "undo"}
Locked == Launching \/ dpc \in {"sweepIdle", "sweepAll"}

TypeOK ==
  /\ RunnerTypeOK
  /\ tracked \subseteq Names
  /\ mon \in [Names -> {"none", "waiting", "returned", "removing"}]
  /\ lpc \in {"poll", "jit", "write", "start", "undo", "stopped"}
  /\ need \in Nat
  /\ starting \subseteq Names
  /\ dpc \in {"off", "killIdle", "sweepIdle", "check", "select", "forceKill",
              "sweepAll", "waitCheck", "waitSelect", "clear", "done"}
  /\ sweep \subseteq Names
  /\ expired \in BOOLEAN
  /\ term \in BOOLEAN
  /\ up \in BOOLEAN
  /\ dropped \subseteq Names

Init ==
  /\ RunnerInit
  /\ tracked = {}
  /\ mon = [r \in Names |-> "none"]
  /\ lpc = "poll"
  /\ need = 0
  /\ starting = {}
  /\ dpc = "off"
  /\ sweep = {}
  /\ expired = FALSE
  /\ term = FALSE
  /\ up = TRUE
  /\ dropped = {}

\* A name for a new runner: nothing is left of the runner that had it.
Fresh == {r \in Names : /\ proc[r] = "none"
                        /\ mon[r] = "none"
                        /\ r \notin starting \union registered \union jitFiles}

-----------------------------------------------------------------------------
(* The listener's goroutine.  The listener itself is a library: it polls   *)
(* the message session, calls the handlers in turn, and returns when its   *)
(* context is cancelled or when a call fails.                              *)

ListenerReturns ==
  /\ lpc = "poll"
  /\ term \/ "listener" \in Faults
  /\ lpc' = "stopped"
  /\ UNCHANGED <<runnerVars, tracked, mon, need, starting, dpc, sweep, expired,
                 term, up, dropped>>

\* GitHub has seen the job of r end, or its runner vanish.
JobOver(r) == job[r] = "done" \/ (job[r] = "held" /\ proc[r] = "exited")

\* A JobStarted message can come late, and again when its deletion failed.
\* For a runner that is not tracked the handler only logs.
HandleJobStarted(r) ==
  /\ lpc = "poll" /\ ~Locked
  /\ job[r] # "none"
  /\ r \in tracked
  /\ SetBusy(r, TRUE)
  /\ UNCHANGED <<proc, killed, job, printed, settled, jitFiles, spoilt,
                 registered, late, scalerVars>>

HandleJobCompleted(r) ==
  /\ lpc = "poll" /\ ~Locked
  /\ JobOver(r)
  /\ r \in tracked
  /\ SetBusy(r, FALSE)
  /\ UNCHANGED <<proc, killed, job, printed, settled, jitFiles, spoilt,
                 registered, late, scalerVars>>

Smaller(a, b) == IF a < b THEN a ELSE b

\* Mutants: the cap is forgotten; the minimum is forgotten.
ShortfallUncapped(count) == MinRunners + count - Cardinality(tracked)
ShortfallNoFloor(count) == Smaller(MaxRunners, count) - Cardinality(tracked)

\* target - current
Shortfall(count) ==
  Smaller(MaxRunners, MinRunners + count) - Cardinality(tracked)

\* HandleDesiredRunnerCount takes s.mu and computes its number of iterations.
\* Bound: the names that are free must suffice for them.
HandleDesiredRunnerCount(count) ==
  /\ lpc = "poll" /\ ~Locked
  /\ Shortfall(count) > 0
  /\ Shortfall(count) <= Cardinality(Fresh)
  /\ need' = Shortfall(count)
  /\ lpc' = "jit"
  /\ UNCHANGED <<runnerVars, tracked, mon, starting, dpc, sweep, expired, term,
                 up, dropped>>

\* An error ends the loop; whether the listener goes on polling or returns is
\* the library's choice.
Abort ==
  /\ need' = 0
  /\ starting' = {}
  /\ lpc' \in {"poll", "stopped"}

GenerateJit(r) ==
  /\ lpc = "jit"
  /\ r \in Fresh
  /\ registered' = registered \union {r}
  /\ starting' = {r}
  /\ lpc' = "write"
  /\ UNCHANGED <<proc, killed, job, busy, printed, settled, jitFiles, spoilt,
                 late, tracked, mon, need, dpc, sweep, expired, term, up,
                 dropped>>

\* The listener's context may be the cancelled signal context.
GenerateJitFails ==
  /\ lpc = "jit"
  /\ term \/ "generate" \in Faults
  /\ Abort
  /\ UNCHANGED <<runnerVars, tracked, mon, dpc, sweep, expired, term, up,
                 dropped>>

\* GitHub registered the runner, and the answer is an error, does not come in
\* time or has no runner reference: there is no ID to remove it by.
GenerateJitLost(r) ==
  /\ lpc = "jit"
  /\ term \/ "lost" \in Faults
  /\ r \in Fresh
  /\ registered' = registered \union {r}
  /\ dropped' = dropped \union {r}
  /\ Abort
  /\ UNCHANGED <<proc, killed, job, busy, printed, settled, jitFiles, spoilt,
                 late, tracked, mon, dpc, sweep, expired, term, up>>

LaunchWrites(r) ==
  /\ lpc = "write"
  /\ r \in starting
  /\ \/ WriteJITFile(r) /\ lpc' = "start"
     \/ WriteJITFileFails(r) /\ lpc' = "undo"
  /\ UNCHANGED <<proc, killed, job, busy, printed, settled, registered, late,
                 tracked, mon, need, starting, dpc, sweep, expired, term, up,
                 dropped>>

\* Mutants: one iteration too many; the runner never enters the map.
LaunchStartsOffByOne(r) ==
  /\ lpc = "start"
  /\ r \in starting
  /\ StartOK(r)
  /\ tracked' = tracked \union {r}
  /\ mon' = [mon EXCEPT ![r] = "waiting"]
  /\ need' = need - 1
  /\ starting' = {}
  /\ lpc' = IF need = 0 THEN "poll" ELSE "jit"
  /\ UNCHANGED <<killed, job, busy, printed, settled, jitFiles, spoilt,
                 registered, late, dpc, sweep, expired, term, up, dropped>>

LaunchStartsUntracked(r) ==
  /\ lpc = "start"
  /\ r \in starting
  /\ StartOK(r)
  /\ mon' = [mon EXCEPT ![r] = "waiting"]
  /\ need' = need - 1
  /\ starting' = {}
  /\ lpc' = IF need = 1 THEN "poll" ELSE "jit"
  /\ UNCHANGED <<killed, job, busy, printed, settled, jitFiles, spoilt,
                 registered, late, tracked, dpc, sweep, expired, term, up,
                 dropped>>

\* cmd.Start succeeds, the runner enters the map and its monitor is started:
\* s.mu is held from the first to the last.
LaunchStarts(r) ==
  /\ lpc = "start"
  /\ r \in starting
  /\ StartOK(r)
  /\ tracked' = tracked \union {r}
  /\ mon' = [mon EXCEPT ![r] = "waiting"]
  /\ need' = need - 1
  /\ starting' = {}
  /\ lpc' = IF need = 1 THEN "poll" ELSE "jit"
  /\ UNCHANGED <<killed, job, busy, printed, settled, jitFiles, spoilt,
                 registered, late, dpc, sweep, expired, term, up, dropped>>

\* Mutants: the credential file stays; the registration stays.
LaunchFailsKeepsFile(r) ==
  /\ lpc = "start"
  /\ r \in starting
  /\ "start" \in Faults
  /\ lpc' = "undo"
  /\ UNCHANGED <<runnerVars, tracked, mon, need, starting, dpc, sweep, expired,
                 term, up, dropped>>

LaunchFailsKeepsRegistration(r) ==
  /\ lpc = "start"
  /\ r \in starting
  /\ "start" \in Faults
  /\ CleanupJIT(r)
  /\ Abort
  /\ UNCHANGED <<proc, killed, job, busy, printed, settled, spoilt, registered,
                 late, tracked, mon, dpc, sweep, expired, term, up, dropped>>

LaunchFails(r) ==
  /\ lpc = "start"
  /\ r \in starting
  /\ "start" \in Faults
  /\ CleanupJIT(r)
  /\ lpc' = "undo"
  /\ UNCHANGED <<proc, killed, job, busy, printed, settled, spoilt, registered,
                 late, tracked, mon, need, starting, dpc, sweep, expired, term,
                 up, dropped>>

\* removeRunnerRegistration: one call of RemoveRunner on a context that the
\* shutdown does not cancel; a failure is logged and forgotten.
RemoveRunnerRegistration(r) ==
  \/ /\ registered' = registered \ {r}
     /\ dropped' = dropped \ {r}
  \/ /\ "remove" \in Faults
     /\ dropped' = IF r \in registered THEN dropped \union {r} ELSE dropped
     /\ UNCHANGED registered

\* startRunner's error path removes the registration with s.mu held.
UndoRegistration(r) ==
  /\ lpc = "undo"
  /\ r \in starting
  /\ RemoveRunnerRegistration(r)
  /\ Abort
  /\ UNCHANGED <<proc, killed, job, busy, printed, settled, jitFiles, spoilt,
                 late, tracked, mon, dpc, sweep, expired, term, up>>

Listener ==
  \/ ListenerReturns
  \/ \E r \in Names : HandleJobStarted(r) \/ HandleJobCompleted(r)
  \/ \E count \in 0..MaxJobs : HandleDesiredRunnerCount(count)
  \/ GenerateJitFails
  \/ \E r \in Names :
       \/ GenerateJit(r) \/ GenerateJitLost(r)
       \/ LaunchWrites(r) \/ LaunchStarts(r) \/ LaunchFails(r)
       \/ UndoRegistration(r)
-----------------------------------------------------------------------------
(* The monitor goroutines.                                                 *)

\* r.Wait returns: the process was reaped and its credential file removed.
MonitorWait(r) ==
  /\ up
  /\ mon[r] = "waiting"
  /\ proc[r] = "exited"
  /\ CleanupJIT(r)
  /\ mon' = [mon EXCEPT ![r] = "returned"]
  /\ UNCHANGED <<proc, killed, job, busy, printed, settled, spoilt, registered,
                 late, tracked, lpc, need, starting, dpc, sweep, expired, term,
                 up, dropped>>

\* Mutants: the monitor ends without removing the registration; it does not
\* delete the runner from the map.
MonitorDeleteOnly(r) ==
  /\ up
  /\ mon[r] = "returned"
  /\ ~Locked
  /\ tracked' = tracked \ {r}
  /\ mon' = [mon EXCEPT ![r] = "none"]
  /\ Detach(r)
  /\ UNCHANGED <<proc, killed, job, jitFiles, spoilt, registered, late, lpc,
                 need, starting, dpc, sweep, expired, term, up, dropped>>

MonitorKeepsEntry(r) ==
  /\ up
  /\ mon[r] = "returned"
  /\ ~Locked
  /\ mon' = [mon EXCEPT ![r] = "removing"]
  /\ Detach(r)
  /\ UNCHANGED <<proc, killed, job, jitFiles, spoilt, registered, late, tracked, lpc,
                 need, starting, dpc, sweep, expired, term, up, dropped>>

MonitorDelete(r) ==
  /\ up
  /\ mon[r] = "returned"
  /\ ~Locked
  /\ tracked' = tracked \ {r}
  /\ mon' = [mon EXCEPT ![r] = "removing"]
  /\ Detach(r)
  /\ UNCHANGED <<proc, killed, job, jitFiles, spoilt, registered, late, lpc,
                 need, starting, dpc, sweep, expired, term, up, dropped>>

MonitorRemove(r) ==
  /\ up
  /\ mon[r] = "removing"
  /\ RemoveRunnerRegistration(r)
  /\ Forget(r)
  /\ mon' = [mon EXCEPT ![r] = "none"]
  /\ UNCHANGED <<busy, printed, settled, jitFiles, spoilt, tracked, lpc, need,
                 starting, dpc, sweep, expired, term, up>>

Monitor(r) == MonitorWait(r) \/ MonitorDelete(r) \/ MonitorRemove(r)

-----------------------------------------------------------------------------
(* Stopping: the signal, main's wait for the listeners, Shutdown.          *)

TerminationSignal ==
  /\ up /\ ~term
  /\ term' = TRUE
  /\ UNCHANGED <<runnerVars, tracked, mon, lpc, need, starting, dpc, sweep,
                 expired, up, dropped>>

\* wg.Wait has returned: no listener is left.  A scaler that tracks nothing is
\* done at once.
BeginShutdown ==
  /\ dpc = "off"
  /\ lpc = "stopped"
  /\ dpc' = IF tracked = {} THEN "done" ELSE "killIdle"
  /\ UNCHANGED <<runnerVars, tracked, mon, lpc, need, starting, sweep, expired,
                 term, up, dropped>>

\* killIdle and forceKillAll take s.mu and range over the map.
LockForSweep(from, to) ==
  /\ dpc = from
  /\ ~Locked
  /\ dpc' = to
  /\ sweep' = tracked
  /\ UNCHANGED <<runnerVars, tracked, mon, lpc, need, starting, expired, term,
                 up, dropped>>

KillIdle == LockForSweep("killIdle", "sweepIdle")
ForceKillAll == LockForSweep("forceKill", "sweepAll")

\* Mutant: the output alone decides.
LooksIdleByOutput(r) == ~RunningJob(r) /\ AssignmentGraceElapsed(r)

\* What killIdle takes for an idle runner.
LooksIdle(r) == ~IsBusy(r) /\ ~RunningJob(r) /\ AssignmentGraceElapsed(r)

SweepIdle(r) ==
  /\ dpc = "sweepIdle"
  /\ r \in sweep
  /\ sweep' = sweep \ {r}
  /\ IF LooksIdle(r) THEN Kill(r, "idle") ELSE UNCHANGED killed
  /\ UNCHANGED <<proc, job, busy, printed, settled, jitFiles, spoilt,
                 registered, late, tracked, mon, lpc, need, starting, dpc,
                 expired, term, up, dropped>>

SweepAll(r) ==
  /\ dpc = "sweepAll"
  /\ r \in sweep
  /\ sweep' = sweep \ {r}
  /\ Kill(r, "forced")
  /\ UNCHANGED <<proc, job, busy, printed, settled, jitFiles, spoilt,
                 registered, late, tracked, mon, lpc, need, starting, dpc,
                 expired, term, up, dropped>>

\* Shutdown's goroutine moves on without touching anything it shares.
Advance(from, to) ==
  /\ dpc = from
  /\ dpc' = to
  /\ UNCHANGED <<runnerVars, tracked, mon, lpc, need, starting, sweep, expired,
                 term, up, dropped>>

SweepEnds ==
  /\ sweep = {}
  /\ Advance("sweepIdle", "check") \/ Advance("sweepAll", "waitCheck")

\* remaining == 0 leaves the loop.
CheckDrained == Advance("check", IF tracked = {} THEN "done" ELSE "select")

\* Mutant: the ticker only makes the loop look at the map again.
TickOnly == Advance("select", "check")

\* ticker.C: reclaim the runners whose grace has passed by now.
Tick == Advance("select", "killIdle")

\* Mutants: the timeout waits without killing; it changes nothing.
DeadlineNoKill == expired /\ Advance("select", "waitCheck")
DeadlineIgnored == expired /\ Advance("select", "killIdle")

\* ctx.Done()
Deadline == expired /\ Advance("select", "forceKill")

\* waitDrain: the context is the expired one, so ctx.Done() is ready whenever
\* the ticker is, and the second branch sleeps 1 s before the map is cleared.
WaitCheck == Advance("waitCheck", IF tracked = {} THEN "clear" ELSE "waitSelect")
WaitTick == Advance("waitSelect", "waitCheck")
WaitDone == expired /\ Advance("waitSelect", "clear")

ClearRunners ==
  /\ dpc = "clear"
  /\ tracked' = {}
  /\ dpc' = "done"
  /\ UNCHANGED <<runnerVars, mon, lpc, need, starting, sweep, expired, term,
                 up, dropped>>

\* The grace timeout runs from the moment the listeners are gone.
Expire ==
  /\ dpc # "off" /\ up
  /\ ~expired
  /\ expired' = TRUE
  /\ UNCHANGED <<runnerVars, tracked, mon, lpc, need, starting, dpc, sweep,
                 term, up, dropped>>

\* Mutant: main does not wait for the drain.
ProcessExitsEarly ==
  /\ dpc # "off" /\ up
  /\ up' = FALSE
  /\ UNCHANGED <<runnerVars, tracked, mon, lpc, need, starting, dpc, sweep,
                 expired, term, dropped>>

\* drainWG.Wait has returned: main returns and its goroutines are gone.
ProcessExits ==
  /\ dpc = "done" /\ up
  /\ up' = FALSE
  /\ UNCHANGED <<runnerVars, tracked, mon, lpc, need, starting, dpc, sweep,
                 expired, term, dropped>>

Shutdown ==
  \/ BeginShutdown \/ KillIdle \/ ForceKillAll
  \/ \E r \in Names : SweepIdle(r) \/ SweepAll(r)
  \/ SweepEnds \/ CheckDrained \/ Tick \/ Deadline
  \/ WaitCheck \/ WaitTick \/ WaitDone \/ ClearRunners
  \/ ProcessExits

\* The process is gone and so are its containers: nothing is left to happen.
Gone ==
  /\ ~up /\ Alive = {}
  /\ UNCHANGED vars

Next ==
  \/ External /\ UNCHANGED scalerVars
  \/ Listener
  \/ \E r \in Names : Monitor(r)
  \/ TerminationSignal
  \/ Expire
  \/ Shutdown
  \/ Gone

Spec == Init /\ [][Next]_vars

-----------------------------------------------------------------------------
(* Safety.                                                                 *)

\* Never more containers than max_runners, although HandleDesiredRunnerCount
\* counts only the runners in the map and Shutdown clears the map with
\* containers still alive.
CapacityInv == Alive # {} => Cardinality(Alive) <= MaxRunners

\* The loop of HandleDesiredRunnerCount stays within the maximum, a live
\* container is in the map while the listener may still launch, and Shutdown
\* starts after the listener returned.  With TypeOK this is the inductive
\* strengthening of CapacityInv.
CapacityIInv ==
  /\ Launching <=> need > 0
  /\ tracked # {} \/ Launching => Cardinality(tracked) + need <= MaxRunners
  /\ dpc # "off" => lpc = "stopped"
  /\ \A r \in Alive : mon[r] = "waiting"
  /\ \A r \in tracked : mon[r] \in {"waiting", "returned"}
  /\ dpc # "done" => Alive \subseteq tracked
  /\ starting \intersect (Alive \union tracked) = {}
  /\ CapacityInv

\* While the processor runs, every registration GitHub keeps is one that some
\* goroutine still has to remove, or one that a failed call left behind: none
\* falls between startRunner, its error path and the monitor.
RegistrationOwned ==
  up => \A r \in registered : r \in starting \/ mon[r] # "none" \/ r \in dropped

\* A credential file under jitDir belongs to a launch in progress or to a
\* container whose monitor has not reaped it, or writeJITFile failed with it in
\* place: runner.go:112 removes the file of a launch that fails later, so that
\* repeated failures leave none, and nothing removes this one.
CredentialOwned ==
  \A r \in jitFiles \ spoilt : (r \in starting /\ lpc \in {"write", "start"})
                               \/ mon[r] = "waiting"

\* killIdle never kills a container that holds a job, if the job showed, in
\* the busy flag or in the output, by the end of the assignment grace.  The
\* flag is reset by late, repeated and reordered messages, the output comes
\* from another goroutine, and the map is walked one runner at a time.
IdleKillSparesPunctualJobs ==
  \A r \in Names : killed[r] = "idle" /\ job[r] = "held" => r \in late

\* When Shutdown is over, a container that lives was sent a kill signal, and
\* none lives unless the grace timeout had passed.
DrainAccountsForAll ==
  dpc = "done" => \A r \in Alive : expired /\ killed[r] # "no"

\* Containers, kills and the end of the process follow the protocol of an
\* abstract pool.
Pool == INSTANCE RunnerPool WITH
  live <- Alive,
  doomed <- {r \in Alive : killed[r] # "no"},
  phase <- IF ~up THEN "closed" ELSE IF dpc = "off" THEN "open" ELSE "draining"

ImplementsPool == Pool!Spec

-----------------------------------------------------------------------------
(* Liveness.                                                               *)

\* Every call to GitHub returns; a goroutine that can run does; sync.Mutex
\* does not starve a waiter; select takes each ready case now and then; a
\* polling listener with a cancelled context returns; SIGKILL ends a container.
Fairness ==
  /\ WF_vars(Launching /\ Listener)
  /\ SF_vars(term /\ ListenerReturns)
  /\ \A r \in Names : /\ WF_vars(MonitorWait(r) \/ MonitorRemove(r))
                      /\ SF_vars(MonitorDelete(r))
                      /\ WF_vars(killed[r] # "no" /\ Exit(r) /\ UNCHANGED scalerVars)
  /\ WF_vars(Shutdown)
  /\ SF_vars(Deadline \/ WaitDone)

LiveSpec == Spec /\ Fairness

\* The grace timeout passes.
TimeoutPasses == WF_vars(Expire)

\* The grace timeout need not pass, but a listener that is not stopped keeps
\* polling, with no job waiting at GitHub if it likes; time passes, jobs end, and
\* a container whose job is done ends.
Patience ==
  /\ SF_vars(HandleDesiredRunnerCount(0))
  /\ \A r \in Names : /\ WF_vars(Settle(r) /\ UNCHANGED scalerVars)
                      /\ WF_vars(FinishJob(r) /\ UNCHANGED scalerVars)
                      /\ WF_vars(job[r] = "done" /\ Exit(r) /\ UNCHANGED scalerVars)

\* After a signal the process exits, however long jobs and containers take.
ShutdownTerminates == TimeoutPasses => (term ~> ~up)

\* The drain completes without the timeout: a runner that looked busy or too
\* young at first is reclaimed by a later tick.
DrainEndsByItself == Patience => (dpc # "off" ~> ~up)

\* A runner that exits loses its registration, unless a call failed or the
\* process ended first.
RegistrationRemoved ==
  \A r \in Names :
    proc[r] = "exited" /\ r \in registered
      ~> r \notin registered \/ r \in dropped \/ ~up

\* Runners that exit are replaced: whenever fewer containers are alive than the
\* configured minimum, so many are alive again later, or the listener has
\* stopped.  A runner that has exited and stays in the map counts as missing.
PoolFloor == Smaller(MaxRunners, MinRunners)
PoolRefilled ==
  Patience => (Cardinality(Alive) < PoolFloor
                 ~> Cardinality(Alive) >= PoolFloor \/ lpc = "stopped")

-----------------------------------------------------------------------------
(* What the documents and comments say and the code does not do.           *)

\* README.md:417 says that registrations are removed whenever a runner process
\* exits.  main returns as soon as the map is empty, and a monitor empties the
\* map before it calls RemoveRunner.
RegistrationsRemovedAtExit ==
  ~up => \A r \in Exited : r \notin registered \/ r \in dropped

\* scaler.go:131 says that a runner that executes a job is left to finish and
\* nothing is at stake in killing an idle one.  A warm runner can hold a job
\* that nothing has shown yet, since no JobStarted is handled any more.
NoJobKilledAsIdle ==
  \A r \in Names : killed[r] = "idle" => job[r] # "held"
=============================================================================
