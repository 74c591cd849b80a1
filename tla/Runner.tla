------------------------------- MODULE Runner -------------------------------
(***************************************************************************)
(* One ephemeral runner: internal/runner/runner.go, the systemd-nspawn     *)
(* container it starts and the GitHub side of the runner.                  *)
(*                                                                         *)
(* A runner is a member of Names: startRunner draws a fresh uuid for each, *)
(* so a name stands for one runner until everything about it is gone and   *)
(* the name serves again for another one (Scaler!Fresh).                   *)
(*                                                                         *)
(* The module has the state of the runners, the steps that the container   *)
(* and GitHub take on their own (External), and the operators that the     *)
(* scaler's actions are made of.  Scaler composes it.                      *)
(***************************************************************************)
EXTENDS Integers, FiniteSets

CONSTANTS
  Names,       \* the runner names (startRunner's "runner-" + uuid prefix)
  Faults       \* what may go wrong besides what the code does itself

FaultKinds ==
  { "generate",   \* GenerateJitRunnerConfig fails, GitHub kept nothing
    "lost",       \* ... fails or has no runner reference, GitHub kept the runner
    "mkdir",      \* MkdirAll of the credential directory fails
    "write",      \* writing the credential file fails
    "chown",      \* giving it to the container's runner user fails
    "start",      \* systemd-nspawn cannot be started
    "remove",     \* RemoveRunner fails or times out
    "listener" }  \* the listener returns an error of its own

ASSUME NamesAssumption == IsFiniteSet(Names)
ASSUME FaultsAssumption == Faults \subseteq FaultKinds

VARIABLES
  proc,        \* the systemd-nspawn process of each runner
  killed,      \* who sent it SIGKILL: nobody, killIdle or forceKillAll
  job,         \* the GitHub job of the container
  busy,        \* runners whose busy flag is set
  printed,     \* runners whose captured output has "Running job:"
  settled,     \* runners launched at least assignmentGrace ago
  jitFiles,    \* runners with a credential file under jitDir
  spoilt,      \* history: credential files that writeJITFile failed to finish
  registered,  \* runners that GitHub has a registration of
  late         \* history: a job nobody could see at the end of its runner's
               \* assignment grace, or that came after it

runnerVars ==
  <<proc, killed, job, busy, printed, settled, jitFiles, spoilt, registered,
    late>>

RunnerTypeOK ==
  /\ proc \in [Names -> {"none", "alive", "exited"}]
  /\ killed \in [Names -> {"no", "idle", "forced"}]
  /\ job \in [Names -> {"none", "held", "done"}]
  /\ busy \subseteq Names
  /\ printed \subseteq Names
  /\ settled \subseteq Names
  /\ jitFiles \subseteq Names
  /\ spoilt \subseteq Names
  /\ registered \subseteq Names
  /\ late \subseteq Names

RunnerInit ==
  /\ proc = [r \in Names |-> "none"]
  /\ killed = [r \in Names |-> "no"]
  /\ job = [r \in Names |-> "none"]
  /\ busy = {}
  /\ printed = {}
  /\ settled = {}
  /\ jitFiles = {}
  /\ spoilt = {}
  /\ registered = {}
  /\ late = {}

Alive == {r \in Names : proc[r] = "alive"}
Exited == {r \in Names : proc[r] = "exited"}

\* A container that SIGKILL has not reached: it still runs its own code.
Running(r) == proc[r] = "alive" /\ killed[r] = "no"

-----------------------------------------------------------------------------
(* What GitHub and the container do by themselves.                         *)

\* GitHub assigns a job to the container's runner: it has read its credential
\* and is online.
AcceptJob(r) ==
  /\ Running(r)
  /\ r \in registered \intersect jitFiles
  /\ job[r] = "none"
  /\ job' = [job EXCEPT ![r] = "held"]
  /\ late' = IF r \in settled THEN late \union {r} ELSE late
  /\ UNCHANGED <<proc, killed, busy, printed, settled, jitFiles, spoilt,
                 registered>>

\* "Running job: ..." reaches the captured output.
ShowJob(r) ==
  /\ Running(r)
  /\ job[r] = "held"
  /\ r \notin printed
  /\ printed' = printed \union {r}
  /\ UNCHANGED <<proc, killed, job, busy, settled, jitFiles, spoilt,
                 registered, late>>

\* The job ends; GitHub drops the registration of an ephemeral runner.
FinishJob(r) ==
  /\ Running(r)
  /\ job[r] = "held"
  /\ job' = [job EXCEPT ![r] = "done"]
  /\ registered' = registered \ {r}
  /\ UNCHANGED <<proc, killed, busy, printed, settled, jitFiles, spoilt, late>>

\* The container ends: after its job, by a crash, or by the SIGKILL it was sent.
Exit(r) ==
  /\ proc[r] = "alive"
  /\ proc' = [proc EXCEPT ![r] = "exited"]
  /\ UNCHANGED <<killed, job, busy, printed, settled, jitFiles, spoilt,
                 registered, late>>

\* assignmentGrace has passed since the launch.
Settle(r) ==
  /\ proc[r] = "alive"
  /\ r \notin settled
  /\ settled' = settled \union {r}
  /\ late' = IF job[r] = "held" /\ r \notin busy \union printed
             THEN late \union {r} ELSE late
  /\ UNCHANGED <<proc, killed, job, busy, printed, jitFiles, spoilt,
                 registered>>

External ==
  \E r \in Names :
    AcceptJob(r) \/ ShowJob(r) \/ FinishJob(r) \/ Exit(r) \/ Settle(r)

-----------------------------------------------------------------------------
(* Launch: writeJITFile, then cmd.Start.                                   *)

\* An empty EncodedJITConfig writes no file.
WriteJITFile(r) ==
  /\ jitFiles' = jitFiles \union {r} \/ UNCHANGED jitFiles
  /\ UNCHANGED spoilt

\* WriteFile may fail before or after it created the file; Chown fails with
\* the file in place.  writeJITFile removes nothing.
WriteJITFileFails(r) ==
  \/ /\ {"mkdir", "write"} \intersect Faults # {}
     /\ UNCHANGED <<jitFiles, spoilt>>
  \/ /\ {"write", "chown"} \intersect Faults # {}
     /\ jitFiles' = jitFiles \union {r}
     /\ spoilt' = spoilt \union {r}

CleanupJIT(r) == jitFiles' = jitFiles \ {r}

StartOK(r) == proc' = [proc EXCEPT ![r] = "alive"]

\* Kill of a process that has ended returns an error nobody looks at.
Kill(r, who) ==
  killed' = IF Running(r) THEN [killed EXCEPT ![r] = who] ELSE killed

SetBusy(r, b) == busy' = IF b THEN busy \union {r} ELSE busy \ {r}

IsBusy(r) == r \in busy

RunningJob(r) == r \in printed

AssignmentGraceElapsed(r) == r \in settled

-----------------------------------------------------------------------------
\* The Runner object is out of the map: nobody looks at its flag, its output and
\* its start time again.
Detach(r) ==
  /\ busy' = busy \ {r}
  /\ printed' = printed \ {r}
  /\ settled' = settled \ {r}

\* The Runner object of r becomes garbage: the name may serve again.
Forget(r) ==
  /\ proc' = [proc EXCEPT ![r] = "none"]
  /\ killed' = [killed EXCEPT ![r] = "no"]
  /\ job' = [job EXCEPT ![r] = "none"]
  /\ late' = late \ {r}
=============================================================================
