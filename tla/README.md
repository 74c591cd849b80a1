# Verification of actions-runner-processor

TLA+ models of `actions-runner-processor`, a daemon that serves GitHub Actions
jobs from ephemeral `systemd-nspawn` containers, with TLC model checking and
TLAPS proofs. Paths below are relative to the repository root (`src/` in
`PROJECT.json`); `main.go`, `setup.go` and `image.go` are under
`cmd/actions-runner-processor/`, the other packages under `internal/`.

Run a check with `tlc -config <cfg> <module>` and a proof with
`tlapm <module>Proofs.tla` in this directory, for the modules whose name ends in
`Proofs`. `PROJECT.json` lists every run with its module, configuration and
properties, the lines each definition models, the hazards, the findings and the
theorems.

## 1. Inventory of the system

| Part | State it keeps | Operations | Hard behaviour |
|------|----------------|------------|----------------|
| `internal/scaler` | map of runners under `s.mu`; one monitor goroutine per runner | `HandleDesiredRunnerCount`, `HandleJobStarted`, `HandleJobCompleted`, `startRunner`, monitor, `Shutdown` (`killIdle`, `forceKillAll`, `waitDrain`) | three kinds of goroutine on one map; error paths with calls that fail; grace timeout against ticker; map cleared with containers alive |
| `internal/runner` | process, busy flag, captured output, start time, credential file | `Launch`, `writeJITFile`, `cleanupJIT`, `Wait`, `Kill`, `SetBusy`, `IsBusy`, `RunningJob`, `AssignmentGraceElapsed` | whether a container has a job is guessed from three delayed signs |
| `main.go` | goroutine per installation, slice of scalers, signal context | discovery, scale set, session, registration, listener, wait, drain, `preflight` | failures of one installation among others; signal at any moment; process death between any two calls |
| `internal/metrics`, `internal/webui` | a registry (map) of scalers each | `Register`, scrape / `/api/status` | the metrics map has a lock, the dashboard's has none |
| `deploy/*.service` | the unit's cgroup | restart, `KillMode=mixed`, stop timeout | containers of a dead process next to a new one |
| `setup.go` | backing file and its size, mount, unit, subvolume, image, NAT, enabled service | the steps of `runSetup` | stops between steps, reboots, repeated runs with another image or size |
| `image.go` | subvolume tree, temporary file, download goroutines, pipe | release parts in parallel, URL stream, artifact zip; `clearDir`, `extractTar` | partial failure, slots, pipe between two goroutines, kill, owners and modes of what is expanded |
| `internal/client` | none | app JWT, installations, repositories, releases, artifacts | lists that change between two pages; only the first page of installations is read |
| `internal/config` | none (read once) | `Load`, `ResolveMaxRunners` | - |
| `image/`, other `deploy/`, CI, packaging | - | build and shell scripts | sequential, outside the running system |

How they interact. `main` starts one goroutine per installation; each makes a
`Scaler`, puts it into both registries and into `main`'s slice, and runs the
listener, which calls the scaler's three handlers one at a time. The scaler
asks GitHub for a runner configuration, has `runner.Launch` start a container
and leaves a monitor goroutine with it. Containers take jobs from GitHub
directly: the scaler learns of it by messages (`JobStarted`, `JobCompleted`)
and by the container's output, both late. After SIGTERM the listeners return,
`main` calls `Shutdown` of every scaler in parallel and returns; what is left of
the unit is killed by systemd, which starts the next process. The image that
containers boot from is a subvolume that `setup` and `image` commands clear and
refill.

What makes each part correct:

- scaler: never more containers than `max_runners`; every registration, map
  entry and credential file has somebody who will remove it, whatever call
  fails; a drain kills no container that has shown a job, leaves none alive that
  was not killed, and ends;
- client: a call that succeeds returns the whole of what GitHub listed, over all
  pages, and the newest artifact, and it comes to an end;
- main: one scale set per installation over all restarts; the drain begins when
  no listener can launch; failures stay with their installation; a start comes
  to an end, and a stop is obeyed;
- setup: completion is reported only of a usable host; repetition repairs and
  never destroys; an enabled service comes back;
- image: success means exactly the tree that was packed, with its owners and
  modes; a failed download keeps the old one; no goroutine waits for ever.

## 2. Modules

```
RunnerPool          what a pool promises (abstract)
   ^ refined by
Scaler  --EXTENDS-->  Runner

Pages               lists that are read page by page
   ^                    ^
Discovery           ArtifactLookup    TarExtract
   ^                          ^         ^
Processor                     ImageInstall

ScalerSafetyProofs --EXTENDS--> ScalerProofs --EXTENDS--> Scaler
ProcessorProofs    --EXTENDS--> Processor, DiscoveryProofs
DiscoveryProofs    --EXTENDS--> Discovery, PagesProofs
ImageInstallProofs --EXTENDS--> ImageInstall, TarExtractProofs, PagesProofs
HostSetupProofs    --EXTENDS--> HostSetup

MCScaler, MCProcessor, MCImageInstall, MCHostSetup    instances for TLC
```

**Runner** has the state of every runner and the steps the outside takes:
`AcceptJob`, `ShowJob` (the output line), `FinishJob`, `Exit`, and `Settle` (30
seconds have passed since the launch). `proc`, `busy`, `printed`, `settled` and
`jitFiles` are fields or files of `runner.Runner`; `job` and `registered` are
GitHub's. Its operators (`WriteJITFile`, `Kill`, `SetBusy`, ...) are used by the
actions of Scaler. A name stands for one runner, since `startRunner` draws a new
uuid; a name is used again when nothing refers to it any more (`Fresh`), which
keeps the model finite and lets behaviours be endless.

**Scaler** has the goroutines. `lpc`/`need`/`starting` are the listener inside
`HandleDesiredRunnerCount`; the lock is held over the whole loop, so the other
holders of `s.mu` have `~Locked` in their guards. `mon` is the monitor of each
runner, with the three steps `Wait`, delete from the map, `RemoveRunner` apart.
`dpc`/`sweep` are `Shutdown`: a sweep kills one runner at a time, because
containers exit and print meanwhile. Messages are not queued: a `JobStarted` may
come (again) at any time for a runner whose job GitHub has assigned, and
`JobCompleted` once its job is over, which covers late, repeated and reordered
delivery. `Faults` selects what may go wrong; the history variables `late`,
`dropped` and `spoilt` only record.

**RunnerPool** is the abstract specification: launch below the maximum while the
pool is open, doom only while draining, close only when whatever is left is
doomed. `Scaler!Pool` is the refinement mapping (`live <- Alive`, and so on),
checked as the property `ImplementsPool`.

**Pages** is how GitHub's lists are cut into pages: by position, in the list as it
is at the time of the call. `PageSize` stands for the 100 of every call.

**Discovery** is `DiscoverInstallations`: the JWT, the page of installations, and
per account either its scope (`ResolveScope`) or the token (`GetToken`) and the
pages of its repositories (`ListRepositories`). `todo` is what is left of the
loop over accounts, whose order is GitHub's. `granted` and `Revoke` are the
user's side, which changes while pages are read.

**Processor** is `main`: configuration, `preflight`, Discovery (its actions are
steps of the start here), then a program counter for each installation's
goroutine over its calls (`client`, `get`, `create`, `session`, `metrics`,
`web`, `append`, `listener`, `run`, `close`), with `main`'s own in `mpc`. A
scaler appears as the number of its containers (`live`), following RunnerPool,
as the number of entries of its map (`counted`), and as its lock: `working` has
the scalers whose `HandleDesiredRunnerCount` holds `s.mu` across its calls to
GitHub, `scraping` those that a scrape has yet to read with the registry's lock
held. A launch adds to both numbers, a container's end takes from `live` and the
monitor's delete (`Reap`) from `counted`. The map is gone with the process; the
containers are the unit's, and outlive the process until systemd kills them. An *installation* here is one entry of
`DiscoverInstallations`: an organisation or one repository of a user. A crash
ends the process in any state; `Restart` is systemd's, and `KillMode` says what
it waits for.

**HostSetup** has one action per step of `runSetup` on state that survives the
command, with failure, kill and reboot in between, for both kinds of image and
any size: `ResolveBackingSize` computes or takes the size, `EnsureBacking` uses
it only for a file that does not exist, `Format` and `InstallEnds` need their
room. Sizes are small numbers in units of their own. A temporary file of a full image
stays (`litter`) after a kill, and when the deferred removal fails, whose error
the code drops. What `mkfs`, `btrfs` and systemd do is modelled by its effect. `StartService` and `Preflight` are the
service's side: it serves when it finds the subvolume.

**TarExtract** has no state: a tree is a function from paths to nodes (type, owner,
permission bits, setuid, setgid, sticky), and `Extract` is one round of
`extractTar`'s loop with the calls in their order. `RawMode` is what tar writes,
`Chown` and `Chmod` what the kernel does, so that the order of the two and the
translation of the bits matter. `Unpacked` is what all of it must come to.

**ArtifactLookup** is `LatestArtifact`: pages of artifacts, newest first, while
builds upload, artifacts expire and are deleted.

**ImageInstall** has the part goroutines and their semaphore, the artifact's lookup,
the producer and consumer of the pipe, and the tree. A write to the pipe waits
for its reader, so `Produce` sends all only while the consumer copies.
`ClearDir` removes one leaf after the other, as `os.RemoveAll` does, and may stop
between any two; `ExtractEntry` expands one entry, and a round that fails may
leave its node half made. A part
whose asset was replaced since the release was listed has other bytes without an
error; the gzip header may report it, an entry may fail, or a tar end mark among
the bytes ends the extraction, since nothing reads the checksum behind it. A
command that failed or was killed leaves its tree to the next one.

## 3. Runs

| Run | Configuration | Shows |
|-----|---------------|-------|
| `safety` | 2 names, maximum 2, minimum 1, all faults | `CapacityIInv` (the strengthening of section 4), `RegistrationOwned`, `CredentialOwned`, `IdleKillSparesPunctualJobs`, `DrainAccountsForAll`, `ImplementsPool` |
| `live` | 2 names, maximum 1, demand 2 | `CapacityInv`, `RegistrationRemoved`; `ShutdownTerminates` if the timeout passes; `DrainEndsByItself`, `PoolRefilled` if it need not, but jobs end |
| `processor` | an organisation, a user with 2 repositories, an account of another type; pages of 1; one scope flaky; crashes, lost answers, races, scrapes | `ListedWhole`, `StartEnds`, `OneScaleSet`, `CapacityAcrossRestarts`, `CleanExit`, `LiveIsKnown`, `StopObeyed`, `FaultIsolation` |
| `setup` | either image, default and other sizes; tools missing at first; failures, kills, reboots | `CompleteMeansReady`, `FormatsOnce`, `RerunCompletes`, `ServiceReturns` |
| `image` | 3 parts, 2 slots, 3 artifacts in pages of 1, all four sources, failures, replaced assets, disk errors, kills | `LatestPicked`, `SuccessMeansNew`, `EntriesFit`, `FailedDownloadKeepsImage`, `CommandEnds` |

Bounds. Two names are enough for two runners to be at different stages of their
lives at the same time, for a sweep to be between two runners, and for one to
exit while another is launched; the state of a runner does not depend on more
than one other. With a maximum of 1 the desired count and the maximum differ and
a name is used again while its predecessor's monitor is at work. The count of
jobs GitHub asks for is at most `MaxJobs`. `Permutations(Names)` is a symmetry
of the safety runs (no name is special); the liveness runs do without. Three
parts over two slots make one part wait for another's slot; two repositories make
a failing goroutine and a healthy one, or racing writers. Pages of one entry make
every list with an entry end in a page that is exactly full, and two or three
entries let a list change between two pages. They also cut the installations to
one account (only the first page is read), so the `processor` run has the scopes
of one account at a time, one flaky and one healthy at most. The loop over
several accounts is not in that run: only the proofs (`DiscoveryWhole` of section
4 and its lemmas) speak of any number of accounts, and an organisation next to a
user's repositories is in none of the liveness checks. `Packed` has a directory
of another owner, a setuid file, a symbolic link and a hard link, and
`Old` a tree whose entries are of other owners and modes. The sizes of the setup
run (`TypedSizes` 0 and 8, default 2 for the lightweight and 6 for the full
image, which needs 5) have a file too small for `mkfs.btrfs`, one for the
lightweight image only, one that the full image fits into once, and one that
survives a killed installation. `MaxLitter` bounds the temporary files that
killed commands or failed removals leave; 1 is enough to use up the room of the default.

### Fairness

`Scaler!Fairness` assumes what Go and GitHub give: a call to GitHub returns (the
calls have timeouts or fail), a runnable goroutine runs (weak fairness), a mutex
does not starve a waiter (strong fairness for the monitor's delete, since the
lock comes and goes; Go's mutex hands over after 1 ms), `select` with two ready
cases picks each now and then (strong fairness of the deadline), a listener
whose context is cancelled returns when it is next between handlers, and a
container that was sent SIGKILL ends. What only some properties need is their
hypothesis: `TimeoutPasses`, that the grace timeout passes, of
`ShutdownTerminates`; and `Patience` of `DrainEndsByItself` and `PoolRefilled`:
jobs end, their containers then end by themselves (ephemeral runners), 30
seconds pass, and a listener that is not stopped calls
`HandleDesiredRunnerCount` again and again, if only with no job waiting (a count
of 0 is the one that launches least); calls succeed in that run. `PoolRefilled`
counts live containers, so an exited runner that stays in the map does not meet
it; its floor is the smaller of minimum and maximum, 1 in that run, because exits
are not held back: with a floor of 2 one runner may end whenever the other is
replaced. No fairness is assumed of `AcceptJob`, `ShowJob`, messages or faults.
`Processor!FairSpec` assumes that calls return (well or badly, with no failure
counted on), that `HandleDesiredRunnerCount` thus gives `s.mu` back, that a
scrape that waits for it gets it, and that a listener returns after the signal
when it is next between two handlers. `http.DefaultClient` has no timeout, so
that the calls of a start return is an assumption about the network.
`HostSetup!Persistence` assumes that the
operator repeats the command, starts the service and installs what is missing,
and that a step that is tried again and again succeeds now and then;
`ImageInstall!FairSpec` that the command's goroutines run, with no failure
counted on (`Misfortune`). That `http.Get` and `io.Copy` return is again an
assumption about the network: image.go:284, 339 and 370 set no timeout.

### Where the code does other than it says

Each is a run that is expected to end in a violation, and an entry under
`findings` with the quotation.

- `exit_registration`: the process can end between a monitor's delete from the
  map and its `RemoveRunner`; the registration stays.
- `warm_job`: a runner older than its assignment grace that accepts a job after
  the listener stopped looks idle and is killed with the job.
- `dashboard`: the dashboard's map is written without a lock.
- `discovery`: `DiscoverInstallations` "fetches all installations" (client.go:33)
  and reads one page of 100.
- `setup_tools`: a first run without `mkfs.btrfs` leaves an unformatted file that
  every later run takes for a formatted one.
- `reboot`: the mount unit `actions-runner-btrfs.mount` is not named after its
  mount point and has no `[Install]` section, so the mount is lost. The service
  comes back only when the operator runs setup again (`ServiceReturns`).
- `hardlinks`: `extractTar` skips hard links, which its comment says are handled.

Seen while modelling, each plain from the code and without a run:

- `HandleJobCompleted` resets the busy flag and does not kill the runner, as
  DESIGN.md:553 says; DESIGN.md:186 has idle runners killed at once, where
  `killIdle` spares one within its assignment grace.
- The scale set is not deleted on exit (DESIGN.md:545); the next process reuses
  it.
- A failing `Chown` or `WriteFile` in `writeJITFile` leaves the credential file
  (runner.go:147), where the comment at runner.go:112 wants none left after a
  failed launch; `CredentialOwned` excepts it (`spoilt`).
- `preflight` (main.go:239) does not look into the image, which can be missing or
  half expanded.
- DESIGN.md:189 names `KillMode=process` where the unit has `mixed`.
  With `mixed`, systemd starts the next process when no container is left
  (`Processor!KillMode`). With `process` it would not wait, the new process
  would count from an empty map, and `CapacityAcrossRestarts` and `LiveIsKnown`
  fail: that is their mutant.
- The comment at setup.go:59 calls a cap what `computeFullSize` uses as a lower
  bound; README.md:214 counts 21G for the temporary tarball and 50G and more for
  the tree, which three times the tarball does not hold.
- The comment at image.go:514 speaks of removing a placeholder before
  `os.Symlink`; nothing is removed, so a second entry of one name fails.
- A repository that the user grants while the list is read can come twice, on two
  pages, and `main` starts two goroutines for it.

## 4. Proofs

Every safety property of the runs that are expected to pass is proved for every
value of the constants that the named assumptions allow, by an inductive
invariant per component. TLC checked each of these invariants on the instance of
the component's run before it was proved. The theorems carry the same names in
several modules where they say the same (`Inductive`, `TypeCorrect`).

### Scaler: capacity (`ScalerProofs`)

- `Inductive`: `TypeOK /\ CapacityIInv` is an invariant of `Scaler!Spec`;
- `TypeCorrect`, `CapacityStrengthened`: its two parts;
- `Capacity`: `Spec => []CapacityInv`, never more containers than `max_runners`.

`CapacityInv` is not inductive: `HandleDesiredRunnerCount` takes its count from
the map, once, before the loop. The strengthening says that the map plus the
iterations left stay within the maximum (`Cardinality(tracked) + need`), that
every live container is in the map until `Shutdown` is over, and that `Shutdown`
begins only after the listener returned for good; the last is what `main`'s
`wg.Wait` provides (the second part of `StageInv`, below). A launch then
adds one to the map and takes one from `need`, a monitor takes away only an
exited runner, and `waitDrain`'s clearing of the map happens when nobody launches
any more. There is one lemma per process for types (`ListenerType`, `MonitorType`,
...) and for capacity (`DesiredCapacity`, `LaunchCapacity`, ...), joined in
`NextType` and `NextCapacity`. Assumptions: `NamesAssumption` (finite),
`SizesAssumption` (`MaxRunners`, `MinRunners` integers, `MaxJobs` a natural) and
`FaultsAssumption`.

### Scaler: owners, kills and the drain (`ScalerSafetyProofs`)

`SafetyIInv` adds to the above what the goroutines leave to each other; one lemma
per process and part, joined in `SafetyInductive`:

- `StartingInv`, `FreshInv`: `startRunner` works on one name, of which nothing is
  left from an earlier runner. `Registrations` (`RegistrationOwned`) and
  `Credentials` (`CredentialOwned`) are inductive with these: an error path takes
  back what it made before the name leaves `starting`, and the monitor exists
  before.
- `PunctualInv`: a container with a job and past its assignment grace is busy,
  has printed, or is `late`. `IdleKillSparesPunctualJobs` speaks of killed
  containers only; what the kill relies on is this, at the moment of the kill
  (`PunctualJobsSpared`).
- `DrainInv`: during `forceKillAll` what lives is killed or not yet swept,
  afterwards it is killed; `waitDrain` ends with nothing alive or with the
  timeout. `DrainAccounts` (`DrainAccountsForAll`) follows.

`Refinement` proves `Spec => ImplementsPool`, the abstract pool's next-state
relation step by step: a container that becomes alive does so below the maximum
(capacity) with the pool open (the listener returned before `Shutdown`), a kill
dooms, an exit removes, the process ends only when all that is left is doomed
(`DrainInv`), and every other step stutters.

### Processor and discovery (`PagesProofs`, `DiscoveryProofs`, `ProcessorProofs`)

`PagesProofs` has the arithmetic of pages, for any finite list and any page size:
positions are 1..n, each taken once (`PositionType`, `PositionOrder`,
`PositionInjective`, `PositionOnto`); a page with an entry behind it is full
(`FullPage`), so that one that is not full ends the list (`LastPageEnds`).
`DiscoveryProofs` has the invariant `DiscoveryIInv`: what was found is what the
resolved accounts stand for and, of the current user, the repositories on the
pages that were read (`FoundSoFar`); each step of the discovery keeps it.

`ProcessorIInv` composes it with `StageInv` (what the goroutine of an
installation has passed, it has left behind: a session, an entry in the registry
and in `main`'s slice), `DrainedInv` (a pool that was drained is empty or the
timeout passed) and `ContainersInv` (every container is in the map of the process
that runs or, until systemd has killed it, of the one that ended; a map with
entries belongs to a known pool). `Inductive`, `TypeCorrect`,
`DiscoveryWhole` (`ListedWhole`), `AtMostOneScaleSet` (`OneScaleSet`),
`CapacityKept` (`CapacityAcrossRestarts`), `ExitsClean` (`CleanExit`) and
`PoolsKnown` (`LiveIsKnown`) follow, for any number of installations.
`CapacityAcrossRestarts` speaks of the containers, while `Launch` looks at the
map only, which is empty after a restart: it needs `ContainersInv`, and this
needs that the restart waits for the containers. `OneScaleSet` needs that
a goroutine creates a scale set only after it found none, and that nobody else
does for this installation meanwhile. Assumptions: `AccountsAssumption` (finite
sets; no repository is an organisation), `PageSizeAssumption`, `SizesAssumption` and `FaultsAssumption`.

### Host setup (`HostSetupProofs`)

- `Inductive`: `TypeOK /\ StepInv` is an invariant of `HostSetup!Spec`;
- `TypeCorrect`: `Spec => []TypeOK`;
- `Ready`: `Spec => []CompleteMeansReady`;
- `FormattedOnce`: `Spec => FormatsOnce`.

`CompleteMeansReady` speaks of the last step only. `StepInv` says what each step
of `runSetup` may rely on: mounted from the subvolume step on, the subvolume from
the image step on, the whole image of the right kind from the NAT step on, and a
blank file when it is formatted. It is kept because only a kill or a reboot takes
something away, and both end the command. `FormatsOnce` follows from the last of
these, with the type invariant's part that a subvolume is on a formatted backing.
Assumptions: `SetupAssumption` and `SizesAssumption` (the sizes are naturals).

### Image installation (`TarExtractProofs`, `ImageInstallProofs`)

`TarExtractProofs` has lemmas about expanding any tree, entry by entry in any
order. `ModeSurvives`: `tarModeToFileMode` takes the raw bits of every mode apart
without a loss. `MetaApplied`: `applyTarMeta` leaves the packed owner and mode on
any node of the entry's type. `Expanding(tree, rest)` describes a tree into which
all but the entries of `rest` were expanded: the packed nodes of those that were
read, and directories made on the way to them, whose owner and mode may still be
wrong. The empty tree with all entries is one (`ExpandingFirst`), each round of
`extractTar`'s loop leads to one (`ExpandingStep`), none meets a place that is
taken (`ExpandingFits`), and with no entry left it is `Unpacked`
(`ExpandingLast`). What a round leaves that fails are nodes of the same kinds
(`PlacedNodes`), so that the next installation starts from an old tree again.

`InstallIInv` has, beside `Expanding` during the extraction (`TreeInv`):

- `LookupInv`: until something is deleted, what is wanted is on a page that was
  not read; a hit is then at least as new as all of it (`HitIsLatest`), and the
  end of the list means that nothing is wanted (`NoHitLaterPage`);
- `DownloadInv`: the slots taken are the active parts, and a failed part means
  `firstErr` and an untouched tree until the command returns;
- `ProducerInv`: from the opening of an artifact on its producer has sent all,
  well or late, and after the join well.

`InstallInductive` joins them; `InstallTypeCorrect`, `LatestIsPicked`,
`SuccessIsComplete` (`SuccessMeansNew`), `EntriesAlwaysFit` (`EntriesFit`) and
`FailureKeepsImage` (`FailedDownloadKeepsImage`) follow, for any packed tree and
any tree that it replaces. Assumptions:
`RootfsAssumption` (what any Linux tree satisfies: the parents of an entry are
directories, a link's mode is 0777, no directory is a hard link; devices and
sockets, which `extractTar` skips as it skips hard links, are left out),
`OldTreeAssumption` (the old tree has nodes of the same kinds),
`PartsAssumption`, `ConcurrencyAssumption` (at least one slot),
`ArtifactsAssumption`, `PageSizeAssumption`, `ModesAssumption` and
`FaultsAssumption`.

### What is only model-checked

The liveness properties: `ShutdownTerminates`, `RegistrationRemoved`,
`DrainEndsByItself`, `PoolRefilled`, `StartEnds`, `StopObeyed`, `FaultIsolation`,
`RerunCompletes`, `ServiceReturns` and `CommandEnds`. Liveness under fairness
speaks of ENABLED, which the installed provers cannot reason about. The runs that
end in a violation show one behaviour each and need no proof.

## 5. What is not modelled

- The contents of the configuration: constants of the modules. `nspawnArgs` and
  the other string computations: no state depends on them.
- Lengths of time: 30 s, 10 min and `TimeoutStopSec` are events without duration.
  Killing by `TimeoutStopSec` is a `Crash` at any moment.
- The count the handlers return to the listener, logging, metrics values, the
  page itself.
- The same scope twice in `main`'s list; the queue of a message session (messages
  come in any order instead, which is more than it allows).
- A container that SIGKILL does not end: systemd would give up waiting for it and
  start the next process beside it.
- An extraction round that fails on the way to its entry, with some of the
  directories made: such a tree appears only as that of a command that was killed
  later, and the next installation clears either.
- A processor that runs while an image is installed: nothing orders the two.
- 64-bit arithmetic of sizes: `parseSize` of a number beyond 2^63 is not a size
  that anybody asks for.
- Build scripts, deployment scripts, packaging and CI.

## 6. Plan

Done: all modules of section 2; the theorems of section 4, which are all safety
properties of the runs.

Left to model: the margin between `TimeoutStopSec` and the grace timeout with a
bounded clock, and the scaler's messages in the queue of the session, to separate
what order GitHub guarantees from what the handlers need.

Next theorems:

1. The pools of `Processor` are counted where `RunnerPool` names its containers:
   an abstract pool of a number of containers that `RunnerPool` and each pool of
   `Processor` implement would make the two levels one proof, so that what is
   proved of a scaler holds of `main`'s.
2. The step facts that the liveness properties rest on: bounds that a drain, a
   discovery or an extraction can only decrease. What is then left to TLC of a
   liveness argument is the fairness alone.
