------------------------------ MODULE Processor ------------------------------
(***************************************************************************)
(* The processor: cmd/actions-runner-processor/main.go, the two registries *)
(* of internal/metrics and internal/webui, and the systemd unit that       *)
(* starts the process again.                                               *)
(*                                                                         *)
(* main reads the configuration, discovers the installations, starts one   *)
(* goroutine per installation, waits for all of them, drains every scaler  *)
(* in parallel and returns.  Each scaler is reduced to what RunnerPool     *)
(* promises of it, and Scaler was shown to implement: containers come      *)
(* while its listener runs, end when they like, and the drain of a pool    *)
(* ends when it is empty or the grace timeout has passed.                  *)
(***************************************************************************)
EXTENDS Discovery

CONSTANTS
  ConfigMax,  \* runner.max_runners in the configuration file
  NumCPU,     \* runtime.NumCPU
  Flaky,      \* installations whose calls to GitHub may fail
  Faults      \* "lost" answers of CreateRunnerScaleSet, "crash", "race"

ASSUME FlakyAssumption == Flaky \subseteq Installations
ASSUME SizesAssumption == ConfigMax \in Nat /\ NumCPU \in Nat \ {0}
ASSUME FaultsAssumption == Faults \subseteq {"lost", "crash", "race"}

VARIABLES
  mpc,         \* main's goroutine
  term,        \* the unit is being stopped: SIGTERM was sent
  expired,     \* drainCtx is done
  ipc,         \* the goroutine of each installation
  metricsReg,  \* keys of metrics.Registry
  webReg,      \* keys of webui.Registry
  webWriters,  \* goroutines inside webui.Registry.Register
  reading,     \* an /api/status request ranges over webui.Registry
  scalers,     \* main's slice of scalers
  toDrain,     \* main's copy of it, less the scalers that are drained
  live,        \* containers that run under the name of each scaler
  counted,     \* runners in the map of each scaler, in the process's memory
  scaleSets,   \* GitHub: scale sets that exist for each installation
  sessions,    \* message sessions that the process opened and did not close
  working,     \* scalers whose s.mu HandleDesiredRunnerCount holds
  scraping     \* scalers that a scrape under the registry's lock has yet to read

main == <<mpc, term, expired>>
web == <<webReg, webWriters, reading>>
pools == <<scalers, toDrain>>
containers == <<live, counted>>
github == <<scaleSets, sessions>>
locks == <<working, scraping>>
procs == <<main, ipc, metricsReg, web, pools, containers, github, locks>>
vars == <<procs, discovery>>

\* ResolveMaxRunners: the same for every installation.
MaxRunners == IF ConfigMax = 0 THEN NumCPU ELSE ConfigMax

Up == mpc \in {"config", "preflight", "boot", "serve", "drain"}

TypeOK ==
  /\ DiscoveryTypeOK
  /\ mpc \in {"config", "preflight", "boot", "serve", "drain", "exited", "dead"}
  /\ term \in BOOLEAN /\ expired \in BOOLEAN /\ reading \in BOOLEAN
  /\ ipc \in [Installations -> {"off", "client", "get", "create", "session",
                                "metrics", "web", "append", "listener", "run",
                                "close", "done"}]
  /\ metricsReg \subseteq Installations
  /\ webReg \subseteq Installations
  /\ webWriters \subseteq Installations
  /\ scalers \subseteq Installations
  /\ toDrain \subseteq scalers
  /\ live \in [Installations -> Nat]
  /\ counted \in [Installations -> 0..MaxRunners]
  /\ scaleSets \in [Installations -> Nat]
  /\ sessions \subseteq Installations
  /\ working \subseteq Installations
  /\ scraping \subseteq metricsReg

\* What a new process starts from.
FreshProcess ==
  /\ mpc' = "config"
  /\ expired' = FALSE
  /\ working' = {} /\ scraping' = {}
  /\ EndDiscovery
  /\ ipc' = [i \in Installations |-> "off"]
  /\ metricsReg' = {} /\ webReg' = {} /\ webWriters' = {} /\ reading' = FALSE
  /\ scalers' = {} /\ toDrain' = {} /\ sessions' = {}
  /\ counted' = [i \in Installations |-> 0]

Init ==
  /\ mpc = "config"
  /\ working = {} /\ scraping = {}
  /\ NoDiscovery
  /\ term = FALSE /\ expired = FALSE /\ reading = FALSE
  /\ ipc = [i \in Installations |-> "off"]
  /\ metricsReg = {} /\ webReg = {} /\ webWriters = {}
  /\ scalers = {} /\ toDrain = {}
  /\ live = [i \in Installations |-> 0]
  /\ counted = [i \in Installations |-> 0]
  /\ scaleSets = [i \in Installations |-> 0]
  /\ sessions = {}

-----------------------------------------------------------------------------
(* main, until its goroutines are started.                                 *)

\* config.Load: the file and the private key are read once; a value that is
\* missing gets its default.  The error ends the process.
LoadConfig ==
  /\ mpc = "config"
  /\ mpc' \in {"preflight", "dead"}
  /\ UNCHANGED <<term, expired, ipc, metricsReg, web, pools, containers,
                 github, locks, discovery>>

\* systemd-nspawn, the image's directory and its subvolume are there; nothing
\* looks into the image.
Preflight ==
  /\ mpc = "preflight"
  /\ mpc' \in {"boot", "dead"}
  /\ UNCHANGED <<term, expired, ipc, metricsReg, web, pools, containers,
                 github, locks, discovery>>

\* DiscoverInstallations is called, and returns.
BeginDiscovery ==
  /\ mpc = "boot"
  /\ Discover
  /\ UNCHANGED <<main, ipc, metricsReg, web, pools, containers, github, locks>>

DiscoveryFails ==
  /\ mpc = "boot" /\ dpc = "failed"
  /\ mpc' = "dead"
  /\ UNCHANGED <<term, expired, ipc, metricsReg, web, pools, containers,
                 github, locks, discovery>>

\* One goroutine per installation found; there may be none.
Boot ==
  /\ mpc = "boot" /\ dpc = "found"
  /\ mpc' = "serve"
  /\ ipc' = [i \in Installations |-> IF i \in found THEN "client" ELSE "done"]
  /\ EndDiscovery
  /\ UNCHANGED <<term, expired, metricsReg, web, pools, containers, github,
                 locks>>

Starting ==
  \/ LoadConfig \/ Preflight \/ BeginDiscovery \/ DiscoveryFails \/ Boot
  \/ mpc = "boot" /\ DiscoveryStep /\ UNCHANGED procs

-----------------------------------------------------------------------------
(* The goroutine of an installation.  It is cut short by the end of the    *)
(* process.                                                                *)

At(i, pc) == Up /\ ipc[i] = pc
Goto(i, pc) == ipc' = [ipc EXCEPT ![i] = pc]

\* The context of the calls is the signal's.
MayFail(i) == term \/ i \in Flaky

\* Mutant: the error of one goroutine ends all, as errgroup.WithContext would.
LeaveAll(i) ==
  ipc' = [j \in Installations |->
            IF ipc[j] \in {"off", "client", "get", "create", "session", "done"}
            THEN "done" ELSE "close"]

\* An error returns from the goroutine; a session that was opened is closed on
\* the way out (a deferred call).
Leave(i) == Goto(i, IF ipc[i] \in {"listener", "run"} THEN "close" ELSE "done")

CreateClient(i) ==
  /\ At(i, "client")
  /\ \/ Goto(i, "get")
     \/ i \in Flaky /\ Leave(i)
  /\ UNCHANGED <<main, metricsReg, web, pools, containers, github, locks,
                 discovery>>

\* Mutant: an existing scale set is not reused.
GetScaleSetIgnored(i) ==
  /\ At(i, "get")
  /\ \/ Goto(i, "create")
     \/ MayFail(i) /\ Leave(i)
  /\ UNCHANGED <<main, metricsReg, web, pools, containers, github, locks,
                 discovery>>

GetScaleSet(i) ==
  /\ At(i, "get")
  /\ \/ Goto(i, IF scaleSets[i] = 0 THEN "create" ELSE "session")
     \/ MayFail(i) /\ Leave(i)
  /\ UNCHANGED <<main, metricsReg, web, pools, containers, github, locks,
                 discovery>>

\* GitHub can have created the scale set although the call failed.
CreateScaleSet(i) ==
  /\ At(i, "create")
  /\ \/ /\ scaleSets' = [scaleSets EXCEPT ![i] = @ + 1]
        /\ Goto(i, "session") \/ ("lost" \in Faults /\ MayFail(i) /\ Leave(i))
     \/ /\ MayFail(i) /\ Leave(i)
        /\ UNCHANGED scaleSets
  /\ UNCHANGED <<main, metricsReg, web, pools, containers, sessions, locks,
                 discovery>>

\* GitHub may refuse while the session of an earlier process is open.
OpenSession(i) ==
  /\ At(i, "session")
  /\ \/ sessions' = sessions \union {i} /\ Goto(i, "metrics")
     \/ MayFail(i) /\ Leave(i) /\ UNCHANGED sessions
  /\ UNCHANGED <<main, metricsReg, web, pools, containers, scaleSets, locks,
                 discovery>>

\* metrics.Registry.Register, under its lock, which a scrape holds to its end.
RegisterMetrics(i) ==
  /\ At(i, "metrics")
  /\ scraping = {}
  /\ metricsReg' = metricsReg \union {i}
  /\ Goto(i, "web")
  /\ UNCHANGED <<main, web, pools, containers, github, locks, discovery>>

\* webui.Registry.Register takes no lock: another goroutine can be in it, or a
\* request can be reading the map.
RegisterWebBegin(i) ==
  /\ At(i, "web")
  /\ i \notin webWriters
  /\ webWriters' = webWriters \union {i}
  /\ UNCHANGED <<main, ipc, metricsReg, webReg, reading, pools, containers,
                 github, locks, discovery>>

TwoWriters == Cardinality(webWriters) > 1
Racing == TwoWriters \/ (webWriters # {} /\ reading)

\* One of two racing writes can be lost.
RegisterWebEnd(i) ==
  /\ At(i, "web")
  /\ i \in webWriters
  /\ webWriters' = webWriters \ {i}
  /\ webReg' \in {webReg \union {i}} \union (IF TwoWriters THEN {webReg} ELSE {})
  /\ Goto(i, "append")
  /\ UNCHANGED <<main, metricsReg, reading, pools, containers, github, locks,
                 discovery>>

\* Mutant: the scaler is not handed to main.
AppendNothing(i) ==
  /\ At(i, "append")
  /\ Goto(i, "listener")
  /\ UNCHANGED <<main, metricsReg, web, pools, containers, github, locks,
                 discovery>>

AppendScaler(i) ==
  /\ At(i, "append")
  /\ scalers' = scalers \union {i}
  /\ Goto(i, "listener")
  /\ UNCHANGED <<main, metricsReg, web, toDrain, containers, github, locks,
                 discovery>>

NewListener(i) ==
  /\ At(i, "listener")
  /\ \/ Goto(i, "run")
     \/ i \in Flaky /\ Leave(i)
  /\ UNCHANGED <<main, metricsReg, web, pools, containers, github, locks,
                 discovery>>

\* HandleDesiredRunnerCount holds s.mu while it calls GitHub and launches
\* containers; it counts those in its map.  sync.Mutex lets no waiter starve: a
\* scrape that waits for s.mu comes first.
BeginWork(i) ==
  /\ At(i, "run")
  /\ i \notin working \union scraping
  /\ working' = working \union {i}
  /\ UNCHANGED <<main, ipc, metricsReg, web, pools, containers, github,
                 scraping, discovery>>

\* Mutant: an off-by-one in the comparison with the maximum.
LaunchOneMore(i) ==
  /\ Up /\ i \in working
  /\ counted[i] <= MaxRunners
  /\ live' = [live EXCEPT ![i] = @ + 1]
  /\ counted' = [counted EXCEPT ![i] = @ + 1]
  /\ UNCHANGED <<main, ipc, metricsReg, web, pools, github, locks, discovery>>

Launch(i) ==
  /\ Up /\ i \in working
  /\ counted[i] < MaxRunners
  /\ live' = [live EXCEPT ![i] = @ + 1]
  /\ counted' = [counted EXCEPT ![i] = @ + 1]
  /\ UNCHANGED <<main, ipc, metricsReg, web, pools, github, locks, discovery>>

\* The monitor of a container that has ended takes s.mu and deletes it.
Reap(i) ==
  /\ Up /\ i \notin working
  /\ counted[i] > live[i]
  /\ counted' = [counted EXCEPT ![i] = @ - 1]
  /\ UNCHANGED <<main, ipc, metricsReg, web, pools, live, github, locks,
                 discovery>>

EndWork(i) ==
  /\ Up /\ i \in working
  /\ working' = working \ {i}
  /\ UNCHANGED <<main, ipc, metricsReg, web, pools, containers, github,
                 scraping, discovery>>

\* Mutants: the session stays open; a cancelled context does not end the run.
RunReturnsWithoutClose(i) ==
  /\ At(i, "run") /\ i \notin working
  /\ MayFail(i)
  /\ Goto(i, "done")
  /\ UNCHANGED <<main, metricsReg, web, pools, containers, github, locks,
                 discovery>>

RunNeverStops(i) ==
  /\ At(i, "run") /\ i \notin working
  /\ i \in Flaky
  /\ Leave(i)
  /\ UNCHANGED <<main, metricsReg, web, pools, containers, github, locks,
                 discovery>>

RunReturns(i) ==
  /\ At(i, "run") /\ i \notin working
  /\ MayFail(i)
  /\ Leave(i)
  /\ UNCHANGED <<main, metricsReg, web, pools, containers, github, locks,
                 discovery>>

\* The deferred calls: session.Close, whose error is dropped, then wg.Done.
CloseSession(i) ==
  /\ At(i, "close")
  /\ sessions' = sessions \ {i}
  /\ Goto(i, "done")
  /\ UNCHANGED <<main, metricsReg, web, pools, containers, scaleSets, locks,
                 discovery>>

Installation(i) ==
  \/ CreateClient(i) \/ GetScaleSet(i) \/ CreateScaleSet(i) \/ OpenSession(i)
  \/ RegisterMetrics(i) \/ RegisterWebBegin(i) \/ RegisterWebEnd(i)
  \/ AppendScaler(i) \/ NewListener(i) \/ CloseSession(i)

-----------------------------------------------------------------------------
(* Metrics and the dashboard.                                              *)

\* metrics.Registry.collect: a scrape takes the lock of one scaler after the
\* other, with the registry's lock held.  A writer that waits for the lock keeps
\* further readers out.
BeginScrape ==
  /\ mpc \in {"serve", "drain"} /\ ~term
  /\ \A i \in Installations : ~At(i, "metrics")
  /\ scraping = {}
  /\ scraping' = metricsReg
  /\ UNCHANGED <<main, ipc, metricsReg, web, pools, containers, github,
                 working, discovery>>

ScrapeScaler(i) ==
  /\ Up /\ i \in scraping /\ i \notin working
  /\ scraping' = scraping \ {i}
  /\ UNCHANGED <<main, ipc, metricsReg, web, pools, containers, github,
                 working, discovery>>

\* A request reads the map entry by entry, taking the lock of each scaler.
StatusBegin ==
  /\ mpc \in {"serve", "drain"} /\ ~term
  /\ ~reading
  /\ reading' = TRUE
  /\ UNCHANGED <<main, ipc, metricsReg, webReg, webWriters, pools, containers,
                 github, locks, discovery>>

StatusEnd ==
  /\ Up /\ reading
  /\ reading' = FALSE
  /\ UNCHANGED <<main, ipc, metricsReg, webReg, webWriters, pools, containers,
                 github, locks, discovery>>

-----------------------------------------------------------------------------
(* main, from wg.Wait to its end.                                          *)

\* Mutant: the first listener to return starts the drain.
WaitFirstListener ==
  /\ mpc = "serve"
  /\ \E i \in Installations : ipc[i] = "done"
  /\ mpc' = "drain"
  /\ toDrain' = scalers
  /\ UNCHANGED <<term, expired, ipc, metricsReg, web, scalers, containers,
                 github, locks, discovery>>

\* wg.Wait, then the copy of the slice.
WaitListeners ==
  /\ mpc = "serve"
  /\ \A i \in Installations : ipc[i] = "done"
  /\ mpc' = "drain"
  /\ toDrain' = scalers
  /\ UNCHANGED <<term, expired, ipc, metricsReg, web, scalers, containers,
                 github, locks, discovery>>

Expire ==
  /\ mpc = "drain" /\ ~expired
  /\ expired' = TRUE
  /\ UNCHANGED <<mpc, term, ipc, metricsReg, web, pools, containers, github,
                 locks, discovery>>

\* Shutdown of one scaler returns: its map is empty (Scaler!DrainAccountsForAll).
Drained(i) ==
  /\ mpc = "drain"
  /\ i \in toDrain
  /\ counted[i] = 0 \/ expired
  /\ toDrain' = toDrain \ {i}
  /\ UNCHANGED <<main, ipc, metricsReg, web, scalers, containers, github,
                 locks, discovery>>

MainReturns ==
  /\ mpc = "drain"
  /\ toDrain = {}
  /\ mpc' = "exited"
  /\ UNCHANGED <<term, expired, ipc, metricsReg, web, pools, containers,
                 github, locks, discovery>>

-----------------------------------------------------------------------------
(* The host: containers, signals, crashes and the systemd unit.            *)

ContainerEnds(i) ==
  /\ live[i] > 0
  /\ live' = [live EXCEPT ![i] = @ - 1]
  /\ UNCHANGED <<main, ipc, metricsReg, web, pools, counted, github, locks,
                 discovery>>

\* Until signal.NotifyContext is called the signal ends the process.
Stop ==
  /\ ~term
  /\ term' = TRUE
  /\ mpc' = IF mpc \in {"config", "preflight"} THEN "dead" ELSE mpc
  /\ UNCHANGED <<expired, ipc, metricsReg, web, pools, containers, github,
                 locks, discovery>>

\* The runtime ends a process that it sees write and use a map at once.
RaceDetected ==
  /\ "race" \in Faults
  /\ Up /\ Racing
  /\ mpc' = "dead"
  /\ UNCHANGED <<term, expired, ipc, metricsReg, web, pools, containers,
                 github, locks, discovery>>

\* A panic, the OOM killer, SIGKILL.
Crash ==
  /\ "crash" \in Faults
  /\ Up
  /\ mpc' = "dead"
  /\ UNCHANGED <<term, expired, ipc, metricsReg, web, pools, containers,
                 github, locks, discovery>>

\* Mutant: with KillMode=process the unit does not wait for the containers.
KillModeProcess == TRUE

\* KillMode=mixed: what the process left in the unit's cgroup gets SIGKILL, and
\* the unit is started again when nothing of it is left.
KillMode == \A i \in Installations : live[i] = 0

\* Restart=always, after whatever end but a requested stop.
Restart ==
  /\ ~Up /\ ~term
  /\ KillMode
  /\ FreshProcess
  /\ UNCHANGED <<term, live, scaleSets>>

Stopped == ~Up /\ term /\ UNCHANGED vars

Next ==
  \/ Starting
  \/ \E r \in Installations : Revoke(r) /\ UNCHANGED procs
  \/ \E i \in Installations :
       \/ Installation(i) \/ BeginWork(i) \/ Launch(i) \/ EndWork(i)
       \/ Reap(i) \/ RunReturns(i) \/ ContainerEnds(i) \/ Drained(i)
       \/ ScrapeScaler(i)
  \/ BeginScrape \/ StatusBegin \/ StatusEnd
  \/ WaitListeners \/ Expire \/ MainReturns
  \/ Stop \/ RaceDetected \/ Crash \/ Restart
  \/ Stopped

Spec == Init /\ [][Next]_vars

-----------------------------------------------------------------------------
(* Safety.                                                                 *)

\* Crashes, lost answers and restarts never lead to a second scale set for an
\* installation: what one process created the next one finds.
OneScaleSet == \A i \in Installations : scaleSets[i] <= 1

\* No more containers than max_runners run under the name of an installation,
\* although a process counts only its own: one that ends, in whatever state it
\* is, takes the count with it, and the next one launches anew.
CapacityAcrossRestarts == \A i \in Installations : live[i] <= MaxRunners

\* A process that ends by itself has drained every pool that it started,
\* whichever of its goroutines failed at which call and however late another
\* one was still launching, and closed every session that it opened.
CleanExit ==
  mpc = "exited" =>
    /\ \A i \in Installations : live[i] = 0 \/ expired
    /\ sessions = {}

\* A pool with containers is one that main will drain and that metrics show; the
\* containers of an earlier process are in none of its lists, so there are none.
LiveIsKnown ==
  Up => \A i \in Installations : live[i] > 0 => i \in scalers \intersect metricsReg

-----------------------------------------------------------------------------
(* Liveness.                                                               *)

\* Calls return (no failure is counted on), so HandleDesiredRunnerCount gives its
\* lock back and a scrape gets it; a cancelled listener returns when it is between
\* two handlers; and a drain ends at the latest with the grace timeout.
FairSpec ==
  /\ Spec
  /\ \A i \in Installations : /\ WF_vars(Installation(i))
                              /\ SF_vars(term /\ RunReturns(i))
                              /\ WF_vars(Drained(i))
                              /\ WF_vars(EndWork(i))
                              /\ WF_vars(ScrapeScaler(i))
  /\ WF_vars(Starting /\ ~CallFails)
  /\ WF_vars(WaitListeners \/ Expire)
  /\ WF_vars(MainReturns)

\* Every start comes to serve or gives up: reading page after page ends.
StartEnds == mpc = "boot" ~> mpc # "boot"

\* A stop is obeyed whatever state the process is in.
StopObeyed == term ~> ~Up

\* An installation whose calls succeed comes to serve, whatever happens to the
\* others' goroutines and however often the metrics are scraped meanwhile,
\* unless the process is stopped or dies.
FaultIsolation ==
  \A i \in Installations \ Flaky :
    ipc[i] = "client" ~> ipc[i] = "run" \/ term \/ mpc = "dead"

-----------------------------------------------------------------------------
(* What the documents say and the code does not do.                        *)

\* DESIGN.md:408 says that the dashboard shows all scale sets.  Its map is
\* written without a lock, and a racing write is lost (or ends the process).
DashboardShowsAll ==
  \A i \in Installations : At(i, "run") => i \in webReg
=============================================================================
