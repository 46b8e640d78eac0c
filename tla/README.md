# Hako: TLA+ models and proofs

Hako is a proxy kernel (a fork of mihomo) with Go bindings for Apple's packet
tunnels in `bind/hako`. The kernel itself is a pipeline: inbound listeners and
the tun (`listener`), rule matching and relaying (`tunnel`, `rules`), outbound
protocols and groups (`adapter`, `transport`), DNS and fake IPs (`dns`,
`component/fakeip`), resources and databases (`component/resource`,
`component/mmdb`), and a control plane (`hub`). The bindings own what an app and
the operating system do to that kernel at awkward moments: start, reload, close,
pause, path changes, memory pressure. That is where most of the concurrency of
this fork lives, and where this project starts.

`PROJECT.json` lists every part, modelled or not, maps each definition to the
lines it translates, and lists the hazards. The models cover a small share of the
repository's lines: most of them are wire formats, cryptography and parsing.

## Modules

| Module | Models | Proofs |
| --- | --- | --- |
| `MmdbPublisher` | `component/mmdb/publisher.go`: database files and counted readers | `MmdbPublisherProofs` |
| `PathState` | state that monitor and witness share: the path, its binding, the outage | |
| `InterfaceMonitor` | `bind/hako/monitor.go`: path callbacks, debts, settle timers | `InterfaceMonitorProofs` |
| `BearerWitness` | `bind/hako/bearer_witness.go`: dial outcomes, runs, outages | `BearerWitnessProofs` |
| `DefaultPath` | monitor and witness composed | |
| `PauseLifecycle` | `Pause`, `Wake`, the end-pause timer, `releasePauseOnClose` | `PauseLifecycleProofs` |
| `BoxService` | `Start`, `Reload`, `Close`, the tun descriptor, STUN sessions, the proxy share | `BoxServiceProofs` |

`MC*` modules give the constants their small values for TLC.

**MmdbPublisher.** A lookup acquires the current reader, uses it and releases
it; a reader that is no longer current is closed by its last user. `Publish` is
one action per step (stage, write, sync, verify, rename, serve), each of which
may fail, with a crash between any two. The file system is modelled from how the
code uses it: data that was not synced may be lost in a crash.

**InterfaceMonitor.** `UpdateDefaultInterface` is split where it takes and
leaves a lock, since timers fire in between. A change of the path leaves debts
(close old flows, reset sessions, tell the witness); `scheduleSettle` arms a
timer of a new generation, and `settle` takes the debts and pays them.

**BearerWitness.** Physical dials report start, success and failure; enough
silence begins a run, which dials bound and unbound and may find an outage and
suspend the binding. A session number, raised by `pathChanged` and `reset`,
invalidates runs; recovery attempts follow an outage.

**DefaultPath.** The witness's `pathChanged` is part of the monitor's `settle`,
its `reset` part of the monitor's close, and both write `PathState`.

**PauseLifecycle.** One action per write of shared state. The pause is one flag
of the process; counts and timers belong to a service. `Overlap` says whether the
app may close a service while another call on it is under way.

**BoxService.** `mu` is the service mutex; callers hold it over all of `Start`,
and over `Reload` and `Close` after these have stopped the STUN sessions. Each
step of `Start` may fail or panic; `OpenTun` runs on its own goroutine, and an
open that no one claims is reaped. `listenerFd` is the descriptor the core's tun
listener serves. A configuration is abstracted to whether it is accepted,
whether applying it panics, and whether it has a tun; every configuration has one
inbound. `teardownPanicked` is history: a panic inside the guarded `shutdownCore`
leaves the listener up until the next `Start` replaces it, which the code
accepts, so `NothingLeftOpen` excepts the listener's descriptor in that case.

## Runs

| Run | Shows |
| --- | --- |
| `mmdb` | no reader is used after its close, none leaks, the path always opens, served data never goes back |
| `monitor` | no owed reset is lost; old flows are closed; system substitutes match the path; debts are paid unless the monitor stops |
| `witness_runs` | one run per session; outages are of the current session; one recovery per outage |
| `witness_tally` | the number in flight agrees with the dials waited for |
| `witness_liveness` | runs end; each settled path gets its provider check |
| `path_outage` | composed: at rest an outage was measured on the path in force |
| `pause_backstop` | on iOS each pause has a timer behind it, and ends |
| `service_lifecycle` | nothing stays open behind a stopped service; a running one serves the tun it opened; each descriptor has an owner; every call returns |

Four questions have another answer than the repository's tests or comments give;
`findings` in `PROJECT.json` quotes them, and a run of each ends in a
counterexample. `monitor_told`: a timer that fires in the middle of a callback
tells the witness the old index. `witness_old_silence`: a question of an old
session counts as silence of the new one. `path_suspension`: an old run suspends
the binding of a path that left and came back. `pause_after_close`: two call
counters do not say whether a pause is in force, and Close may leave one behind.

Two orders of steps are worth a reader's attention though no property is broken.
A settle that has taken its debts is not waited for by `stopSettling`. And
`Reload` defers the resume of STUN sessions past its unlock, so with two
overlapping calls a session may begin under a call that has just stopped them;
`service_lifecycle` shows that this call still returns.

### Bounds

- Path updates: 3 (`MaxUpdates`), so that a path can leave and come back while a
  settle of the first is under way. Two in `path_outage`.
- Witness: thresholds of 1 or 2 instead of the code's, two sessions with two runs
  (more in the composition); the code compares only session numbers for equality.
- Mmdb: two lookups, four readers, versions up to 2.
- Service: two callers, one STUN request, two descriptor names, reused when
  free. `Start`, `Reload` and `Close` may repeat without bound.
- Pause: two services, two pauses and one wake of each; one service with two wakes
  in `pause_after_close`, which needs no overlap and no timer.

Where the calls or updates are bounded, a behaviour may end when they are used
up, and the configuration turns deadlock checking off. The service and database
models are not bounded this way, and are checked for deadlock.

### Fairness

Weak fairness on the steps of a goroutine or timer that is already under way: the
Go scheduler runs every goroutine, and timers expire. Nothing is assumed of the
environment: no path update, dial, pause or call need ever happen. `BoxService`
also assumes that an `OpenTun` and a STUN session end (a session has a timeout),
and strong fairness for taking the service mutex: `sync.Mutex` hands over to a
waiter that has waited for a millisecond.

## Proofs

The theorems hold for every value of the constants; their assumptions are the
named `ASSUME`s of the modules.

- `MmdbPublisherProofs`: `ReaderInv` counts, for each reader, its current role and
  the lookups that hold it. `NoUseAfterClose` and `NoReaderLeak` are not
  inductive alone: a release is safe only if the count is exact.
- `InterfaceMonitorProofs`: `MonitorInv` ties debts to the timer or settle of the
  current generation, and open old flows to a debt or a settle that will close
  them; the three properties of the `monitor` run follow.
- `BearerWitnessProofs`: `WitnessInv` relates `running`, the live runs and their
  sessions, the outage and its recovery attempts.
- `PauseLifecycleProofs`: `PauseIsTimed` is inductive together with the types.
- `BoxServiceProofs`: `ServiceInv` says which stages hold the mutex, at which
  stages each part is up, and who owns a descriptor from `OpenTun` to its close.
  `NothingLeftOpen` and `ServesItsTun` speak of a free mutex only, so they need
  what holds while a call is under way; `DescriptorsOwned` needs that a
  descriptor has one owner, or one owner's close would take another's. There is
  one lemma per action, and the properties follow from the invariant.

Only model-checked: the liveness properties (fairness is out of the prover's
reach), the action properties of `MmdbPublisher`, `TallyAgrees`, the type
invariant of `BoxService` and the composition `DefaultPath`.

## Not modelled, and the plan

`PROJECT.json` gives the reason for each part. Next, in this order:

1. `Setup`, whose options are stored in part before a later one is refused, beside
   `BoxService`.
2. `FakeIPPool`: the pool over its memory and file stores, as an implementation of
   an abstract one-to-one map (refinement), with a crash between the write-behind
   store and the disk.
3. `ProbeAdmission` and `ConnectionAdmission`: ceilings kept by compare-and-swap,
   with proofs; the memory pressure machine.
4. `Fetcher`, `HealthCheck` and the groups that use its results.
5. `Resolver`: singleflight, refetch and resets; UDP NAT of the tunnel.
6. The small concurrent containers of `common`.

Wire formats, cryptography, YAML processing and platform calls stay out: they are
data, or code of others.
