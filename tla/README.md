# A TLA+ model of ecu

ecu rents a desktop in the cloud (or in a local Docker container) for an agent:
a client asks the control plane for a session, the control plane creates an
instance, the instance's agent dials back over a reverse tunnel, and from then
on the client's screenshots and clicks are proxied to the tool server in the
instance. Sessions end by `DELETE`, or by the reaper; a persistent session is
snapshotted when it ends and can be restored from the snapshot later.

This directory models five parts of it, each a system of its own that TLC can
exhaust:

* the **life cycle of a session**: several goroutines, a database and a paid cloud
  provider that must agree (`ControlPlane`);
* **pre-baking**: one background job, its callback and the provider's two
  implementations, over restarts (`Bake`);
* a **session under the clock**: the agent's reconnect loop, the stamps of the
  broker and the proxy, and the reaper that compares them (`Uptime`);
* the **start of the process**: configuration, wizard, migrations, the bootstrap key,
  and who may call and watch afterwards (`Startup`);
* the **screenshot protocol** between the tool server and its clients (`Frames`).

The modules are checked with TLC on small instances. Every safety property that holds is
proved with TLAPS, too, for every instance; what is left to TLC alone is liveness.

## 1. Inventory

### The parts, their state and their operations

| Part (source) | State | Operations | Modelled |
|---|---|---|---|
| Session store (`internal/store/sessions.go`) | table `sessions` | one-statement inserts, updates, lists, counts; every update is unconditional | `SessionRow`, `ControlPlaneState`; the time stamps in `Uptime` |
| Provisioning (`internal/controlplane/provision.go`) | one goroutine per create or restore: session, token, boot image, instance id | create instance, persist its id, wait for ready, tear down, mark error | `Provisioning` |
| Agent broker, registry (`broker.go`, `registry.go`) | map session -> tunnel; one handler per connection | authenticate, refuse a duplicate, upgrade, register, displace, mark ready, clean up, stamp | `Broker`; `TunnelClock` for the stamps |
| Session requests (`sessions.go`) | one handler per request | create, restore, get, delete | `Requests`, `SessionEnd` |
| Snapshot, stop, cull (`persist.go`) | none of its own; a copy of the row | `snapshotAndStop`, `cullStoppedSession` | `SessionEnd` |
| Reaper (`reaper.go`) | one goroutine; the lists of the sweep; a ticker | orphan, idle, lifetime rules; cull; boot reconciliation | `SessionEnd` (what a sweep does), `ReaperClock` (when) |
| Providers (`provider/provider.go`, `hcloud`, `local`) | servers or containers, images | create, delete, image create, find and delete, label sweep, firewall | `ProviderContract`, `HCloud`, `LocalDocker`; the calls of the life cycle in `ControlPlaneState` |
| Pre-baking (`bake.go`, the bake script of `cloudinit.go`) | one bake: token, done channel; the active boot image | sweep, find, bake, callback, adopt, tear down | `Bake` |
| Action proxy, transport (`proxy.go`, `transport.go`, `server.go`) | none | status gate, look-up of the tunnel or endpoint, activity stamp | `Uptime` |
| Reverse tunnel, agent (`internal/tunnel`, `internal/agent`) | yamux session; the agent's reconnect loop and back-off | dial, serve, keepalive, back off | `AgentLoop`, `TunnelClock`; in `Broker` as open or dead |
| API keys (`auth.go`, `store/keys.go`) | table of key hashes | seed, look up; capability check | `Access` |
| Live watch (`watch.go`) | signed, expiring tokens; the browser's cookie | sign, verify, set the cookie, gate the pages | `Access` |
| Configuration (`internal/config`) | the config file; none in memory after the start | layers: environment, file, defaults; required settings; wizard; save | `Settings`, `Startup` |
| Store migrations (`store/store.go`) | the columns of `sessions` | create if absent, add the missing columns | `Startup` |
| TLS boot (`internal/tlsboot`) | certificate cache | hostname or address, listeners, autocert | `Startup`, as a listener that comes up or does not |
| Process (`cmd/ecu/main.go`) | everything in memory | start in order, crash, graceful stop, restart | `Startup`, `Bake`, `ControlPlane`, `Uptime` |
| Tool server (`image/toolserver`) | the base frame and its token, the capture gate | actions, screenshots, differences, settling | `Frames` (screenshots) |
| Client skill (`skill/ecu-computer-use`) | cached frame, token, scale; the command line's two cache files | requests with retries, applying a difference, recording the scale | `Frames` (screenshots) |
| Test doubles (`provider/fake`), manifests, the rest of cloud-init | - | - | not modelled |

### How they interact

* A `POST /sessions` handler inserts or reactivates a row and starts a
  provisioning goroutine, which it never hears of again. They share the row.
* The provisioning goroutine and the broker never call each other: the broker
  writes `ready`, the goroutine polls the row until it says so.
* `DELETE` and the reaper both read a row **once** and then act on that copy for
  as long as a snapshot takes (minutes), through the same `snapshotAndStop`.
* The reaper asks the registry whether a session has a live tunnel; nothing else
  ties the registry to the rows. Its ages come from three stamps that three others
  write: the insert, the proxy after an answer, the broker after a loss.
* The agent knows nothing of all this. It dials, is refused with 401 or 409 or gets
  nobody, waits longer, and dials again; a dead connection is noticed by each end
  for itself, at times of their own.
* Every status write is `UPDATE ... WHERE id = ?`. No writer states which status
  it expects to replace; "check, then write" is two statements everywhere.
* The baker calls the provider, and the server it makes calls back over HTTP; the
  callback's handler and the baker share a channel. What a start leaves behind the
  next one finds by label.
* Start-up runs in one order: configuration (and the wizard), database, bootstrap
  key, provider, reaper and bake, listener. It can end after each of these.
* A client's screenshots reach the tool server through the proxy, which does not
  look into them. The server keeps one base frame for all its callers; each client
  keeps the last frame it was shown, and the token that named it.
* After a restart only rows, files and provider resources are left. No provisioning
  is resumed; agents reconnect, and the orphan rule is the backstop for the rest.

### What is hard here

`PROJECT.json` lists the hazards one by one, with their lines. In groups:

* *life cycle*: stale copies of a row (DELETE, reap and cull against provisioning,
  restore and one another); check-then-write on the status; hand-over of a tunnel
  between an old and a new connection; the order of the steps that save and destroy
  a persistent session's disk, with each of them failing; a crash between any two of
  them; and the promise that nothing paid for is forgotten;
* *providers and bake*: a create that fails half-way, with or without an id; a reply
  that is lost; two callbacks that close one channel; callbacks that come late, or from
  the server of an earlier start; a crash in the middle of a bake;
* *clock*: ages taken from a copy of stamps that restarts and reconnects reset or do
  not, and that failing writes leave old; a tick that may be longer than the limits; sweeps
  that fail; an action answered while the sweep is on its way; a back-off that grows while
  the broker still believes the old tunnel; handshakes that hang;
* *start-up*: a file the wizard writes that later starts merge with other environments;
  migrations cut in two; a disabled key that every start seeds again; a signing key that
  changes under tokens and cookies already handed out;
* *screenshots*: a base that another request replaces between its reading and the
  answer, requests repeated while their first handlers still run, and two cache files
  that are written in place, one after the other.

### What makes each part correct

* *Provisioning*: an instance that exists can be found (`InstanceFindable`); it
  does not outlive its session (`TerminatedOwnsNothing`).
* *Broker*: one open tunnel per session, the registered one (`OneOpenTunnel`).
* *Snapshot, stop, cull*: the state a row names exists (`SnapshotResolvable`);
  nothing unsaved is destroyed (`NoUnsavedDestroy`); a cull cut in two is finished
  (`CullFinished`).
* *Reaper*: a session without an agent is ended (`OrphanReaped`); the limits are kept
  up to a tick, or a sweep that is under way, and a sweep (`ReapedInTime`); a session that
  is used or may still be reached is not taken (`IdleMeansIdle`, `FullWindow`,
  `OrphanUnreachable`); a restored session keeps its saved state (`RestoreKeepsSnapshot`).
* *Agent and tunnel*: the agent is back within the keepalive, the greatest back-off and
  two handshakes (`GapBounded`).
* *Requests*: the cap is overshot by at most the number of concurrent requests
  less one (`CapOvershoot`).
* *Providers*: what an answer lets the caller conclude is true (`KeepsContract`).
* *Pre-baking*: what sessions boot from was pulled (`BootImagePulled`), exists once
  (`OneBakedImage`), and no bake server is forgotten (`NoBakeLeak`), left running
  (`BakeServerEnds`) or turned away too early (`RefusedOnlyWhenOver`).
* *Start-up*: a control plane that listens has what it needs (`RunsComplete`,
  `SchemaComplete`), what the wizard saved lasts (`SettingsLast`), and a start without
  a terminal never waits for input (`HeadlessDecides`).
* *Access*: a disabled key stays so (`DisabledStays`); a viewer opens for a live token
  of its own session only (`WatchScoped`).
* *Screenshots*: who holds the server's present token holds its present frame
  (`TokenNamesFrame`), and a rebuilt frame is the captured one (`ShownIsCaptured`).

## 2. The modules

| Module | What it is |
|---|---|
| `SessionRow` | a row and the store's updates, as operators from rows to rows |
| `ControlPlaneState` | the shared variables, the types, the provider's and store's calls |
| `Provisioning`, `Broker`, `SessionEnd`, `Requests` | one component each: one action per store, provider or registry call |
| `ControlPlane` | `Init`, `Crash`, `Next`, fairness, and the properties |
| `MCControlPlane` | symmetry for the runs |
| `ProviderContract` | abstract specification: what `provider.go` promises of every provider |
| `ProviderState` | servers, images and the one call that is open on them |
| `HCloud`, `LocalDocker` | the two implementations, one action per API request or docker command |
| `Bake` | the baker, the callbacks, the process; the refinement of the contract |
| `UptimeState` | the clock, the stamps, the histories |
| `AgentLoop`, `TunnelClock`, `ReaperClock` | the agent; the broker's handler seen for its stamps; the reaper's tick and rules |
| `Uptime` | the proxied actions, crash and restart, the passing of time, the properties |
| `Settings` | the layers of the configuration, as operators |
| `Access` | keys, view tokens and cookies |
| `Startup` | the steps of a start, and `Access` once it serves |
| `MCStartup` | the environments, files and defaults of the run |
| `Frames` | the screenshot protocol: capture gate, base frame, answers, clients, cache files |
| `MCFrames` | what each client asks for, symmetry, and a view without the scale |
| `ControlPlaneTypes` | proofs: the type invariant |
| `BrokerProofs` | proofs: one open tunnel |
| `SavedStateProofs` | proofs: nothing unsaved destroyed, every named snapshot exists |
| `LifecycleProofs` | proofs: instances can be found, the cap |
| `BakeProofs` | proofs: types, servers, images and callbacks of a bake, the providers' contract |
| `UptimeProofs` | proofs: types, limits, idleness, the orphan window, the gap in the tunnel |
| `StartupProofs` | proofs: types, complete configuration and schema, lasting settings, disabled keys, viewers |
| `FramesProofs` | proofs: types, tokens and frames of the screenshot protocol |

`Provisioning`, `Broker` and `SessionEnd` extend `ControlPlaneState`; `Requests`
extends `Provisioning` (it spawns its goroutine); `ControlPlane` extends them all.
`Bake` extends `HCloud` and `LocalDocker`, which extend `ProviderState`. `Uptime` extends
`AgentLoop`, `TunnelClock` and `ReaperClock`, which extend `UptimeState`. `Startup`
extends `Settings` and `Access`. `Frames` stands alone. The five systems share no state:
what couples them in the code is named where one of them takes it as a choice (the life
cycle takes ages as a choice, which `Uptime` has; and a boot image, which `Bake` has).

### The life cycle

**State.** `row` is the sessions table, `inst` and `img` the provider's servers
and images, `registry` the tunnel map. A goroutine is one slot of `prov`, `ender`
(DELETE handlers and the reaper while it ends a session), `conn` or `req`: a
record with a program counter and the goroutine's local variables. The program
counter names the *next* call the goroutine makes. `sweep` is what is left of the
reaper's two lists.

**Granularity.** One action is one SQL statement, one provider call or one
critical section of the registry, with the local computation that follows it. All
these are atomic in the code and anything can happen between two of them. Two
statements are merged in one action only where the first writes something no
transition reads: `SetSessionTunnelLost`, `TouchSession`,
`UpdateSessionToolEndpoint` (whose failure is nevertheless an outcome of its own).

**Abstractions.** A tunnel token is a counter: only equality is asked of it.
Instance and image ids are used once, as the provider's are. `None` as a boot
reference is the active boot image, which is never deleted. Time stamps are left
out: a sweep may find any session too old, or not. Requests that are refused
without effect (403, 404, 400, a stopped session's DELETE) are no steps. The
development seam that skips provisioning is left out.

**Failures.** A store call fails when `StoreMayFail`, and then changes nothing. A
provider call fails when `ProviderMayFail`; a failed create may nevertheless have
made the server or the image, unreported. A deletion that fails does nothing. The
bounds double as failures where the real system has one: no fresh instance or
image id is the provider's quota error. `Crash` loses everything but the rows and
the provider's resources, at any point.

**Local provider.** With `Tunnelled = FALSE` the module follows the
local Docker provider: no agent, no persistent sessions, and
`finishDirectProvision` in place of the wait.

### Providers and pre-baking

**State.** `server` and `image` are what the cloud or the Docker daemon has, numbered as
created; `call` is the one provider call that is open, with the step it has come to, or
its answer. `baker.pc` follows `StartBake` and then the goroutine `runBake`: sweep, find,
create, await, snapshot, teardown, done. `registered` is the bake registry, `fired` the
closed `done` channel, `boot` is `activeBootImage`, `post` the handlers of callbacks.

**Granularity.** One action for each API request or docker command, each of which may
fail, and a create may fail after it was carried out; one for each answer the baker
takes; two for the callback's handler, which looks at the channel and then closes it. The
wait for the callback ends with the callback, the timeout or the context, whichever is
first.

**Abstractions.** The token of a bake is the number of the start, which is as unique and
as unguessable as the code needs. Since one name is baked, the label of an image is that
it exists at all. `lost` marks a server that a failed cloud call left running with nobody
to call again: a history variable, which the properties need to tell the code's leaks
from the cloud's. A server is removed, or an image fails, outside the calls too. Local
containers run no cloud-init and never call back.

**The contract.** `ProviderContract` states what the comments of the interface in
`provider.go` promise: a create makes at most one server, and if the caller gets neither
an id nor success it owes nothing but what the cloud leaked; a delete is idempotent; a
sweep covers every labelled server or says that it failed; a found image exists. `Bake`
instantiates it with `live <- Up`, `tagged <- Labelled`, `leaked` the lost servers,
`images <- Existing`, and the steps of a call mapped to "open"; `KeepsContract` is the
refinement.

### A session under the clock

**State.** `now` counts units of time from 1, so that 0 is the empty stamp. `row` has the
status and the three stamps (`created`, `active`, `lost`), and whether the session is a
local one, without a tunnel, or a persistent one. `agent` is the loop of `agent.go` with
its back-off, `conn` a handler of `/agent/connect` each, `reaper` the tick and the copy a
sweep judges, `action` one proxied request. `answered`, `gap`, `grace`, `missed` and
`ended` are histories.

**Time.** `Tick` is the only action in which time passes, and it waits for whatever the
code does without waiting: statements of a handler, a dial that is due, a tick of the
reaper that is due, the notice of a dead connection once the keepalive is over. What does
take time takes any time up to its bound: a back-off, a keepalive, a handshake
(`DialMax`), a sweep that is busy with other sessions (`SweepMax`), a tool that runs (no
bound). `DialMax` is an assumption: `agent.go:119-122` dials under a context without a
deadline, so what ends a handshake that hangs is the network's own time-out, or nothing.
The length of a handshake counts toward `StableConnection`, as in the code. A reap is one
step with its verdict: the time its snapshot takes is part of `SweepMax`. So deadlines are upper
bounds, and anything may happen in less. `GapBounded` and `ReapedInTime` are therefore
safety properties of the clock, not liveness.

**The ticker** (`NextTicks`). Go's ticker does not wait for a slow sweep: one tick is kept
for it, and the next are dropped. The next tick is therefore one of the ticks of the grid
between now and an interval from now, not the one after the last that was taken.

**Faults.** The network is cut, in a handshake or later, or a call of the store or of the
provider fails (`MaxFaults` for all of these together): the look-up of a dialling agent's
session (500), the list of a sweep or of the reconciliation, the re-reading of the row, the
snapshot, the mark, and each write of a stamp, the proxy's `TouchSession` included, after
which the answer is passed on all the same. An instance that is gone cannot be snapshotted,
so a persistent session without one is not reaped by a sweep. The instance dies; the
process crashes (`MaxCrashes`) and comes back after any time. Each end of a cut connection
notices by itself. A session whose instance was destroyed and whose mark failed stays
active, and is swept again. A failing destroy is in the life cycle (`EndDestroy`).

### The start of the process

**State.** `file` is the config file, `written` what the wizard last saved (a history),
`db` the tables and the columns added later, `proc` the step, the environment and the
configuration of the present process, `launches` their number. `keys`, `signing`,
`tokens`, `cookie` and `seen` are what is served: API keys, the signing key, view tokens
handed out, the browser's cookies, and the session whose viewer was opened last.

**Granularity.** One action for each thing that may be cut off or fail: load, each
answer at the wizard, the two halves of the write (the file is emptied first), the
creation of the tables, each `ALTER TABLE`, the seed, the provider, the listener. Kills
come anywhere. Environments differ from launch to launch.

**Abstractions.** Of the settings that merge alike, one of each kind is kept, and every
text that something branches on. The names that mean a provider, in whatever case, and what
trimming makes of names with blanks are constants (`HetznerNames`, `LocalNames`,
`TrimSpace`): `requiredFor` looks at the name as it is, `provider.New` at the trimmed one.
A signature is the key it was made with, so a token
verifies under that key only; a random key is new at each start. A key in the database is
kept as itself, not as its hash.

### Screenshots

`base` is `_FrameState`, `gate` is `_CaptureGate`, a POST
/screenshot handler is a slot of `hand`, and a client's `Session` a slot of
`client`; `disk` holds the command line's `<session>.png` and `<session>.json`. A
screen is a colour for each tile, and a frame the shown width and the colours:
encoding loses detail but tells colours apart. One action is one critical section
or one stretch between two awaits: entering the gate, the end of the grab, the
leader's clearing of the slot, the reading of the base, the answer. Between the last
two another handler may replace the base. The condition on the bytes of a difference
is a choice; so is whether a settling request grabs once more, since the ages in
`settle_logic.py` only decide when it stops. `Repaint` is the desktop, which moves
by itself. A client makes one call at a time; it may give up, try again while the
first handler runs on, or be killed at any point.

The two files of the command line are written in place, one after the other, and each in
two steps: the file is emptied, then it is full. A kill between the two, or a write that
fails, whose error the code drops, leaves a picture that is `Empty` (cut before its pixels:
Pillow cannot even tell its size) or `Cut` (its size is there, its pixels are not all), or
a token file that does not parse. The last is taken for no cache. The picture is taken as
it lies: a full answer replaces it, a difference cannot be pasted on it, a nochange answer
shows what is cut and fails on what is empty. Pillow is taken to be installed.

## 3. The runs

The runs of the session life cycle check `MCControlPlane`. Sizes are given as S(essions) I(nstances)
M(images) P(rovisioning goroutines) D(elete handlers) C(onnections) R(equests);
the reaper is always there.

| Run | Instance | What it shows |
|---|---|---|
| `core` | S1 I2 M2 P2 D1 R1, one restore, one restart, provider fails | `SnapshotResolvable`; `NoUnsavedDestroy` |
| `tunnels` | S1 I1 M1 P1 D1 C2 R1, store fails | types; `OneOpenTunnel`; `InstanceFindable` with the cloud provider |
| `local` | S2 I2 M2 P2 D1 R1, local provider, store fails | `InstanceFindable` with the local provider |
| `fair` | S1 I1 M1 P1 D1 C1 R1, culling, one restart, fair | `OrphanReaped`; `CullFinished` |
| `cap` | S3 I1 P3 R2, both caps 1 | `CapOvershoot` |
| `leak` | S1, cloud | finding: `TerminatedOwnsNothing` fails |
| `snapshot_wiped` | S1 I2 M2 P2, one restore | finding: `RestoreKeepsSnapshot` fails |

The others:

| Run | Module and instance | What it shows |
|---|---|---|
| `bake` | `Bake`: both providers, two servers, two images, three starts, two callbacks per server, two handlers; every call fails in every way; fair | types; `BootImagePulled`, `NoBakeLeak`, `OneBakedImage`; `RefusedOnlyWhenOver`; `BakeServerEnds`; the refinement `KeepsContract` |
| `uptime` | `Uptime`: an ephemeral, a persistent or a local session; back-off 1 to 2, handshakes up to 1, keepalive 1, window 2, idle 2, lifetime 3 (persistent 2), an interval of 4, which is clamped to 2, sweeps up to 1; nine units; one crash, one cut or failing call | types; `GapBounded`, `ReapedInTime`; `IdleMeansIdle`, `FullWindow` |
| `local_reaped` | `Uptime` without faults | finding: `OrphanUnreachable` fails |
| `startup` | `MCStartup`: two launches in any of nine environments; four states of the config file; tables absent or of the first build; two sessions; tokens for 2 of 3 units, two of them | types; `RunsComplete`, `SettingsLast`, `SchemaComplete`, `WatchScoped`; `DisabledStays`; `HeadlessDecides` |
| `frames` | `MCFrames`: two clients, one of them the command line; two handlers; two tries; 2x2 tiles and colours; three frames; one client asks for two widths | types; `TokenNamesFrame`; `ShownIsCaptured` |

### Why the bounds are enough

**Life cycle.** Every race the hazards name is between two or
three actors of *one* session: sessions share nothing but the caps (`cap` has
three) and the provider's quota (`local` has two). Two ends (one DELETE and the
reaper) are enough for every stale copy; two instances, two images and one restore
are enough for a prior snapshot to exist and be replaced, and for the row to name
an instance other than the one an old copy names. Two connections are enough for
a displacement, an early clean-up and a late one. One restart can fall between
any two steps; a second would start from a state of the same shape. `MaxToken`
bounds the restores and `MaxCrashes` the restarts; both are guards, named where
they bite. Agents and connections are left out of `core` (they change the status only,
and the theorem `DestroyedIsSaved` covers them) to make room for the second
provisioning that a restore starts.

**Bake.** Two servers are the present bake's and one that an earlier start left; two
images are one that failed and its successor, or the second one that must not be; the
third start meets what two starts left together. Two callbacks of one server, handled by
two handlers, are enough for both to find the channel open. When no server is left the
provider refuses, as at its quota.

**Clock.** The constants keep the order of the real defaults (back-off and handshake below
keepalive plus window, window not above idle, idle below lifetime), and each boundary is
reached: the back-off doubles to its cap and is reset, by a long handshake too, and the
interval is above all limits and clamped. The
ceiling of a persistent session is below the other's. Nine units let
a session be created, lose its agent, regain it, be restarted over, and still exceed its
limits; every bound of `ReapedInTime` falls within them. One cut or
failing call is enough for each of the places of section 2, the others being fine; two of
them are left to the theorems, which bound neither number. A session is followed until it
is reaped (`NotReaped`): no property of `uptime` speaks of what comes after, which the life
cycle has. An interval below the limits is in `local_reaped` and in the theorems.

**Start-up.** The first launch writes what the second reads; a third would read a file
of the same shape. The nine environments are: nothing; nothing at a terminal; a terminal
with a hostname, a signing key, zeros and a limit; a whole cloud; the development seam with
an empty hostname; an unknown provider; a malformed number; a provider's name with a blank
before it, and one that is a blank. The files are absent,
unreadable, one with the provider spelt in capitals and without its settings, one local.
Two tokens and two sessions are enough for a token of the other session, an expired one
and one of an earlier key.

**Screenshots.** Two handlers are enough for a base to be replaced between its
reading and the answer, and three frames for the replaced base, the replacing one
and the answer that follows. A screen of two tiles has every kind of change: none,
one tile (a difference, or a full frame by weight) and all (a full frame by
coverage). `MaxToken` bounds the frames that are set, counting those still in the
making. One command line is enough for its files: each session has its own.

**Symmetry.** In the life cycle and `frames`, sessions, ids and slots of one kind are
interchangeable: no definition names one. The runs with liveness use no symmetry.

**Deadlock** is checked in the life cycle and in `frames`, where the reaper always has a
next step and a screen can always be repainted. It is not in `bake`, `uptime` and
`startup`: there the system stops when the starts, the clock or the launches are used up,
and a process that is off may stay off.

**What the runs do not assume away.** `InstanceFindable` is checked without
restarts and restores, because the code does forget an instance when it restarts
between `CreateInstance` and the recording of the id, and when two restores of one
session run at once; both are listed as hazards without a property, since no
document promises more. `SnapshotResolvable` holds while database writes succeed.
`CapOvershoot` is checked without agents, DELETE and restores: a revived or restored
session is not counted when it becomes active again. `NoBakeLeak` excuses the servers
that a failing cloud call left (`lost`), and the local containers of earlier starts, which
carry no label. `SettingsLast` says nothing of a number set to zero. `RunsComplete` speaks of
providers' names without blanks around them; of the others see finding 5. `FullWindow`
speaks of sessions whose agent has not been back since their creation or restart, unless
the reconciliation failed at them; of the others see section 6. `IdleMeansIdle` counts the
answers that are on record: one whose `TouchSession` failed is no activity to the reaper
(`proxy.go:96-97` calls it best-effort). `ReapedInTime` is counted anew from a restart and
from a sweep that failed at the session, and a persistent session may exceed its ceiling
by the whole interval, not by the ceiling (finding 4). `TokenNamesFrame` and
`ShownIsCaptured` except what is left of a picture in a cache (findings 6 and 7), for the
command line only and, of what is shown, for nochange answers only.

## 4. Fairness

`FairSpec` of the life cycle assumes weak fairness of every goroutine that has been
started: each of
its waits has a deadline in the code (the provision timeout, the bounded contexts
of provider calls, the tunnel's keepalive once the instance is gone). It assumes
weak fairness of the reaper's own steps, which a ticker drives for ever. It assumes
strong fairness of two choices that abstract ages:

* `~HasTunnel(s) /\ ReapSession(s)`: the orphan rule compares the time the tunnel
  was lost with a grace; while the session has no tunnel that age only grows, so
  among infinitely many sweeps that list the session without a tunnel one finds it
  too old. A session that regains its agent again and again is not covered, and the
  property's antecedent (`<>[]` without a tunnel) does not ask for it.
* `CullBegin(s, ref)`: a stopped session's age only grows as well.

`FairSpec` of `Bake` assumes weak fairness of the baker, of the open provider call and of
the callback handlers: each context on the baker's path carries a deadline, so a call is
answered one way or another. Nothing is assumed of the cloud, of the bake server's
callbacks, of starts and stops.

`Spec` of `Startup` assumes weak fairness of the loading, the saving and the steps of the
start, which the program does by itself. Nothing is assumed of whoever sits at the wizard.

Nothing is assumed of clients, of agents that dial in, or of connections that drop.
`FramesSpec` and `UptimeSpec` have no fairness: what is stated of them is safety, with the
deadlines of the clock in the guard of `Tick`.

## 5. What is proved

All theorems are of the specifications with arbitrary constants: any number of sessions,
instances, goroutines, environments, clients, and any bounds.

### Life cycle

From the assumptions `NoneAssumption` and `SlotAssumption`: `None` is no id, the reaper is
no DELETE handler, the switches are Booleans and the bounds are naturals.

* **`TypeCorrect`** (`ControlPlaneTypes`): `Spec => []TypeOK`. `TypeOK` alone is
  not inductive: a goroutine at `persist` writes `prov[p].inst` into the row, and
  only if it holds an instance, and a session, is the result a row. `TypeInvariant`
  adds what a goroutine that is not idle holds.
* **`TunnelUnique`** (`BrokerProofs`): `Spec => []OneOpenTunnel`. The inductive
  invariant adds: a registered tunnel belongs to the session it is registered for
  (`RegistryOwned`); a tunnel is open only while its handler serves
  (`OpenWhileServed`); the tunnel a connection is about to close is not its own,
  and no other connection is about to close it (`PrevHeld`). The last two make the
  displaced tunnel's deregistration harmless.
* **`DestroyedIsSaved`** (`SavedStateProofs`): `Spec => NoUnsavedDestroy`. The
  invariant `SavedInv` says who may know an instance or an image: an id held in a
  row, in a goroutine or in a reaper's copy belongs to that session
  (`InstanceOwned`, `ImageOwned`); the image an ender has just made is its own and
  holds the disk of the instance it is to destroy (`NewImagePrivate`); and an ender
  is at a step only with what the step needs (`EndsKnown`). Then each action that
  destroys an instance is either `EndDestroy`, whose image is alive and of that
  instance, or a teardown by the goroutine that made it, or the end of an ephemeral
  session.
* **`SnapshotsResolve`** (`SavedStateProofs`): `SnapshotResolvable`, from the
  hypotheses `~CullStopped` and `~StoreMayFail`. `KeptInv` adds that an ender about
  to delete a prior snapshot has already seen the row replace it (`PriorReplaced`)
  and that no cull is under way (`NoCull`). Both hypotheses are needed: when
  `MarkSessionStopped` fails the prior snapshot is deleted although the row still names
  it, and culling deletes the snapshot a stopped row names on purpose, before the row is
  terminated.
* **`InstancesFindable`** (`LifecycleProofs`): `InstanceFindable`, from the hypotheses
  `~ProviderMayFail`, `MaxCrashes = 0` and `MaxToken = 0` (no restores), for both kinds of
  provider, failing database calls, DELETEs, sweeps, culls and agents. The invariant `MadeOnce`
  says that a session has one goroutine and one instance at most, and none before its
  instance is created. So the id a goroutine records replaces none, and the only step that
  could forget an instance, a write over another id, has nothing to forget. All three
  hypotheses are needed, see section 3.
* **`CapHolds`** (`LifecycleProofs`): `CapOvershoot`, from `IsFiniteSet(Reqs)`, `Conns = {}`,
  `MaxToken = 0` and `Tunnelled`. `Reserved` counts what the cap does not: the active
  sessions and the requests that have passed the check, together, stay within the bound.
  A request is let through only while the active sessions alone are below the cap, and
  then no more requests than there are have passed; whatever ends a session only lowers
  the sum, a crash included. `NoDirect` says that nothing reactivates
  a session: an agent, a restore and the direct provisioning of a local session would,
  without a look at the cap.

### Providers and pre-baking

From `BoundsAssumption` and `BakeAssumption`: the bounds are naturals. The provider is
either of the two, as `Init` chooses.

* **`BakeTyped`**, **`BootImageHasPulled`**, **`NoBakeServerForgotten`**,
  **`OneImageAtMost`** (`BakeProofs`): `Spec` implies the four invariants of the run. One
  inductive invariant, `BakeInv`, follows the baker. Its program counter says which call is
  open and on what (`CallInv`). The call says what it has made so far and what is left to do
  (`CreateInv`, `SweepInv`, `DeleteInv`, `ImageCallInv`, `FindInv`): a create that fails
  without an id has left no server that is not lost, and a sweep that has been answered has
  left only lost ones, without which `NoBakeLeak` is not inductive. `TokenInv` ties the
  number of the start to one server, the one that is being made or that the baker holds,
  so a callback that closes the channel is that server's, and that server has pulled;
  `ImageInv` says that an image was made of a server that had. `OneImage` says that from
  the look that found no image to the step that begins one there is none.
* **`CallbackRefusedLast`**: `Spec => RefusedOnlyWhenOver`, from `TokenInv`: the server of the
  present start exists only while its token is registered, or when the bake is done.
* **`ContractKept`**: `Spec => KeepsContract`, the refinement. The initial state maps to one
  of the contract. A step of the baker opens a call or takes an answer; a step of a provider
  inside a call maps to the contract's step that changes what is there, or to a stutter; the
  step that answers maps to an answer of which the contract's condition is what `BakeInv`
  says of the call. What changes outside a call (a server that is removed, an image that
  fails, a callback, a start, a stop) maps to the contract's own outside steps or leaves
  its variables alone.

### A session under the clock

From `UptimeAssumption`: the durations are naturals, `0 < BackoffInitial <= BackoffMax`, the
intervals are positive, and the clock comes as far as 2. Nothing is assumed of how the
durations are ordered: the keepalive may exceed the window, a limit may be zero (none), the
persistent ceiling may be the smaller or the greater, a sweep or a handshake may be longer
than an interval, and any number of cuts, failing calls and restarts is allowed. That a
handshake ends within `DialMax` is assumed, see section 2.

* **`UptimeTyped`** (`UptimeProofs`): `UptimeSpec => []UptimeTypeOK`.
* **`ReapedInTimeAlways`**: `UptimeSpec => []ReapedInTime`. `SweepInv` says that the copy which
  is judged is the row as it was when the sweep began, at most `SweepMax` ago, up to an
  activity since. `LimitsInv` says when the session will be swept next (`OnTime`). Let m be
  the time at which a limit is reached, or at which the process started or a sweep failed at
  the session, if that is later. The next tick comes within an interval of m, and a sweep
  that is under way began within an interval of m, or within the length of the sweep before.
  A sweep that began after m does not keep the session unless it fails, and then m is the
  time of the failure; m only moves forward (`EndsRecede`). The interval is no longer than
  `IdleTimeout` and `MaxLifetime` (`IntervalBounds`), which is where the bound comes from;
  for the ceiling of a persistent session the configured interval is all there is.
* **`IdleMeansIdleAlways`**: `UptimeSpec => IdleMeansIdle`. `AnswerInv`: what was answered and
  is on record had been recorded as activity before, so a sweep that began after the answer
  has it in its copy.
* **`FullWindowAlways`**: `UptimeSpec => FullWindow`. `WindowInv`: as long as the agent has not
  come, no handler has got further than its registration, so nothing clears or sets the
  stamp of the loss but the reconciliation, and the time the orphan rule measures from is
  no earlier than the creation or the restart from which the agent is waited for. A
  reconciliation that fails ends that (`grace`).
* **`GapBoundedAlways`**: `UptimeSpec => []GapBounded`, for every bound of a handshake. The
  bound is the keepalive, the cap of the back-off and two handshakes, counted from the last
  cut, restart or failed look-up. `AgentInv` and `HandlerInv` say what each end knows of the
  other: a tunnel that works is that of the running or dialling agent and is registered,
  unless its handler is about to register it; a dead one is noticed within the keepalive, at
  each end for itself; a handler about to register has taken its connection at this instant,
  and if that has been cut since, its agent does not dial again before time has passed,
  because no back-off is zero. The last excludes that an older handler registers a dead
  connection over a newer one that works, which would be without a limit. `GapInv` adds what
  is left of a gap: a dial is refused only by a tunnel that is not yet noticed dead, so
  within a keepalive of the cut; the agent has the refusal a handshake later, waits no longer
  than the cap, and dials, for another handshake at most (`DialEnd`).

### Start-up

From `BuiltinAssumption` (the default table gives every setting, and no default for what is
required of a cloud; it names a cloud), `NamesAssumption` (a name with blanks is none of
the providers' names, nor are the two providers one), `LaunchAssumption` (a number that an environment or a file gives is
an integer) and `AccessAssumption` (`None` is no session, a positive token life).

* **`StartupTyped`** (`StartupProofs`): `Spec => []StartupTypeOK`.
* **`SettingsLastAlways`**: `Spec => []SettingsLast`. `SettingsInv` says that a configuration
  that has been merged says what its environment says and has a default only where both are
  silent (`Says`, `Defaulted`); that the wizard asks for a hostname only where there is none;
  and that the file is either half-written or what the wizard saved last, until it saves
  again. A file that reads back as what was saved (`ConfigToFileConfig` and back) then gives
  every setting that is not a zero number.

* **`WatchScopedAlways`** (`StartupProofs`): `Spec => []WatchScoped`. `AccessInv` adds that
  nobody has opened a viewer unless the process serves, and that every cookie is a token
  that was handed out: a cookie that outlives its process is harmless because it is
  verified against the key of the present one.
* **`DisabledStaysAlways`**: `Spec => DisabledStays`, an action property: a step of a start
  only adds keys, a seed does not touch a key that is there.
* **`RunsCompleteAlways`**: `Spec => []RunsComplete`. `RunsInv` says that from the end of the
  wizard on nothing that is required is missing, where *required* is the code's own
  `RequiredFor`; the prompts of the wizard change only what is missing, and the hostname,
  on which nothing required depends (`CompleteKept`); and from the provider's
  construction on the provider's name, trimmed, is one that exists. So unless it is trimmed
  it is that of a cloud, for which nothing is missing, or the local one (`Named`,
  `MergedNamed`). A name with blanks is excepted, because the code fails there (finding 5).
  `Shape` says that process, configuration and
  tables are records of the expected fields, without which no `EXCEPT` can be followed.
* **`SchemaCompleteAlways`**: `Spec => []SchemaComplete`. `SchemaInv` adds that the tables
  exist once the migrations begin and hold no foreign column; the step to `seed` is taken
  only when none is missing, whatever an earlier start left undone.

### Screenshots

* **`FramesTypeCorrect`**, **`PresentTokenHeld`**, **`FrameReconstructed`**
  (`FramesProofs`): `FramesSpec` implies `[]FramesTypeOK`, `[]TokenNamesFrame` and
  `ShownIsCaptured`, from `FramesAssumption` (what clients ask for are widths of the
  screen, no handler is `NoHandler`) and `NoFrameAssumption`. One invariant serves all
  three, `FramesInv`. A token is given out once, so who holds the greatest one holds
  the base (`SessionFine`, `DiskFine`, the latter through a kill at any point of the
  writing: the token on disk is never newer than the session's while it is being saved),
  or what is left of a picture, and that in a command line only (`Whole`). A
  handler that compares has read the frame of the token its request named
  (`HandFine`), which is the frame the waiting session holds (`WaitFine`); so what is
  outside the changed tiles is what the session holds already, whatever became of the
  base meanwhile. The types need all this: pasting regions gives a frame only if there
  is one to paste on. With a picture cut short there is none, which is where the command
  ends (`Crashes`); what remains is the nochange answer, which shows the part
  (`RebuiltIsShown`).

Each invariant that the proofs use was checked with TLC first.

**What proving found in the models.** The bound of `ReapedInTime` was stated as a limit and
a sweep; that is false for a sweep longer than the limit, since one that began just before
the limit was reached must end before the next can begin, and for a limit of zero, which
is none. The reaper's clock used to count every tick, so that a slow reaper fell behind for
good, while the ticker drops what is not taken. The numbers of a configuration were typed
as naturals, while the parsers take negative ones.

**Only model-checked**: the liveness properties (`OrphanReaped`, `CullFinished`,
`BakeServerEnds`, `HeadlessDecides`), which rest on fairness and are out of the prover's
reach. All other properties of the passing runs are theorems. The runs of section 3 remain:
they show that the cases the theorems speak of are reached, and each of their properties
is broken by a plausible mistake in the code.

## 6. Findings

Three are recorded in `PROJECT.json` with the lines they contradict, each with its run.

1. *A DELETE early in a provisioning leaks the instance* (`leak`): it reads the row
   before the instance id is recorded and has nothing to tear down, while the
   provisioning goroutine leaves the teardown to it. With the local provider the
   goroutine looks once more at the status, and the same leak remains between that
   check and its return.
2. *A restore may be undone by the next sweep* (`snapshot_wiped`): the row's old
   time stamps make the session too old at once, and without an instance the reaper
   stops it with an empty snapshot reference.
3. *A local session is reaped in use* (`local_reaped`): the orphan rule asks the tunnel
   registry, where a session with a direct endpoint never is; once the provision timeout
   and the grace have passed since its creation the container is destroyed, whatever it
   is doing.
Four more contradict a comment in the code. The properties except them, each by a term of
its own; without that term TLC finds it violated under the same configuration, unless said
otherwise.

4. *A persistent session overstays its ceiling* (`ReapedInTime`, the `every` in its bound):
   the interval of the sweeps is clamped by the idle timeout and the lifetime of the others
   (`reaper.go:82`), not by `PersistentMaxLifetime`, though "it never exceeds the smallest
   positive timeout" (38-40). With the defaults it does not show, nor in `uptime`, where the
   idle timeout clamps as much; with a ceiling below the interval and the other limits it does.
5. *A provider's name with blanks starts incomplete* (`RunsComplete`, `DOMAIN TrimSpace`):
   `requiredFor` compares the name as it is written (`config.go:522`), the provider's look-up
   trims it (`provider.go:203`), so with `ECU_PROVIDER=" hetzner"` nothing is asked for and
   the process serves without token, type and region, which `config.go:510-514` require.
6. *A picture cut short is shown* (`ShownIsCaptured`, the disjunct with `Cut`): the command
   line writes its cached picture in place (`ecu_client.py:1061`), after a nochange answer
   too, when the token on disk is still the server's. A kill or a full disk leaves a part of
   it, which the next load takes (1039) and the next nochange answer shows, though "an
   unreadable PNG yields a cold Session" (1004-1006).
7. *A cache ends the command* (`Crashes`): if less is left than the picture's header, a
   nochange answer ends the next screenshot with Pillow's error (`ecu_client.py:830`), and
   while the screen stays the same so does every further one; a difference ends it once
   whatever is left (900), since the server's base moves with it. "The cache must never
   crash a command" (1006).

Also seen while modelling, and in no run, because no document promises otherwise
in so many words or because the model is too coarse to show it.

In the life cycle:

* a terminated session becomes `ready` again: check and write are two statements, in the
  provisioning goroutine (`provision.go:266`) as in the broker (`broker.go:104`); a later
  sweep ends it as an orphan;
* a reconnected agent's session is put back to `provisioning` by the clean-up of the
  connection before (`broker.go:128`, after the check of 117-119);
* a failed `MarkSessionStopped` loses the saved state: the prior snapshot is deleted
  although the row still names it (`persist.go:72` against 41-43 and 73-75);
* a provisioning that times out while its session is being stopped overwrites `stopped`
  with `error` (`provision.go:153`), which can neither be restored nor culled; a cull
  terminates a session that was restored after the sweep listed it (`persist.go:103`).

Under the clock:

* a session older than the window that loses its tunnel for a moment may be reaped at
  once, when a sweep listed it before the loss was stamped (`broker.go:124-137` against
  the comment `reaper.go:13-17`); a stamp that is written late, or by a reconciliation
  that races the agent, may be kept until a restart and counted from then;
* a long `exec`, which is stamped when it has ended (`proxy.go:97`), and watching
  (`watch.go:184`) are no activity: the idle rule may take a session in the middle of
  either;
* a handshake has no deadline (`agent.go:119-122`): an agent whose dial hangs is held by
  neither the keepalive nor the back-off, however long that lasts.

In providers and bake:

* a graceful stop does not wait for the bake's teardown (`main.go:275-277` and
  `bake.go:155-157` against `main.go:326`): the server runs until the next start sweeps it;
* the local provider drops the labels of the caller (`local.go:147`), so a container that
  a crashed bake left is found by no sweep; and with it every start bakes and none
  succeeds;
* an image is found whatever its status (`hcloud.go:243`), so the next start may adopt one
  that is still being made, and that may fail.

In the start-up and the clients:

* with `ECU_TLS=auto` and no `ECU_HOSTNAME` (`README.md:85-88`) the URLs handed out fall
  back to `ECU_LISTEN`, which this mode does not open (`main.go:76-95`);
* a zero `ECU_IDLE_TIMEOUT` or `ECU_MAX_LIFETIME` "disables" (`config.go:184-192`) but is
  replaced by the default (`config.go:446-464`), and a zero `ECU_MAX_SESSIONS` is not
  saved by the wizard (`omitempty`, `load.go:210-212`);
* the config file is written in place (`load.go:228`): a kill in the middle leaves one that
  no later start can read;
* the second screenshot of an unchanged, downscaled screen resets the scale: the short
  answer has no sizes (`app.py:725`), the client takes the shown width for the native one
  (`ecu_client.py:830`), and the next click lands where the picture shows the target, not
  where the screen has it.

## 7. Not modelled, and the plan

Next, the most valuable first.

1. The life cycle over restarts and restores: what *is* true of an instance then (it is
   named, held, or forgotten by one of the two races of section 3), as an invariant and a
   theorem in place of the hypotheses of `InstancesFindable`; likewise a cap theorem that
   counts the revived sessions.
2. `Frames`, extended: restarts of the tool server, threads that share a session,
   two command lines at once; input actions and batches with their trailing
   screenshot. Settling (`settle_logic.py`) as a pure operator checked against a
   reference.
3. An abstract specification of what a session promises its owner (work is in
   exactly one of: a running instance, a saved image, or given up), and
   `ControlPlane` shown to implement it.
4. The addresses a start hands out (listener, hostname, external URL), the firewall
   rules, and the capability of a key to have persistent sessions.

Left out for good: certificate issuance (autocert's), the text of cloud-init,
manifests, the CLI's output, the development seam of sessions, and the test doubles,
which stand in for a provider in tests and run in no installation.
