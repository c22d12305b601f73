# Verification of birdnet-go-remote-mic

TLA+ models of the appliance `remotemic`, checked with TLC on small instances and,
where marked, proved with TLAPS for every value of the constants. Paths below are
relative to the repository; `PROJECT.json` gives, for every definition, the lines
it models.

## 1. The system

`remotemic serve` captures audio from sound devices and serves each of them as an
RTSP stream; an HTTPS API with a web interface configures it; a root helper
updates it.

| Component | State it keeps | Operations | Interacts with |
|---|---|---|---|
| Media path: `internal/audio/fanout.go`, `internal/pipeline/pipeline.go`, `internal/rtspserver/feed.go` | fan-out position, the stage's queue, the stage's partial frame and session, the feed's copy-on-write snapshot of subscribers, one queue per subscriber | read a period, gate it, queue it, encode it, push a frame; subscribe, close, close the feed | RTSP sessions subscribe; the device pump starts and ends it |
| RTSP server: `internal/rtspserver/{server,session,writer,eviction}.go`, `internal/auth/guard.go` | tracks by path, per connection its state, `authed`/`authGen`, the writer; the guard's token and generation | DESCRIBE, SETUP, PLAY, TEARDOWN, token change, eviction, teardown | the run loop registers tracks, the API sets the token, the feed delivers frames |
| Configuration control: `internal/mgmtserver/{config,devices}.go`, `cmd/remotemic/{main,appliance,management,management_retry,token}.go`, `internal/runlock` | the file, the store of each API, `patchMu`, the run lock, the guard's token, what runs | PATCH, provision, delete, reload, reconcile, supervise the API, token commands | handlers hand configurations to the run loop over an unbuffered channel; token commands and the API share the file |
| Self-update: `internal/update`, `internal/service/install.go` | binary, kept copy, journal, lock; request, claim, staged release, result, health file | stage, request, withdraw, apply, roll back, recover, boot, `service install` | three processes that share only files, an flock and systemd |
| Device lifecycle: `cmd/remotemic/{appliance,retry,geometry}.go`, `internal/reload` | per device its pump, why it is down, retry deadlines, capture geometry; the timer, the announced set | reconcile, pump result, retry, hotplug, geometry escalation, announce | media path, notifications, enumeration |
| Notifications: `internal/notify`, `internal/sse`, `internal/mgmtserver/notifications.go`, `web/src/lib/notifications*.ts` | active conditions, a ring of past events, a bounded queue per subscriber; the page's items | publish, onset, update, clear; stream, snapshot, merge, reload | every emitter below, API clients |
| Monitors and levels: `internal/monitor`, `internal/levels` | taps and meters of the level hub, detectors per device and per host reading, counters last seen | window, poll, apply settings, attach, detach, stop | level hub, run loop, center |
| Client events: `cmd/remotemic/stream_events.go`, `internal/notify/detect.go` | one flap detector per path and host | connect, disconnect, sweep | RTSP listener, center |
| Update checks and releases: `internal/update/{manager,fetch,version}.go`, `internal/releasemanifest` | loop, timer, wake, latest release; the release host | check, manual check, turn on and off, fetch, verify | run loop, center, `SelfUpdate`'s half of the manager |
| Run lock publisher: `runLockPublisher` in `cmd/remotemic/main.go` | state wanted, state written, retry timer | set, flush, retry, stop | token commands, center |
| Certificate store: `internal/mgmtcert`, `internal/mgmtserver/certificate.go` | the pair on disk, its pin marker, the snapshot served | load, self-heal, renew, rotate, install | management server, API |
| Device list: `internal/mgmtserver/devices.go`, `internal/audio/{hardware_linux,capture}.go`, `cmd/remotemic/{management,channel_probe}.go`, `internal/config` | detected units, configured ids, saved list, a channel probe | enumerate, provision, patch, delete, probe, validate | run loop, hotplug |
| mDNS responder, sample conversion, Digest hashing, system information, HTTP plumbing, service units | see `PROJECT.json` "components" | | |

What is hard in it, and what the models are about:

* **Concurrency without locks.** The audio goroutines never block on a client: a
  queue that is full drops. The feed's state is an atomic snapshot that a push may
  hold while clients leave and others join. The RTSP reader and writer share two
  atomics. Handlers, run loop and supervisor meet in selects.
* **Sessions that overlap.** Audio queued for clients that have left must not reach
  the next one; a token change must reach a stream already playing.
* **Cuts.** The updater replaces the binary it was started from, and any process
  may be killed, or the power cut, between two steps.
* **Conditions with several owners.** An alert is raised, rewritten and cleared by
  code that is also restarted, reconfigured and switched off; one lost pairing
  leaves it on for good.
* **Hardware under two names.** A unit has up to three ids, its twin may share one,
  and it may be unplugged between a check and its use.
* **Ends.** Something is always waiting for something else: a pump for two
  goroutines, a request for the run loop, a shutdown for handlers, an update for a
  health file.

`PROJECT.json` "hazards" lists the places in the code where these bite, with the
property that would catch each, or the reason there is none.

## 2. Modules

| Module | Models | Extends / uses |
|---|---|---|
| `PlaySession` | the media path, from the capture to the packets of a connection | instantiates `LiveAudio` |
| `LiveAudio` | what the path promises: live audio with loss, per stretch of playing | |
| `PlaySessionProofs` | theorems about `PlaySession`: types, play sessions | `PlaySession`, TLAPS |
| `PlayOrderProofs` | more of them: closure, encoder runs, order, timestamps, the refinement, counted losses | `PlaySessionProofs` |
| `RtspServer` | connections, writers, tracks and the guard of one path | |
| `RtspServerProofs` | theorems about `RtspServer` | `RtspServer`, TLAPS |
| `ConfigControl` | everything that changes the configuration | |
| `ConfigControlProofs` | theorems about `ConfigControl` | `ConfigControl`, TLAPS |
| `SelfUpdate` | updater, appliance and installer on one disk | |
| `SelfUpdateProofs` | theorems about `SelfUpdate` | `SelfUpdate`, TLAPS |
| `DeviceLifecycle` | how a configured device is opened, supervised and brought back | |
| `DeviceLifecycleProofs` | theorems about `DeviceLifecycle` | `DeviceLifecycle`, TLAPS |
| `Notifications` | the center, the event stream, the snapshot and the page | |
| `Monitors` | settings group, signal monitor on the level hub, host monitor | `Notifications` |
| `StreamEvents` | notifications about playing clients | `Notifications` |
| `Releases` | version order, manifests, the fetch against a changing host | `Notifications` |
| `UpdateChecks` | the update manager's checks | `Monitors`, `Releases` |
| `RunLockPublisher` | failed writes of the run lock and their retry | `Notifications` |
| `Certificates` | the certificate pair, its marker and the snapshot served | `Notifications` |
| `Provisioning` | units, ids, probes and the device list | `Notifications` |
| `Events` | the composition of the eight above, and their properties | all eight |
| `EventsProofs` | theorems about `Events`: certificate, channel probe, device list, update switch, release offered, and the page's lemmas | `Events`, TLAPS |
| `AlertsProofs` | and about its alerts: causes, settings, overruns, the run lock's file, what the page shows | `EventsProofs` |
| `MC*` | symmetry sets, instances and constraints for TLC | the module of that name |

The modules are joined at the points where one takes another's behaviour as given:
`RtspServer` treats a frame as a unit and `PlaySession` a connection as a client
that joins and leaves; `RtspServer` takes token changes at any moment and
`ConfigControl` says when they happen; `SelfUpdate` starts and stops appliances
whose inside the others model. `ConfigControl` treats a configuration as one value
and `Provisioning` says what its device list may become; both reconcile in one step,
whose inside is `DeviceLifecycle`, and `DeviceLifecycle`'s pump is the path
`PlaySession` models. `ConfigControl` takes writes of the run lock as succeeding and
`RunLockPublisher` has them fail.

Definitions whose comment names no code (`HasRoomOffByOne`, `JournalLate`, ...),
standing just before the definition they resemble, are deliberately wrong
variants. Each property is violated when its variant takes the place of the real
definition (`PROJECT.json` "mutants"), which shows that the property depends on
that piece of code.

### PlaySession

A sample is its position in the capture, so that what a client hears shows where
it comes from. The goroutines are the fan-out (`fanPc`: read, gate, send), the
encode stage (`stPc`: read, admit, fill, push, send), one writer per client
(`wPc`: check, select, write). `snap` is the feed's snapshot `{subs, epoch}`:
`Subscribe`, `SubClose` and `FeedClose` replace it, the gate, `StageAdmit` and
`PushLoad` read it at different times. `PushSend(c)` delivers to the clients of
the snapshot loaded, one at a time, so that they may have left since. `epoch`
numbers the play sessions; periods and frames are tagged with it. The Opus stage
fills frames of `FrameLen` across periods and drops a partial frame when there is
a gap or a new session; the L16 stage cuts a period into payloads, the last one
short. `StageFault` is an encoder that fails. RTP timestamps are taken modulo
`TSMod` from a base a writer fixes at its first packet.

History: `start` (where each session began), `epochOf` (the session each client
joined), `heard` (what it was sent), `closedAt`.

### RtspServer

The reader of a connection receives a request, snapshots the guard, checks the
Digest answer and stores `authed` and `authGen` in separate steps
(`Receive`, `CheckDigest`, `StoreGen`), then runs the handler (`Describe`,
`Setup`, `Play`, `StartWriter`, `Teardown`). The writer takes a frame, takes a
snapshot of the guard, decides on eviction and writes (`NextFrame`,
`TakeSnapshot`, `Decide`, `Write`). The end of a connection is `ReadEnds`,
`Unsubscribe`, `CloseConn`, `Join`, in the order of `serveConn`'s deferred calls.
The run loop retires a track in two steps (`RemoveTrack`, `CloseFeed`) and
registers its successor; a connection may have been set up on the old one.

History: `proved` (the token last proved), `late` (packets sent without
authority), `writers`, `events` (what the Listener was told).

### ConfigControl

A configuration is its token and one value for the rest. A handler takes
`patchMu`, merges and saves (`Persist`), sets the guard (`Enforce`), offers the
configuration to the run loop (`Send`, one arm of a select with `Abandon` and
`Fail`) and waits for the answer (`Applied`). `reconcile` sets the guard first
(`ApplyToken`) and then the devices (`ApplyDevices`). The supervisor serves an
API, publishes in the run lock, sees it die, drains its handlers for a while,
writes that it is starting, re-reads the file, applies it if it changed, and
serves again. A token command takes the run lock if it is free; if the appliance
holds it, the command reads what the lock says and goes on only if no API serves.
It then loads and saves the file under the edit lock.

History: `missed` (an edit the API in service has not seen), `outlived` (a handler
that ran on after its API's drain), `abandoned` (a reload whose client left).

### SelfUpdate

Variables are the files and, per process, its place. `UpdaterStarts` to `Exit` are
the steps of `Applier.Apply` in order, each with its failure; `UpdaterKilled`,
`InstallKilled` and `PowerCut` cut them anywhere. `RecoverInPlace` and
`RecoverRenames` are the recovery that the next updater does from the journal.
The appliance's start is `WithdrawOrphanedRequest`, `BootHealth`, `BootLive` or
`BootReport`, `BootClean`, `WatchReports`/`WatchEnds`; the update manager's
attempt is `StartApply`, the `Stage*` steps and the `Await*` steps.
`InstallStarts` to `WithdrawStagedRequest` are `service install`.

History: `unproven` (the binary was swapped in and not yet seen healthy),
`gaveUp` (its rollback failed or an install took the kept copy), `mine` (the claim
is on the request of the attempt under way).

### DeviceLifecycle

The run loop's handlers run on one goroutine, so each is one action: `Save`
(reconcile: stop, restart and start by the plan, records, announcements, retry
state), `OnPumpDone` and `OnStalePumpDone` (a pump's result, of the runtime that
serves or of one since replaced), `OnRetryDue` (the retry timer), `RetryDown` (the
hardware changed). What a handler opens is tried in config order, each open with its
outcome, so that a unit taken by the first is busy for the second: `Passed` is the
loop over the entries, `Turn` what it makes of one device's record. `dev[n]` is the
device's record: state, entry, pump, why it is down, retry (`next`, `settle`,
`awaitEncode`), streams whose encoder faulted, geometry. Deadlines are relative to
the clock. `due` and `changed` are the one-slot channels of the timer and of the
enumeration, whose signals may be old when they are taken. `PumpEnds`,
`NoteEncoded`, `ServesAnHour` and `HostChanges` are what happens to a device.

### Events and its parts

`Notifications` has the center as a value; its methods run under one mutex and are
functions, so that an emitter's step applies a few of them in a row. The
broadcaster's queue drops when it is full; the SSE handler's hand and merge buffer
delay; snapshot requests may overtake each other, fail, or straddle a restart. The
page merges by boot and id as `notifications-core.ts` does.

`Monitors`: the run loop stores settings in the group and attaches; a window or
poll loads them once at its start. The signal monitor's tap decides to detach inside
its own callback while an Apply may attach. The host monitor reads counters that
start over with a device's runtime. `mic.untold` is history: overruns the capture
has recovered from since the last line that told of them.

`UpdateChecks`: the loop's select (timer, wake, stop), a check's fetch without the
lock, the manual check, and `SetEnabled` in its parts. `Releases` has the three
requests of a fetch as steps, with `SiteChanges` between them. `offGen` counts how
often checks were turned off (history).

`RunLockPublisher`: a fired timer waits for the mutex; `stop` may come first.
`Certificates`: each rename and sync is a step, a cut leaves any of the renames not
yet synced, a request is answered at the end. `kept` is the pair an operator was
told is installed (history).

`Provisioning`: a unit's ids are by serial, by port and by card index (`DeviceId`,
`PortId`, `CardId`); twins share a serial and are offered by port. The provider's
two views, what was detected and which ids are owned, are each as old as the last
enumeration and the last reconcile. `AskProvision` is the check without the lock,
`StartProbe` to `ProbeCancelled` the channel probe and its goroutine, `Lock`,
`Recheck`, `UpdateStore`, `HandOver` the part under `patchMu`. `DefaultStream`,
`ValidConfig`, `ValidateLengths` are the rules of `internal/config`;
`OpenNegotiate`, `ResolveOpenChannels` and `OpenDevice` are how the appliance opens
what was saved. `steady` and `left` are history: the hardware has not changed since
the client asked, and a client left in mid-reload.

## 3. Runs

| Run | Instance | Checks | Shows |
|---|---|---|---|
| `play_opus` | 2 clients, queues of 1, periods of 2, frames of 3, timestamps modulo 4 starting at 3 | SessionIsolation, NoSplice, TimestampsFollowAudio, OneEncoderRunPerSession, ImplementsLiveAudio | a client hears only its own play session, in whole frames, on time, and the path implements `LiveAudio` |
| `play_pcm` | 1 client, periods of 3, payloads of 2, fair goroutines, closures and shutdown | ClosureStopsAudio, AudioInOrder, PathEnds | losses are counted, and everything ends when the device goes |
| `rtsp_auth` | 1 connection, 2 tokens or none, 3 token changes, 2 SETUPs | TrustMeansCurrentToken, RevokedGetsOnePacket, OneStreamAsAnnounced, RevokedIsEvicted | a token change reaches a playing stream |
| `rtsp_tracks` | 2 connections, 1 slot, 2 tracks | GoneIsAccountedFor | no slot leaks, every connection reports both ends |
| `config_store` | 1 handler, 1 token command, 2 APIs, 2 starts, 1 edit | StoreIsFile | no API saves over an edit it has not seen |
| `config_patch` | 2 handlers, 1 token command, 1 client that leaves | SettledIsApplied | what was saved last is what runs |
| `config_live` | 2 handlers, 1 token command, 1 edit, at most 2 of them at a time, fair | RequestsEnd, EditedFileApplied | no request hangs, and an edit made while the API is down is applied |
| `config_token` | 1 handler, 1 client that leaves | TokenEnforced (violated) | the finding of section 5 |
| `update_install` | 2 versions, 1 cut, 1 install, a clock that steps | UnprovenCanBeRolledBack, WithdrawnIsNotInstalled, NeverDowngraded | nothing unproven is ever without a way back |
| `update_cut` | 2 versions, 2 cuts, fair | KeptMeansUp, UnprovenSettles | an update ends confirmed or rolled back |
| `device` | 2 entries that may be one card, 2 saves, 3 troubles, fair | PumpsAccounted, DownIsTold, RetryHasWakeup, Discoverable, ProofBeforeClear, RetriedUntilUp | results and signals that arrive late do no harm, a device that is down is told and retried until it is up |
| `events` | 17 instances of one or two parts each | see below | the management side |

The `events` run starts in one of the instances of `MCEvents`, each with a budget
for what stirs it:

| Instances | Part | Checks |
|---|---|---|
| `Page`, `Faults` | the center, the stream and the page; lost events, broken connections, failed loads, a restart | ViewIsCurrent |
| `Signals`, `Levels` | signal monitor and level hub; settings off and on, a stalled or vanished device | AlertsHaveCause, SettingsTakeEffect |
| `Sensors`, `Counters` | host monitor; readings that fail, counters that start over | AlertsHaveCause, OverrunsAccounted, SettingsTakeEffect |
| `Updates`, `Sites`, `Offers` | update checks against a release host that publishes and replaces | AlertsHaveCause, OffStartsOver, OfferIsGenuine |
| `Clients` | 6 connects and a disconnect at any spacing | FlapCounts, AlertsHaveCause |
| `RunLocks` | writes that fail, a retry that has fired | RunLockSettles, AlertsHaveCause |
| `Certs`, `Moves` | rotations cut off, failing, with read faults, address changes, expiry | CertificateKept |
| `Rivals`, `Adds`, `Removes`, `Plugs` | two requests on three units, two of them twins; PATCH, delete, hotplug, a client that leaves | OneEntryPerUnit, DefaultsFit, ProbeOutOfTheWay |

**Why these bounds.** *Play:* a queue of 1 is full at once, so every drop is
reached; frame and period lengths that do not divide each other put every frame
across a period's boundary; two clients are a leaver and a joiner, and a session
needs no third; a modulus of 4 starting at 3 wraps at the second packet.
`StaysUp` keeps the appliance running in `play_opus`, where the interleavings of
two clients are the question; `play_pcm` has the closures. *Rtsp:* three token
changes are a revocation, a change back and one more; two SETUPs let a client
repeat SETUP and PLAY while it plays. *Config:* two APIs are one that dies with
handlers left and its successor; two handlers are one that holds what the other
waits for. `MaxBusy` bounds what goes on at a time, an edit made counting as one:
`config_live` has two requests, or one beside an edit, whose PATCHes leave the token
alone (`Asked` is empty); the other runs let them set it. *Update:* two versions are the installed one and a newer one; a second
cut hits the recovery from the first; an install may come from either version.
`MaxCuts` also bounds the runs refused for permissions, which the unit's start
limit ends. *Device:* two entries are needed for one to take the other's card and
for a reconcile that changes one while the other's result is out; a back-off of two
steps and a geometry ladder of one have a first, a repeated and a last attempt;
three troubles are a death, a failed restart and one more. Disabling an entry is in
the model; the instance removes entries instead, which differs in the record shown
only. *Events:* a ring of 2 and buffers of 1 overflow within three events; dwells
of 1 and 2 ticks have a tick inside and one at each edge; a check interval of twice
the first retry has both; three units are two with one serial and one without, on
two ports and one port without a path, and a list of 2 is full after two; two
requests are one that probes and one that overtakes it.

`CHECK_DEADLOCK FALSE` stands where the system may stop: the capture has ended,
every connection is used up, the appliance is down for the last time, the budget is
spent. The update runs check for deadlock. Symmetry is used in `events` for the two
requests, which no definition tells apart; that run has no liveness property.

**Fairness.** *Play:* goroutines that can run do run. Nothing makes a client
join or leave, or the device close; a read of a closed capture fails, and a
connection whose socket was dropped is cleaned up. *Rtsp:* handlers and writers
run, a retired feed is closed by the same goroutine that unregistered it, and an
open feed with subscribers keeps producing frames, as capture does. A reader whose
socket is closed runs out of buffered requests (strong fairness: it may handle
some first). *Config:* goroutines run; a Go mutex hands over to a waiter that
starves and a channel serves its waiters in the order they came, hence strong
fairness for handlers and the supervisor's hand-off; a file that can be read is
read some time, because attempts repeat. *Update:* systemd's path unit starts the
updater while its condition holds, the updater's and the installer's steps go on,
and the wait for health has a timeout. Nothing makes the appliance come up, the
health file appear or an operator run anything. *Device:* the clock ticks, a timer
that has come sends its signal, the run loop's select takes what is sent, and the
enumeration's ticker runs. `MaxTrouble` bounds failed opens as well, so
`RetriedUntilUp` is about a device whose opens go well from some time on.

## 4. Proofs

Every theorem holds for every value of the constants that the `ASSUME`s of the
modules allow. TLC evaluates them on each run. They are:

* sizes, dwells, windows and budgets are natural numbers, positive where a queue,
  a list or a modulus needs it (`SizesAssumption`, `BoundsAssumption`,
  `NotificationBounds`, `MonitorBounds`, ...). `MonitorBounds` has the share of
  free memory in percent, which `internal/config` validates to 1..90;
* a sentinel is outside the set it stands beside (`TokenAssumption`,
  `NoneAssumption`, the two `NamesAssumption`s), and handlers, token commands and
  the appliance have different names;
* `RunningOrdered`: the running release is among the tags, so that it has a place
  in their order; `TagsOrdered`: the tags are listed in that order;
* `PartsAssumption`: the instances in which the process restarts
  (`page`, `certs`) run no emitter. A restart begins every emitter anew with the
  center; the instances without one have all of the emitters' life between;
* `ConfigAssumption`: a configuration lists a name once (`internal/config` refuses
  duplicates) and its entries' ids are among those the host answers for;
* `SelfUpdate` has enough process IDs that a new process can get one nobody
  remembers.

Every theorem's proof splits the step by action, and under it by the conjuncts the
action can disturb. What follows says for each module which inductive invariant it
rests on, and why the property alone is not inductive.

### Media path

**PlaySessionProofs.** `TypeCorrect` (`Spec => []TypeOK`) includes that no queue
exceeds its capacity. `SessionsIsolated` and `NothingSpliced` rest on
`IsolationInvariant` (`Spec => []IsolationInv`). `SessionIsolation` alone is not
inductive: it speaks of what clients have, and a step that delivers a frame needs
to know that the frame, and before it the partial frame, the period in the stage,
those in its queue and the one in the fan-out's hand lie within the session they
are tagged with. `IsolationInv` says that of each of them (`FanInv`, `StageInv`
with `AccInv`, `ClientInv`), and of the feed that its epoch counts the sessions
and its clients joined the last (`FeedInv`). `Within` is monotone in the capture's
frontier and in the sequence of starts, a lemma of its own, so an action that only
captures or joins keeps everything at once.

**PlayOrderProofs.** `ClosureIsFinal` (`ClosureStopsAudio`) needs `ClosureInv`: after
the closure a writer past its select may not send at all, one before it once.
`EncoderPerSession` (`OneEncoderRunPerSession`) speaks of packets sent; `RunInv`
speaks of every frame made, on a client's line (queue, writer's hand, wire) or in
the stage's hands, and says that the session encoded now and its run are the last
of theirs, so that a new run begins with a new session and at no other time.
`OrderInvariant` has `PathInv` (the periods on their way to the stage are in capture
order and ahead of it) and `LineInv` (what a client was sent, what its writer holds
and its queue are sorted and behind everything upstream of them). `ClockFollowsAudio`
(`TimestampsFollowAudio`) needs `ClockInv`: each packet's timestamp is that of its
position, counted from the base the connection keeps. `MediaPathIsLiveAudio` is the
refinement of `LiveAudio`: each step of the path is a step of the abstract stream or
a stutter; only a writer's packet, a join and a leave are visible, and `LineInv`
gives the abstract guard that what is heard goes forward.

`AudioKeepsOrder` (`AudioInOrder`) has two halves. Order is
`LineInv`. That a gap shows in the drop counter is `GaplessInvariant`: while
nothing was dropped, each period follows the one before it, or begins a new session,
from the fan-out's hand to the stage (`ChainInv`), and a client's wire, hand, queue
and what is to come join without a gap (`GaplessInv`). The step that needs it most is
the stage's admission: a period refused as stale is of a session without clients, so
what is skipped was nobody's.

### RTSP server

**RtspServerProofs.** `TypeCorrect` here is the type invariant, which the others
build on. `TrustIsCurrent` and `OnePacketPastRevocation` rest on
`AccessInvariant` (`Spec => []AuthInv`). `AuthInv` adds to the two properties that
a generation in flight between the snapshot and the store is not newer than the
guard's, and that the current token was proved if it equals it (`ReaderInv`); and
of a writer past its snapshot that, if a token change has come since, no packet has
gone out after that change, and otherwise the snapshot agrees with the guard and a
packet decided on is not revoked (`WriterInv`). `StreamIsAnnounced`
(`OneStreamAsAnnounced`) and `ConnectionsAccounted` (`GoneIsAccountedFor`) rest on
`LifeInvariant`: the stages of a connection's playing, with the numbers of its last
SETUP and at most one writer (`StreamInv`); who holds a slot plays on that very track
and has not been cleaned up, and a track's slots are finitely many within the cap
(`SlotInv`); and what the listener was told at each stage (`ReportInv`).

### Configuration control

**ConfigControlProofs.** `StoreMatchesFile` (`StoreIsFile`) and `WhatIsSavedRuns`
(`SettledIsApplied`) rest on `ChangeInvariant`. For the first, it must be known that
nobody but the API in service writes the file: `LockInv` says what the run lock
tells at each place of the supervisor, `ServedInv` that a request under way is of the
API in service and holds its `patchMu`, and `SeedInv` that the next store is seeded
with what the file is. For the second, a configuration saved travels from a handler
over a channel to the run loop: `PathInv` says that the target is on its way to the
run loop, in it, or through it, and `ReplyInv` that who the run loop works for still
waits. The exceptions are those of the properties: a client that left in mid-reload
(`abandoned`), a handler that outlived its API's drain (`outlived`), an edit made
after the last look (`missed`, in `StoreIsFile` alone).

### Self-update

**SelfUpdateProofs.** `TypeCorrect`, `WayBackKept`, `NoDowngrade` and `WithdrawalIsFinal`
rest on `UpdateInvariant` (`Spec => []UpdateInv`). `UnprovenCanBeRolledBack` is not
inductive: whether the swap leaves a way back depends on what the updater did
before it, and whether a journal found later may be acted on depends on who else
wrote the binary meanwhile. `UpdateInv` adds `LockInv` (who holds the lock at which
place), `UpdaterInv` (at the swap the binary is the updater's own version, the kept
copy is the same, the new copy and the journal are of the target; no journal is
there between the look for one and its writing; where the journal is removed,
nothing unproven depends on it), `InstallInv` (an install is not older than the
binary, and has dropped the kept copy of an interrupted update before it replaces
the binary), `JournalInv` (a journal whose target is installed and whose kept copy
is there is of an unproven version) and `ClaimInv` (the claim is on this attempt's
request only while the attempt waits). The same lemma (`StepSwap`) keeps the
invariant and gives the action property. `CommitsToWhatRuns` (`KeptMeansUp`) rests on
`WordInvariant`: a health file with the main process's ID is of its version and was
written once it was up, because a new process has an ID no file names, and the updater
removes an older file before it swaps; and from the swap to the commit the binary is
what the updater installs.

### Management side

The parts of `Events` share few variables, so each has an invariant over its own and
a lemma for the steps of the rest.

**EventsProofs.** `InstalledIsKept` (`CertificateKept`): a promised pair is whole,
pinned, synced and served (`KeptInv`); until a rotation's first rename the files hold
what is served (`ServedInv`); and `OpInv` says how far each rotation has come, that
is, what a cut at this point can leave. `NoCaptureLeftOpen` (`ProbeOutOfTheWay`)
needs that a probe's goroutine which may still report has its request waiting for it.
`NoUnitTwice` (`OneEntryPerUnit`) rests on `DevicesInvariant`. Who holds `patchMu` is
alone with it, what it waits for is what was saved last, and unless a client left in
mid-reload the run loop has the saved list whenever the lock is free (`ReloadInv`); so
the owned ids the recheck looks at are those of the list the Update will append to,
and what it saw holds until then (`CheckedInv`). `OneUnit` is the other half, about
ids alone: an entry that does not own the id a unit is offered under resolves to none
of the units that id names, whether it is by serial, port or card index, because two
units never share a card index or a place (`Sockets`, which `PlugIn` keeps: there is
an index left for a unit not yet plugged in). It is assumed that the kernel has an
index for every unit (`CardsAssumption`) and that an instance starts from a list the
store would load (`HostsAssumption`).
`OffIsFinal` (`OffStartsOver`) rests on `SwitchInvariant`: what is left of an Apply
is in its order (`Orderly`), what the manager has and fetches is of the current
generation but for the moment between counting and forgetting (`FoundInv`), the
loop's timer and check are of one it has not gone past (`LoopInv`), and a loop that
is behind is woken or about to be (`WakeInv`). `OnlyGenuineIsOffered`
(`OfferIsGenuine`) rests on `OfferInvariant`: a fetch asks for one tag in its three
requests, and a signature is over a manifest with a key, so that what verifies is what
was signed, whatever the host has replaced in between.

**AlertsProofs.** Every method of the center is shown to change the condition of one
key and to leave the others (the first section); each emitter's invariant relates
its keys to its own state and nothing else: `SignalInv`, `HostInv`, `FlapInv`,
`AvailableInv`, `LockInv`; a step of one emitter keeps those of the others because
it leaves their keys alone. Together they are `AlertsInv` (`AlertsInvariant`), from
which follow:

* `ViewIsTrue` (`ViewIsCurrent`): there is a history, the kinds and keys of what was
  published since the boot, of which the ring, the conditions, every message and
  snapshot on its way and the page are excerpts (`PageInv`, an existential conjunct
  of `CenterInv`). A message carries the count at which it was sent, and an onset
  held then (`WayInv`); a snapshot is all the center kept when it was taken
  (`LoadsInv`). While the newest load is on its way the page has seen what was
  published since its answer, as far as it has seen any (`PendingInv`); once it is
  applied the page has everything within the ring's depth and everything that holds,
  up to a point, and takes for active what held at that point (`SyncedInv`). What
  follows that point is on its way, or lost. These two are claimed only while the
  page schedules no re-sync, and that is why a gap must schedule one;
* `AlertsFollowTheirCause` (`AlertsHaveCause`), with `MemoryCanRecover`, that the
  level which clears the memory condition is below the memory there is, by the
  arithmetic of the thresholds;
* `SettingsAreFollowed` (`SettingsTakeEffect`), with `TapInv`: past its part of an
  Apply the monitor has the run loop's settings and its tap if they turn it on. The
  window that leaves the tap must have seen them off, and may not have seen an
  Apply since;
* `NoOverrunIsForgotten` (`OverrunsAccounted`), with `OwedInv`: the overruns untold
  are those no poll has seen and those the counters owe the log, to an episode while
  there is one and to the next line otherwise (`OneAccount`), the counters being
  behind those of their runtime (`Behind`). A poll takes in its overruns one event
  at a time by a recursive function; what it gives at the end is proved by induction
  in the form of a least counterexample (`WellFoundedInduction`);
* `RunLockFollows` (`RunLockSettles`);
* `FlapsAreCounted` (`FlapCounts`), with `CountInv` over the history of gaps, which
  the model's detector does not read: one at rest has the age of every connect within
  the window and of no other, and there was no burst a quiet time has not ended since
  (`Windowed`); a raised one goes back to a burst (`Restless`) and knows the time since
  the last connect. That a tick drops the right events rests on their order: the ages
  fall along the list, so the ones past the window are its beginning (`OlderEvents`).

### Devices

**DeviceLifecycleProofs.** All five safety properties of `device` rest on one
invariant, `IInv` (`DeviceInvariant`). `DevicesKept` says that a device is one of
three things: `Off`, with nothing outstanding, if the configuration does not enable
it; `Down`, with its condition, no pump, no restart under way, and an attempt
scheduled if that can help; or `Up`, with its pump and track, its condition active
exactly while a restart is unproved, and a settle or an awaited encode that will end
that. An `Up` or `Down` record is of an entry that captures as the configured one
does, and so are its faults (`Of`); without that, a save that changes nothing could
forget a fault. `LoopPrompted`, `DeadlinesWaitedFor` and `TimerArmed` are the run
loop's side: the wait for an encode that has come is signalled, the timer was last
armed for a deadline no later than any, and it still stands or its signal is pending.
`DevicesAdvertised` says whose parameters an advertisement carries, also of a device
that is down and may come back without a new one.

None of the properties is inductive alone. `DownIsTold`, for one, needs to know that
a device which is down has no settle left over from its last run, or the retry that
brings it up would count as proved at once.

The argument goes by record: each operator on a record (`MarkDown`, `ScheduleRetry`,
the ladder's, `OpenAndStart`, `AttemptRetry`, ...) has a lemma that says what it
leaves, up to `Restarted`, what any way to open a device makes of its record. The
pass is a recursive function over the list of entries. `TurnOfEach`, by a least
counterexample, says that each device's turn starts from its own record as the pass
found it, beside some records of the others; that is all a handler's lemma uses of
the order. `PumpsOf`, the count of pumps, is a sum over that list (`TotalOfOne`,
`TotalOfSums`).

From the invariant follow `PumpsAreAccounted`, `DeviceDownIsTold`, `RetriesAreWoken`
and `DevicesAreDiscoverable`; `ProofComesFirst` (`ProofBeforeClear`) is an action
property, shown with each action's lemma. They are for any number of devices, with
entries that are disabled or not, and any back-off, ladder and budget of
saves and troubles; the run has two devices and no disabled entry.

### What is only model-checked

The four `TypeCorrect` theorems are the type invariants of their modules; the runs
do not repeat them.

* Liveness under fairness (`PathEnds`, `RevokedIsEvicted`, `RequestsEnd`,
  `EditedFileApplied`, `UnprovenSettles`, `RetriedUntilUp`) is outside
  what the prover does.
* `DefaultsFit` is true of the units of the run and not of all: of two units with one
  id and different capabilities, one may be enumerated and the other opened, and a
  rate outside what `internal/config` accepts would be refused. Which units exist is
  a matter of hardware; the run has the cases the code is written for.

## 5. Findings

**An enforced token can stay behind the saved one** (`config_token`, code). A
PATCH saves a new token and sets the guard while a reconcile of an older
configuration is under way; that reconcile sets the guard back. If the PATCH's
client has left before the hand-off to the run loop, nothing sets it again, and
no restart-required condition is raised.

Observations met while modelling, with no run of their own; where one limits a
property, the property's comment names the exception:

* **In-place authentication.** `README.md` 585-588 says the server tears a playing
  connection down on a token change "rather than re-authenticating it in place". A
  request with a valid answer that the reader handles before the writer's next look
  stamps the connection with the new generation (`session.go` 248) and the stream
  goes on. It has then proved the new token, as `TrustIsCurrent` shows.
* **A device missed by one look.** A retry that finds a device's id absent at that
  moment takes it for unplugged and drops the retry; if the device is back at the
  same address before the next enumeration, that sees no change, and the device
  stays down until something else happens. `api/openapi.yaml` 1094-1095 says that one
  "that was unplugged restarts when it is reconnected", and `README.md` 664-666 that
  replugging restarts it at once.
* **A stale announcement.** A device that died stays announced; when a save removes
  or disables it, the plan is empty (it was not serving) and the announcements are
  not rebuilt (`appliance.go` 905-912).
* **The capture-period condition.** After a fallback to the default geometry has
  cleared it, a later fallback to a larger step leaves it inactive
  (`geometryOpened` in `geometry.go`).
* **A doubled entry.** A client that leaves in mid-reload leaves the owned ids
  behind the saved list (`devices.go` 242-249 says so); a provision of the same unit
  under another id then passes both checks. This is `left` in `OneEntryPerUnit`.
* **A unit without capabilities.** A unit deleted and provisioned again before the
  next enumeration is known without rates and gets 48 kHz PCM, whether it can or not.
  Its default may not open either if it takes a rate at one channel and at many but
  not at the count between (`ResolveOpenChannels` looks at counts alone).
* **A retry called off.** An older snapshot's answer that arrives after a newer load
  failed cancels that load's retry (`notifications.ts` 176-180); `ViewIsCurrent`
  excludes it by `applied = started`.
* **A view a ring behind.** An onset that reaches the page when the ring has been
  written over since it was sent (or a snapshot that does) can stay on the page as
  active: its clear was trimmed from the ring, or is on the page already and pruned
  as history, and no id is missing. The history variable `late` marks exactly that,
  from such a message until the next snapshot in time, and `ViewIsCurrent` excludes
  it; the attempt to prove the property without it showed where it fails.
* **A rotation cut between its two renames** leaves a pair that does not match, and
  the next start replaces it by a generated one.
* After an abandoned reload `storeCfg` is not what runs, so a file edited back to
  it while the API is down counts as unchanged (the exception in
  `EditedFileApplied`).
* `feed.go` 168-171 says that closure wins over a queued frame, "so a dead device's
  writer tears down at once rather than emitting one last packet"; a closure
  between `Next`'s two selects may still lose to a queued frame, which is the one
  packet of `ClosureStopsAudio`.
* A result's `Installed` is described (`files.go` 76-77) as what is installed; a
  refusal before the binary was compared names the version the updater runs, which
  an install may have replaced.
* `Boot` cleans after it has looked, and a recovery drops the request on its way
  out: a request written in between is lost, and its attempt ends in the manager's
  timeout.

## 6. What is left out

Abstractions, per module: the header comment of each says what stands for what. In
`SelfUpdate` a binary is its version, files are durable in the order they were
written (the updater syncs what it writes and renames beside the binary), the journal can be read, `--allow-downgrade` is not
used, and a process ID is not reused while a file or the updater remembers it.
In `ConfigControl` writes of the run lock succeed and validation is a refusal. In
`DeviceLifecycle` a pump ends with an error, the authentication hint of an
announcement and the shutdown are left out. In `Notifications` there is one
subscriber, and times, severities and the page's read marks are left out; a clock
that steps is not followed. In `Certificates` syncing a directory succeeds. In
`Provisioning` an entry has no flags, bit rates or settings, and strings are
symbols whose length matters where a cap does.

Not modelled: sample arithmetic and the capture library, parsing and hashing of
Digest headers, YAML and the wire formats, system information, routing, compression
and redirects, the mDNS responder, unit files, users and directories of the service
install, the command line, and generated code (a fifth of the repository's Go
lines). They are functions of one input or calls into the system without a protocol
of their own.

## 7. Plan

Done, in this order: the media path with its abstract specification and proofs;
the RTSP server and proofs; configuration control; the updater and proofs; the
device lifecycle; the notification center with its emitters, the update checks, the
run lock's publisher, the certificate store, and the device list.

Next, in proofs: `DefaultsFit` under assumptions on what a unit of one make can do
(`candidateRates` in `hardware.go` for the rates).

The number of runs is kept at one per question; questions about one instance are
asked together.
