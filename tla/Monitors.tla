------------------------------- MODULE Monitors -------------------------------
(***************************************************************************)
(* The condition monitors (internal/monitor): the settings the run loop    *)
(* hands to the group, the signal monitor on its tap of the level hub      *)
(* (internal/levels), and the host monitor with its readings and device    *)
(* counters.                                                               *)
(*                                                                         *)
(* One device, one host condition.  Time is counted in the ticks of each   *)
(* monitor, a window or a poll, and every dwell in those.  A window's      *)
(* levels are the loudest of a few classes of sound.  The thresholds do    *)
(* not change; the three switches of the settings do.                      *)
(***************************************************************************)
EXTENDS Notifications

CONSTANTS
    ZeroSeconds, ZeroClearAfter,             \* dwells of the stuck-at-zero condition
    QuietSeconds, QuietClearAfter,           \* of the very-quiet condition
    ClipWindow, ClipPercent, ClipClearAfter, \* of the clipping condition
    DevicePresenceGrace,                     \* evaluations a device may be missing
    EnterAfter, ClearAfter,                  \* dwells of the host condition
    MemTotal, MemFreeMiB, MemFreePercent,    \* the host's memory, and the two floors below which it is low
    DropsEnterAfter, DropsClearAfter,        \* of the dropped-frames condition
    DropsPerPoll,                            \* the rate judged too high
    OverrunOnsetCount, OverrunWindow, OverrunClearAfter,
    MaxCount                                 \* bound: a runtime's counters, and the runtimes

ASSUME MonitorBounds ==
    /\ {ZeroSeconds, ZeroClearAfter, QuietSeconds, QuietClearAfter, ClipWindow, ClipPercent, ClipClearAfter} \subseteq Nat
    /\ {DevicePresenceGrace, EnterAfter, ClearAfter, DropsEnterAfter, DropsClearAfter, DropsPerPoll, MaxCount} \subseteq Nat
    /\ {OverrunOnsetCount, OverrunWindow, OverrunClearAfter} \subseteq Nat \ {0}
    /\ MemTotal \in Nat /\ MemFreeMiB \in Nat /\ MemFreePercent \in 0 .. 100

VARIABLES
    loop,     \* the run loop: the settings applied, and what Apply has still to do
    mic,      \* the device's runtime, its meter and the hub's other subscribers
    signal,   \* the signal monitor
    host      \* the host monitor

monitorVars == <<loop, mic, signal, host>>

Settings == [on : BOOLEAN, quiet : BOOLEAN, checks : BOOLEAN]

AllOn == [on |-> TRUE, quiet |-> TRUE, checks |-> TRUE]

----------------------------------------------------------------------------
(* Settings *)

\* Group.Apply: every member in turn, each in the steps another goroutine can see.
ApplySteps ==
    (IF "signal" \in parts THEN <<"store", "attach">> ELSE <<>>)
    \o (IF "host" \in parts THEN <<"host">> ELSE <<>>)
    \o (IF "updates" \in parts THEN <<"swap", "offGen", "forget", "wake">> ELSE <<>>)

\* The switches the members look at.
Watched == (IF "signal" \in parts THEN {"on", "quiet"} ELSE {})
           \cup (IF "host" \in parts THEN {"on"} ELSE {})
           \cup (IF "updates" \in parts THEN {"checks"} ELSE {})

\* A reload reaches the monitors with settings built from the configuration.
ApplySettings ==
    /\ loop.todo = <<>> /\ ~loop.stopping /\ Spend("settings")
    /\ \E set \in Settings :
          /\ set # loop.set /\ \A s \in DOMAIN set : set[s] # loop.set[s] => s \in Watched
          /\ loop' = [loop EXCEPT !.set = set, !.todo = ApplySteps]
    /\ UNCHANGED <<center, mic, signal, host>>

Applies(step) == loop.todo # <<>> /\ Head(loop.todo) = step /\ loop' = [loop EXCEPT !.todo = Tail(@)]

\* The appliance stops: the monitors' context ends, and each of them notices by itself.
Stopping ==
    /\ loop.todo = <<>> /\ ~loop.stopping /\ Spend("stop")
    /\ loop' = [loop EXCEPT !.stopping = TRUE]
    /\ UNCHANGED <<center, mic, signal, host>>

----------------------------------------------------------------------------
(* The device: what it hears, what it loses, and whether it serves *)

Sounds == {"zero", "quiet", "fine", "clip"}

Loudness == [s \in Sounds |-> CASE s = "zero" -> 0 [] s = "quiet" -> 1 [] s = "fine" -> 2 [] s = "clip" -> 3]

\* A new runtime: a new gen, counters at zero, a meter with nothing in it.
NewRuntime(m) == [m EXCEPT !.serving = TRUE, !.gen = @ + 1, !.dropped = 0, !.overruns = 0, !.acc = None]

Sound ==
    /\ "signal" \in parts /\ mic.serving /\ Spend("sound")
    /\ \E s \in Sounds \ {mic.sound} : mic' = [mic EXCEPT !.sound = s]
    /\ UNCHANGED <<center, loop, signal, host>>

\* The device stops serving: its meter goes, its counters are no longer listed.
\* Overruns no poll has seen are lost with the runtime.
Unseen == IF ~mic.serving THEN 0 ELSE IF host.dev = None THEN mic.untold
          ELSE IF host.dev.gen = mic.gen THEN mic.overruns - host.dev.ovPrev ELSE mic.overruns

RuntimeEnds ==
    /\ mic.serving /\ Spend("dev")
    /\ mic' = [mic EXCEPT !.serving = FALSE, !.acc = None, !.untold = @ - Unseen, !.overruns = 0]
    /\ UNCHANGED <<center, loop, signal, host>>

RuntimeStarts ==
    /\ ~mic.serving /\ mic.gen < MaxCount
    /\ mic' = NewRuntime(mic)
    /\ UNCHANGED <<center, loop, signal, host>>

\* A restart no poll falls into.
RuntimeRestarts ==
    /\ mic.serving /\ mic.gen < MaxCount /\ Spend("dev")
    /\ mic' = [NewRuntime(mic) EXCEPT !.untold = @ - Unseen]
    /\ UNCHANGED <<center, loop, signal, host>>

Loses ==
    /\ "host" \in parts /\ mic.serving /\ Spend("losses")
    /\ \E n \in 1 .. OverrunOnsetCount :
          \/ /\ mic.overruns + n <= MaxCount
             /\ mic' = [mic EXCEPT !.overruns = @ + n, !.untold = @ + n]
          \/ /\ mic.dropped + n <= MaxCount
             /\ mic' = [mic EXCEPT !.dropped = @ + n]
    /\ UNCHANGED <<center, loop, signal, host>>

----------------------------------------------------------------------------
(* The level hub *)

Subs(m) == m.sse + IF m.tap THEN 1 ELSE 0

\* Meter.Observe, nothing while nobody subscribes.
MeterObserve ==
    /\ "signal" \in parts /\ mic.serving /\ Subs(mic) > 0
    /\ mic' = [mic EXCEPT !.acc = IF @ = None \/ Loudness[@] < Loudness[mic.sound] THEN mic.sound ELSE @]
    /\ UNCHANGED <<center, loop, signal, host>>

\* Subscribe and Tap: the first consumer finds the meters reset.
FirstConsumer(m) == IF Subs(m) = 0 THEN [m EXCEPT !.acc = None] ELSE m

HubSubscribe ==
    /\ "signal" \in parts /\ mic.sse = 0 /\ Spend("levels")
    /\ mic' = [FirstConsumer(mic) EXCEPT !.sse = 1]
    /\ UNCHANGED <<center, loop, signal, host>>

HubCancel ==
    /\ mic.sse = 1
    /\ mic' = [mic EXCEPT !.sse = 0]
    /\ UNCHANGED <<center, loop, signal, host>>

Tap(m) == [FirstConsumer(m) EXCEPT !.tap = TRUE]

\* Meter.sample: a meter that took in nothing reads the floor.
SampleReading(m) == IF ~m.serving THEN None ELSE IF m.acc = None THEN "zero" ELSE m.acc

----------------------------------------------------------------------------
(* The signal monitor *)

\* clip holds the windows judged for clipping, no two of one age.
DeviceStates ==
    [zero : Hystereses, quiet : Hystereses, clip : SUBSET [age : Nat, clipped : BOOLEAN], clipActive : BOOLEAN,
     lastClip : Nat \cup {None}, missed : Nat]

NewDeviceState ==
    [zero |-> NoHysteresis, quiet |-> NoHysteresis, clip |-> {}, clipActive |-> FALSE, lastClip |-> None, missed |-> 0]

ResetClip(st) == [st EXCEPT !.clip = {}, !.clipActive = FALSE, !.lastClip = None]

\* Apply stores the settings, then attaches: detach looks at them under the same lock.
SignalStores ==
    /\ Applies("store")
    /\ signal' = [signal EXCEPT !.set = loop.set]
    /\ UNCHANGED <<center, mic, host>>

SignalAttaches ==
    /\ Applies("attach")
    /\ mic' = IF loop.set.on /\ ~mic.tap /\ ~signal.closed THEN Tap(mic) ELSE mic
    /\ UNCHANGED <<center, signal, host>>

\* Mutant of SignalDetaches: the settings are not looked at again.
SignalDetachesBlindly ==
    /\ signal.leaving
    /\ signal' = [signal EXCEPT !.leaving = FALSE]
    /\ mic' = [mic EXCEPT !.tap = FALSE]
    /\ UNCHANGED <<center, loop, host>>

\* detach, later in the window that found the monitors off.
SignalDetaches ==
    /\ signal.leaving
    /\ signal' = [signal EXCEPT !.leaving = FALSE]
    /\ mic' = IF signal.set.on THEN mic ELSE [mic EXCEPT !.tap = FALSE]
    /\ UNCHANGED <<center, loop, host>>

\* RunSignal's goroutine at the end.
SignalCloses ==
    /\ "signal" \in parts /\ loop.stopping /\ ~signal.closed
    /\ signal' = [signal EXCEPT !.closed = TRUE]
    /\ mic' = [mic EXCEPT !.tap = FALSE]
    /\ UNCHANGED <<center, loop, host>>

ResolveSignal(c, st) ==
    LET c1 == IF st.zero.active THEN Resolve(c, "audio:zero") ELSE c
        c2 == IF st.quiet.active THEN Resolve(c1, "audio:quiet") ELSE c1
    IN  IF st.clipActive THEN Resolve(c2, "audio:clip") ELSE c2

\* reconcile, on the tap's own goroutine: what a change of the settings ends.
SignalReconcile(s, set) ==
    IF s.applied = None \/ s.st = None THEN s
    ELSE IF s.applied.on /\ ~set.on
    THEN [s EXCEPT !.c = ResolveSignal(@, s.st), !.st = ResetClip([@ EXCEPT !.zero = NoHysteresis, !.quiet = NoHysteresis])]
    ELSE IF set.on /\ s.applied.quiet /\ ~set.quiet
    THEN [s EXCEPT !.c = IF s.st.quiet.active THEN Resolve(@, "audio:quiet") ELSE @, !.st.quiet = NoHysteresis]
    ELSE s

\* A window later.
SignalOlder(st) ==
    [st EXCEPT !.zero.run = Older(@, ZeroSeconds + ZeroClearAfter), !.quiet.run = Older(@, QuietSeconds + QuietClearAfter),
               !.clip = {[x EXCEPT !.age = @ + 1] : x \in @}, !.lastClip = Older(@, ClipClearAfter)]

\* evaluateClip: the ratio counts over a full window only; the window is
\* flushed when the condition clears.
EvaluateClip(s, clipped) ==
    LET clip == {x \in s.st.clip : x.age <= ClipWindow} \cup {[age |-> 0, clipped |-> clipped]}
        count == Cardinality({x \in clip : x.clipped})
        st == [s.st EXCEPT !.clip = clip, !.lastClip = IF clipped THEN 0 ELSE @]
    IN  IF st.clipActive
        THEN IF st.lastClip # None /\ st.lastClip >= ClipClearAfter
             THEN [s EXCEPT !.c = Clear(@, "audio:clip"), !.st = ResetClip(st)]
             ELSE [s EXCEPT !.st = st]
        ELSE IF (\E x \in clip : x.age >= ClipWindow) /\ count * 100 >= ClipPercent * Cardinality(clip)
        THEN [s EXCEPT !.c = Onset(@, "audio:clip", None), !.st = [st EXCEPT !.clipActive = TRUE]]
        ELSE [s EXCEPT !.st = st]

Evaluate(s, reading, set) ==
    LET zero == Observe(s.st.zero, reading = "zero", ZeroSeconds, ZeroClearAfter)
        quiet == IF set.quiet THEN Observe(s.st.quiet, reading \in {"zero", "quiet"}, QuietSeconds, QuietClearAfter)
                 ELSE s.st.quiet
        c1 == Transition(s.c, "audio:zero", s.st.zero, zero)
        c2 == Transition(c1, "audio:quiet", s.st.quiet, quiet)
    IN  EvaluateClip([s EXCEPT !.c = c2, !.st.zero = zero, !.st.quiet = quiet], reading = "clip")

\* Mutant of AgeOutAbsent: the device goes and its conditions stay.
AgeOutSilently(s, set) ==
    IF s.st = None THEN s
    ELSE IF s.st.missed + 1 < DevicePresenceGrace THEN [s EXCEPT !.st.missed = @ + 1]
    ELSE [s EXCEPT !.st = None]

\* ageOutAbsent: a device missing for the grace is dropped, its conditions resolved.
AgeOutAbsent(s, set) ==
    IF s.st = None THEN s
    ELSE IF s.st.missed + 1 < DevicePresenceGrace THEN [s EXCEPT !.st.missed = @ + 1]
    ELSE [s EXCEPT !.c = IF set.on THEN ResolveSignal(@, s.st) ELSE @, !.st = None]

\* A tick of the sampler with the tap's observe, up to its detach.  A serving
\* device delivers several periods in a window; one that starts, or stalls, none.
SignalWindow ==
    /\ "signal" \in parts /\ mic.tap /\ ~signal.leaving
    /\ IF mic.serving /\ mic.acc = None THEN Spend("stalls") ELSE UNCHANGED budget
    /\ LET set == signal.set
           reading == SampleReading(mic)
           s0 == [c |-> center, applied |-> signal.applied, st |-> IF signal.st = None THEN None ELSE SignalOlder(signal.st)]
           s1 == SignalReconcile(s0, set)
           s2 == [s1 EXCEPT !.st = IF @ = None THEN NewDeviceState ELSE [@ EXCEPT !.missed = 0]]
           s3 == IF reading = None THEN AgeOutAbsent(s1, set)
                 ELSE IF set.on THEN Evaluate(s2, reading, set)
                 ELSE s2
       IN  /\ center' = s3.c
           /\ signal' = [signal EXCEPT !.applied = set, !.st = s3.st, !.leaving = ~set.on]
           /\ mic' = [mic EXCEPT !.acc = None]
    /\ UNCHANGED <<loop, host>>

----------------------------------------------------------------------------
(* The host monitor *)

NoHostCond == [h |-> NoHysteresis, lastOK |-> None]

\* What a sensor reads (processor, temperature, disk and voltage by their
\* levels, memory by what is available).
Readings(kind) == IF kind = "memory" THEN {0, MemTotal \div 2, MemTotal} ELSE {"normal", "between", "high"}

\* overWithGap: at or above the onset level to raise, above the clear level to hold.
OverWithGap(active, reading) == reading = "high" \/ (active /\ reading = "between")

\* The larger of the two floors, the absolute one at most half of the memory;
\* the clear level is capped where available memory can reach it.
MemClearGapDivisor == 4
MemOver(active, avail) ==
    LET limit == Max({(MemTotal \div 100) * MemFreePercent, Min({MemFreeMiB, MemTotal \div 2})})
        clearLimit == Min({limit + limit \div MemClearGapDivisor, limit + (MemTotal - limit) \div 2})
    IN  avail < IF active THEN clearLimit ELSE limit

HostOver(kind, active, reading) == IF kind = "memory" THEN MemOver(active, reading) ELSE OverWithGap(active, reading)

\* The sensor reads something else, or cannot be read.
HostReads ==
    /\ "host" \in parts /\ Spend("sensor")
    /\ host' \in {[host EXCEPT !.reads = FALSE]} \cup {[host EXCEPT !.reads = TRUE, !.reading = r] : r \in Readings(host.kind)}
    /\ host' # host
    /\ UNCHANGED <<center, loop, mic, signal>>

\* hostCond.observe: a dark sensor holds an active condition for its clear dwell.
HostObserve(s) ==
    LET old == [h |-> [s.cond.h EXCEPT !.run = Older(@, EnterAfter + ClearAfter)], lastOK |-> Older(s.cond.lastOK, ClearAfter)]
        h == Observe(old.h, HostOver(host.kind, old.h.active, host.reading), EnterAfter, ClearAfter)
    IN  IF host.reads
        THEN [s EXCEPT !.c = Transition(@, "system", old.h, h), !.cond = [h |-> h, lastOK |-> 0]]
        ELSE IF ~old.h.active THEN [s EXCEPT !.cond = [old EXCEPT !.h = NoHysteresis]]
        ELSE IF old.lastOK # None /\ old.lastOK >= ClearAfter
        THEN [s EXCEPT !.c = Resolve(@, "system"), !.cond = [old EXCEPT !.h = NoHysteresis]]
        ELSE [s EXCEPT !.cond = [old EXCEPT !.h = ResetRun(@)]]

\* The readings of a device's counters, their ages, and what is owed of its overruns.
CounterStates ==
    [h : Hystereses, prev : Nat, prevAt : Nat, gen : Nat, missed : Nat, ovPrev : Nat,
     ov : Flaps, logAt : Nat \cup {None}, unlogged : Nat, episode : Nat]

\* A device's first sighting is a baseline; the overruns it has are told at once.
NewCounterState ==
    [h |-> NoHysteresis, prev |-> mic.dropped, prevAt |-> 0, gen |-> mic.gen, missed |-> 0, ovPrev |-> mic.overruns,
     ov |-> NoFlap, logAt |-> IF mic.overruns > 0 THEN 0 ELSE None, unlogged |-> 0, episode |-> 0]

\* observeDrops: a rate to raise it, any drop to hold it; a restart is a new baseline.
ObserveDrops(s, restarted) ==
    LET delta == mic.dropped - s.dev.prev
        over == ~restarted /\ IF s.dev.h.active THEN delta > 0 ELSE delta > DropsPerPoll * s.dev.prevAt
        h == Observe(s.dev.h, over, DropsEnterAfter, DropsClearAfter)
    IN  [s EXCEPT !.c = Transition(@, "stream:drops", s.dev.h, h),
                  !.dev = [@ EXCEPT !.h = h, !.prev = mic.dropped, !.prevAt = 0]]

\* logOverruns: one line per window, or at once when none is recent.
LogOverruns(s, delta) ==
    LET owed == s.dev.unlogged + delta IN
    IF owed = 0 THEN s
    ELSE IF s.dev.logAt = None \/ s.dev.logAt >= OverrunWindow
    THEN [s EXCEPT !.told = @ + owed, !.dev = [@ EXCEPT !.unlogged = 0, !.logAt = 0]]
    ELSE [s EXCEPT !.dev.unlogged = owed]

\* n overruns reach the detector, past the onset count none of them changes it.
FlapEvents(f, n) ==
    LET after[i \in 0 .. OverrunOnsetCount] ==
            IF i = 0 THEN f ELSE FlapEvent(after[i - 1], OverrunOnsetCount - 1, OverrunClearAfter)
    IN  after[Min({n, OverrunOnsetCount})]

\* observeOverruns: the poll that completes the quiet dwell clears the condition
\* before it counts its own overruns.
ObserveOverruns(s, restarted) ==
    LET delta == IF restarted THEN mic.overruns ELSE mic.overruns - s.dev.ovPrev
        swept == FlapSweep(s.dev.ov, OverrunClearAfter)
        cleared == s.dev.ov.active /\ ~swept.active
        s1 == [s EXCEPT !.c = IF cleared THEN Clear(@, "device:overruns") ELSE @,
                        !.told = @ + IF cleared THEN s.dev.episode ELSE 0,
                        !.dev.ovPrev = mic.overruns, !.dev.episode = IF cleared THEN 0 ELSE @]
        ov == FlapEvents(swept, delta)
        s2 == [s1 EXCEPT !.dev.ov = ov]
    IN  IF ~swept.active /\ ov.active
        THEN [s2 EXCEPT !.c = Onset(@, "device:overruns", None), !.told = @ + s.dev.unlogged,
                        !.dev = [@ EXCEPT !.unlogged = 0, !.logAt = None, !.episode = delta]]
        ELSE IF ov.active THEN [s2 EXCEPT !.dev.episode = @ + delta]
        ELSE LogOverruns(s2, delta)

\* Mutant of EndOverruns: only a raised episode is told.
EndOverrunsOfEpisode(s) == [s EXCEPT !.told = @ + s.dev.episode]

\* endOverruns: the line that is owed, when the device's state is dropped.
EndOverruns(s) == [s EXCEPT !.told = @ + IF s.dev.ov.active THEN s.dev.episode ELSE s.dev.unlogged]

EndDevice(s) ==
    LET c1 == IF s.dev.h.active THEN Resolve(s.c, "stream:drops") ELSE s.c
        c2 == IF s.dev.ov.active THEN Resolve(c1, "device:overruns") ELSE c1
    IN  [EndOverruns(s) EXCEPT !.c = c2, !.dev = None]

CounterOlder(d) ==
    [d EXCEPT !.h.run = Older(@, DropsEnterAfter + DropsClearAfter), !.prevAt = @ + 1,
              !.ov = FlapOlder(@, OverrunWindow, OverrunClearAfter), !.logAt = Older(@, OverrunWindow)]

EvaluateCounters(s) ==
    LET d == CounterOlder(s.dev)
        restarted == mic.gen # d.gen \/ mic.dropped < d.prev \/ mic.overruns < d.ovPrev
    IN  IF s.dev = None
        THEN IF mic.serving THEN [s EXCEPT !.dev = NewCounterState, !.told = mic.untold] ELSE s
        ELSE IF mic.serving
        THEN ObserveOverruns(ObserveDrops([s EXCEPT !.dev = [d EXCEPT !.missed = 0, !.gen = mic.gen]], restarted), restarted)
        ELSE IF d.missed + 1 >= DevicePresenceGrace THEN EndDevice([s EXCEPT !.dev = d])
        ELSE [s EXCEPT !.dev = [d EXCEPT !.missed = @ + 1, !.h = IF @.active THEN @ ELSE NoHysteresis]]

HostResolveAll(s) ==
    LET s1 == [s EXCEPT !.c = IF s.cond.h.active THEN Resolve(@, "system") ELSE @, !.cond = NoHostCond]
    IN  IF s.dev = None THEN s1 ELSE EndDevice(s1)

HostApplies ==
    /\ Applies("host")
    /\ host' = [host EXCEPT !.set = loop.set]
    /\ UNCHANGED <<center, mic, signal>>

\* poll: with the monitors off it ends what it raised, once, and reads nothing.
HostPoll ==
    /\ "host" \in parts /\ ~host.done
    /\ LET s0 == [c |-> center, cond |-> host.cond, dev |-> host.dev, told |-> 0]
           off == ~host.set.on
           s1 == IF off THEN IF host.applied = None \/ host.applied.on THEN HostResolveAll(s0) ELSE s0
                 ELSE EvaluateCounters(HostObserve(s0))
       IN  /\ center' = s1.c
           /\ host' = [host EXCEPT !.applied = host.set, !.cond = s1.cond, !.dev = s1.dev]
           /\ mic' = [mic EXCEPT !.untold = @ - s1.told]
    /\ UNCHANGED <<loop, signal>>

\* flushOverruns when the context ends: the raised conditions go with the process.
HostStops ==
    /\ "host" \in parts /\ loop.stopping /\ ~host.done
    /\ host' = [host EXCEPT !.done = TRUE]
    /\ mic' = [mic EXCEPT !.untold = @ - IF host.dev = None THEN 0 ELSE EndOverruns([dev |-> host.dev, told |-> 0]).told]
    /\ UNCHANGED <<center, loop, signal>>

----------------------------------------------------------------------------
MonitorInit ==
    /\ loop = [set |-> AllOn, todo |-> <<>>, stopping |-> FALSE]
    /\ mic = [serving |-> TRUE, gen |-> 1, dropped |-> 0, overruns |-> 0, sound |-> "fine",
              acc |-> None, tap |-> "signal" \in parts, sse |-> 0, untold |-> 0]
    /\ signal = [set |-> AllOn, applied |-> None, closed |-> FALSE, leaving |-> FALSE, st |-> None]
    /\ \E kind \in IF "host" \in parts THEN {"level", "memory"} ELSE {"level"} :
          host = [set |-> AllOn, applied |-> None, done |-> FALSE, kind |-> kind, reads |-> TRUE,
                  reading |-> IF kind = "memory" THEN MemTotal ELSE "normal", cond |-> NoHostCond, dev |-> None]

MonitorStep ==
    \/ /\ \/ SignalStores \/ SignalAttaches \/ HostApplies
          \/ RuntimeStarts \/ MeterObserve \/ HubCancel
          \/ SignalDetaches \/ SignalCloses
          \/ HostPoll \/ HostStops
       /\ UNCHANGED budget
    \/ SignalWindow
    \/ ApplySettings \/ Stopping \/ Sound \/ RuntimeEnds \/ RuntimeRestarts \/ Loses \/ HubSubscribe \/ HostReads

=============================================================================
