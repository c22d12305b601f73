-------------------------- MODULE DeviceLifecycle --------------------------
(***************************************************************************)
(* How a configured capture device is opened, supervised and brought back: *)
(* the run loop's handlers in cmd/remotemic/appliance.go (reconcile,       *)
(* retryDown, onPumpDone), the unattended restarts of retry.go, the        *)
(* capture-period ladder of geometry.go, the reload plan of                *)
(* internal/reload and the enumeration goroutine of management.go.         *)
(*                                                                         *)
(* The handlers run on one goroutine, so each is one step.  Every handler  *)
(* that opens a device resolves the configured ids first (refreshHardware) *)
(* and so sees the host as it is: hw is not kept.  Deadlines are kept      *)
(* relative to the clock, in ticks, and 0 is a deadline that has come.     *)
(* The management API is taken to keep the process up (runExit).  Logging, *)
(* capabilities and records for display are left out.                      *)
(***************************************************************************)
EXTENDS Integers, FiniteSets, Sequences, FiniteSetsExt, Functions

CONSTANTS
    Order,        \* the names a configuration may list, in config order
    Entries,      \* [name -> the entries it may have there]
    CardIds,      \* ids that name a card index
    Answers,      \* [id -> what resolving it may answer]
    Addrs,        \* answers that are a hardware address
    Streams,      \* stream paths of a device
    Backoff,      \* retryBackoff, in ticks
    RetrySettle, RetryResetAfter,   \* in ticks
    Top,          \* the last step of geometryLadder
    Shortfalls,   \* geometryShortfalls
    Discoveries,  \* the values discovery.enabled may be saved with
    Encoders,     \* whether a stage may fault in its encode
    Periods,      \* whether a capture may fall short of its rate
    None,         \* no entry, cause, deadline, address or result
    MaxSaves,     \* bound: configuration saves
    MaxTrouble    \* bound: deaths, failed opens and hardware changes

Names == Range(Order)
Ids == DOMAIN Answers

ASSUME DeviceBounds ==
    /\ MaxSaves \in Nat /\ MaxTrouble \in Nat /\ Top \in Nat
    /\ Shortfalls \in Nat \ {0}
    /\ RetrySettle \in Nat \ {0} /\ RetryResetAfter \in Nat
    /\ Backoff \in Seq(Nat \ {0}) /\ Backoff # <<>>
    /\ Encoders \in BOOLEAN /\ Periods \in BOOLEAN /\ Discoveries \subseteq BOOLEAN

\* A name is listed once, and its entries have ids that can be resolved.
ASSUME ConfigAssumption ==
    /\ Order \in Seq(Names) /\ \A i, j \in DOMAIN Order : Order[i] = Order[j] => i = j
    /\ \A n \in Names : \A e \in Entries[n] : e.id \in Ids

ASSUME NoneAssumption ==
    /\ None \notin Nat /\ \A i \in Ids : None \notin Answers[i]
    /\ None \notin {"serving", "skipped", "failed", "superseded", "disabled"}
    /\ None \notin {"same-hardware", "open-failed", "stalled", "disconnected", "live", "gone", "shortfall", "encode"}
    /\ \A n \in Names : \A e \in Entries[n] : None # <<e.id, e.cap>>

VARIABLES
    cfg,        \* the applied configuration: [name -> entry or None]
    discovery,  \* mDNS discovery is on
    dev,        \* [name -> what the appliance keeps of it, see NoDevice]
    alive,      \* live capture pumps
    announced,  \* [name -> the entry it is advertised with, or None]
    retryAt,    \* the deadline the retry timer was last armed for
    timer,      \* when the retry timer fires
    due,        \* the signal in retryDue
    host,       \* what each id resolves to now
    seen,       \* the enumeration's last hardware signature
    armed,      \* provider.retryArmed
    changed,    \* the signal in hwChanged
    saves, trouble   \* counted against their bounds

vars == <<cfg, discovery, dev, alive, announced, retryAt, timer, due, host, seen, armed, changed, saves, trouble>>

----------------------------------------------------------------------------
(* Data *)

\* The retry state of a device that has none.
NoRetry == [attempts |-> 0, next |-> None, settle |-> None, recovered |-> None, encodeSeen |-> FALSE, awaitEncode |-> FALSE]

NoGeometry == [of |-> None, step |-> 0, ceiling |-> Top, shortfalls |-> 0]

\* A name the appliance knows nothing of.  The first line is its record
\* (deviceRuntime), the second the pumps, the third what is active in the
\* notification center, the last what outlives a record.  A pump is live or
\* ended with a result the run loop has not read yet (an encode fault names
\* its stream); stale counts the pumps of runtimes that were superseded.
NoDevice ==
    [st |-> None, entry |-> None, addr |-> None, step |-> 0, hour |-> FALSE, encoded |-> {}, await |-> FALSE,
     pump |-> None, path |-> None, stale |-> 0, mounted |-> FALSE,
     downReason |-> None, downCond |-> None, periodCond |-> 0,
     retried |-> FALSE, retry |-> NoRetry, faulted |-> {}, faultOf |-> None, geometry |-> NoGeometry]

Enabled(c, n) == c[n] # None /\ c[n].on
IsCardIndex(e) == e.id \in CardIds
IsDown(x) == x.st \in {"skipped", "failed"}

\* What CaptureParamsEqual compares: everything but the name and the flags.
CaptureParamsEqual(a, b) == a.id = b.id /\ a.cap = b.cap /\ a.str = b.str

\* The identity a geometry step is earned under.
GeometryOf(e) == <<e.id, e.cap>>

----------------------------------------------------------------------------
(* The down condition: markDown, replaceDown, finishRecovery *)

SameCondition(a, b) == a = b \/ {a, b} \subseteq {"failed", "stalled"}

RetryableCause(c) == c \in {"open-failed", "failed", "stalled", "resolve-failed"}

\* retrying: a retry state that has not completed a settle since its last failure.
Retrying(x) == x.retried /\ x.retry.recovered = None

\* Onset is idempotent per key: an active condition keeps its text.
Onset(x, c) == [x EXCEPT !.downCond = IF @ = None THEN c ELSE @]

\* Both end the condition, and do nothing when it is not active.
Resolve(x) == [x EXCEPT !.downCond = None]

\* replaceDown rewrites a condition of the same kind in place and raises any other anew.
ReplaceDown(x, c) ==
    IF x.downReason # None /\ SameCondition(x.downReason, c)
    THEN [x EXCEPT !.downReason = c, !.downCond = IF @ = None THEN @ ELSE c]
    ELSE [Onset(IF x.downReason # None THEN Resolve(x) ELSE x, c) EXCEPT !.downReason = c]

MarkDownKeepsText(x, c) == [Onset(x, c) EXCEPT !.downReason = c]

\* markDown keeps the first of two retryable causes while a restart is in flight.
MarkDown(x, c) ==
    IF /\ x.downReason # None /\ ~SameCondition(x.downReason, c)
       /\ Retrying(x) /\ RetryableCause(x.downReason) /\ RetryableCause(c)
    THEN x
    ELSE ReplaceDown(x, c)

FinishRecovery(x) == IF x.downReason = None THEN x ELSE [Resolve(x) EXCEPT !.downReason = None]

----------------------------------------------------------------------------
(* The retry state *)

DropRetry(x) == [x EXCEPT !.retried = FALSE, !.retry = NoRetry]

\* backoffAt: the last delay repeats.
BackoffDelay(attempts) == Backoff[IF attempts > Len(Backoff) THEN Len(Backoff) ELSE attempts]

\* attempts is kept no larger than tells delays apart.
ScheduleRetry(x, e) ==
    IF IsCardIndex(e) \/ ~RetryableCause(x.downReason) THEN DropRetry(x)
    ELSE LET st == x.retry
             before == IF st.recovered # None /\ st.recovered >= RetryResetAfter THEN 0 ELSE st.attempts
             attempts == IF before < Len(Backoff) THEN before + 1 ELSE before
         IN  [x EXCEPT !.retried = TRUE,
                       !.retry = [NoRetry EXCEPT !.attempts = attempts, !.next = BackoffDelay(attempts)]]

SettleFromEncode(x) ==
    [x EXCEPT !.retry.awaitEncode = FALSE, !.retry.encodeSeen = TRUE, !.retry.settle = RetrySettle]

\* encodedAll of the device's faulted streams.
EncodedAll(x) == x.faulted \subseteq x.encoded

----------------------------------------------------------------------------
(* The capture-period ladder *)

ClearGeometry(x) == [x EXCEPT !.periodCond = 0]

DropGeometry(x) == [ClearGeometry(x) EXCEPT !.geometry = NoGeometry]

\* geometryStep drops a step earned under another capture identity.
GeometryStep(x, e) == IF x.geometry.of \notin {None, GeometryOf(e)} THEN DropGeometry(x) ELSE x

\* geometryRunEnded forgets the escalation of a run that served for an hour.
GeometryRunEnded(x) ==
    IF x.geometry.of = None \/ ~x.hour THEN x
    ELSE [(IF x.geometry.step = 0 THEN x ELSE ClearGeometry(x)) EXCEPT !.geometry = NoGeometry]

GeometryShortfall(x) ==
    LET g == IF x.geometry.of = None THEN [x.geometry EXCEPT !.of = GeometryOf(x.entry)] ELSE x.geometry
    IN  IF x.geometry.of = None /\ x.step # 0 THEN x
        ELSE [x EXCEPT !.geometry =
                  IF x.step # g.step \/ g.step >= g.ceiling THEN g
                  ELSE IF g.shortfalls + 1 < Shortfalls THEN [g EXCEPT !.shortfalls = @ + 1]
                  ELSE [g EXCEPT !.step = @ + 1, !.shortfalls = 0]]

\* geometryRefuse: the ceiling drops below the lowest refused step and the step follows.
GeometryRefuse(x, refusedAt) ==
    IF refusedAt = 0 \/ x.geometry.of = None THEN x
    ELSE LET ceiling == Min({x.geometry.ceiling, refusedAt - 1})
             y == [x EXCEPT !.geometry.ceiling = ceiling, !.geometry.shortfalls = 0,
                            !.geometry.step = Min({x.geometry.step, ceiling})]
         IN  IF ceiling = 0 THEN ClearGeometry(y) ELSE y

\* geometryOpened: the condition says what is in effect, save for a transient fallback.
GeometryOpened(x, asked, got) ==
    IF asked = 0 \/ x.geometry.of = None THEN x
    ELSE IF got = 0 THEN ClearGeometry(x)
    ELSE IF got < asked /\ x.geometry.ceiling >= asked THEN x
    ELSE [x EXCEPT !.periodCond = got]

OpenErrors == {"busy", "gone", "permanent", "refused", "other"}
PermanentOpenError(err) == err = "permanent"
GeometryFallback(err) == err \notin {"busy", "gone"} /\ ~PermanentOpenError(err)
GeometryRefused(err) == err = "refused"

\* The opens of one device, from the step asked for downwards while the error
\* does not rule a lower one out; res is what an open at each step answers.
\* refusedAt is the lowest step that was refused, 0 for none.
OpenLadder(asked, res) ==
    LET last == Max({s \in 0..asked : s = 0 \/ res[s] = "ok" \/ ~GeometryFallback(res[s])})
        refused == {s \in (last + 1)..asked : GeometryRefused(res[s])}
        ok == res[last] = "ok"
    IN  [ok |-> ok, got |-> IF ok THEN last ELSE 0, refusedAt |-> IF refused = {} THEN 0 ELSE Min(refused)]

\* What an open that asks for a step may come to.
Outcomes == [asked \in 0..Top |-> {OpenLadder(asked, res) : res \in [0..asked -> OpenErrors \cup {"ok"}]}]

Fine(asked) == [ok |-> TRUE, got |-> asked, refusedAt |-> 0]

----------------------------------------------------------------------------
(* Opening a device.  D is every device, o what its open will come to. *)

\* resolveRefused
ResolveRefused(e) ==
    /\ host[e.id] \notin Addrs
    /\ ~IsCardIndex(e) \/ host[e.id] \in {"not-connected", "ambiguous", "malformed"}

\* hardwareOwner: another serving device captures from the address.
Owned(D, n, e) ==
    /\ host[e.id] \in Addrs
    /\ \E m \in Names \ {n} : D[m].st = "serving" /\ D[m].addr = host[e.id]

OpenRefused(D, n, e) == ResolveRefused(e) \/ Owned(D, n, e)

\* A new record of a device (deviceRuntime), which keeps what outlives one.
NewRecord(x, st, e, step) ==
    [x EXCEPT !.st = st, !.entry = e, !.addr = IF host[e.id] \in Addrs THEN host[e.id] ELSE None,
              !.step = step, !.hour = FALSE, !.encoded = {}, !.await = FALSE]

\* What openAndStart returns for a device it did not open, its condition raised.
Skipped(x, e, cause) == [NewRecord(MarkDown(x, cause), "skipped", e, 0) EXCEPT !.pump = None]

\* The step the next open of the entry asks for.
Asked(x, e) == GeometryStep(x, e).geometry.step

OpenAndStart(D, n, e, o) ==
    LET x == GeometryStep(D[n], e)
        asked == x.geometry.step
        y == GeometryRefuse(x, o.refusedAt)
    IN  IF ResolveRefused(e) THEN Skipped(x, e, host[e.id])
        ELSE IF Owned(D, n, e) THEN Skipped(x, e, "same-hardware")
        ELSE IF ~o.ok THEN Skipped(y, e, "open-failed")
        ELSE [NewRecord(GeometryOpened(y, asked, o.got), "serving", e, o.got) EXCEPT !.pump = "live", !.mounted = TRUE]

StartDevice(D, n, e, o) ==
    LET x == OpenAndStart([D EXCEPT ![n] = [DropRetry(D[n]) EXCEPT !.faulted = {}, !.faultOf = None]], n, e, o)
    IN  IF x.st # "serving" THEN ScheduleRetry(x, e) ELSE FinishRecovery(x)

AttemptRetry(D, n, e, o) ==
    LET x == OpenAndStart(D, n, e, o)
        y == [x EXCEPT !.retry.settle = RetrySettle]
    IN  IF x.st # "serving" THEN ScheduleRetry(x, e)
        ELSE IF y.faulted = {} THEN y
        ELSE [ReplaceDown(y, "failed") EXCEPT !.await = TRUE]

\* restartFaulted: a restart that keeps the condition until the faulted streams encode.
RestartFaulted(D, n, e, o, resetBackoff) ==
    IF OpenRefused(D, n, e)
    THEN LET E == IF resetBackoff THEN [D EXCEPT ![n] = DropRetry(D[n])] ELSE D
         IN  ScheduleRetry(OpenAndStart(E, n, e, o), e)
    ELSE LET st == IF resetBackoff THEN [D[n].retry EXCEPT !.attempts = 0, !.recovered = None] ELSE D[n].retry
         IN  AttemptRetry([D EXCEPT ![n].retried = TRUE, ![n].retry = [st EXCEPT !.next = None]], n, e, o)

\* stop: superseded from here on, so its pump's result only counts it off.
Stop(x) ==
    [GeometryRunEnded(x) EXCEPT !.st = "superseded", !.pump = None, !.path = None, !.stale = @ + 1, !.mounted = FALSE]

\* reconcileRecords for a device the configuration disables or no longer lists.
Forgotten(x) ==
    [DropGeometry(DropRetry(Resolve(IF x.st = "serving" THEN Stop(x) ELSE x)))
         EXCEPT !.downReason = None, !.faulted = {}, !.faultOf = None,
                !.addr = None, !.step = 0, !.hour = FALSE, !.encoded = {}, !.await = FALSE]

Unconfigured(x, e) == [Forgotten(x) EXCEPT !.st = IF e = None THEN None ELSE "disabled", !.entry = e]

ReconcileRecords(D, c) == [n \in Names |-> IF Enabled(c, n) THEN D[n] ELSE Unconfigured(D[n], c[n])]

----------------------------------------------------------------------------
(* Announcing, and the timer *)

AnnouncesHealthy(D, on) ==
    [n \in Names |-> IF on /\ D[n].st = "serving" /\ D[n].downReason = None THEN D[n].entry ELSE None]

\* The advertisement of the serving devices; none while discovery is off.
Announcement(D, on) == [n \in Names |-> IF on /\ D[n].st = "serving" THEN D[n].entry ELSE None]

\* The earliest deadline a retry state waits for.
EarliestDeadline(D) ==
    LET ts == ({D[n].retry.next : n \in Names} \cup {D[n].retry.settle : n \in Names}) \ {None}
    IN  IF ts = {} THEN None ELSE Min(ts)

\* armRetryTimer, from a remembered deadline.
ArmRetryTimer(at) ==
    LET t == EarliestDeadline(dev') IN
    /\ retryAt' = t
    /\ timer' = IF t = at THEN timer ELSE t

----------------------------------------------------------------------------
(* The run loop *)

\* The sum of a count over the devices.
Total(count) ==
    LET sum[i \in 0 .. Len(Order)] == IF i = 0 THEN 0 ELSE sum[i - 1] + count[Order[i]]
    IN  sum[Len(Order)]

Live(D) == Total([n \in Names |-> IF D[n].pump # None THEN 1 ELSE 0])

\* A budgeted outcome for each open of a pass: trouble is spent on the ones not fine.
Attempted(c, opened) == {n \in opened : ~ResolveRefused(c[n])}

AnyOutcome == UNION Range(Outcomes)

PassOutcomes(D, c, opened) ==
    LET attempted == Attempted(c, opened)
        may == [n \in attempted |-> Outcomes[Asked(D[n], c[n])]]
    IN  {[n \in Names |-> IF n \in attempted THEN p[n] ELSE Fine(0)] :
            p \in {q \in [attempted -> AnyOutcome] : \A n \in attempted : q[n] \in may[n]}}

Trouble(D, c, opened, o) == Cardinality({n \in Attempted(c, opened) : o[n] # Fine(Asked(D[n], c[n]))})

\* reload.Reconcile: what is to stop, restart and start.
PlanStop(c) == {n \in Names : dev[n].st = "serving" /\ ~Enabled(c, n)}
PlanRestart(c) ==
    {n \in Names : dev[n].st = "serving" /\ Enabled(c, n) /\ ~CaptureParamsEqual(dev[n].entry, c[n])}
PlanStart(c) == {n \in Names : dev[n].st # "serving" /\ Enabled(c, n)}

StartsAnew(D, n, e, o, restart) == StartDevice(D, n, e, o)

\* reconcile starts a device anew, or as a retry when the save cannot have fixed its encoder.
StartPlanned(D, n, e, o, restart) ==
    IF ~restart /\ D[n].faulted # {} /\ CaptureParamsEqual(D[n].faultOf, e)
    THEN RestartFaulted(D, n, e, o, TRUE)
    ELSE StartDevice(D, n, e, o)

\* What onRetryDue makes of one configured device that has a retry state.
Settled(x) ==
    LET y == [x EXCEPT !.retry.settle = None] IN
    IF x.st # "serving" THEN y
    ELSE IF x.faulted # {} /\ ~x.retry.encodeSeen
    THEN IF EncodedAll(x) THEN SettleFromEncode(y) ELSE [y EXCEPT !.retry.awaitEncode = TRUE]
    ELSE FinishRecovery([y EXCEPT !.retry.recovered = 0, !.retry.encodeSeen = FALSE, !.faulted = {}, !.faultOf = None])

RetriesDeadOnly(D, n, o) ==
    LET x == D[n] IN
    IF ~Enabled(cfg, n) \/ ~x.retried THEN x
    ELSE IF x.retry.awaitEncode THEN IF x.st = "serving" /\ EncodedAll(x) THEN SettleFromEncode(x) ELSE x
    ELSE IF x.retry.settle = 0 THEN Settled(x)
    ELSE IF x.retry.next = 0 /\ x.st = "failed" THEN AttemptRetry([D EXCEPT ![n].retry.next = None], n, cfg[n], o)
    ELSE IF x.retry.next = 0 THEN ScheduleRetry(x, cfg[n])
    ELSE x

RetryPass(D, n, o) ==
    LET x == D[n] IN
    IF ~Enabled(cfg, n) \/ ~x.retried THEN x
    ELSE IF x.retry.awaitEncode
    THEN IF x.st = "serving" /\ EncodedAll(x) THEN SettleFromEncode(x) ELSE x
    ELSE IF x.retry.settle = 0 THEN Settled(x)
    ELSE IF x.retry.next = 0
    THEN LET E == [D EXCEPT ![n].retry.next = None]
         IN  IF IsDown(x) THEN AttemptRetry(E, n, cfg[n], o) ELSE E[n]
    ELSE x

\* retryDown's restart of one device.
RestartDown(D, n, e, o) ==
    IF D[n].faulted # {} THEN RestartFaulted(D, n, e, o, FALSE) ELSE StartDevice(D, n, e, o)

\* What a handler's pass makes of the record of a device: only onRetryDue's looks
\* at those it opens nothing for.
Turn(pass, D, n) ==
    IF pass.of = "retryDue" THEN RetryPass(D, n, pass.o[n])
    ELSE IF n \notin pass.opened THEN D[n]
    ELSE IF pass.of = "retryDown" THEN RestartDown(D, n, pass.cfg[n], pass.o[n])
    ELSE StartPlanned(D, n, pass.cfg[n], pass.o[n], pass.of = "restart")

TakeTurn(pass, D, n) == [D EXCEPT ![n] = Turn(pass, D, n)]

\* The pass, in config order: a device is opened with those before it opened.
Passed(pass, D) ==
    LET after[i \in 0 .. Len(Order)] == IF i = 0 THEN D ELSE TakeTurn(pass, after[i - 1], Order[i])
    IN  after[Len(Order)]

Reconcile(c, on) ==
    LET stops == PlanStop(c) \cup PlanRestart(c)
        stopped == [n \in Names |-> IF n \in stops THEN Stop(dev[n]) ELSE dev[n]]
        restarts == PlanRestart(c)
        opened == restarts \cup PlanStart(c)
        restarted(o) == Passed([of |-> "restart", cfg |-> c, opened |-> restarts, o |-> o], stopped)
        started(o) == Passed([of |-> "start", cfg |-> c, opened |-> PlanStart(c), o |-> o], restarted(o))
    IN  \E o \in PassOutcomes(stopped, c, opened) :
        /\ saves < MaxSaves /\ saves' = saves + 1
        /\ trouble' = trouble + Trouble(stopped, c, opened, o) /\ trouble' <= MaxTrouble
        /\ dev' = ReconcileRecords(started(o), c)
        /\ alive' = alive + Live(dev') - Live(stopped)
        /\ cfg' = c /\ discovery' = on
        /\ announced' = IF stops \cup opened # {} \/ on # discovery THEN Announcement(dev', on) ELSE announced
        /\ ArmRetryTimer(retryAt)
        /\ UNCHANGED <<due, host, seen, armed, changed>>

Save == \E c \in [Names -> UNION {Entries[n] : n \in Names} \cup {None}], on \in Discoveries :
            (\A n \in Names : c[n] \in Entries[n] \cup {None}) /\ Reconcile(c, on)

\* retryDown: every down device bound by a stable id starts again.
RetryDown ==
    LET opened == {n \in Names : Enabled(cfg, n) /\ ~IsCardIndex(cfg[n]) /\ IsDown(dev[n])}
    IN  /\ changed
        /\ changed' = FALSE
        /\ \E o \in PassOutcomes(dev, cfg, opened) :
           /\ trouble' = trouble + Trouble(dev, cfg, opened, o) /\ trouble' <= MaxTrouble
           /\ dev' = ReconcileRecords(Passed([of |-> "retryDown", cfg |-> cfg, opened |-> opened, o |-> o], dev), cfg)
        /\ alive' = alive + Live(dev') - Live(dev)
        /\ announced' = IF \E n \in opened : dev'[n].st = "serving" THEN Announcement(dev', discovery) ELSE announced
        /\ ArmRetryTimer(retryAt)
        /\ UNCHANGED <<cfg, discovery, due, host, seen, armed, saves>>

\* onRetryDue's backstop: no state for a name that is not an enabled device.
Pruned(D) == [n \in Names |->
    IF Enabled(cfg, n) THEN D[n]
    ELSE LET x == [DropRetry(D[n]) EXCEPT !.faulted = {}, !.faultOf = None]
         IN  IF x.geometry.of = None THEN x ELSE DropGeometry(x)]

OnRetryDue ==
    LET opened == {n \in Names : Enabled(cfg, n) /\ dev[n].retried /\ dev[n].retry.next = 0 /\ IsDown(dev[n])}
        recovered == {n \in Names : Retrying(dev[n]) /\ dev'[n].retried /\ dev'[n].retry.recovered # None}
        reannounce == {n \in opened : dev'[n].st = "serving" /\ dev'[n].faulted # {} /\ discovery /\ announced[n] = None}
    IN  /\ due
        /\ due' = FALSE
        /\ \E o \in PassOutcomes(dev, cfg, opened) :
           /\ trouble' = trouble + Trouble(dev, cfg, opened, o) /\ trouble' <= MaxTrouble
           /\ dev' = Passed([of |-> "retryDue", cfg |-> cfg, opened |-> opened, o |-> o], Pruned(dev))
        /\ alive' = alive + Live(dev') - Live(dev)
        /\ announced' = IF recovered \cup reannounce # {} THEN Announcement(dev', discovery) ELSE announced
        /\ ArmRetryTimer(None)
        /\ UNCHANGED <<cfg, discovery, host, seen, armed, changed, saves>>

\* A pump that stopped on its own: "gone" is a loss the library confirms;
\* any other result is one only if the id now resolves to nothing.
Lost(x) == x.pump = "gone" \/ host[x.entry.id] = "not-connected"

Failed(x) ==
    LET cause == IF x.pump \in {"stalled", "shortfall"} THEN "stalled" ELSE "failed"
        dead == GeometryRunEnded([x EXCEPT !.st = "failed", !.pump = None, !.path = None, !.mounted = FALSE])
        down == ScheduleRetry(MarkDown(dead, cause), x.entry)
        short == IF x.pump = "shortfall" /\ down.retried THEN GeometryShortfall(down) ELSE down
    IN  IF Lost(x) THEN DropRetry(MarkDown(dead, "disconnected"))
        ELSE IF x.pump = "encode" /\ short.retried
        THEN [short EXCEPT !.faulted = @ \cup {x.path}, !.faultOf = x.entry]
        ELSE short

StaleTakenForCurrent(n) ==
    /\ dev[n].stale > 0
    /\ dev' = [dev EXCEPT ![n] = [(IF @.st = "serving" THEN Failed([@ EXCEPT !.pump = "failed"]) ELSE @) EXCEPT !.stale = @ - 1]]
    /\ alive' = alive - 1
    /\ UNCHANGED <<cfg, discovery, announced, retryAt, timer, due, host, seen, armed, changed, saves, trouble>>

\* The result of a pump the run loop stopped: its teardown already happened.
OnStalePumpDone(n) ==
    /\ dev[n].stale > 0
    /\ dev' = [dev EXCEPT ![n].stale = @ - 1]
    /\ alive' = alive - 1
    /\ UNCHANGED <<cfg, discovery, announced, retryAt, timer, due, host, seen, armed, changed, saves, trouble>>

OnPumpDone(n) ==
    LET x == dev[n] IN
    /\ x.pump \notin {None, "live"}
    /\ dev' = [dev EXCEPT ![n] = Failed(x)]
    /\ alive' = alive - 1
    /\ armed' = (armed \/ Lost(x))
    /\ ArmRetryTimer(retryAt)
    /\ UNCHANGED <<cfg, discovery, announced, due, host, seen, changed, saves, trouble>>

----------------------------------------------------------------------------
(* The clock, the stages, the hardware and its enumeration *)

Ticked(t) == IF t = None \/ t = 0 THEN t ELSE t - 1

\* Time passes: every deadline comes closer.
Tick ==
    /\ \/ EarliestDeadline(dev) # None \/ timer # None
       \/ \E n \in Names : dev[n].retry.recovered # None /\ dev[n].retry.recovered < RetryResetAfter
    /\ dev' = [n \in Names |->
           [dev[n] EXCEPT !.retry.next = Ticked(@), !.retry.settle = Ticked(@),
                          !.retry.recovered = IF @ = None \/ @ = RetryResetAfter THEN @ ELSE @ + 1]]
    /\ retryAt' = Ticked(retryAt) /\ timer' = Ticked(timer)
    /\ UNCHANGED <<cfg, discovery, alive, announced, due, host, seen, armed, changed, saves, trouble>>

\* signalRetryDue, from the timer.
TimerFires ==
    /\ timer = 0
    /\ timer' = None /\ due' = TRUE
    /\ UNCHANGED <<cfg, discovery, dev, alive, announced, retryAt, host, seen, armed, changed, saves, trouble>>

NoteEncodedQuietly(n, s) ==
    /\ dev[n].pump = "live" /\ s \notin dev[n].encoded
    /\ dev' = [dev EXCEPT ![n].encoded = @ \cup {s}]
    /\ UNCHANGED <<cfg, discovery, alive, announced, retryAt, timer, due, host, seen, armed, changed, saves, trouble>>

\* noteEncoded: a client plays the stream and its stage emits its first frame.
NoteEncoded(n, s) ==
    /\ dev[n].pump = "live" /\ s \notin dev[n].encoded
    /\ dev' = [dev EXCEPT ![n].encoded = @ \cup {s}]
    /\ due' = (due \/ dev[n].await)
    /\ UNCHANGED <<cfg, discovery, alive, announced, retryAt, timer, host, seen, armed, changed, saves, trouble>>

\* A device has served for an hour.
ServesAnHour(n) ==
    /\ Periods /\ dev[n].pump = "live" /\ ~dev[n].hour /\ dev[n].geometry.of # None
    /\ dev' = [dev EXCEPT ![n].hour = TRUE]
    /\ UNCHANGED <<cfg, discovery, alive, announced, retryAt, timer, due, host, seen, armed, changed, saves, trouble>>

\* pump: the capture fails, falls short of its rate or stalls, or a stage's
\* encode faults, and the pump leaves its result for the run loop.
PumpEnds(n) ==
    /\ dev[n].pump = "live" /\ trouble < MaxTrouble
    /\ \/ \E res \in {"failed"} \cup (IF Periods THEN {"shortfall", "stalled"} ELSE {}) :
              dev' = [dev EXCEPT ![n].pump = res]
       \/ \E s \in Streams : Encoders /\ dev' = [dev EXCEPT ![n].pump = "encode", ![n].path = s]
    /\ trouble' = trouble + 1
    /\ UNCHANGED <<cfg, discovery, alive, announced, retryAt, timer, due, host, seen, armed, changed, saves>>

\* A device is plugged, unplugged or renumbered.  A capture on an id that
\* moved ends, as a confirmed loss or as an error that is not one.
HostChanges ==
    /\ trouble < MaxTrouble /\ trouble' = trouble + 1
    /\ \E i \in Ids, a \in UNION {Answers[j] : j \in Ids}, kind \in {"gone", "failed"} :
        /\ a \in Answers[i] /\ a # host[i]
        /\ host' = [host EXCEPT ![i] = a]
        /\ dev' = [n \in Names |->
                      IF dev[n].pump = "live" /\ dev[n].entry.id = i /\ host[i] \in Addrs
                      THEN [dev[n] EXCEPT !.pump = kind] ELSE dev[n]]
    /\ UNCHANGED <<cfg, discovery, alive, announced, retryAt, timer, due, seen, armed, changed, saves>>

\* hardwareSignature: which ids are present, and where.
Signature == [i \in Ids |-> IF host[i] \in Addrs \cup {"ambiguous"} THEN host[i] ELSE None]

\* runEnumeration's detect: a changed signature or an armed retry wakes the
\* run loop.  The goroutine starts after the initial reconcile.
Enumerate ==
    /\ saves > 0
    /\ \A i \in Ids : host[i] # "resolve-failed"
    /\ seen # Signature \/ armed
    /\ seen' = Signature /\ armed' = FALSE /\ changed' = TRUE
    /\ UNCHANGED <<cfg, discovery, dev, alive, announced, retryAt, timer, due, host, saves, trouble>>

----------------------------------------------------------------------------
Init ==
    /\ cfg = [n \in Names |-> None] /\ discovery = TRUE
    /\ dev = [n \in Names |-> NoDevice]
    /\ alive = 0
    /\ announced = [n \in Names |-> None]
    /\ retryAt = None /\ timer = None /\ due = FALSE
    /\ host \in [Ids -> UNION {Answers[i] : i \in Ids}] /\ \A i \in Ids : host[i] \in Answers[i]
    /\ seen = [i \in Ids |-> None] /\ armed = FALSE /\ changed = FALSE
    /\ saves = 0 /\ trouble = 0

Next ==
    \/ Save \/ RetryDown \/ OnRetryDue
    \/ \E n \in Names : OnStalePumpDone(n) \/ OnPumpDone(n) \/ ServesAnHour(n) \/ PumpEnds(n)
    \/ \E n \in Names, s \in Streams : NoteEncoded(n, s)
    \/ Tick \/ TimerFires \/ HostChanges \/ Enumerate

Spec == Init /\ [][Next]_vars

\* Only OnRetryDue takes the retry signal and only RetryDown the hardware
\* one, and neither can be refused: that the signal is taken is that the
\* handler runs.
TakesRetryDue == due /\ due' = FALSE
TakesHwChanged == changed /\ changed' = FALSE

\* The run loop's select serves every ready case in the end; timers fire and
\* the enumeration's ticker runs.
FairSpec ==
    /\ Spec
    /\ WF_due(TakesRetryDue) /\ WF_changed(TakesHwChanged)
    /\ WF_vars(Tick) /\ WF_vars(TimerFires) /\ WF_vars(Enumerate)

----------------------------------------------------------------------------
(* Properties *)

\* What ends a pump, and when, never leaves the count of pumps wrong or a
\* serving device without its track: the result of a runtime that a reconcile
\* replaced does not touch its successor (onPumpDone, superseded).
PumpsAccounted ==
    /\ alive = Live(dev) + Total([n \in Names |-> dev[n].stale])
    /\ \A n \in Names : (dev[n].st = "serving") = (dev[n].pump # None) /\ dev[n].mounted = (dev[n].pump # None)

\* The device-down condition is active, and names the cause the appliance
\* holds, exactly while the device is down or a restart of it has not proved
\* itself; through open failures, deaths, retries, saves and hotplugs
\* (markDown, replaceDown, finishRecovery, reconcileRecords).  The
\* capture-period condition is gone once a device captures with the default
\* period, and does not outlive the escalation it tells of, whatever opens,
\* fallbacks, refusals and stable runs led there (geometryOpened,
\* geometryRefuse, geometryRunEnded, dropGeometry).
DownIsTold ==
    \A n \in Names :
        /\ dev[n].downCond = dev[n].downReason
        /\ (dev[n].downReason # None) = (IsDown(dev[n]) \/ (dev[n].st = "serving" /\ Retrying(dev[n])))
        /\ dev[n].st = "serving" /\ dev[n].step = 0 => dev[n].periodCond = 0
        /\ dev[n].periodCond > 0 => dev[n].geometry.step > 0 /\ Enabled(cfg, n)

\* No restart is forgotten: a device down for a cause a retry can fix has an
\* attempt scheduled; one that waits to settle has a deadline, or waits for an
\* encode that will wake the loop; and every deadline has the timer or a
\* pending signal behind it (armRetryTimer, onRetryDue, noteEncoded).
RetryHasWakeup ==
    \A n \in Names :
        LET x == dev[n] IN
        /\ IsDown(x) /\ ~IsCardIndex(x.entry) /\ RetryableCause(x.downReason) => x.retried /\ x.retry.next # None
        /\ x.st = "serving" /\ Retrying(x) =>
               x.retry.settle # None \/ (x.retry.awaitEncode /\ x.await /\ (EncodedAll(x) => due))
        /\ \A t \in {x.retry.next, x.retry.settle} \ {None} : due \/ (timer # None /\ timer <= t)

\* A client that relies on discovery finds every device it could play, as it
\* serves now: one that counts as recovered, and one that waits for a client
\* to prove its encoder (restartAnnounce, refreshAnnounce, attemptRetry).
Discoverable ==
    \A n \in Names :
        discovery /\ dev[n].st = "serving" /\ (~Retrying(dev[n]) \/ dev[n].faulted # {})
        => announced[n] # None /\ CaptureParamsEqual(announced[n], dev[n].entry)

\* After an encode fault the condition is not cleared before every faulted
\* stream has encoded on the device that now serves, whatever restarted it in
\* between, unless the device goes away or its parameters change (encodeFault).
ProofBeforeClear ==
    [][\A n \in Names :
        (/\ dev[n].faulted # {} /\ dev[n].downCond # None /\ dev'[n].downCond = None
         /\ Enabled(cfg', n) /\ CaptureParamsEqual(dev[n].faultOf, cfg'[n]))
        => dev[n].st = "serving" /\ EncodedAll(dev[n])]_vars

Retried(n) ==
    Enabled(cfg, n) /\ ~IsCardIndex(cfg[n]) /\ IsDown(dev[n]) /\ RetryableCause(dev[n].downReason)

\* A device that is present but down for a cause a restart can fix is
\* restarted until it serves, unless it goes down for another cause, off the
\* host or out of the configuration (scheduleRetry).
RetriedUntilUp == \A n \in Names : (Retried(n) ~> (~Retried(n) \/ host[cfg[n].id] \notin Addrs))

=============================================================================
