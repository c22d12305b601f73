----------------------------- MODULE UpdateChecks -----------------------------
(***************************************************************************)
(* The release checks of the update manager (internal/update/manager.go):  *)
(* the check loop, its timer, the manual check of the management API, and  *)
(* the switch the run loop turns, whose steps race with both.              *)
(*                                                                         *)
(* Log lines and their dedupe are left out.                                *)
(***************************************************************************)
EXTENDS Monitors, Releases

CONSTANTS
    CheckInterval,  \* the daily interval, in units of the first retry's delay
    MaxFailures     \* bound: consecutive failures counted

ASSUME UpdateBounds == CheckInterval \in Nat \ {0} /\ MaxFailures \in Nat

VARIABLES mgr,      \* the manager, its check loop included
          checks    \* a check in flight, by who asked for it

updateVars == <<mgr, checks>>

Askers == {"loop", "manual"}

----------------------------------------------------------------------------
(* The delay *)

\* nextCheck: the delay after a check, in the same units.
NextCheck(r) ==
    IF r.pending THEN 1
    ELSE IF r.failures = 0 THEN CheckInterval
    ELSE Min({2 ^ (r.failures - 1), CheckInterval})

----------------------------------------------------------------------------
(* The switch *)

\* Apply: the flag is swapped first; nothing else is done when it did not change.
ManagerSwaps ==
    /\ loop.todo # <<>> /\ Head(loop.todo) = "swap"
    /\ mgr' = [mgr EXCEPT !.enabled = loop.set.checks]
    /\ loop' = [loop EXCEPT !.todo = IF mgr.enabled = loop.set.checks THEN <<>>
                                     ELSE IF loop.set.checks THEN <<"wake">> ELSE Tail(@)]
    /\ UNCHANGED <<center, checks>>

ManagerCounts ==
    /\ Applies("offGen")
    /\ mgr' = [mgr EXCEPT !.offGen = @ + 1]
    /\ UNCHANGED <<center, checks>>

\* Under m.mu: the release found is forgotten and a check in flight told to stop.
ManagerForgets ==
    /\ Applies("forget")
    /\ mgr' = [mgr EXCEPT !.latest = None, !.available = FALSE, !.notice = None]
    /\ center' = Resolve(center, "update:available")
    /\ checks' = [a \in Askers |-> [checks[a] EXCEPT !.stopped = @ \/ checks[a].st = "fetch"]]

\* The wake channel holds one.
ManagerWakes ==
    /\ Applies("wake")
    /\ mgr' = [mgr EXCEPT !.wake = TRUE]
    /\ UNCHANGED <<center, checks>>

----------------------------------------------------------------------------
(* The check loop *)

NoTimer == [delay |-> 0, due |-> FALSE, gen |-> 0]

Timer(delay) == [delay |-> delay, due |-> FALSE, gen |-> mgr.offGen]

NoCheck == [st |-> "idle", fetch |-> FetchBegins, stopped |-> FALSE, gen |-> 0, r |-> [failures |-> 0, pending |-> FALSE]]

\* Mutant of LoopSeesOff: off and on again, seen as one wake, keeps the old timer.
LoopMissesOff ==
    /\ mgr.pc = "top"
    /\ mgr' = [mgr EXCEPT !.pc = "arm", !.seen = mgr.offGen]
    /\ UNCHANGED <<center, loop, checks>>

\* The top of the loop: a moved offGen starts the schedule over.
LoopSeesOff ==
    /\ mgr.pc = "top"
    /\ mgr' = [mgr EXCEPT !.pc = "arm", !.seen = mgr.offGen, !.timer = IF mgr.offGen # mgr.seen THEN NoTimer ELSE @]
    /\ UNCHANGED <<center, loop, checks>>

\* A first delay is given as CheckInterval + 1, which no later one reaches.
FirstCheckDelay == CheckInterval + 1

LoopArms ==
    /\ mgr.pc = "arm"
    /\ mgr' = [mgr EXCEPT !.pc = "select",
                          !.timer = IF ~mgr.enabled THEN NoTimer ELSE IF @ = NoTimer THEN Timer(FirstCheckDelay) ELSE @]
    /\ UNCHANGED <<center, loop, checks>>

LoopWakes ==
    /\ mgr.pc = "select" /\ mgr.wake /\ ~loop.stopping
    /\ mgr' = [mgr EXCEPT !.pc = "top", !.wake = FALSE]
    /\ UNCHANGED <<center, loop, checks>>

TimerIsDue ==
    /\ mgr.timer # NoTimer /\ ~mgr.timer.due /\ Spend("fetch")
    /\ mgr' = [mgr EXCEPT !.timer.due = TRUE]
    /\ UNCHANGED <<center, loop, checks>>

LoopTicks ==
    /\ mgr.pc = "select" /\ mgr.timer.due /\ ~loop.stopping /\ checks["loop"].st = "idle"
    /\ mgr' = [mgr EXCEPT !.pc = "check"]
    /\ checks' = [checks EXCEPT !["loop"].st = "wait"]
    /\ UNCHANGED <<center, loop>>

\* The loop is back from its check and arms the next one.
LoopRearms ==
    /\ mgr.pc = "check" /\ checks["loop"].st = "done"
    /\ mgr' = [mgr EXCEPT !.pc = "top", !.timer = [delay |-> NextCheck(checks["loop"].r), due |-> FALSE, gen |-> checks["loop"].gen]]
    /\ checks' = [checks EXCEPT !["loop"] = NoCheck]
    /\ UNCHANGED <<center, loop>>

\* ctx ends: Run returns from its select, and its deferred stop disarms the timer.
LoopReturns ==
    /\ mgr.pc = "select" /\ loop.stopping
    /\ mgr' = [mgr EXCEPT !.pc = "gone", !.timer = NoTimer]
    /\ UNCHANGED <<center, loop, checks>>

----------------------------------------------------------------------------
(* A check *)

\* CheckNow: refused while checks are off, as far as it looks.
CheckNow ==
    /\ mgr.enabled /\ checks["manual"].st = "idle" /\ Spend("fetch")
    /\ checks' = [checks EXCEPT !["manual"].st = "wait"]
    /\ UNCHANGED <<center, loop, mgr>>

\* check takes checkMu, then looks at the switch where its cancel is registered.
\* A manual check is skipped when one has finished a moment ago.
CheckBegins(a) ==
    /\ checks[a].st = "wait" /\ \A b \in Askers : checks[b].st # "fetch"
    /\ \E skip \in BOOLEAN :
          /\ ~mgr.enabled => skip
          /\ (skip /\ mgr.enabled) => (a = "manual" /\ mgr.checked)
          /\ checks' = [checks EXCEPT ![a] =
                IF skip THEN [@ EXCEPT !.st = "done", !.gen = mgr.offGen, !.r = [failures |-> mgr.failures, pending |-> FALSE]]
                ELSE [@ EXCEPT !.st = "fetch", !.stopped = FALSE, !.gen = mgr.offGen]]
    /\ UNCHANGED <<center, loop, mgr>>

\* The requests of the fetch, without the lock.
CheckFetches(a) ==
    /\ checks[a].st = "fetch" /\ checks[a].fetch.at # "answer"
    /\ \E f \in FetchStep(checks[a].fetch) : checks' = [checks EXCEPT ![a].fetch = f]
    /\ UNCHANGED <<center, loop, mgr>>

\* Mutant of Dropped: only the switch as it is now.
DroppedWhileOff(a) == ~mgr.enabled

\* Under m.mu again: a check that was stopped, or finds checks off, keeps nothing.
Dropped(a) == ~mgr.enabled \/ checks[a].stopped

Done(a, r) == checks' = [checks EXCEPT ![a].st = "done", ![a].r = r, ![a].fetch = FetchBegins]

CheckDropped(a) ==
    /\ checks[a].st = "fetch" /\ Dropped(a) /\ (checks[a].fetch.at = "answer" \/ checks[a].stopped)
    /\ Done(a, [failures |-> mgr.failures, pending |-> FALSE])
    /\ UNCHANGED <<center, loop, mgr>>

Answers(a, kinds) ==
    checks[a].st = "fetch" /\ checks[a].fetch.at = "answer" /\ ~Dropped(a) /\ checks[a].fetch.kind \in kinds

\* The host answered without a manifest, which keeps what was verified, or
\* without a release, which withdraws it.
CheckNotice(a) ==
    /\ Answers(a, {"noRelease", "noManifest"})
    /\ LET notice == checks[a].fetch.kind IN
       /\ mgr' = [mgr EXCEPT !.checked = TRUE, !.failures = 0, !.notice = notice,
                             !.latest = IF notice = "noRelease" THEN None ELSE @,
                             !.available = notice # "noRelease" /\ @]
       /\ center' = IF notice = "noRelease" THEN Resolve(center, "update:available") ELSE center
       /\ Done(a, [failures |-> 0, pending |-> notice = "noManifest"])
    /\ UNCHANGED loop

CheckFails(a) ==
    /\ Answers(a, {"error"})
    /\ LET failures == Min({mgr.failures + 1, MaxFailures}) IN
       /\ mgr' = [mgr EXCEPT !.checked = TRUE, !.failures = failures, !.notice = None]
       /\ Done(a, [failures |-> failures, pending |-> FALSE])
    /\ UNCHANGED <<center, loop>>

\* A verified release: the condition is raised, rewritten for another version, or ended.
CheckFinds(a) ==
    /\ Answers(a, {"release"})
    /\ LET rel == checks[a].fetch.rel
           v == rel.version
       IN  /\ mgr' = [mgr EXCEPT !.checked = TRUE, !.failures = 0, !.notice = None, !.available = Newer(v),
                                 !.latest = [rel |-> rel, gen |-> checks[a].gen]]
           /\ center' = IF ~Newer(v) THEN Resolve(center, "update:available")
                        ELSE IF center.active["update:available"] = None THEN Onset(center, "update:available", v)
                        ELSE Update(center, "update:available", v)
    /\ Done(a, [failures |-> 0, pending |-> FALSE])
    /\ UNCHANGED loop

CheckAnswered ==
    /\ checks["manual"].st = "done"
    /\ checks' = [checks EXCEPT !["manual"] = NoCheck]
    /\ UNCHANGED <<center, loop, mgr>>

----------------------------------------------------------------------------
UpdateInit ==
    /\ mgr = [enabled |-> TRUE, offGen |-> 0, wake |-> TRUE, pc |-> "top", seen |-> 0, timer |-> NoTimer,
              latest |-> None, available |-> FALSE, notice |-> None, checked |-> FALSE, failures |-> 0]
    /\ checks = [a \in Askers |-> NoCheck]

UpdateStep ==
    /\ "updates" \in parts
    /\ \/ /\ \/ ManagerSwaps \/ ManagerCounts \/ ManagerForgets \/ ManagerWakes
             \/ LoopSeesOff \/ LoopArms \/ LoopWakes \/ LoopTicks \/ LoopRearms \/ LoopReturns \/ CheckAnswered
             \/ \E a \in Askers :
                   CheckBegins(a) \/ CheckFetches(a) \/ CheckDropped(a) \/ CheckNotice(a) \/ CheckFails(a) \/ CheckFinds(a)
          /\ UNCHANGED budget
       \/ TimerIsDue \/ CheckNow

=============================================================================
