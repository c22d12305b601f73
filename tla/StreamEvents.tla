---------------------------- MODULE StreamEvents ----------------------------
(***************************************************************************)
(* The notifications about playing clients (cmd/remotemic/stream_events.go)*)
(* for one path and one client host: connects and disconnects are told one *)
(* by one until the host reconnects too often, then in one warning.        *)
(*                                                                         *)
(* gaps is a history variable, what the flap detector is judged by: the    *)
(* time between one connect and the next, and since the last one.          *)
(***************************************************************************)
EXTENDS Notifications

CONSTANTS FlapMax, FlapWindow, FlapQuiet   \* connects, and ticks of the clock

ASSUME FlapBounds == FlapMax \in Nat \ {0} /\ FlapWindow \in Nat \ {0} /\ FlapQuiet \in Nat /\ FlapQuiet > FlapWindow

VARIABLES
    flap,    \* the detector of the path and host, None when it has none
    gaps     \* times between connects, the last of them still running

streamEventVars == <<flap, gaps>>

----------------------------------------------------------------------------
\* pathFlap: made on first use.
PathFlap == IF flap = None THEN NoFlap ELSE flap

FlapTransition(c, before, after) ==
    IF ~before.active /\ after.active THEN Onset(c, "stream:flap", None)
    ELSE IF before.active /\ ~after.active THEN Clear(c, "stream:flap")
    ELSE c

\* A connect is told unless it raises the warning or comes while it is up.
ClientConnected ==
    /\ Spend("connects")
    /\ LET f == FlapEvent(PathFlap, FlapMax, FlapQuiet)
           c == FlapTransition(center, PathFlap, f)
       IN  /\ flap' = f
           /\ center' = IF f.active THEN c ELSE Publish(c)
    /\ gaps' = Append(gaps, 0)

\* An eviction is always told; another end only while the host is not flapping.
ClientDisconnected ==
    /\ Spend("disconnects")
    /\ \E evicted \in BOOLEAN :
          /\ flap' = IF evicted THEN flap ELSE PathFlap
          /\ center' = IF evicted \/ ~PathFlap.active THEN Publish(center) ELSE center
    /\ UNCHANGED gaps

\* sweep: a settled flap is cleared, an idle detector dropped.
Sweep ==
    /\ flap # None
    /\ LET f == FlapSweep(flap, FlapQuiet) IN
       /\ center' = FlapTransition(center, flap, f)
       /\ flap' = IF FlapIdle(f) THEN None ELSE f
    /\ UNCHANGED gaps

\* The clock: a gap is counted up to the quiet time, past which it is all the same.
ClockTicks ==
    /\ gaps # <<>>
    /\ gaps' = [gaps EXCEPT ![Len(gaps)] = Min({@ + 1, FlapQuiet})]
    /\ flap' = IF flap = None THEN None ELSE FlapOlder(flap, FlapWindow, FlapQuiet)
    /\ UNCHANGED center

StreamEventsInit == flap = None /\ gaps = <<>>

StreamEventsStep ==
    /\ "clients" \in parts
    /\ \/ (Sweep \/ ClockTicks) /\ UNCHANGED budget
       \/ ClientConnected \/ ClientDisconnected

----------------------------------------------------------------------------
(* What flapping is, by the history alone: more than FlapMax connects fell  *)
(* within the window, and no quiet time has passed since.                   *)

\* The time the first k gaps took.
Elapsed(times, k) ==
    LET sum[i \in 0 .. Len(times)] == IF i = 0 THEN 0 ELSE sum[i - 1] + times[i] IN sum[k]

\* The time from the i-th connect to the j-th; past the last, until now.
Span(i, j) == Elapsed(gaps, j - 1) - Elapsed(gaps, i - 1)

Burst(j) == j > FlapMax /\ Span(j - FlapMax, j) <= FlapWindow

Flapping ==
    \E j \in DOMAIN gaps : Burst(j) /\ \A k \in j .. Len(gaps) : gaps[k] < FlapQuiet

=============================================================================
