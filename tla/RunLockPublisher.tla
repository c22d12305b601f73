-------------------------- MODULE RunLockPublisher --------------------------
(***************************************************************************)
(* The publisher of the run lock (runLockPublisher in                      *)
(* cmd/remotemic/main.go): the run loop and the management supervisor ask  *)
(* for a state, a write may fail and leave the file empty, and a timer     *)
(* writes the latest state again until it is there.                        *)
(***************************************************************************)
EXTENDS Notifications

VARIABLE lock   \* [file, want, failing, armed, fired, stopped]

States == {"starting", "noApi", "api"}

----------------------------------------------------------------------------
\* flush: a pending retry is stopped, which does not reach one that has fired.
Written(l) == [l EXCEPT !.armed = FALSE, !.failing = FALSE, !.file = l.want]

\* Mutant of Unwritten: only the first failure of a streak arms the retry.
UnwrittenOnce(l, left) == [l EXCEPT !.armed = ~l.failing, !.failing = TRUE, !.file = left]

\* Publish truncates before it writes: a failure leaves the file as it was, or
\* empty, which reads as starting up.
Unwritten(l, left) == [l EXCEPT !.armed = TRUE, !.failing = TRUE, !.file = left]

Flush(l) ==
    \/ /\ l.stopped
       /\ lock' = l
       /\ UNCHANGED <<center, budget>>
    \/ /\ ~l.stopped
       /\ lock' = Written(l)
       /\ center' = IF l.failing THEN Clear(center, "run-lock-unwritable") ELSE center
       /\ UNCHANGED budget
    \/ /\ ~l.stopped /\ Spend("writes")
       /\ \E left \in {l.file, "starting"} : lock' = Unwritten(l, left)
       /\ center' = IF l.failing THEN center ELSE Onset(center, "run-lock-unwritable", None)

\* publish and starting.
SetRunLock == \E st \in States : Flush([lock EXCEPT !.want = st])

\* The timer fires; its function waits for the mutex.
RetryFires ==
    /\ lock.armed /\ lock.fired < 2
    /\ lock' = [lock EXCEPT !.armed = FALSE, !.fired = @ + 1]
    /\ UNCHANGED <<center, budget>>

RetryFlushes ==
    /\ lock.fired > 0
    /\ Flush([lock EXCEPT !.fired = @ - 1])

\* stop, before run releases the lock.
StopRunLock ==
    /\ ~lock.stopped /\ Spend("stop")
    /\ lock' = [lock EXCEPT !.stopped = TRUE, !.armed = FALSE]
    /\ UNCHANGED center

RunLockInit == lock = [file |-> "starting", want |-> "starting", failing |-> FALSE, armed |-> FALSE, fired |-> 0, stopped |-> FALSE]

RunLockStep == "lock" \in parts /\ (SetRunLock \/ RetryFires \/ RetryFlushes \/ StopRunLock)

=============================================================================
