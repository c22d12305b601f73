---------------------------- MODULE AlertsProofs ----------------------------
(***************************************************************************)
(* Every condition of the notification center has its cause, and what the  *)
(* emitters owe the operator they give.  The center's methods are proved   *)
(* to change one key and no other; each emitter has an invariant that      *)
(* relates its keys to its own state; and a step of one leaves the keys of *)
(* the others alone (AlertsStep).                                          *)
(*                                                                         *)
(* How the recursive function of Monitors!FlapEvents ends is an induction  *)
(* over the events of a poll, by the least number at which it would fail.  *)
(* The last part is about the history of the connects, and by the same     *)
(* induction about the sums of their gaps.                                 *)
(***************************************************************************)
EXTENDS EventsProofs

----------------------------------------------------------------------------
(* The center: what its methods do to the active conditions *)

\* What the methods keep of the center: its fields, its counters, and the
\* conditions it holds.
CenterType(c) ==
    /\ DOMAIN c = {"boot", "next", "ring", "active", "sub"}
    /\ c = [f \in {"boot", "next", "ring", "active", "sub"} |-> c[f]]
    /\ c.boot \in Nat /\ c.next \in Nat
    /\ c.active \in [Keys -> Onsets \cup {None}]

\* There is a history the center goes on with, of which the connection and the
\* page, as they are, are excerpts; the steps of the emitters leave them alone.
PageFits(c) == \E h : PageInv(h, c, stream, browser)

CenterInv(c) == CenterType(c) /\ PageFits(c)

\* The condition of a key is up.
Up(c, key) == c.active[key] # None

\* Two values of the center agree on every condition but those of some keys.
AgreeBut(c, d, keys) == \A k \in Keys \ keys : d.active[k] = c.active[k]

\* An event reaches the subscriber or not, and the conditions are the same.
LEMMA BroadcastKeeps ==
    ASSUME NEW c, CenterType(c), NEW e
    PROVE  LET d == Broadcast(c, e) IN CenterType(d) /\ d.active = c.active /\ d.next = c.next /\ d.boot = c.boot
BY DEF CenterType, Broadcast

\* Publishing an entry keeps the conditions.
LEMMA PublishLockedKeeps ==
    ASSUME NEW c, CenterType(c), NEW e, e.id \in Nat
    PROVE  LET d == PublishLocked(c, e) IN CenterType(d) /\ d.active = c.active /\ d.boot = c.boot
<1> DEFINE b == [c EXCEPT !.next = e.id, !.ring = Push(c.ring, e)]
<1>1. CenterType(b) /\ b.active = c.active /\ b.boot = c.boot
  BY DEF CenterType
<1>2. PublishLocked(c, e) = Broadcast(b, e)
  BY DEF PublishLocked
<1> HIDE DEF b
<1> QED
  BY <1>1, <1>2, BroadcastKeeps

\* What is stamped for a condition is an onset of its key.
LEMMA StampedOnset ==
    ASSUME NEW c, CenterType(c), NEW key \in Keys, NEW text \in Texts
    PROVE  LET e == Stamped(c, "onset", key, text)
           IN  e \in Onsets /\ e # None /\ e.id \in Nat /\ e.text = text
<1> DEFINE e == Stamped(c, "onset", key, text)
<1>1. e = [id |-> c.next + 1, boot |-> c.boot, kind |-> "onset", key |-> key, text |-> text]
  BY DEF Stamped
<1>2. c.next + 1 \in Nat /\ c.boot \in Nat
  BY DEF CenterType
<1>3. e \in Onsets
  BY <1>1, <1>2 DEF Onsets, OnsetsOf, Texts
<1>4. e.id = c.next + 1 /\ e.text = text
  BY <1>1
<1> QED
  BY <1>2, <1>3, <1>4, NoneAssumption

\* An event changes no condition.
LEMMA PublishFields ==
    ASSUME NEW c, CenterType(c)
    PROVE  CenterType(Publish(c)) /\ Publish(c).active = c.active /\ Publish(c).boot = c.boot
<1>1. Stamped(c, "event", None, None).id \in Nat
  BY DEF Stamped, CenterType
<1> QED
  BY <1>1, PublishLockedKeeps DEF Publish

\* Onset raises its key, with its text if it was not up, and no other.
LEMMA OnsetFields ==
    ASSUME NEW c, CenterType(c), NEW key \in Keys, NEW text \in Texts
    PROVE  LET d == Onset(c, key, text)
           IN  /\ CenterType(d) /\ Up(d, key) /\ AgreeBut(c, d, {key})
               /\ ~Up(c, key) => d.active[key].text = text
               /\ Up(c, key) => d = c
<1> DEFINE e == Stamped(c, "onset", key, text)
           p == PublishLocked(c, e)
<1>1. e \in Onsets /\ e # None /\ e.id \in Nat /\ e.text = text
  BY StampedOnset
<1>2. CenterType(p) /\ p.active = c.active /\ p.boot = c.boot
  BY <1>1, PublishLockedKeeps
<1>3. Onset(c, key, text) = IF c.active[key] # None THEN c ELSE [p EXCEPT !.active = [p.active EXCEPT ![key] = e]]
  BY DEF Onset
<1> HIDE DEF e, p
<1>4. CASE Up(c, key)
  BY <1>3, <1>4 DEF Up, AgreeBut
<1>5. CASE ~Up(c, key)
  <2> DEFINE d == [p EXCEPT !.active = [p.active EXCEPT ![key] = e]]
  <2>1. Onset(c, key, text) = d
    BY <1>3, <1>5 DEF Up
  <2>2. d.active = [c.active EXCEPT ![key] = e] /\ CenterType(d)
    BY <1>1, <1>2 DEF CenterType
  <2> HIDE DEF d
  <2> QED
    BY <1>1, <1>5, <2>1, <2>2 DEF Up, AgreeBut, CenterType
<1> QED
  BY <1>4, <1>5

\* Clear ends its key, and no other; so does Resolve.
LEMMA ClearFields ==
    ASSUME NEW c, CenterType(c), NEW key \in Keys
    PROVE  /\ CenterType(Clear(c, key)) /\ ~Up(Clear(c, key), key) /\ AgreeBut(c, Clear(c, key), {key})
           /\ Resolve(c, key) = Clear(c, key)
<1> DEFINE e == Stamped(c, "clear", key, None)
           b == [c EXCEPT !.active = [c.active EXCEPT ![key] = None]]
<1>1. CASE c.active[key] = None
  BY <1>1 DEF Clear, Resolve, Up, AgreeBut
<1>2. CASE c.active[key] # None
  <2>1. CenterType(b) /\ b.active = [c.active EXCEPT ![key] = None]
    BY DEF CenterType
  <2>2. e.id \in Nat
    BY DEF Stamped, CenterType
  <2>3. Clear(c, key) = PublishLocked(b, e) /\ Resolve(c, key) = PublishLocked(b, e)
    BY <1>2 DEF Clear, Resolve
  <2> HIDE DEF b, e
  <2>4. CenterType(PublishLocked(b, e)) /\ PublishLocked(b, e).active = b.active
    BY <2>1, <2>2, PublishLockedKeeps
  <2> QED
    BY <2>1, <2>3, <2>4 DEF Up, AgreeBut, CenterType
<1> QED
  BY <1>1, <1>2

\* Update rewrites the text of its key if it is up, and touches no other.
LEMMA UpdateFields ==
    ASSUME NEW c, CenterType(c), NEW key \in Keys, NEW text \in Texts
    PROVE  LET d == Update(c, key, text)
           IN  /\ CenterType(d) /\ (Up(d, key) <=> Up(c, key)) /\ AgreeBut(c, d, {key})
               /\ Up(c, key) => d.active[key].text = text
<1> DEFINE a == c.active[key]
           e == [a EXCEPT !.text = text]
           b == [c EXCEPT !.active = [c.active EXCEPT ![key] = e], !.ring = Replace(c.ring, e)]
<1>1. CASE a = None \/ a.text = text
  BY <1>1 DEF Update, Up, AgreeBut
<1>2. CASE a # None /\ a.text # text
  <2>1. a \in Onsets
    BY <1>2 DEF CenterType
  <2>2. e \in Onsets /\ e.text = text
    BY <2>1 DEF Onsets, OnsetsOf, Texts
  <2>3. CenterType(b) /\ b.active = [c.active EXCEPT ![key] = e]
    BY <2>2 DEF CenterType
  <2>4. Update(c, key, text) = Broadcast(b, e)
    BY <1>2 DEF Update
  <2> HIDE DEF b, e
  <2>5. CenterType(Broadcast(b, e)) /\ Broadcast(b, e).active = b.active
    BY <2>3, BroadcastKeeps
  <2> QED
    BY <1>2, <2>2, <2>3, <2>4, <2>5, NoneAssumption DEF Up, AgreeBut, CenterType
<1> QED
  BY <1>1, <1>2

\* The same of the page that follows.
LEMMA PublishKeeps ==
    ASSUME NEW c, CenterInv(c)
    PROVE  CenterInv(Publish(c)) /\ Publish(c).active = c.active /\ Publish(c).boot = c.boot
BY PublishFields, PublishFits DEF CenterInv, PageFits

LEMMA OnsetRaises ==
    ASSUME NEW c, CenterInv(c), NEW key \in Keys, NEW text \in Texts
    PROVE  LET d == Onset(c, key, text)
           IN  /\ CenterInv(d) /\ Up(d, key) /\ AgreeBut(c, d, {key})
               /\ ~Up(c, key) => d.active[key].text = text
               /\ Up(c, key) => d = c
<1>1. PageFits(Onset(c, key, text))
  BY OnsetFits DEF CenterInv, PageFits, TextOf
<1> QED
  BY <1>1, OnsetFields DEF CenterInv

LEMMA ClearEnds ==
    ASSUME NEW c, CenterInv(c), NEW key \in Keys
    PROVE  /\ CenterInv(Clear(c, key)) /\ ~Up(Clear(c, key), key) /\ AgreeBut(c, Clear(c, key), {key})
           /\ Resolve(c, key) = Clear(c, key)
<1>1. PageFits(Clear(c, key))
  BY ClearFits DEF CenterInv, PageFits
<1> QED
  BY <1>1, ClearFields DEF CenterInv

LEMMA UpdateRewrites ==
    ASSUME NEW c, CenterInv(c), NEW key \in Keys, NEW text \in Texts
    PROVE  LET d == Update(c, key, text)
           IN  /\ CenterInv(d) /\ (Up(d, key) <=> Up(c, key)) /\ AgreeBut(c, d, {key})
               /\ Up(c, key) => d.active[key].text = text
<1>1. PageFits(Update(c, key, text))
  BY UpdateFits DEF CenterInv, PageFits, TextOf
<1> QED
  BY <1>1, UpdateFields DEF CenterInv

\* A transition of a detector leaves its condition up exactly when it ends
\* active, if it was up exactly when it began active.
LEMMA TransitionFollows ==
    ASSUME NEW c, CenterInv(c), NEW key \in Keys, NEW before, NEW after,
           before.active \in BOOLEAN, after.active \in BOOLEAN, Up(c, key) <=> before.active
    PROVE  LET d == Transition(c, key, before, after)
           IN  CenterInv(d) /\ AgreeBut(c, d, {key}) /\ (Up(d, key) <=> after.active)
<1>1. None \in Texts
  BY DEF Texts
<1> QED
  BY <1>1, OnsetRaises, ClearEnds DEF Transition, AgreeBut

\* A center that is new holds no condition.
LEMMA NewCenterHolds ==
    ASSUME NEW boot \in Nat
    PROVE  LET c == Publish(NewCenter(boot)) IN CenterType(c) /\ \A k \in Keys : ~Up(c, k)
<1>1. CenterType(NewCenter(boot)) /\ \A k \in Keys : NewCenter(boot).active[k] = None
  BY DEF CenterType, NewCenter
<1> QED
  BY <1>1, PublishFields DEF Up

----------------------------------------------------------------------------
(* The run lock *)

\* An alert is up exactly while the file may not tell the state last asked for.
LockInv ==
    /\ DOMAIN lock = {"file", "want", "failing", "armed", "fired", "stopped"}
    /\ lock.failing \in BOOLEAN /\ lock.fired \in Nat
    /\ Raised("run-lock-unwritable") <=> lock.failing
    /\ (~lock.stopped /\ lock.file # lock.want) => (lock.armed \/ lock.fired > 0) /\ lock.failing
    /\ lock.stopped => ~lock.armed
    /\ "lock" \notin parts => ~lock.failing

\* A write that is tried, for whatever state is asked for.
LEMMA FlushKeeps ==
    ASSUME CenterInv(center), LockInv, "lock" \in parts, parts' = parts, NEW l,
           DOMAIN l = DOMAIN lock, l.failing = lock.failing, l.fired \in Nat, l.stopped = lock.stopped,
           lock.stopped => ~l.armed,
           Flush(l)
    PROVE  CenterInv(center') /\ LockInv' /\ AgreeBut(center, center', {"run-lock-unwritable"})
<1> DEFINE key == "run-lock-unwritable"
<1>1. key \in Keys /\ None \in Texts
  BY DEF Keys, Texts
<1>2. CASE l.stopped /\ lock' = l /\ center' = center
  BY <1>2 DEF LockInv, AgreeBut, Raised
<1>3. CASE ~l.stopped /\ lock' = Written(l) /\ center' = IF l.failing THEN Clear(center, key) ELSE center
  <2>1. /\ DOMAIN lock' = DOMAIN lock /\ lock'.failing = FALSE /\ lock'.armed = FALSE /\ lock'.fired = l.fired
        /\ lock'.file = l.want /\ lock'.want = l.want /\ lock'.stopped = l.stopped
    BY <1>3 DEF Written, LockInv
  <2>2. CenterInv(center') /\ ~Up(center', key) /\ AgreeBut(center, center', {key})
    BY <1>1, <1>3, ClearEnds DEF LockInv, Raised, Up, AgreeBut
  <2> QED
    BY <2>1, <2>2 DEF LockInv, Raised, Up
<1>4. ASSUME ~l.stopped, NEW file, lock' = Unwritten(l, file),
             center' = IF l.failing THEN center ELSE Onset(center, key, None)
      PROVE  CenterInv(center') /\ LockInv' /\ AgreeBut(center, center', {key})
  <2>1. /\ DOMAIN lock' = DOMAIN lock /\ lock'.failing = TRUE /\ lock'.armed = TRUE /\ lock'.fired = l.fired
        /\ lock'.stopped = l.stopped
    BY <1>4 DEF Unwritten, LockInv
  <2>2. CenterInv(center') /\ Up(center', key) /\ AgreeBut(center, center', {key})
    BY <1>1, <1>4, OnsetRaises DEF LockInv, Raised, Up, AgreeBut
  <2> QED
    BY <1>4, <2>1, <2>2 DEF LockInv, Raised, Up
<1> QED
  BY <1>2, <1>3, <1>4 DEF Flush

LEMMA LockStepInv ==
    ASSUME CenterInv(center), LockInv, RunLockStep, parts' = parts
    PROVE  CenterInv(center') /\ LockInv' /\ AgreeBut(center, center', {"run-lock-unwritable"})
<1>1. CASE SetRunLock
  <2>1. PICK st \in States : Flush([lock EXCEPT !.want = st])
    BY <1>1 DEF SetRunLock
  <2> DEFINE l == [lock EXCEPT !.want = st]
  <2>2. DOMAIN l = DOMAIN lock /\ l.failing = lock.failing /\ l.fired = lock.fired /\ l.stopped = lock.stopped /\ l.armed = lock.armed
    BY DEF LockInv
  <2>3. Flush(l) /\ "lock" \in parts
    BY <2>1 DEF RunLockStep
  <2> HIDE DEF l
  <2> QED
    BY <2>2, <2>3, FlushKeeps DEF LockInv
<1>2. CASE RetryFires
  <2>1. /\ DOMAIN lock' = DOMAIN lock /\ lock'.failing = lock.failing /\ lock'.armed = FALSE /\ lock'.fired = lock.fired + 1
        /\ lock'.file = lock.file /\ lock'.want = lock.want /\ lock'.stopped = lock.stopped /\ center' = center
    BY <1>2 DEF RetryFires, LockInv
  <2> QED
    BY <2>1 DEF LockInv, Raised, AgreeBut
<1>3. CASE RetryFlushes
  <2> DEFINE l == [lock EXCEPT !.fired = lock.fired - 1]
  <2>1. /\ DOMAIN l = DOMAIN lock /\ l.failing = lock.failing /\ l.fired \in Nat /\ l.stopped = lock.stopped /\ l.armed = lock.armed
    BY <1>3 DEF RetryFlushes, LockInv
  <2>2. Flush(l) /\ "lock" \in parts
    BY <1>3 DEF RetryFlushes, RunLockStep
  <2> HIDE DEF l
  <2> QED
    BY <2>1, <2>2, FlushKeeps DEF LockInv
<1>4. CASE StopRunLock
  <2>1. /\ DOMAIN lock' = DOMAIN lock /\ lock'.failing = lock.failing /\ lock'.armed = FALSE /\ lock'.fired = lock.fired
        /\ lock'.stopped = TRUE /\ center' = center
    BY <1>4 DEF StopRunLock, LockInv
  <2> QED
    BY <2>1 DEF LockInv, Raised, AgreeBut
<1> QED
  BY <1>1, <1>2, <1>3, <1>4 DEF RunLockStep

----------------------------------------------------------------------------
(* The client events *)

FlapInv ==
    /\ flap \in Flaps \cup {None}
    /\ Raised("stream:flap") <=> flap # None /\ flap.active
    /\ "clients" \notin parts => flap = None

\* A detector that takes in an event, is swept, or grows older stays one.
LEMMA FlapEventType ==
    ASSUME NEW f \in Flaps, NEW max, NEW quiet
    PROVE  FlapEvent(f, max, quiet) \in Flaps
<1>1. [active |-> FALSE, events |-> <<0>>, last |-> 0] \in Flaps
  BY DEF Flaps
<1>2. [f EXCEPT !.last = 0] \in Flaps
  BY DEF Flaps
<1>3. Append(f.events, 0) \in Seq(Nat)
  BY DEF Flaps
<1>4. [active |-> Len(f.events) + 1 > max, events |-> Append(f.events, 0), last |-> 0] \in Flaps
  BY <1>3 DEF Flaps
<1> QED
  BY <1>1, <1>2, <1>4 DEF FlapEvent

LEMMA NoFlapType == NoFlap \in Flaps /\ NoFlap.active = FALSE /\ NoFlap # None
<1>1. NoFlap \in Flaps
  BY DEF NoFlap, Flaps
<1> QED
  BY <1>1, NoneAssumption DEF NoFlap

LEMMA FlapSweepType ==
    ASSUME NEW f \in Flaps, NEW quiet
    PROVE  FlapSweep(f, quiet) \in Flaps
BY NoFlapType DEF FlapSweep

\* An age goes up to its cap.
LEMMA OlderType ==
    ASSUME NEW age \in Nat \cup {None}, NEW cap \in Nat
    PROVE  Older(age, cap) \in Nat \cup {None}
<1>1. CASE age = None
  BY <1>1 DEF Older
<1>2. CASE age # None
  BY <1>2, MinOfTwo DEF Older
<1> QED
  BY <1>1, <1>2

\* What is left of a list from a place on.
LEMMA RestOfList ==
    ASSUME NEW S, NEW s \in Seq(S), NEW k \in 0 .. Len(s)
    PROVE  SubSeq(s, k + 1, Len(s)) \in Seq(S)
OBVIOUS

LEMMA FlapOlderType ==
    ASSUME NEW f \in Flaps, NEW window, NEW quiet \in Nat
    PROVE  FlapOlder(f, window, quiet) \in Flaps /\ FlapOlder(f, window, quiet).active = f.active
<1> DEFINE older == [i \in DOMAIN f.events |-> f.events[i] + 1]
           out == Cardinality({i \in DOMAIN older : older[i] > window})
           rest == SubSeq(older, out + 1, Len(older))
           last == Older(f.last, quiet)
<1>1. f.events \in Seq(Nat) /\ DOMAIN f.events = 1 .. Len(f.events) /\ Len(f.events) \in Nat
  BY DEF Flaps
<1>2. \A i \in 1 .. Len(f.events) : f.events[i] \in Nat
  BY <1>1
<1>3. older \in [1 .. Len(f.events) -> Nat]
  BY <1>1, <1>2
<1>4. older \in Seq(Nat) /\ Len(older) = Len(f.events)
  BY <1>1, <1>3
<1>5. out \in 0 .. Len(older)
  <2>1. IsFiniteSet(1 .. Len(f.events)) /\ Cardinality(1 .. Len(f.events)) = Len(f.events)
    <3>1. Len(f.events) \in Int /\ 1 \in Int /\ (IF 1 > Len(f.events) THEN 0 ELSE Len(f.events) - 1 + 1) = Len(f.events)
      BY <1>1
    <3> DEFINE n == Len(f.events)
    <3> HIDE DEF n
    <3> QED
      BY <3>1, FS_Interval DEF n
  <2> DEFINE aged == {i \in DOMAIN older : older[i] > window}
  <2>2. aged \subseteq 1 .. Len(f.events)
    <3>1. DOMAIN older = 1 .. Len(f.events)
      BY <1>1
    <3> QED
      BY <3>1
  <2> HIDE DEF aged
  <2>3. IsFiniteSet(aged) /\ Cardinality(aged) <= Len(f.events)
    BY <2>1, <2>2, FS_Subset
  <2>4. Cardinality(aged) \in Nat
    BY <2>3, FS_CardinalityType
  <2>5. out = Cardinality(aged)
    BY DEF aged
  <2> QED
    BY <1>4, <2>3, <2>4, <2>5
<1> HIDE DEF older, out
<1>6. rest \in Seq(Nat)
  BY <1>4, <1>5, RestOfList
<1>7. last \in Nat \cup {None}
  BY OlderType DEF Flaps
<1>8. FlapOlder(f, window, quiet) = [f EXCEPT !.events = rest, !.last = last]
  BY DEF FlapOlder, older, out
<1> HIDE DEF rest, last
<1> QED
  BY <1>6, <1>7, <1>8 DEF Flaps

LEMMA FlapStepInv ==
    ASSUME CenterInv(center), FlapInv, StreamEventsStep, parts' = parts
    PROVE  CenterInv(center') /\ FlapInv' /\ AgreeBut(center, center', {"stream:flap"})
<1> DEFINE key == "stream:flap"
<1>1. key \in Keys /\ None \in Texts /\ "clients" \in parts
  BY DEF Keys, Texts, StreamEventsStep
<1>2. PathFlap \in Flaps /\ (Up(center, key) <=> PathFlap.active)
  BY NoFlapType DEF PathFlap, FlapInv, Raised, Up
<1>3. \A c, before, after : FlapTransition(c, before, after) = Transition(c, key, before, after)
  BY DEF FlapTransition, Transition
<1>4. CASE ClientConnected
  <2> DEFINE f == FlapEvent(PathFlap, FlapMax, FlapQuiet)
             c == FlapTransition(center, PathFlap, f)
  <2>1. flap' = f /\ center' = IF f.active THEN c ELSE Publish(c)
    BY <1>4 DEF ClientConnected
  <2>2. f \in Flaps
    BY <1>2, FlapEventType
  <2>3. f.active \in BOOLEAN /\ f # None /\ PathFlap.active \in BOOLEAN
    BY <1>2, <2>2, NoneAssumption DEF Flaps
  <2> HIDE DEF f
  <2>4. c = Transition(center, key, PathFlap, f)
    BY <1>3
  <2>5. CenterInv(c) /\ AgreeBut(center, c, {key}) /\ (Up(c, key) <=> f.active)
    BY <1>1, <1>2, <2>3, <2>4, TransitionFollows
  <2> HIDE DEF c
  <2>6. CenterInv(center') /\ center'.active = c.active
    BY <2>1, <2>5, PublishKeeps
  <2> QED
    BY <1>1, <2>1, <2>2, <2>3, <2>5, <2>6 DEF FlapInv, Raised, Up, AgreeBut
<1>5. CASE ClientDisconnected
  <2>1. PICK evicted \in BOOLEAN : /\ flap' = IF evicted THEN flap ELSE PathFlap
                                   /\ center' = IF evicted \/ ~PathFlap.active THEN Publish(center) ELSE center
    BY <1>5 DEF ClientDisconnected
  <2>2. CenterInv(center') /\ center'.active = center.active
    BY <2>1, PublishKeeps
  <2> QED
    BY <1>1, <1>2, <2>1, <2>2, NoneAssumption DEF FlapInv, Raised, Up, AgreeBut
<1>6. CASE Sweep
  <2> DEFINE f == FlapSweep(flap, FlapQuiet)
  <2>1. flap # None /\ center' = FlapTransition(center, flap, f) /\ flap' = IF FlapIdle(f) THEN None ELSE f
    BY <1>6 DEF Sweep
  <2>2. flap \in Flaps /\ f \in Flaps
    BY <2>1, FlapSweepType DEF FlapInv
  <2>3. f.active \in BOOLEAN /\ f # None /\ flap.active \in BOOLEAN
    BY <2>2, NoneAssumption DEF Flaps
  <2>4. CenterInv(center') /\ AgreeBut(center, center', {key}) /\ (Up(center', key) <=> f.active)
    BY <1>1, <1>3, <2>1, <2>3, TransitionFollows DEF FlapInv, Raised, Up
  <2> HIDE DEF f
  <2> QED
    BY <1>1, <2>1, <2>2, <2>3, <2>4 DEF FlapInv, Raised, Up, FlapIdle
<1>7. CASE ClockTicks
  <2>1. center' = center /\ flap' = IF flap = None THEN None ELSE FlapOlder(flap, FlapWindow, FlapQuiet)
    BY <1>7 DEF ClockTicks
  <2>2. flap # None => flap' \in Flaps /\ flap'.active = flap.active
    BY <2>1, FlapOlderType, FlapBounds DEF FlapInv
  <2> QED
    BY <1>1, <2>1, <2>2, NoneAssumption DEF FlapInv, Raised, AgreeBut
<1> QED
  BY <1>4, <1>5, <1>6, <1>7 DEF StreamEventsStep

----------------------------------------------------------------------------
(* The release the manager offers *)

AvailableInv ==
    /\ Raised("update:available") <=> mgr.available
    /\ Raised("update:available") => center.active["update:available"].text = mgr.latest.rel.version
    /\ "updates" \notin parts => ~mgr.available

LEMMA UpdateStepInv ==
    ASSUME CenterInv(center), ManagerType, \A a \in Askers : FetchInv(checks[a].fetch), AvailableInv,
           UpdateStep, parts' = parts
    PROVE  CenterInv(center') /\ AvailableInv' /\ AgreeBut(center, center', {"update:available"})
<1> DEFINE key == "update:available"
<1>1. key \in Keys /\ "updates" \in parts
  BY DEF Keys, UpdateStep
<1>2. CASE center' = center /\ mgr'.latest = mgr.latest /\ mgr'.available = mgr.available
  BY <1>2 DEF AvailableInv, Raised, AgreeBut
<1>3. CASE center' = Resolve(center, key) /\ ~mgr'.available
  <2>1. CenterInv(center') /\ ~Up(center', key) /\ AgreeBut(center, center', {key})
    BY <1>1, <1>3, ClearEnds
  <2> QED
    BY <1>1, <1>3, <2>1 DEF AvailableInv, Raised, Up
<1>4. CASE UNCHANGED <<center, mgr>>
  BY <1>2, <1>4
<1>5. CASE ManagerSwaps \/ ManagerCounts \/ ManagerWakes
  BY <1>2, <1>5 DEF ManagerSwaps, ManagerCounts, ManagerWakes, ManagerType
<1>6. CASE LoopSeesOff \/ LoopArms \/ LoopWakes
  BY <1>2, <1>6 DEF LoopSeesOff, LoopArms, LoopWakes, ManagerType
<1>7. CASE TimerIsDue \/ LoopTicks \/ LoopRearms \/ LoopReturns
  BY <1>2, <1>7 DEF TimerIsDue, LoopTicks, LoopRearms, LoopReturns, ManagerType
<1>8. CASE ManagerForgets
  BY <1>3, <1>8 DEF ManagerForgets, ManagerType
<1>9. ASSUME NEW a \in Askers, CheckNotice(a)
      PROVE  CenterInv(center') /\ AvailableInv' /\ AgreeBut(center, center', {key})
  <2> DEFINE notice == checks[a].fetch.kind
  <2>1. /\ mgr' = [mgr EXCEPT !.checked = TRUE, !.failures = 0, !.notice = notice,
                             !.latest = IF notice = "noRelease" THEN None ELSE mgr.latest,
                             !.available = notice # "noRelease" /\ mgr.available]
        /\ center' = IF notice = "noRelease" THEN Resolve(center, key) ELSE center
    BY <1>9 DEF CheckNotice
  <2> HIDE DEF notice
  <2>2. CASE notice = "noRelease"
    <3>1. ~mgr'.available /\ center' = Resolve(center, key)
      BY <2>1, <2>2 DEF ManagerType
    <3> QED
      BY <1>3, <3>1
  <2>3. CASE notice # "noRelease"
    <3>1. mgr'.latest = mgr.latest /\ (mgr'.available <=> mgr.available) /\ center' = center
      BY <2>1, <2>3 DEF ManagerType
    <3> QED
      BY <1>1, <3>1 DEF AvailableInv, Raised, AgreeBut
  <2> QED
    BY <2>2, <2>3
<1>10. ASSUME NEW a \in Askers, CheckFails(a)
       PROVE  center' = center /\ mgr'.latest = mgr.latest /\ mgr'.available = mgr.available
  <2>1. PICK failures : mgr' = [mgr EXCEPT !.checked = TRUE, !.failures = failures, !.notice = None]
    BY <1>10 DEF CheckFails
  <2> QED
    BY <1>10, <2>1 DEF ManagerType, CheckFails
<1>11. ASSUME NEW a \in Askers, CheckFinds(a)
       PROVE  CenterInv(center') /\ AvailableInv' /\ AgreeBut(center, center', {key})
  <2> DEFINE rel == checks[a].fetch.rel
             v == rel.version
             l == [rel |-> rel, gen |-> checks[a].gen]
  <2>1. /\ mgr' = [mgr EXCEPT !.checked = TRUE, !.failures = 0, !.notice = None, !.available = Newer(v), !.latest = l]
        /\ center' = IF ~Newer(v) THEN Resolve(center, key)
                     ELSE IF center.active[key] = None THEN Onset(center, key, v)
                     ELSE Update(center, key, v)
    BY <1>11 DEF CheckFinds
  <2>2. v \in Texts
    BY <1>11 DEF CheckFinds, Answers, FetchInv, Genuine, Texts
  <2>3. l.rel.version = v
    OBVIOUS
  <2> HIDE DEF rel, l, v
  <2>4. mgr'.latest = l /\ (mgr'.available <=> Newer(v))
    BY <2>1 DEF ManagerType
  <2>5. CASE ~Newer(v)
    BY <1>3, <2>1, <2>4, <2>5
  <2>6. CASE Newer(v)
    <3>1. CenterInv(center') /\ AgreeBut(center, center', {key}) /\ Up(center', key) /\ center'.active[key].text = v
      <4>1. CASE center.active[key] = None
        BY <1>1, <2>1, <2>2, <2>6, <4>1, OnsetRaises DEF Up
      <4>2. CASE center.active[key] # None
        BY <1>1, <2>1, <2>2, <2>6, <4>2, UpdateRewrites DEF Up
      <4> QED
        BY <4>1, <4>2
    <3> QED
      BY <1>1, <2>3, <2>4, <2>6, <3>1 DEF AvailableInv, Raised, Up
  <2> QED
    BY <2>5, <2>6
<1>12. CASE CheckAnswered \/ CheckNow
  BY <1>4, <1>12 DEF CheckAnswered, CheckNow
<1>13. ASSUME NEW a \in Askers, CheckBegins(a) \/ CheckFetches(a) \/ CheckDropped(a)
       PROVE  UNCHANGED <<center, mgr>>
  BY <1>13 DEF CheckBegins, CheckFetches, CheckDropped
<1>14. CASE LoopTicks \/ LoopRearms
  BY <1>7, <1>14
<1> QED
  BY <1>2, <1>4, <1>5, <1>6, <1>7, <1>8, <1>9, <1>10, <1>11, <1>12, <1>13 DEF UpdateStep

----------------------------------------------------------------------------
(* The signal monitor *)

Audio == {"audio:zero", "audio:quiet", "audio:clip"}

\* The conditions of the center that a state of the device holds.
Sounds3(c, st) ==
    /\ Up(c, "audio:zero") <=> st # None /\ st.zero.active
    /\ Up(c, "audio:quiet") <=> st # None /\ st.quiet.active
    /\ Up(c, "audio:clip") <=> st # None /\ st.clipActive

\* What settings leave a state nothing to hold of.
Silent(set, st) ==
    st # None => /\ ~set.on => ~st.zero.active /\ ~st.quiet.active /\ ~st.clipActive
                 /\ ~set.quiet => ~st.quiet.active

\* A window's work in progress.
WindowInv(s) ==
    /\ DOMAIN s = {"c", "applied", "st"}
    /\ s.st \in DeviceStates \cup {None}
    /\ CenterInv(s.c) /\ AgreeBut(center, s.c, Audio) /\ Sounds3(s.c, s.st)

\* A hysteresis stays one; only an observation changes whether it is active.
LEMMA NoHysteresisType == NoHysteresis \in Hystereses /\ ~NoHysteresis.active
BY DEF NoHysteresis, Hystereses

LEMMA ObserveType ==
    ASSUME NEW h \in Hystereses, NEW over, NEW enter, NEW clear
    PROVE  Observe(h, over, enter, clear) \in Hystereses
<1> DEFINE run == IF h.run = None THEN 0 ELSE h.run
           lasts == IF h.active THEN clear ELSE enter
<1>1. run \in Nat
  BY DEF Hystereses
<1>2. Observe(h, over, enter, clear) = IF over = h.active THEN [h EXCEPT !.run = None]
        ELSE IF run >= lasts THEN [active |-> ~h.active, run |-> None]
        ELSE [h EXCEPT !.run = run]
  BY DEF Observe
<1> HIDE DEF run, lasts
<1> QED
  BY <1>1, <1>2 DEF Hystereses

LEMMA OlderRunType ==
    ASSUME NEW h \in Hystereses, NEW cap \in Nat
    PROVE  [h EXCEPT !.run = Older(@, cap)] \in Hystereses /\ [h EXCEPT !.run = Older(@, cap)].active = h.active
<1>1. Older(h.run, cap) \in Nat \cup {None}
  BY OlderType DEF Hystereses
<1> QED
  BY <1>1 DEF Hystereses

LEMMA ResetRunType ==
    ASSUME NEW h \in Hystereses
    PROVE  ResetRun(h) \in Hystereses /\ ResetRun(h).active = h.active
BY DEF Hystereses, ResetRun

LEMMA NewDeviceStateType ==
    NewDeviceState \in DeviceStates /\ ~NewDeviceState.zero.active /\ ~NewDeviceState.quiet.active /\ ~NewDeviceState.clipActive
<1>1. {} \in SUBSET [age : Nat, clipped : BOOLEAN]
  OBVIOUS
<1> QED
  BY <1>1, NoHysteresisType DEF NewDeviceState, DeviceStates

\* A window later the state holds what it held.
LEMMA SignalOlderType ==
    ASSUME NEW st \in DeviceStates
    PROVE  LET o == SignalOlder(st)
           IN  /\ o \in DeviceStates /\ o.zero.active = st.zero.active /\ o.quiet.active = st.quiet.active
               /\ o.clipActive = st.clipActive
<1> DEFINE zero == [st.zero EXCEPT !.run = Older(@, ZeroSeconds + ZeroClearAfter)]
           quiet == [st.quiet EXCEPT !.run = Older(@, QuietSeconds + QuietClearAfter)]
           clip == {[x EXCEPT !.age = @ + 1] : x \in st.clip}
           lastClip == Older(st.lastClip, ClipClearAfter)
<1>1. SignalOlder(st) = [st EXCEPT !.zero = zero, !.quiet = quiet, !.clip = clip, !.lastClip = lastClip]
  BY DEF SignalOlder
<1>2. ZeroSeconds + ZeroClearAfter \in Nat /\ QuietSeconds + QuietClearAfter \in Nat /\ ClipClearAfter \in Nat
  BY MonitorBounds
<1>3. zero \in Hystereses /\ zero.active = st.zero.active /\ quiet \in Hystereses /\ quiet.active = st.quiet.active
  BY <1>2, OlderRunType DEF DeviceStates
<1>4. lastClip \in Nat \cup {None}
  BY <1>2, OlderType DEF DeviceStates
<1>5. clip \in SUBSET [age : Nat, clipped : BOOLEAN]
  <2>1. \A x \in st.clip : x \in [age : Nat, clipped : BOOLEAN]
    BY DEF DeviceStates
  <2>2. \A x \in [age : Nat, clipped : BOOLEAN] : [x EXCEPT !.age = @ + 1] \in [age : Nat, clipped : BOOLEAN]
    OBVIOUS
  <2> QED
    BY <2>1, <2>2
<1> HIDE DEF zero, quiet, clip, lastClip
<1> QED
  BY <1>1, <1>3, <1>4, <1>5 DEF DeviceStates

LEMMA AudioKeys ==
    /\ "audio:zero" \in Keys /\ "audio:quiet" \in Keys /\ "audio:clip" \in Keys /\ Audio \subseteq Keys
    /\ None \in Texts
BY DEF Audio, Keys, Texts

\* A condition is ended if it is held, which leaves the others as they were.
LEMMA EndIfHeld ==
    ASSUME NEW c, CenterInv(c), NEW key \in Keys, NEW held, Up(c, key) <=> held
    PROVE  LET d == IF held THEN Resolve(c, key) ELSE c
           IN  CenterInv(d) /\ AgreeBut(c, d, {key}) /\ ~Up(d, key)
BY ClearEnds DEF AgreeBut

\* Whatever the state holds is ended.
LEMMA ResolveSignalEnds ==
    ASSUME NEW c, CenterInv(c), NEW st \in DeviceStates, Sounds3(c, st)
    PROVE  LET d == ResolveSignal(c, st)
           IN  CenterInv(d) /\ AgreeBut(c, d, Audio) /\ \A k \in Audio : ~Up(d, k)
<1> DEFINE c1 == IF st.zero.active THEN Resolve(c, "audio:zero") ELSE c
           c2 == IF st.quiet.active THEN Resolve(c1, "audio:quiet") ELSE c1
           d == IF st.clipActive THEN Resolve(c2, "audio:clip") ELSE c2
<1>1. ResolveSignal(c, st) = d
  BY DEF ResolveSignal
<1>2. CenterInv(c1) /\ AgreeBut(c, c1, {"audio:zero"}) /\ ~Up(c1, "audio:zero")
  BY AudioKeys, EndIfHeld, NoneAssumption DEF Sounds3
<1>3. (Up(c1, "audio:quiet") <=> Up(c, "audio:quiet")) /\ (Up(c1, "audio:clip") <=> Up(c, "audio:clip"))
  BY <1>2, AudioKeys DEF AgreeBut, Up, Audio
<1> HIDE DEF c1
<1>4. CenterInv(c2) /\ AgreeBut(c1, c2, {"audio:quiet"}) /\ ~Up(c2, "audio:quiet")
  BY <1>2, <1>3, AudioKeys, EndIfHeld, NoneAssumption DEF Sounds3
<1>5. ~Up(c2, "audio:zero") /\ (Up(c2, "audio:clip") <=> Up(c, "audio:clip"))
  BY <1>2, <1>3, <1>4, AudioKeys DEF AgreeBut, Up, Audio
<1> HIDE DEF c2
<1>6. CenterInv(d) /\ AgreeBut(c2, d, {"audio:clip"}) /\ ~Up(d, "audio:clip")
  BY <1>3, <1>4, <1>5, AudioKeys, EndIfHeld, NoneAssumption DEF Sounds3
<1>7. ~Up(d, "audio:zero") /\ ~Up(d, "audio:quiet")
  BY <1>4, <1>5, <1>6, AudioKeys DEF AgreeBut, Up, Audio
<1> HIDE DEF d
<1> QED
  BY <1>1, <1>2, <1>4, <1>6, <1>7 DEF AgreeBut, Audio

\* After a change of the settings was looked at, nothing is held against them.
LEMMA ReconcileSettles ==
    ASSUME NEW s, WindowInv(s), NEW set \in Settings,
           s.applied = None => s.st = None, s.applied # None => Silent(s.applied, s.st)
    PROVE  WindowInv(SignalReconcile(s, set)) /\ Silent(set, SignalReconcile(s, set).st)
<1> DEFINE r == SignalReconcile(s, set)
<1>1. CASE s.applied = None \/ s.st = None
  BY <1>1 DEF SignalReconcile, Silent
<1>2. CASE s.applied # None /\ s.st # None /\ s.applied.on /\ ~set.on
  <2> DEFINE st == ResetClip([s.st EXCEPT !.zero = NoHysteresis, !.quiet = NoHysteresis])
             d == ResolveSignal(s.c, s.st)
  <2>1. r = [s EXCEPT !.c = d, !.st = st]
    BY <1>2 DEF SignalReconcile
  <2>2. s.st \in DeviceStates
    BY <1>2 DEF WindowInv
  <2>3. st = [s.st EXCEPT !.zero = NoHysteresis, !.quiet = NoHysteresis, !.clip = {}, !.clipActive = FALSE, !.lastClip = None]
    BY DEF ResetClip
  <2>4. st \in DeviceStates /\ ~st.zero.active /\ ~st.quiet.active /\ ~st.clipActive
    BY <2>2, <2>3, NoHysteresisType DEF DeviceStates
  <2>5. CenterInv(d) /\ AgreeBut(s.c, d, Audio) /\ \A k \in Audio : ~Up(d, k)
    BY <2>2, ResolveSignalEnds DEF WindowInv
  <2> HIDE DEF st, d, r
  <2>6. DOMAIN r = DOMAIN s /\ r.c = d /\ r.st = st
    BY <2>1 DEF WindowInv
  <2> QED
    BY <2>4, <2>5, <2>6 DEF WindowInv, Sounds3, Silent, AgreeBut, Audio, r
<1>3. CASE s.applied # None /\ s.st # None /\ ~(s.applied.on /\ ~set.on) /\ set.on /\ s.applied.quiet /\ ~set.quiet
  <2> DEFINE st == [s.st EXCEPT !.quiet = NoHysteresis]
             d == IF s.st.quiet.active THEN Resolve(s.c, "audio:quiet") ELSE s.c
  <2>1. r = [s EXCEPT !.c = d, !.st = st]
    BY <1>3 DEF SignalReconcile
  <2>2. s.st \in DeviceStates
    BY <1>3 DEF WindowInv
  <2>4. /\ st \in DeviceStates /\ st.zero.active = s.st.zero.active /\ ~st.quiet.active /\ st.clipActive = s.st.clipActive
        /\ st # None
    BY <2>2, NoHysteresisType, NoneAssumption DEF DeviceStates
  <2>5. CenterInv(d) /\ AgreeBut(s.c, d, {"audio:quiet"}) /\ ~Up(d, "audio:quiet")
    BY <2>2, AudioKeys, ClearEnds DEF WindowInv, Audio, AgreeBut, Sounds3
  <2> HIDE DEF st, d, r
  <2>6. DOMAIN r = DOMAIN s /\ r.c = d /\ r.st = st
    BY <2>1 DEF WindowInv
  <2>7. (Up(d, "audio:zero") <=> Up(s.c, "audio:zero")) /\ (Up(d, "audio:clip") <=> Up(s.c, "audio:clip"))
    BY <2>5, AudioKeys DEF AgreeBut, Up, Audio
  <2>8. Sounds3(d, st) /\ AgreeBut(center, d, Audio) /\ Silent(set, st)
    BY <1>3, <2>4, <2>5, <2>7 DEF WindowInv, Sounds3, Silent, AgreeBut, Audio
  <2> QED
    BY <2>4, <2>5, <2>6, <2>8 DEF WindowInv, r
<1>4. CASE s.applied # None /\ ~(s.applied.on /\ ~set.on) /\ ~(set.on /\ s.applied.quiet /\ ~set.quiet)
  <2>1. r = s
    BY <1>4 DEF SignalReconcile
  <2> HIDE DEF r
  <2>2. Silent(set, s.st)
    BY <1>4 DEF Silent
  <2> QED
    BY <2>1, <2>2 DEF r
<1> QED
  BY <1>1, <1>2, <1>3, <1>4

\* A device that is gone for good takes its conditions with it.
LEMMA AgeOutSettles ==
    ASSUME NEW s, WindowInv(s), NEW set, Silent(set, s.st)
    PROVE  WindowInv(AgeOutAbsent(s, set)) /\ Silent(set, AgeOutAbsent(s, set).st)
<1> DEFINE r == AgeOutAbsent(s, set)
<1>1. CASE s.st = None
  BY <1>1 DEF AgeOutAbsent
<1>2. CASE s.st # None /\ r = [s EXCEPT !.st = [s.st EXCEPT !.missed = @ + 1]]
  <2> DEFINE st == [s.st EXCEPT !.missed = @ + 1]
  <2>1. s.st \in DeviceStates
    BY <1>2 DEF WindowInv
  <2>2. /\ st \in DeviceStates /\ st.zero = s.st.zero /\ st.quiet = s.st.quiet /\ st.clipActive = s.st.clipActive /\ st # None
    BY <2>1, NoneAssumption DEF DeviceStates
  <2>3. DOMAIN r = DOMAIN s /\ r.c = s.c /\ r.st = st
    BY <1>2 DEF WindowInv
  <2> HIDE DEF st, r
  <2> QED
    BY <1>2, <2>2, <2>3 DEF WindowInv, Sounds3, Silent, r
<1>3. CASE s.st # None /\ r = [s EXCEPT !.c = IF set.on THEN ResolveSignal(@, s.st) ELSE @, !.st = None]
  <2>1. s.st \in DeviceStates
    BY <1>3 DEF WindowInv
  <2>2. DOMAIN r = DOMAIN s /\ r.c = (IF set.on THEN ResolveSignal(s.c, s.st) ELSE s.c) /\ r.st = None
    BY <1>3 DEF WindowInv
  <2> HIDE DEF r
  <2>3. CenterInv(r.c) /\ AgreeBut(s.c, r.c, Audio) /\ \A k \in Audio : ~Up(r.c, k)
    <3>1. CASE set.on
      BY <2>1, <2>2, <3>1, ResolveSignalEnds DEF WindowInv
    <3>2. CASE ~set.on
      BY <1>3, <2>2, <3>2 DEF WindowInv, AgreeBut, Audio, Sounds3, Silent
    <3> QED
      BY <3>1, <3>2
  <2> QED
    BY <2>2, <2>3 DEF WindowInv, Sounds3, Silent, AgreeBut, Audio, r
<1>4. s.st # None => r = [s EXCEPT !.st = [s.st EXCEPT !.missed = @ + 1]]
                     \/ r = [s EXCEPT !.c = IF set.on THEN ResolveSignal(@, s.st) ELSE @, !.st = None]
  BY DEF AgeOutAbsent
<1> QED
  BY <1>1, <1>2, <1>3, <1>4

\* A window judged for clipping.
LEMMA EvaluateClipKeeps ==
    ASSUME NEW s, WindowInv(s), s.st # None, NEW clipped \in BOOLEAN
    PROVE  LET r == EvaluateClip(s, clipped)
           IN  /\ WindowInv(r) /\ r.st # None /\ r.st.quiet = s.st.quiet
<1> DEFINE r == EvaluateClip(s, clipped)
           clip == {x \in s.st.clip : x.age <= ClipWindow} \cup {[age |-> 0, clipped |-> clipped]}
           st == [s.st EXCEPT !.clip = clip, !.lastClip = IF clipped THEN 0 ELSE @]
           key == "audio:clip"
<1>1. s.st \in DeviceStates
  BY DEF WindowInv
<1>2. clip \in SUBSET [age : Nat, clipped : BOOLEAN]
  BY <1>1 DEF DeviceStates
<1> HIDE DEF clip
<1>3. st \in DeviceStates /\ st.zero = s.st.zero /\ st.quiet = s.st.quiet /\ st.clipActive = s.st.clipActive
  BY <1>1, <1>2 DEF DeviceStates
<1>4. \/ r = [s EXCEPT !.c = Clear(@, key), !.st = ResetClip(st)]
      \/ r = [s EXCEPT !.st = st]
      \/ r = [s EXCEPT !.c = Onset(@, key, None), !.st = [st EXCEPT !.clipActive = TRUE]]
  BY DEF EvaluateClip, clip
<1> HIDE DEF st, r
<1>5. CASE r = [s EXCEPT !.c = Clear(@, key), !.st = ResetClip(st)]
  <2> DEFINE t == ResetClip(st)
             d == Clear(s.c, key)
  <2>1. /\ t \in DeviceStates /\ t.zero = s.st.zero /\ t.quiet = s.st.quiet /\ ~t.clipActive
    BY <1>3 DEF DeviceStates, ResetClip
  <2>2. CenterInv(d) /\ AgreeBut(s.c, d, {key}) /\ ~Up(d, key)
    BY AudioKeys, ClearEnds DEF WindowInv
  <2>3. DOMAIN r = DOMAIN s /\ r.c = d /\ r.st = t
    BY <1>5 DEF WindowInv
  <2> HIDE DEF t, d
  <2> QED
    BY <2>1, <2>2, <2>3, AudioKeys, NoneAssumption DEF WindowInv, Sounds3, AgreeBut, Audio, Up, r
<1>6. CASE r = [s EXCEPT !.st = st]
  <2>1. DOMAIN r = DOMAIN s /\ r.c = s.c /\ r.st = st
    BY <1>6 DEF WindowInv
  <2> QED
    BY <1>3, <2>1, NoneAssumption DEF WindowInv, Sounds3, r
<1>7. CASE r = [s EXCEPT !.c = Onset(@, key, None), !.st = [st EXCEPT !.clipActive = TRUE]]
  <2> DEFINE t == [st EXCEPT !.clipActive = TRUE]
             d == Onset(s.c, key, None)
  <2>1. /\ t \in DeviceStates /\ t.zero = s.st.zero /\ t.quiet = s.st.quiet /\ t.clipActive
    BY <1>3 DEF DeviceStates
  <2>2. CenterInv(d) /\ AgreeBut(s.c, d, {key}) /\ Up(d, key)
    BY AudioKeys, OnsetRaises DEF WindowInv
  <2>3. DOMAIN r = DOMAIN s /\ r.c = d /\ r.st = t
    BY <1>7 DEF WindowInv
  <2> HIDE DEF t, d
  <2> QED
    BY <2>1, <2>2, <2>3, AudioKeys, NoneAssumption DEF WindowInv, Sounds3, AgreeBut, Audio, Up, r
<1> QED
  BY <1>4, <1>5, <1>6, <1>7 DEF r

\* A window's levels, with the monitors on.
LEMMA EvaluateKeeps ==
    ASSUME NEW s, WindowInv(s), s.st # None, NEW reading, NEW set \in Settings, set.on, Silent(set, s.st)
    PROVE  WindowInv(Evaluate(s, reading, set)) /\ Silent(set, Evaluate(s, reading, set).st)
<1> DEFINE isZero == reading = "zero"
           isQuiet == reading \in {"zero", "quiet"}
           zero == Observe(s.st.zero, isZero, ZeroSeconds, ZeroClearAfter)
           quiet == IF set.quiet THEN Observe(s.st.quiet, isQuiet, QuietSeconds, QuietClearAfter) ELSE s.st.quiet
           c1 == Transition(s.c, "audio:zero", s.st.zero, zero)
           c2 == Transition(c1, "audio:quiet", s.st.quiet, quiet)
           t == [s EXCEPT !.c = c2, !.st.zero = zero, !.st.quiet = quiet]
           isClip == reading = "clip"
<1>1. Evaluate(s, reading, set) = EvaluateClip(t, isClip)
  BY DEF Evaluate
<1>2. isZero \in BOOLEAN /\ isQuiet \in BOOLEAN /\ isClip \in BOOLEAN
  OBVIOUS
<1>3. s.st \in DeviceStates /\ s.st.zero \in Hystereses /\ s.st.quiet \in Hystereses
  BY DEF WindowInv, DeviceStates
<1>4. {ZeroSeconds, ZeroClearAfter, QuietSeconds, QuietClearAfter} \subseteq Nat
  BY MonitorBounds
<1> HIDE DEF isZero, isQuiet, isClip
<1>5. zero \in Hystereses /\ quiet \in Hystereses /\ (~set.quiet => quiet = s.st.quiet)
  BY <1>2, <1>3, <1>4, ObserveType
<1> HIDE DEF zero, quiet
<1>6. zero.active \in BOOLEAN /\ quiet.active \in BOOLEAN /\ s.st.zero.active \in BOOLEAN /\ s.st.quiet.active \in BOOLEAN
  BY <1>3, <1>5 DEF Hystereses
<1>7. CenterInv(c1) /\ AgreeBut(s.c, c1, {"audio:zero"}) /\ (Up(c1, "audio:zero") <=> zero.active)
  BY <1>6, AudioKeys, TransitionFollows DEF WindowInv, Sounds3
<1> HIDE DEF c1
<1>8. (Up(c1, "audio:quiet") <=> Up(s.c, "audio:quiet")) /\ (Up(c1, "audio:clip") <=> Up(s.c, "audio:clip"))
  BY <1>7, AudioKeys DEF AgreeBut, Up, Audio
<1>9. CenterInv(c2) /\ AgreeBut(c1, c2, {"audio:quiet"}) /\ (Up(c2, "audio:quiet") <=> quiet.active)
  BY <1>6, <1>7, <1>8, AudioKeys, TransitionFollows DEF WindowInv, Sounds3
<1> HIDE DEF c2
<1>10. (Up(c2, "audio:zero") <=> zero.active) /\ (Up(c2, "audio:clip") <=> Up(s.c, "audio:clip"))
  BY <1>7, <1>8, <1>9, AudioKeys DEF AgreeBut, Up, Audio
<1>11. /\ DOMAIN t = DOMAIN s /\ t.c = c2 /\ t.st = [s.st EXCEPT !.zero = zero, !.quiet = quiet]
  BY DEF WindowInv
<1> HIDE DEF t
<1>12. /\ t.st \in DeviceStates /\ t.st.zero = zero /\ t.st.quiet = quiet /\ t.st.clipActive = s.st.clipActive
  BY <1>3, <1>5, <1>11 DEF DeviceStates
<1>13. t.st # None
  BY <1>12, NoneAssumption
<1>14. Sounds3(t.c, t.st)
  BY <1>9, <1>10, <1>11, <1>12, <1>13 DEF Sounds3, WindowInv
<1>15. AgreeBut(center, t.c, Audio)
  BY <1>7, <1>9, <1>11 DEF AgreeBut, Audio, WindowInv
<1>16. WindowInv(t)
  BY <1>9, <1>11, <1>12, <1>14, <1>15 DEF WindowInv
<1>17. WindowInv(EvaluateClip(t, isClip)) /\ EvaluateClip(t, isClip).st # None /\ EvaluateClip(t, isClip).st.quiet = t.st.quiet
  BY <1>2, <1>13, <1>16, EvaluateClipKeeps
<1> QED
  BY <1>1, <1>5, <1>12, <1>17 DEF Silent

----------------------------------------------------------------------------
\* The device's runtime and meter, as far as the monitors read them.
MicType ==
    /\ DOMAIN mic = {"serving", "gen", "dropped", "overruns", "sound", "acc", "tap", "sse", "untold"}
    /\ mic.serving \in BOOLEAN /\ mic.gen \in Nat /\ mic.dropped \in Nat /\ mic.overruns \in Nat /\ mic.untold \in Int

SignalType ==
    signal \in [set : Settings, applied : Settings \cup {None}, closed : BOOLEAN, leaving : BOOLEAN, st : DeviceStates \cup {None}]

\* A condition is up exactly while the device's state holds it, nothing is held
\* against the settings a window has seen, and a monitor that leaves its tap, or
\* has left it, has seen them off.
SignalInv ==
    /\ SignalType
    /\ Sounds3(center, signal.st)
    /\ signal.applied = None => signal.st = None
    /\ signal.applied # None => Silent(signal.applied, signal.st)
    /\ signal.leaving => signal.applied # None /\ ~signal.applied.on
    /\ (~mic.tap /\ ~signal.closed) => \A k \in Audio : ~Up(center, k)
    /\ "signal" \notin parts => signal.st = None

LEMMA WindowKeeps ==
    ASSUME CenterInv(center), MicType, SignalInv, SignalWindow, parts' = parts
    PROVE  CenterInv(center') /\ SignalInv' /\ AgreeBut(center, center', Audio)
<1> DEFINE set == signal.set
           reading == SampleReading(mic)
           old == IF signal.st = None THEN None ELSE SignalOlder(signal.st)
           s0 == [c |-> center, applied |-> signal.applied, st |-> old]
           s1 == SignalReconcile(s0, set)
           st == IF s1.st = None THEN NewDeviceState ELSE [s1.st EXCEPT !.missed = 0]
           s2 == [s1 EXCEPT !.st = st]
           s3 == IF reading = None THEN AgeOutAbsent(s1, set)
                 ELSE IF set.on THEN Evaluate(s2, reading, set)
                 ELSE s2
<1>1. /\ center' = s3.c
      /\ signal' = [signal EXCEPT !.applied = set, !.st = s3.st, !.leaving = ~set.on]
      /\ mic' = [mic EXCEPT !.acc = None]
      /\ mic.tap /\ "signal" \in parts
  BY DEF SignalWindow
<1>2. set \in Settings
  BY DEF SignalInv, SignalType
<1>3. signal.st \in DeviceStates \cup {None} /\ signal.applied \in Settings \cup {None}
  BY DEF SignalInv, SignalType
<1>4. /\ old \in DeviceStates \cup {None} /\ (old = None <=> signal.st = None)
      /\ Sounds3(center, old)
      /\ signal.applied # None => Silent(signal.applied, old)
  BY <1>3, SignalOlderType, NoneAssumption DEF SignalInv, Sounds3, Silent
<1>5. DOMAIN s0 = {"c", "applied", "st"} /\ s0.c = center /\ s0.applied = signal.applied /\ s0.st = old
  OBVIOUS
<1> HIDE DEF old, s0, set, reading
<1>6. WindowInv(s0)
  BY <1>4, <1>5 DEF WindowInv, AgreeBut
<1>7. WindowInv(s1) /\ Silent(set, s1.st)
  BY <1>2, <1>4, <1>5, <1>6, ReconcileSettles DEF SignalInv
<1> HIDE DEF s1
<1>8. ASSUME s1.st = None PROVE WindowInv(s2) /\ Silent(set, s2.st) /\ s2.st # None
  <2>1. st = NewDeviceState
    BY <1>8
  <2>2. st \in DeviceStates /\ ~st.zero.active /\ ~st.quiet.active /\ ~st.clipActive /\ st # None
    BY <2>1, NewDeviceStateType, NoneAssumption
  <2> HIDE DEF st
  <2>3. DOMAIN s2 = DOMAIN s1 /\ s2.c = s1.c /\ s2.st = st
    BY <1>7 DEF WindowInv
  <2> HIDE DEF s2
  <2> QED
    BY <1>7, <1>8, <2>2, <2>3 DEF WindowInv, Sounds3, Silent
<1>9. ASSUME s1.st # None PROVE WindowInv(s2) /\ Silent(set, s2.st) /\ s2.st # None
  <2>1. st = [s1.st EXCEPT !.missed = 0] /\ s1.st \in DeviceStates
    BY <1>7, <1>9 DEF WindowInv
  <2>2. /\ st \in DeviceStates /\ st.zero = s1.st.zero /\ st.quiet = s1.st.quiet /\ st.clipActive = s1.st.clipActive
        /\ st # None
    BY <2>1, NoneAssumption DEF DeviceStates
  <2> HIDE DEF st
  <2>3. DOMAIN s2 = DOMAIN s1 /\ s2.c = s1.c /\ s2.st = st
    BY <1>7 DEF WindowInv
  <2> HIDE DEF s2
  <2> QED
    BY <1>7, <1>9, <2>2, <2>3 DEF WindowInv, Sounds3, Silent
<1>10. WindowInv(s2) /\ Silent(set, s2.st) /\ s2.st # None
  BY <1>8, <1>9
<1> HIDE DEF s2, st
<1>11. WindowInv(s3) /\ Silent(set, s3.st)
  BY <1>2, <1>7, <1>10, AgeOutSettles, EvaluateKeeps
<1> HIDE DEF s3
<1>12. /\ signal' \in [set : Settings, applied : Settings \cup {None}, closed : BOOLEAN, leaving : BOOLEAN, st : DeviceStates \cup {None}]
       /\ signal'.set = set /\ signal'.applied = set /\ signal'.st = s3.st /\ signal'.leaving = ~set.on /\ signal'.closed = signal.closed
  <2>1. s3.st \in DeviceStates \cup {None} /\ (~set.on) \in BOOLEAN
    BY <1>2, <1>11 DEF WindowInv, Settings
  <2>2. signal.set = set
    BY DEF set
  <2> QED
    BY <1>1, <1>2, <2>1, <2>2 DEF SignalInv, SignalType
<1>13. mic'.tap = mic.tap
  BY <1>1 DEF MicType
<1>14. set # None
  BY <1>2, NoneAssumption
<1> QED
  BY <1>1, <1>11, <1>12, <1>13, <1>14 DEF WindowInv, SignalInv, SignalType

\* The steps of the monitors that end nothing and raise nothing.
LEMMA SignalElse ==
    ASSUME SignalInv, signal' = signal, mic'.tap = mic.tap, parts' = parts, AgreeBut(center, center', Keys \ Audio)
    PROVE  SignalInv'
<1>1. \A k \in Audio : center'.active[k] = center.active[k]
  BY AudioKeys DEF AgreeBut
<1>2. Sounds3(center', signal.st) /\ \A k \in Audio : Up(center', k) <=> Up(center, k)
  BY <1>1 DEF SignalInv, Sounds3, Up, Audio
<1> QED
  BY <1>2 DEF SignalInv, SignalType

\* A monitor that has seen the settings off holds nothing.
LEMMA OffHoldsNothing ==
    ASSUME SignalInv, signal.applied # None, ~signal.applied.on
    PROVE  \A k \in Audio : ~Up(center, k)
BY DEF SignalInv, Silent, Sounds3, Audio

LEMMA SignalStepInv ==
    ASSUME CenterInv(center), MicType, SignalInv, parts' = parts,
           SignalStores \/ SignalAttaches \/ SignalDetaches \/ SignalCloses \/ SignalWindow,
           loop.set \in Settings
    PROVE  CenterInv(center') /\ SignalInv' /\ AgreeBut(center, center', Audio)
<1>1. CASE SignalWindow
  BY <1>1, WindowKeeps
<1>2. ASSUME center' = center, SignalType', signal'.st = signal.st, signal'.applied = signal.applied,
             signal'.leaving => signal.leaving, "signal" \in parts \/ signal.st = None,
             (~mic'.tap /\ ~signal'.closed) => \A k \in Audio : ~Up(center, k)
      PROVE  CenterInv(center') /\ SignalInv' /\ AgreeBut(center, center', Audio)
  BY <1>2 DEF SignalInv, AgreeBut
<1>3. "signal" \in parts \/ signal.st = None
  BY DEF SignalInv
<1>4. CASE SignalStores
  <2>1. signal' = [signal EXCEPT !.set = loop.set] /\ center' = center /\ mic' = mic
    BY <1>4 DEF SignalStores
  <2>2. /\ SignalType' /\ signal'.st = signal.st /\ signal'.applied = signal.applied /\ signal'.leaving = signal.leaving
        /\ signal'.closed = signal.closed
    BY <2>1 DEF SignalInv, SignalType
  <2> QED
    BY <1>2, <1>3, <2>1, <2>2 DEF SignalInv
<1>5. CASE SignalAttaches
  <2>1. signal' = signal /\ center' = center /\ mic' = IF loop.set.on /\ ~mic.tap /\ ~signal.closed THEN Tap(mic) ELSE mic
    BY <1>5 DEF SignalAttaches
  <2>2. mic.tap => mic'.tap
    BY <2>1 DEF MicType
  <2>3. SignalType'
    BY <2>1 DEF SignalInv, SignalType
  <2> QED
    BY <1>2, <1>3, <2>1, <2>2, <2>3 DEF SignalInv
<1>6. CASE SignalDetaches
  <2>1. signal' = [signal EXCEPT !.leaving = FALSE] /\ center' = center /\ signal.leaving
    BY <1>6 DEF SignalDetaches
  <2>2. /\ SignalType' /\ signal'.st = signal.st /\ signal'.applied = signal.applied /\ ~signal'.leaving
        /\ signal'.closed = signal.closed
    BY <2>1 DEF SignalInv, SignalType
  <2>3. \A k \in Audio : ~Up(center, k)
    BY <2>1, OffHoldsNothing DEF SignalInv
  <2> QED
    BY <1>2, <1>3, <2>1, <2>2, <2>3
<1>7. CASE SignalCloses
  <2>1. signal' = [signal EXCEPT !.closed = TRUE] /\ center' = center
    BY <1>7 DEF SignalCloses
  <2>2. /\ SignalType' /\ signal'.st = signal.st /\ signal'.applied = signal.applied /\ signal'.leaving = signal.leaving
        /\ signal'.closed = TRUE
    BY <2>1 DEF SignalInv, SignalType
  <2> QED
    BY <1>2, <1>3, <2>1, <2>2
<1> QED
  BY <1>1, <1>4, <1>5, <1>6, <1>7

----------------------------------------------------------------------------
(* The tap, and the run loop's steps towards it *)

\* The settings are stored before the tap is attached, both at the beginning.
StoresFirst(todo) ==
    \A i \in 1 .. Len(todo) : /\ todo[i] = "store" => i = 1 /\ Len(todo) >= 2 /\ todo[2] = "attach"
                              /\ todo[i] = "attach" => i = 1 \/ (i = 2 /\ todo[1] = "store")

\* Past its part of an Apply the monitor has the settings of the run loop, and
\* its tap if they turn it on.
TapInv ==
    /\ loop.set \in Settings
    /\ "signal" \in parts =>
          /\ StoresFirst(loop.todo)
          /\ ~Ahead("store") => signal.set = loop.set
          /\ (~Ahead("store") /\ ~Ahead("attach") /\ signal.set.on /\ ~signal.closed) => mic.tap

LEMMA StoresFirstTail ==
    ASSUME NEW todo \in Seq(Tasks), todo # <<>>, StoresFirst(todo)
    PROVE  /\ StoresFirst(Tail(todo))
           /\ Head(todo) = "store" => Tail(todo) # <<>> /\ Head(Tail(todo)) = "attach"
           /\ Head(todo) # "store" => Tail(todo) = <<>> \/ Head(Tail(todo)) \notin {"store", "attach"}
<1> DEFINE t == Tail(todo)
<1>1. /\ Len(todo) \in Nat /\ 1 \in 1 .. Len(todo) /\ Head(todo) = todo[1] /\ t \in Seq(Tasks) /\ Len(t) = Len(todo) - 1
      /\ \A i \in 1 .. Len(t) : i + 1 \in 1 .. Len(todo) /\ t[i] = todo[i + 1]
  BY Received
<1> HIDE DEF t
<1>2. Len(t) \in Nat /\ (t # <<>> <=> Len(t) >= 1) /\ (t # <<>> => Head(t) = t[1])
  BY <1>1, Elements
<1>3. \A i \in 1 .. Len(t) : t[i] # "store" /\ (t[i] = "attach" => i = 1 /\ todo[1] = "store")
  BY <1>1 DEF StoresFirst
<1>4. StoresFirst(t)
  BY <1>3 DEF StoresFirst
<1>5. Head(todo) = "store" => t # <<>> /\ Head(t) = "attach"
  BY <1>1, <1>2 DEF StoresFirst
<1>6. Head(todo) # "store" => t = <<>> \/ Head(t) \notin {"store", "attach"}
  BY <1>1, <1>2, <1>3
<1> QED
  BY <1>4, <1>5, <1>6 DEF t

LEMMA StoresFirstShort == StoresFirst(<<>>) /\ StoresFirst(<<"wake">>)
BY DEF StoresFirst

LEMMA StoresFirstApply ==
    ASSUME "signal" \in parts
    PROVE  StoresFirst(ApplySteps) /\ ApplySteps # <<>> /\ Head(ApplySteps) = "store"
<1> DEFINE A == <<"store", "attach">>
           B == IF "host" \in parts THEN <<"host">> ELSE <<>>
           C == IF "updates" \in parts THEN <<"swap", "offGen", "forget", "wake">> ELSE <<>>
           D == A \o B
           s == D \o C
<1>1. ApplySteps = s
  BY DEF ApplySteps
<1>2. A \in Seq(Tasks) /\ Len(A) = 2 /\ A[1] = "store" /\ A[2] = "attach"
  BY DEF Tasks
<1>3. B \in Seq(Tasks) /\ Len(B) \in Nat /\ \A i \in 1 .. Len(B) : B[i] = "host"
  <2>1. "host" \in Tasks
    BY DEF Tasks
  <2>2. CASE "host" \in parts
    <3>1. B = <<"host">> /\ B \in Seq(Tasks)
      BY <2>1, <2>2, FewSteps
    <3>2. Len(B) = 1 /\ B[1] = "host"
      BY <3>1
    <3> QED
      BY <3>1, <3>2
  <2>3. CASE "host" \notin parts
    <3>1. B = <<>> /\ B \in Seq(Tasks)
      BY <2>1, <2>3, FewSteps
    <3>2. Len(B) = 0
      BY <3>1
    <3> QED
      BY <3>1, <3>2
  <2> QED
    BY <2>2, <2>3
<1>4. C \in Seq(Tasks) /\ Len(C) \in Nat /\ \A i \in 1 .. Len(C) : C[i] \notin {"store", "attach"}
  <2>1. CASE "updates" \in parts
    <3>1. {"swap", "offGen", "forget", "wake"} \subseteq Tasks
      BY DEF Tasks
    <3>2. C \in Seq(Tasks) /\ Len(C) = 4 /\ C[1] = "swap" /\ C[2] = "offGen" /\ C[3] = "forget" /\ C[4] = "wake"
      BY <2>1, <3>1, FourSteps
    <3>3. \A i \in 1 .. 4 : i = 1 \/ i = 2 \/ i = 3 \/ i = 4
      OBVIOUS
    <3> QED
      BY <3>2, <3>3
  <2>2. CASE "updates" \notin parts
    BY <2>2
  <2> QED
    BY <2>1, <2>2
<1> HIDE DEF A, B, C
<1>5. /\ D \in Seq(Tasks) /\ Len(D) = 2 + Len(B)
      /\ \A i \in 1 .. 2 + Len(B) : D[i] = IF i <= 2 THEN A[i] ELSE B[i - 2]
  <2>1. /\ D \in Seq(Tasks) /\ Len(D) = Len(A) + Len(B)
        /\ \A i \in 1 .. Len(A) + Len(B) : D[i] = IF i <= Len(A) THEN A[i] ELSE B[i - Len(A)]
    BY <1>2, <1>3, Joined
  <2> HIDE DEF D
  <2> QED
    BY <1>2, <2>1
<1> HIDE DEF D
<1>6. /\ s \in Seq(Tasks) /\ Len(s) = Len(D) + Len(C)
      /\ \A i \in 1 .. Len(D) + Len(C) : s[i] = IF i <= Len(D) THEN D[i] ELSE C[i - Len(D)]
  BY ZenonT(60), <1>4, <1>5, Joined
<1> HIDE DEF s
<1>7. s[1] = "store" /\ s[2] = "attach" /\ Len(s) >= 2
  BY <1>2, <1>3, <1>4, <1>5, <1>6
<1>8. \A i \in 1 .. Len(s) : i > 2 => s[i] \notin {"store", "attach"}
  <2> SUFFICES ASSUME NEW i \in 1 .. Len(s), i > 2 PROVE s[i] \notin {"store", "attach"}
    OBVIOUS
  <2>1. CASE i <= Len(D)
    BY <1>3, <1>4, <1>5, <1>6, <2>1
  <2>2. CASE i > Len(D)
    <3>1. i - Len(D) \in 1 .. Len(C)
      BY <1>3, <1>4, <1>5, <1>6, <2>2
    <3> QED
      BY <1>3, <1>4, <1>5, <1>6, <2>2, <3>1
  <2> QED
    BY <1>3, <1>5, <2>1, <2>2
<1>9. s # <<>> /\ Head(s) = "store"
  BY <1>6, <1>7, Elements
<1>10. StoresFirst(s)
  <2> SUFFICES ASSUME NEW i \in 1 .. Len(s)
               PROVE  /\ s[i] = "store" => i = 1 /\ Len(s) >= 2 /\ s[2] = "attach"
                      /\ s[i] = "attach" => i = 1 \/ (i = 2 /\ s[1] = "store")
    BY DEF StoresFirst
  <2>1. i = 1 \/ i = 2 \/ i > 2
    BY <1>3, <1>4, <1>5, <1>6
  <2> QED
    BY <1>7, <1>8, <2>1
<1> QED
  BY <1>1, <1>9, <1>10

\* A step of an Apply, as far as the tap is concerned.
LEMMA TapApplies ==
    ASSUME SwitchType, StoresFirst(loop.todo), NEW step, Applies(step)
    PROVE  /\ StoresFirst(loop'.todo) /\ loop'.set = loop.set
           /\ Ahead(step)
           /\ step = "store" => Ahead("attach")' /\ ~Ahead("store")'
           /\ step # "store" => ~Ahead("attach")' /\ ~Ahead("store")'
<1>1. loop.todo # <<>> /\ Head(loop.todo) = step /\ loop' = [loop EXCEPT !.todo = Tail(@)]
  BY DEF Applies
<1>2. loop'.todo = Tail(loop.todo) /\ loop'.set = loop.set /\ loop.todo \in Seq(Tasks)
  BY <1>1 DEF SwitchType, Orderly
<1> QED
  BY <1>1, <1>2, StoresFirstTail DEF Ahead

LEMMA TapMonitorStep ==
    ASSUME SwitchType, MicType, SignalInv, TapInv, MonitorStep, parts' = parts
    PROVE  TapInv'
<1>1. CASE ApplySettings
  <2>1. PICK set \in Settings : loop' = [loop EXCEPT !.set = set, !.todo = ApplySteps]
    BY <1>1 DEF ApplySettings
  <2>2. loop'.set = set /\ loop'.todo = ApplySteps
    BY <2>1 DEF SwitchType
  <2>3. "signal" \in parts => Ahead("store")' /\ StoresFirst(loop'.todo)
    BY <2>2, StoresFirstApply DEF Ahead
  <2> QED
    BY <2>2, <2>3 DEF TapInv
<1>2. CASE SignalStores
  <2>1. signal' = [signal EXCEPT !.set = loop.set] /\ Applies("store")
    BY <1>2 DEF SignalStores
  <2>2. signal'.set = loop.set
    BY <2>1 DEF SignalInv, SignalType
  <2>3. loop'.set = loop.set
    BY <2>1 DEF Applies, SwitchType
  <2> QED
    BY <2>1, <2>2, <2>3, TapApplies DEF TapInv
<1>3. CASE SignalAttaches
  <2>1. /\ Applies("attach") /\ signal' = signal
        /\ mic' = IF loop.set.on /\ ~mic.tap /\ ~signal.closed THEN Tap(mic) ELSE mic
    BY <1>3 DEF SignalAttaches
  <2>2. Tap(mic).tap = TRUE
    <3>1. DOMAIN FirstConsumer(mic) = DOMAIN mic
      BY DEF FirstConsumer, MicType
    <3> QED
      BY <3>1 DEF Tap, MicType
  <2>3. loop'.set = loop.set
    BY <2>1 DEF Applies, SwitchType
  <2>4. Ahead("attach") => ~Ahead("store")
    BY DEF Ahead
  <2> QED
    BY <2>1, <2>2, <2>3, <2>4, TapApplies DEF TapInv
<1>4. CASE HostApplies
  <2>1. Applies("host") /\ signal' = signal /\ mic' = mic
    BY <1>4 DEF HostApplies
  <2>3. loop'.set = loop.set
    BY <2>1 DEF Applies, SwitchType
  <2>4. Ahead("host") => ~Ahead("store") /\ ~Ahead("attach")
    BY DEF Ahead
  <2> QED
    BY <2>1, <2>3, <2>4, TapApplies DEF TapInv
<1>5. CASE SignalDetaches
  <2>1. /\ signal' = [signal EXCEPT !.leaving = FALSE] /\ loop' = loop
        /\ mic' = IF signal.set.on THEN mic ELSE [mic EXCEPT !.tap = FALSE]
    BY <1>5 DEF SignalDetaches
  <2>2. signal'.set = signal.set /\ signal'.closed = signal.closed
    BY <2>1 DEF SignalInv, SignalType
  <2> QED
    BY <2>1, <2>2 DEF TapInv, Ahead
<1>6. CASE SignalCloses
  <2>1. signal' = [signal EXCEPT !.closed = TRUE] /\ loop' = loop
    BY <1>6 DEF SignalCloses
  <2>2. signal'.set = signal.set /\ signal'.closed
    BY <2>1 DEF SignalInv, SignalType
  <2> QED
    BY <2>1, <2>2 DEF TapInv, Ahead
<1>7. CASE Stopping
  <2>1. signal' = signal /\ mic' = mic /\ loop' = [loop EXCEPT !.stopping = TRUE]
    BY <1>7 DEF Stopping
  <2>2. loop'.set = loop.set /\ loop'.todo = loop.todo
    BY <2>1 DEF SwitchType
  <2> QED
    BY <2>1, <2>2 DEF TapInv, Ahead
<1>8. ASSUME loop' = loop, signal'.set = signal.set, signal'.closed = signal.closed, mic'.tap = mic.tap
      PROVE  TapInv'
  BY <1>8 DEF TapInv, Ahead
<1>9. CASE SignalWindow
  <2>1. PICK set, st, leaving : signal' = [signal EXCEPT !.applied = set, !.st = st, !.leaving = leaving]
    BY <1>9 DEF SignalWindow
  <2>2. mic' = [mic EXCEPT !.acc = None] /\ loop' = loop
    BY <1>9 DEF SignalWindow
  <2>3. signal'.set = signal.set /\ signal'.closed = signal.closed /\ mic'.tap = mic.tap
    BY <2>1, <2>2 DEF SignalInv, SignalType, MicType
  <2> QED
    BY <1>8, <2>2, <2>3
<1>10. CASE RuntimeStarts \/ RuntimeEnds \/ RuntimeRestarts
  BY <1>8, <1>10 DEF RuntimeStarts, RuntimeEnds, RuntimeRestarts, NewRuntime, MicType
<1>11. CASE MeterObserve \/ HubCancel \/ Sound \/ HostReads \/ HostStops
  BY <1>8, <1>11 DEF MeterObserve, HubCancel, Sound, HostReads, HostStops, MicType
<1>12. CASE HubSubscribe
  BY <1>8, <1>12 DEF HubSubscribe, FirstConsumer, MicType
<1>13. CASE Loses
  BY <1>8, <1>13 DEF Loses, MicType
<1>14. CASE HostPoll
  <2>1. PICK told : mic' = [mic EXCEPT !.untold = told] /\ signal' = signal /\ loop' = loop
    BY <1>14 DEF HostPoll
  <2> QED
    BY <1>8, <2>1 DEF MicType
<1> QED
  BY <1>1, <1>2, <1>3, <1>4, <1>5, <1>6, <1>7, <1>9, <1>10, <1>11, <1>12, <1>13, <1>14 DEF MonitorStep

LEMMA TapUpdateStep ==
    ASSUME SwitchType, TapInv, UpdateStep, parts' = parts, signal' = signal, mic' = mic
    PROVE  TapInv'
<1>1. CASE ManagerSwaps
  <2> DEFINE t == IF mgr.enabled = loop.set.checks THEN <<>> ELSE IF loop.set.checks THEN <<"wake">> ELSE Tail(loop.todo)
  <2>1. loop.todo # <<>> /\ Head(loop.todo) = "swap" /\ loop' = [loop EXCEPT !.todo = t]
    BY <1>1 DEF ManagerSwaps
  <2>2. "signal" \in parts => StoresFirst(t) /\ (t = <<>> \/ Head(t) \notin {"store", "attach"})
    BY <2>1, StoresFirstShort, StoresFirstTail DEF TapInv, SwitchType, Orderly
  <2> HIDE DEF t
  <2>3. loop'.set = loop.set /\ loop'.todo = t
    BY <2>1 DEF SwitchType
  <2> QED
    BY <2>1, <2>2, <2>3 DEF TapInv, Ahead
<1>2. ASSUME NEW step \in {"offGen", "forget", "wake"}, Applies(step) PROVE TapInv'
  <2>1. loop'.set = loop.set
    BY <1>2 DEF Applies, SwitchType
  <2>2. Ahead(step) => ~Ahead("store") /\ ~Ahead("attach")
    BY DEF Ahead
  <2> QED
    BY <1>2, <2>1, <2>2, TapApplies DEF TapInv
<1>3. CASE loop' = loop
  BY <1>3 DEF TapInv, Ahead
<1>4. CASE ManagerCounts \/ ManagerForgets \/ ManagerWakes
  BY <1>2, <1>4 DEF ManagerCounts, ManagerForgets, ManagerWakes
<1> QED
  BY <1>1, <1>3, <1>4
  DEF UpdateStep, LoopSeesOff, LoopArms, LoopWakes, LoopTicks, LoopRearms, LoopReturns, CheckAnswered, TimerIsDue, CheckNow,
      CheckBegins, CheckFetches, CheckDropped, CheckNotice, CheckFails, CheckFinds

----------------------------------------------------------------------------
(* The overruns of a poll reach the flap detector one by one *)

\* There is a function of the detector after each of n events.
LEMMA EventsInTurn ==
    ASSUME NEW f, NEW max, NEW quiet, NEW n \in Nat
    PROVE  \E g : g = [i \in 0 .. n |-> IF i = 0 THEN f ELSE FlapEvent(g[i - 1], max, quiet)]
<1> DEFINE InTurn(g, m) == g = [i \in 0 .. m |-> IF i = 0 THEN f ELSE FlapEvent(g[i - 1], max, quiet)]
           T == {m \in Nat : ~\E g : InTurn(g, m)}
<1>1. SUFFICES ASSUME T # {} PROVE FALSE
  OBVIOUS
<1>2. PICK m \in T : \A k \in T : m <= k
  BY <1>1, LeastNat
<1>3. m # 0
  <2>1. InTurn([i \in 0 .. 0 |-> f], 0)
    OBVIOUS
  <2> QED
    BY <1>2, <2>1
<1>4. m - 1 \in Nat /\ m - 1 \notin T
  BY <1>2, <1>3
<1>5. PICK g : InTurn(g, m - 1)
  BY <1>4
<1> DEFINE h == [i \in 0 .. m |-> IF i < m THEN g[i] ELSE FlapEvent(g[m - 1], max, quiet)]
<1>6. InTurn(h, m)
  <2> DEFINE k == [i \in 0 .. m |-> IF i = 0 THEN f ELSE FlapEvent(h[i - 1], max, quiet)]
  <2>1. ASSUME NEW i \in 0 .. m PROVE h[i] = k[i]
    <3>1. CASE i = 0
      BY <1>3, <1>4, <1>5, <3>1
    <3>2. CASE i # 0 /\ i < m
      <4>1. i \in 0 .. m - 1 /\ i - 1 \in 0 .. m /\ i - 1 < m
        BY <1>4, <3>2
      <4>2. h[i] = g[i] /\ h[i - 1] = g[i - 1]
        BY <3>2, <4>1
      <4>3. g[i] = FlapEvent(g[i - 1], max, quiet)
        BY <1>5, <3>2, <4>1
      <4> HIDE DEF h
      <4> QED
        BY <3>2, <4>2, <4>3
    <3>3. CASE i = m
      <4>1. m - 1 \in 0 .. m /\ m - 1 < m /\ i \in 0 .. m
        BY <1>4
      <4>2. h[i] = FlapEvent(g[m - 1], max, quiet) /\ h[m - 1] = g[m - 1]
        BY <3>3, <4>1
      <4> HIDE DEF h
      <4> QED
        BY <1>3, <3>3, <4>2
    <3> QED
      BY <1>4, <3>1, <3>2, <3>3
  <2> QED
    BY <2>1
<1> QED
  BY <1>2, <1>6

\* A detector no quiet gap has passed for stays so, and active if it was.
Roused(f, g) ==
    g \in Flaps /\ (f.active => g.active) /\ (g.active => ~QuietGapElapsed(g, OverrunClearAfter))

LEMMA RousedByEvent ==
    ASSUME NEW f, NEW g, Roused(f, g), NEW max
    PROVE  Roused(f, FlapEvent(g, max, OverrunClearAfter))
<1> DEFINE e == FlapEvent(g, max, OverrunClearAfter)
<1>1. g \in Flaps /\ e \in Flaps
  BY FlapEventType DEF Roused
<1>2. OverrunClearAfter \in Nat /\ OverrunClearAfter > 0
  BY MonitorBounds
<1>3. CASE g.active
  <2>1. e = [g EXCEPT !.last = 0]
    BY <1>3 DEF FlapEvent, Roused
  <2>2. e.active = g.active /\ e.last = 0
    BY <1>1, <2>1 DEF Flaps
  <2> HIDE DEF e
  <2> QED
    BY <1>1, <1>2, <1>3, <2>2 DEF Roused, QuietGapElapsed, e
<1>4. CASE ~g.active
  <2>1. e = [active |-> Len(g.events) + 1 > max, events |-> Append(g.events, 0), last |-> 0]
    BY <1>4 DEF FlapEvent, QuietGapElapsed
  <2>2. e.last = 0
    BY <2>1
  <2> HIDE DEF e
  <2> QED
    BY <1>1, <1>2, <1>4, <2>2 DEF Roused, QuietGapElapsed, e
<1> QED
  BY <1>3, <1>4

LEMMA RousedByEvents ==
    ASSUME NEW f \in Flaps, f.active => ~QuietGapElapsed(f, OverrunClearAfter), NEW n \in Nat
    PROVE  Roused(f, FlapEvents(f, n))
<1> DEFINE N == OverrunOnsetCount
           max == N - 1
           quiet == OverrunClearAfter
           after == CHOOSE g : g = [i \in 0 .. N |-> IF i = 0 THEN f ELSE FlapEvent(g[i - 1], max, quiet)]
           T == {i \in 0 .. N : ~Roused(f, after[i])}
<1>1. N \in Nat
  BY MonitorBounds
<1>2. FlapEvents(f, n) = after[Min({n, N})]
  BY DEF FlapEvents
<1>3. after = [i \in 0 .. N |-> IF i = 0 THEN f ELSE FlapEvent(after[i - 1], max, quiet)]
  BY <1>1, EventsInTurn
<1> HIDE DEF after
<1>4. after[0] = f /\ \A i \in 1 .. N : after[i] = FlapEvent(after[i - 1], max, quiet)
  BY <1>1, <1>3
<1>5. Roused(f, f)
  BY DEF Roused
<1>6. T = {}
  <2>1. SUFFICES ASSUME T # {} PROVE FALSE
    OBVIOUS
  <2>2. T \subseteq Nat
    BY <1>1
  <2>3. PICK i \in T : \A j \in T : i <= j
    BY <2>1, <2>2, LeastNat
  <2>4. i \in 1 .. N /\ i - 1 \in 0 .. N
    BY <1>1, <1>4, <1>5, <2>3
  <2>5. Roused(f, after[i - 1])
    BY <2>3, <2>4
  <2>6. Roused(f, FlapEvent(after[i - 1], max, quiet))
    BY <2>5, RousedByEvent
  <2> QED
    BY <1>4, <2>3, <2>4, <2>6
<1>7. Min({n, N}) \in 0 .. N
  BY <1>1, MinOfTwo
<1> QED
  BY <1>2, <1>6, <1>7

----------------------------------------------------------------------------
(* The host monitor *)

HostKeys == {"system", "stream:drops", "device:overruns"}

\* What a device's counters owe the log: a line's worth, or an episode's.
Owed(d) == IF d = None THEN 0 ELSE d.unlogged + d.episode

\* Overruns are counted to an episode while there is one, to a line otherwise.
OneAccount(d) == d # None => IF d.ov.active THEN d.unlogged = 0 ELSE d.episode = 0

\* The conditions of the center that the host's and a device's state hold.
Trouble(c, cond, d) ==
    /\ Up(c, "system") <=> cond.h.active
    /\ Up(c, "stream:drops") <=> d # None /\ d.h.active
    /\ Up(c, "device:overruns") <=> d # None /\ d.ov.active

\* A poll's work in progress.
PollInv(s) ==
    /\ DOMAIN s = {"c", "cond", "dev", "told"}
    /\ s.cond \in [h : Hystereses, lastOK : Nat \cup {None}] /\ s.dev \in CounterStates \cup {None} /\ s.told \in Int
    /\ CenterInv(s.c) /\ AgreeBut(center, s.c, HostKeys) /\ Trouble(s.c, s.cond, s.dev)

LEMMA HostKeysType ==
    /\ "system" \in Keys /\ "stream:drops" \in Keys /\ "device:overruns" \in Keys /\ HostKeys \subseteq Keys
    /\ None \in Texts
BY DEF HostKeys, Keys, Texts

LEMMA NoHostCondType == NoHostCond \in [h : Hystereses, lastOK : Nat \cup {None}] /\ ~NoHostCond.h.active
BY NoHysteresisType DEF NoHostCond

\* What a center is that differs in one host condition.
LEMMA OneHostKey ==
    ASSUME NEW c, AgreeBut(center, c, HostKeys), NEW key \in HostKeys, NEW d, AgreeBut(c, d, {key})
    PROVE  /\ AgreeBut(center, d, HostKeys)
           /\ \A k \in HostKeys \ {key} : Up(d, k) <=> Up(c, k)
BY HostKeysType DEF AgreeBut, Up, HostKeys

\* A reading of the host's sensor, or none.
LEMMA HostObserveKeeps ==
    ASSUME NEW s, PollInv(s)
    PROVE  LET r == HostObserve(s) IN PollInv(r) /\ r.dev = s.dev /\ r.told = s.told
<1> DEFINE oldh == [s.cond.h EXCEPT !.run = Older(@, EnterAfter + ClearAfter)]
           lastOK == Older(s.cond.lastOK, ClearAfter)
           old == [h |-> oldh, lastOK |-> lastOK]
           over == HostOver(host.kind, old.h.active, host.reading)
           h == Observe(old.h, over, EnterAfter, ClearAfter)
           key == "system"
           r == HostObserve(s)
<1>1. EnterAfter + ClearAfter \in Nat /\ EnterAfter \in Nat /\ ClearAfter \in Nat
  BY MonitorBounds
<1>2. s.cond.h \in Hystereses /\ s.cond.lastOK \in Nat \cup {None}
  BY DEF PollInv
<1>3. oldh \in Hystereses /\ oldh.active = s.cond.h.active /\ lastOK \in Nat \cup {None}
  BY <1>1, <1>2, OlderRunType, OlderType
<1> HIDE DEF over, oldh, lastOK
<1>5. old.h = oldh /\ old.lastOK = lastOK
  OBVIOUS
<1>6. h \in Hystereses
  BY <1>3, <1>5, ObserveType
<1>7. \/ r = [s EXCEPT !.c = Transition(@, key, old.h, h), !.cond = [h |-> h, lastOK |-> 0]]
      \/ ~old.h.active /\ r = [s EXCEPT !.cond = [old EXCEPT !.h = NoHysteresis]]
      \/ r = [s EXCEPT !.c = Resolve(@, key), !.cond = [old EXCEPT !.h = NoHysteresis]]
      \/ r = [s EXCEPT !.cond = [old EXCEPT !.h = ResetRun(old.h)]]
  BY DEF HostObserve, over, oldh, lastOK
<1>8. \A k \in Hystereses : /\ [old EXCEPT !.h = k] \in [h : Hystereses, lastOK : Nat \cup {None}]
                            /\ [old EXCEPT !.h = k].h = k
  BY <1>3
<1>4. [h |-> h, lastOK |-> 0] \in [h : Hystereses, lastOK : Nat \cup {None}]
  BY <1>6
<1> HIDE DEF h, r
<1>9. ASSUME NEW c, NEW cond, r = [s EXCEPT !.c = c, !.cond = cond],
             cond \in [h : Hystereses, lastOK : Nat \cup {None}],
             CenterInv(c), AgreeBut(s.c, c, {key}), Up(c, key) <=> cond.h.active
      PROVE  PollInv(r) /\ r.dev = s.dev /\ r.told = s.told
  <2>1. DOMAIN r = DOMAIN s /\ r.c = c /\ r.cond = cond /\ r.dev = s.dev /\ r.told = s.told
    BY <1>9 DEF PollInv
  <2>2. AgreeBut(center, c, HostKeys) /\ \A k \in HostKeys \ {key} : Up(c, k) <=> Up(s.c, k)
    BY <1>9, OneHostKey DEF PollInv, HostKeys
  <2> QED
    BY <1>9, <2>1, <2>2 DEF PollInv, Trouble, HostKeys
<1>10. CASE r = [s EXCEPT !.c = Transition(@, key, old.h, h), !.cond = [h |-> h, lastOK |-> 0]]
  <2> DEFINE c == Transition(s.c, key, old.h, h)
             cond == [h |-> h, lastOK |-> 0]
  <2>1. CenterInv(c) /\ AgreeBut(s.c, c, {key}) /\ (Up(c, key) <=> h.active)
    <3>1. h.active \in BOOLEAN /\ old.h.active \in BOOLEAN /\ (Up(s.c, key) <=> old.h.active)
      BY <1>3, <1>5, <1>6 DEF Hystereses, PollInv, Trouble
    <3> QED
      BY <3>1, HostKeysType, TransitionFollows DEF PollInv
  <2>2. cond.h = h /\ cond \in [h : Hystereses, lastOK : Nat \cup {None}] /\ r = [s EXCEPT !.c = c, !.cond = cond]
    BY <1>4, <1>10
  <2> HIDE DEF c, cond
  <2> QED
    BY <1>9, <2>1, <2>2 DEF r
<1>11. CASE r = [s EXCEPT !.c = Resolve(@, key), !.cond = [old EXCEPT !.h = NoHysteresis]]
  <2> DEFINE c == Resolve(s.c, key)
             cond == [old EXCEPT !.h = NoHysteresis]
  <2>1. CenterInv(c) /\ AgreeBut(s.c, c, {key}) /\ ~Up(c, key)
    BY HostKeysType, ClearEnds DEF PollInv
  <2>2. r = [s EXCEPT !.c = c, !.cond = cond]
    BY <1>11
  <2>3. ~cond.h.active /\ cond \in [h : Hystereses, lastOK : Nat \cup {None}]
    BY <1>8, NoHysteresisType
  <2> HIDE DEF c, cond
  <2> QED
    BY <1>9, <2>1, <2>2, <2>3 DEF r
<1>12. ASSUME NEW cond, r = [s EXCEPT !.cond = cond], cond \in [h : Hystereses, lastOK : Nat \cup {None}],
              cond.h.active <=> s.cond.h.active
       PROVE  PollInv(r) /\ r.dev = s.dev /\ r.told = s.told
  <2>1. DOMAIN r = DOMAIN s /\ r.c = s.c /\ r.cond = cond /\ r.dev = s.dev /\ r.told = s.told
    BY <1>12 DEF PollInv
  <2> QED
    BY <1>12, <2>1 DEF PollInv, Trouble
<1>13. CASE ~old.h.active /\ r = [s EXCEPT !.cond = [old EXCEPT !.h = NoHysteresis]]
  <2> DEFINE cond == [old EXCEPT !.h = NoHysteresis]
  <2>1. ~cond.h.active /\ cond \in [h : Hystereses, lastOK : Nat \cup {None}]
    BY <1>8, NoHysteresisType
  <2>2. r = [s EXCEPT !.cond = cond] /\ ~s.cond.h.active
    BY <1>3, <1>5, <1>13
  <2> HIDE DEF cond
  <2> QED
    BY <1>12, <2>1, <2>2 DEF r
<1>14. CASE r = [s EXCEPT !.cond = [old EXCEPT !.h = ResetRun(old.h)]]
  <2> DEFINE cond == [old EXCEPT !.h = ResetRun(old.h)]
  <2>1. ResetRun(old.h) \in Hystereses /\ ResetRun(old.h).active = s.cond.h.active
    BY <1>3, <1>5, ResetRunType
  <2>2. cond.h.active = s.cond.h.active /\ cond \in [h : Hystereses, lastOK : Nat \cup {None}]
    BY <1>8, <2>1
  <2>3. r = [s EXCEPT !.cond = cond]
    BY <1>14
  <2> HIDE DEF cond
  <2> QED
    BY <1>12, <2>2, <2>3 DEF r
<1> QED
  BY <1>7, <1>10, <1>11, <1>13, <1>14 DEF r

\* A poll later the counters are what they were.
LEMMA CounterOlderType ==
    ASSUME NEW d \in CounterStates
    PROVE  LET o == CounterOlder(d)
           IN  /\ o \in CounterStates /\ o.h.active = d.h.active /\ o.ov.active = d.ov.active
               /\ o.prev = d.prev /\ o.gen = d.gen /\ o.ovPrev = d.ovPrev /\ o.unlogged = d.unlogged /\ o.episode = d.episode
<1> DEFINE h == [d.h EXCEPT !.run = Older(@, DropsEnterAfter + DropsClearAfter)]
           ov == FlapOlder(d.ov, OverrunWindow, OverrunClearAfter)
           logAt == Older(d.logAt, OverrunWindow)
           prevAt == d.prevAt + 1
<1>1. CounterOlder(d) = [d EXCEPT !.h = h, !.prevAt = prevAt, !.ov = ov, !.logAt = logAt]
  BY DEF CounterOlder
<1>2. DropsEnterAfter + DropsClearAfter \in Nat /\ OverrunClearAfter \in Nat /\ OverrunWindow \in Nat
  BY MonitorBounds
<1>3. d.h \in Hystereses /\ d.ov \in Flaps /\ d.logAt \in Nat \cup {None} /\ prevAt \in Nat
  BY DEF CounterStates
<1>4. h \in Hystereses /\ h.active = d.h.active
  BY <1>2, <1>3, OlderRunType
<1>5. ov \in Flaps /\ ov.active = d.ov.active
  BY <1>2, <1>3, FlapOlderType
<1>6. logAt \in Nat \cup {None}
  BY <1>2, <1>3, OlderType
<1> HIDE DEF h, ov, logAt, prevAt
<1>7. CounterOlder(d) \in CounterStates
  BY <1>1, <1>3, <1>4, <1>5, <1>6 DEF CounterStates
<1>8. /\ CounterOlder(d).h = h /\ CounterOlder(d).ov = ov /\ CounterOlder(d).prev = d.prev /\ CounterOlder(d).gen = d.gen
      /\ CounterOlder(d).ovPrev = d.ovPrev /\ CounterOlder(d).unlogged = d.unlogged /\ CounterOlder(d).episode = d.episode
  BY <1>1 DEF CounterStates
<1> QED
  BY <1>4, <1>5, <1>7, <1>8

\* The frames dropped since the last poll.
LEMMA ObserveDropsKeeps ==
    ASSUME NEW s, PollInv(s), s.dev # None, NEW restarted \in BOOLEAN, MicType
    PROVE  LET r == ObserveDrops(s, restarted)
           IN  /\ PollInv(r) /\ r.dev # None /\ r.told = s.told
               /\ r.dev.prev = mic.dropped /\ r.dev.gen = s.dev.gen /\ r.dev.ov = s.dev.ov /\ r.dev.ovPrev = s.dev.ovPrev
               /\ r.dev.unlogged = s.dev.unlogged /\ r.dev.episode = s.dev.episode /\ r.dev.logAt = s.dev.logAt
<1> DEFINE delta == mic.dropped - s.dev.prev
           over == ~restarted /\ IF s.dev.h.active THEN delta > 0 ELSE delta > DropsPerPoll * s.dev.prevAt
           h == Observe(s.dev.h, over, DropsEnterAfter, DropsClearAfter)
           key == "stream:drops"
           c == Transition(s.c, key, s.dev.h, h)
           d == [s.dev EXCEPT !.h = h, !.prev = mic.dropped, !.prevAt = 0]
           r == ObserveDrops(s, restarted)
<1>1. r = [s EXCEPT !.c = c, !.dev = d]
  BY DEF ObserveDrops
<1>2. s.dev \in CounterStates /\ s.dev.h \in Hystereses
  BY DEF PollInv, CounterStates
<1> HIDE DEF over
<1>3. h \in Hystereses
  BY <1>2, ObserveType
<1> HIDE DEF h
<1>4. h.active \in BOOLEAN /\ s.dev.h.active \in BOOLEAN
  BY <1>2, <1>3 DEF Hystereses
<1>5. CenterInv(s.c) /\ (Up(s.c, key) <=> s.dev.h.active)
  BY DEF PollInv, Trouble
<1>6. CenterInv(c) /\ AgreeBut(s.c, c, {key}) /\ (Up(c, key) <=> h.active)
  BY <1>4, <1>5, HostKeysType, TransitionFollows
<1>7. AgreeBut(center, c, HostKeys) /\ \A k \in HostKeys \ {key} : Up(c, k) <=> Up(s.c, k)
  BY <1>6, OneHostKey DEF PollInv, HostKeys
<1> HIDE DEF c
<1>8. /\ d \in CounterStates /\ d.h = h /\ d.prev = mic.dropped /\ d.gen = s.dev.gen /\ d.ov = s.dev.ov
      /\ d.ovPrev = s.dev.ovPrev /\ d.unlogged = s.dev.unlogged /\ d.episode = s.dev.episode /\ d.logAt = s.dev.logAt
  <2>1. mic.dropped \in Nat
    BY DEF MicType
  <2> QED
    BY <1>2, <1>3, <2>1 DEF CounterStates
<1> HIDE DEF d, r
<1>9. DOMAIN r = DOMAIN s /\ r.c = c /\ r.cond = s.cond /\ r.dev = d /\ r.told = s.told
  BY <1>1 DEF PollInv
<1>10. d # None
  BY <1>8, NoneAssumption
<1>11. Trouble(c, s.cond, d)
  BY <1>6, <1>7, <1>8, <1>10 DEF Trouble, PollInv, HostKeys
<1> QED
  BY <1>6, <1>7, <1>8, <1>9, <1>10, <1>11 DEF PollInv, r

\* Overruns that belong to no episode go to a line, or wait for the next one.
LEMMA LogOverrunsKeeps ==
    ASSUME NEW s, DOMAIN s = {"c", "cond", "dev", "told"}, s.dev \in CounterStates, s.told \in Int, NEW delta \in Nat
    PROVE  LET r == LogOverruns(s, delta)
           IN  /\ DOMAIN r = DOMAIN s /\ r.c = s.c /\ r.cond = s.cond /\ r.dev \in CounterStates /\ r.told \in Int
               /\ r.told + r.dev.unlogged = s.told + s.dev.unlogged + delta
               /\ r.dev.h = s.dev.h /\ r.dev.prev = s.dev.prev /\ r.dev.gen = s.dev.gen /\ r.dev.ovPrev = s.dev.ovPrev
               /\ r.dev.ov = s.dev.ov /\ r.dev.episode = s.dev.episode
<1> DEFINE owed == s.dev.unlogged + delta
           r == LogOverruns(s, delta)
<1>1. owed \in Nat /\ s.dev.unlogged \in Nat
  BY DEF CounterStates
<1>2. \/ owed = 0 /\ r = s
      \/ r = [s EXCEPT !.told = @ + owed, !.dev = [s.dev EXCEPT !.unlogged = 0, !.logAt = 0]]
      \/ r = [s EXCEPT !.dev = [s.dev EXCEPT !.unlogged = owed]]
  BY DEF LogOverruns
<1>3. owed = s.dev.unlogged + delta
  OBVIOUS
<1> HIDE DEF owed
<1>4. CASE owed = 0 /\ r = s
  <2>1. s.dev.unlogged = 0 /\ delta = 0
    BY <1>1, <1>3, <1>4
  <2> QED
    BY <1>4, <2>1
<1>5. CASE r = [s EXCEPT !.told = @ + owed, !.dev = [s.dev EXCEPT !.unlogged = 0, !.logAt = 0]]
  <2> DEFINE d == [s.dev EXCEPT !.unlogged = 0, !.logAt = 0]
  <2>1. /\ d \in CounterStates /\ d.unlogged = 0 /\ d.h = s.dev.h /\ d.prev = s.dev.prev /\ d.gen = s.dev.gen
        /\ d.ovPrev = s.dev.ovPrev /\ d.ov = s.dev.ov /\ d.episode = s.dev.episode
    BY DEF CounterStates
  <2> HIDE DEF d, r
  <2>2. DOMAIN r = DOMAIN s /\ r.c = s.c /\ r.cond = s.cond /\ r.told = s.told + owed /\ r.dev = d
    BY <1>5 DEF d
  <2>3. s.dev.unlogged \in Int
    BY DEF CounterStates
  <2> QED
    BY <1>1, <1>3, <2>1, <2>2, <2>3 DEF r
<1>6. CASE r = [s EXCEPT !.dev = [s.dev EXCEPT !.unlogged = owed]]
  <2> DEFINE d == [s.dev EXCEPT !.unlogged = owed]
  <2>1. /\ d \in CounterStates /\ d.unlogged = owed /\ d.h = s.dev.h /\ d.prev = s.dev.prev /\ d.gen = s.dev.gen
        /\ d.ovPrev = s.dev.ovPrev /\ d.ov = s.dev.ov /\ d.episode = s.dev.episode
    BY <1>1 DEF CounterStates
  <2> HIDE DEF d, r
  <2>2. DOMAIN r = DOMAIN s /\ r.c = s.c /\ r.cond = s.cond /\ r.told = s.told /\ r.dev = d
    BY <1>6 DEF d
  <2>3. s.dev.unlogged \in Int
    BY DEF CounterStates
  <2> QED
    BY <1>1, <1>3, <2>1, <2>2, <2>3 DEF r
<1> QED
  BY <1>2, <1>4, <1>5, <1>6 DEF r

\* The overruns since the last poll: all of them are told or owed, and a
\* detector that is active at the end had its condition raised.
LEMMA ObserveOverrunsKeeps ==
    ASSUME NEW s, PollInv(s), s.dev # None, OneAccount(s.dev), NEW restarted \in BOOLEAN, MicType,
           ~restarted => s.dev.ovPrev <= mic.overruns
    PROVE  LET r == ObserveOverruns(s, restarted)
               delta == IF restarted THEN mic.overruns ELSE mic.overruns - s.dev.ovPrev
           IN  /\ PollInv(r) /\ r.dev # None /\ OneAccount(r.dev)
               /\ r.told + Owed(r.dev) = s.told + Owed(s.dev) + delta
               /\ r.dev.prev = s.dev.prev /\ r.dev.gen = s.dev.gen /\ r.dev.ovPrev = mic.overruns
<1> DEFINE key == "device:overruns"
           delta == IF restarted THEN mic.overruns ELSE mic.overruns - s.dev.ovPrev
           swept == FlapSweep(s.dev.ov, OverrunClearAfter)
           cleared == s.dev.ov.active /\ ~swept.active
           c1 == IF cleared THEN Clear(s.c, key) ELSE s.c
           told1 == s.told + IF cleared THEN s.dev.episode ELSE 0
           episode1 == IF cleared THEN 0 ELSE s.dev.episode
           d1 == [s.dev EXCEPT !.ovPrev = mic.overruns, !.episode = episode1]
           s1 == [s EXCEPT !.c = c1, !.told = told1, !.dev = d1]
           ov == FlapEvents(swept, delta)
           d2 == [d1 EXCEPT !.ov = ov]
           s2 == [s1 EXCEPT !.dev = d2]
           r == ObserveOverruns(s, restarted)
<1>1. s.dev \in CounterStates /\ s.dev.ov \in Flaps /\ s.dev.episode \in Nat /\ s.dev.unlogged \in Nat /\ s.dev.ovPrev \in Nat /\ s.told \in Int
  BY DEF PollInv, CounterStates
<1>2. delta \in Nat /\ mic.overruns \in Nat
  BY <1>1 DEF MicType
<1>3. \/ ~swept.active /\ ov.active /\ r = [s2 EXCEPT !.c = Onset(s2.c, key, None), !.told = s2.told + s.dev.unlogged,
                        !.dev = [s2.dev EXCEPT !.unlogged = 0, !.logAt = None, !.episode = delta]]
      \/ swept.active /\ ov.active /\ r = [s2 EXCEPT !.dev.episode = @ + delta]
      \/ ~ov.active /\ r = LogOverruns(s2, delta)
  BY ZenonT(60) DEF ObserveOverruns
<1>4. swept \in Flaps /\ (swept = s.dev.ov \/ ~swept.active) /\ (swept.active => ~QuietGapElapsed(swept, OverrunClearAfter))
  BY <1>1, NoFlapType DEF FlapSweep
<1> HIDE DEF delta, swept
<1>5. ov \in Flaps /\ (swept.active => ov.active)
  BY <1>2, <1>4, RousedByEvents DEF Roused
<1>6. swept.active \in BOOLEAN /\ s.dev.ov.active \in BOOLEAN /\ ov.active \in BOOLEAN
  BY <1>1, <1>4, <1>5 DEF Flaps
<1> HIDE DEF ov
<1>7. CenterInv(c1) /\ AgreeBut(s.c, c1, {key}) /\ (Up(c1, key) <=> swept.active)
  <2>1. CenterInv(s.c) /\ (Up(s.c, key) <=> s.dev.ov.active)
    BY DEF PollInv, Trouble
  <2>2. CASE cleared
    BY <2>1, <2>2, HostKeysType, ClearEnds
  <2>3. CASE ~cleared
    BY <1>4, <2>1, <2>3 DEF AgreeBut
  <2> QED
    BY <2>2, <2>3
<1>8. /\ told1 \in Int /\ episode1 \in Nat
      /\ ~swept.active => episode1 = 0 /\ told1 = s.told + s.dev.episode
      /\ swept.active => s.dev.unlogged = 0 /\ episode1 = s.dev.episode /\ told1 = s.told
  BY <1>1, <1>4, <1>6 DEF OneAccount
<1> HIDE DEF cleared, c1, told1, episode1
<1>9. /\ d2 \in CounterStates /\ d2.h = s.dev.h /\ d2.prev = s.dev.prev /\ d2.gen = s.dev.gen /\ d2.ovPrev = mic.overruns
      /\ d2.ov = ov /\ d2.unlogged = s.dev.unlogged /\ d2.episode = episode1
  BY <1>1, <1>2, <1>5, <1>8 DEF CounterStates
<1>10. DOMAIN s2 = {"c", "cond", "dev", "told"} /\ s2.c = c1 /\ s2.cond = s.cond /\ s2.dev = d2 /\ s2.told = told1
  BY DEF PollInv
<1>11. s.cond \in [h : Hystereses, lastOK : Nat \cup {None}]
  BY DEF PollInv
<1> HIDE DEF d1, d2, s1, s2, r
<1>12. ASSUME NEW c, NEW d, NEW told, DOMAIN r = {"c", "cond", "dev", "told"}, r.c = c, r.cond = s.cond, r.dev = d, r.told = told,
              CenterInv(c), AgreeBut(s.c, c, {key}), Up(c, key) <=> ov.active,
              d \in CounterStates, d.h = s.dev.h, d.prev = s.dev.prev, d.gen = s.dev.gen, d.ovPrev = mic.overruns, d.ov = ov,
              IF ov.active THEN d.unlogged = 0 ELSE d.episode = 0,
              told \in Int, told + d.unlogged + d.episode = s.told + s.dev.unlogged + s.dev.episode + delta
       PROVE  /\ PollInv(r) /\ r.dev # None /\ OneAccount(r.dev)
              /\ r.told + Owed(r.dev) = s.told + Owed(s.dev) + delta
              /\ r.dev.prev = s.dev.prev /\ r.dev.gen = s.dev.gen /\ r.dev.ovPrev = mic.overruns
  <2>1. AgreeBut(center, c, HostKeys) /\ \A k \in HostKeys \ {key} : Up(c, k) <=> Up(s.c, k)
    BY <1>12, OneHostKey DEF PollInv, HostKeys
  <2>2. d # None /\ d.unlogged \in Int /\ d.episode \in Int
    BY <1>12, NoneAssumption DEF CounterStates
  <2>3. Trouble(c, s.cond, d)
    BY <1>12, <2>1, <2>2 DEF Trouble, PollInv, HostKeys
  <2>4. PollInv(r)
    BY <1>11, <1>12, <2>1, <2>3 DEF PollInv
  <2>5. OneAccount(r.dev)
    BY <1>12 DEF OneAccount
  <2>6. r.told + Owed(r.dev) = s.told + Owed(s.dev) + delta
    BY <1>1, <1>2, <1>12, <2>2 DEF Owed
  <2> QED
    BY <1>12, <2>2, <2>4, <2>5, <2>6
<1>13. CASE ~swept.active /\ ov.active /\ r = [s2 EXCEPT !.c = Onset(s2.c, key, None), !.told = s2.told + s.dev.unlogged,
                        !.dev = [s2.dev EXCEPT !.unlogged = 0, !.logAt = None, !.episode = delta]]
  <2> DEFINE c == Onset(s2.c, key, None)
             told == s2.told + s.dev.unlogged
             d == [s2.dev EXCEPT !.unlogged = 0, !.logAt = None, !.episode = delta]
  <2>1. CenterInv(c) /\ AgreeBut(s.c, c, {key}) /\ Up(c, key)
    <3>1. CenterInv(c) /\ AgreeBut(c1, c, {key}) /\ Up(c, key)
      BY <1>7, <1>10, HostKeysType, OnsetRaises
    <3> QED
      BY <1>7, <3>1 DEF AgreeBut
  <2>2. /\ d \in CounterStates /\ d.h = s.dev.h /\ d.prev = s.dev.prev /\ d.gen = s.dev.gen /\ d.ovPrev = mic.overruns
        /\ d.ov = ov /\ d.unlogged = 0 /\ d.episode = delta
    BY <1>2, <1>9, <1>10 DEF CounterStates
  <2>3. told \in Int /\ told = s.told + s.dev.episode + s.dev.unlogged
    BY <1>1, <1>8, <1>10, <1>13
  <2>4. r = [s2 EXCEPT !.c = c, !.told = told, !.dev = d]
    BY <1>13
  <2> HIDE DEF c, told, d
  <2>5. DOMAIN r = {"c", "cond", "dev", "told"} /\ r.c = c /\ r.cond = s.cond /\ r.dev = d /\ r.told = told
    BY <1>10, <2>4
  <2>6. told + d.unlogged + d.episode = s.told + s.dev.unlogged + s.dev.episode + delta
    BY <1>1, <1>2, <2>2, <2>3
  <2>7. IF ov.active THEN d.unlogged = 0 ELSE d.episode = 0
    BY <1>13, <2>2
  <2> QED
    BY <1>12, <1>13, <2>1, <2>2, <2>3, <2>5, <2>6, <2>7 DEF r, delta
<1>14. CASE swept.active /\ ov.active /\ r = [s2 EXCEPT !.dev.episode = @ + delta]
  <2> DEFINE d == [d2 EXCEPT !.episode = episode1 + delta]
  <2>1. /\ d \in CounterStates /\ d.h = s.dev.h /\ d.prev = s.dev.prev /\ d.gen = s.dev.gen /\ d.ovPrev = mic.overruns
        /\ d.ov = ov /\ d.unlogged = s.dev.unlogged /\ d.episode = episode1 + delta
    BY <1>2, <1>8, <1>9 DEF CounterStates
  <2>2. r = [s2 EXCEPT !.dev = d]
    BY <1>9, <1>10, <1>14
  <2> HIDE DEF d
  <2>3. DOMAIN r = {"c", "cond", "dev", "told"} /\ r.c = c1 /\ r.cond = s.cond /\ r.dev = d /\ r.told = told1
    BY <1>10, <2>2
  <2>4. told1 + d.unlogged + d.episode = s.told + s.dev.unlogged + s.dev.episode + delta
    BY <1>1, <1>2, <1>8, <1>14, <2>1
  <2>5. IF ov.active THEN d.unlogged = 0 ELSE d.episode = 0
    BY <1>8, <1>14, <2>1
  <2>6. Up(c1, key) <=> ov.active
    BY <1>7, <1>14
  <2> QED
    BY <1>7, <1>8, <1>12, <2>1, <2>3, <2>4, <2>5, <2>6 DEF r, delta
<1>15. CASE ~ov.active /\ r = LogOverruns(s2, delta)
  <2>1. ~swept.active
    BY <1>5, <1>15
  <2>2. /\ DOMAIN r = {"c", "cond", "dev", "told"} /\ r.c = c1 /\ r.cond = s.cond /\ r.dev \in CounterStates /\ r.told \in Int
        /\ r.told + r.dev.unlogged = told1 + s.dev.unlogged + delta
        /\ r.dev.h = s.dev.h /\ r.dev.prev = s.dev.prev /\ r.dev.gen = s.dev.gen /\ r.dev.ovPrev = mic.overruns
        /\ r.dev.ov = ov /\ r.dev.episode = 0
    <3>1. delta \in Nat /\ s2.dev \in CounterStates /\ s2.told \in Int
      BY <1>2, <1>8, <1>9, <1>10
    <3> QED
      BY SMTT(60), <1>8, <1>9, <1>10, <1>15, <2>1, <3>1, LogOverrunsKeeps
  <2>3. r.dev.unlogged \in Int
    BY <2>2 DEF CounterStates
  <2>4. r.told + r.dev.unlogged + r.dev.episode = s.told + s.dev.unlogged + s.dev.episode + delta
    BY <1>1, <1>2, <1>8, <2>1, <2>2, <2>3
  <2>5. IF ov.active THEN r.dev.unlogged = 0 ELSE r.dev.episode = 0
    BY <1>15, <2>2
  <2>6. Up(c1, key) <=> ov.active
    BY <1>7, <1>15, <2>1
  <2> QED
    BY <1>7, <1>12, <2>2, <2>4, <2>5, <2>6 DEF r, delta
<1> QED
  BY <1>3, <1>13, <1>14, <1>15 DEF r, delta

\* What a device's state still owes is told when it is dropped, and its
\* conditions are ended.
LEMMA EndDeviceSettles ==
    ASSUME NEW s, PollInv(s), s.dev # None, OneAccount(s.dev)
    PROVE  LET r == EndDevice(s)
           IN  PollInv(r) /\ r.dev = None /\ r.cond = s.cond /\ r.told = s.told + Owed(s.dev)
<1> DEFINE c1 == IF s.dev.h.active THEN Resolve(s.c, "stream:drops") ELSE s.c
           c2 == IF s.dev.ov.active THEN Resolve(c1, "device:overruns") ELSE c1
           told == s.told + IF s.dev.ov.active THEN s.dev.episode ELSE s.dev.unlogged
           r == EndDevice(s)
<1>1. s.dev \in CounterStates /\ s.dev.unlogged \in Nat /\ s.dev.episode \in Nat /\ s.told \in Int /\ s.dev.ov.active \in BOOLEAN
  BY DEF PollInv, CounterStates, Flaps
<1>2. r = [[s EXCEPT !.told = told] EXCEPT !.c = c2, !.dev = None]
  BY DEF EndDevice, EndOverruns
<1>3. told \in Int /\ told = s.told + Owed(s.dev)
  BY <1>1 DEF Owed, OneAccount
<1>4. CenterInv(s.c) /\ (Up(s.c, "stream:drops") <=> s.dev.h.active) /\ (Up(s.c, "device:overruns") <=> s.dev.ov.active)
  BY DEF PollInv, Trouble
<1>5. CenterInv(c1) /\ AgreeBut(s.c, c1, {"stream:drops"}) /\ ~Up(c1, "stream:drops")
  BY <1>4, HostKeysType, EndIfHeld
<1> HIDE DEF c1
<1>6. /\ AgreeBut(center, c1, HostKeys)
      /\ (Up(c1, "device:overruns") <=> Up(s.c, "device:overruns")) /\ (Up(c1, "system") <=> Up(s.c, "system"))
  BY <1>5, OneHostKey DEF PollInv, HostKeys
<1>7. CenterInv(c2) /\ AgreeBut(c1, c2, {"device:overruns"}) /\ ~Up(c2, "device:overruns")
  BY <1>4, <1>5, <1>6, HostKeysType, EndIfHeld
<1> HIDE DEF c2
<1>8. /\ AgreeBut(center, c2, HostKeys)
      /\ (Up(c2, "stream:drops") <=> Up(c1, "stream:drops")) /\ (Up(c2, "system") <=> Up(c1, "system"))
  BY <1>6, <1>7, OneHostKey DEF HostKeys
<1> HIDE DEF told, r
<1>9. DOMAIN r = DOMAIN s /\ r.c = c2 /\ r.cond = s.cond /\ r.dev = None /\ r.told = told
  BY <1>2 DEF PollInv
<1>10. PollInv(r)
  BY <1>3, <1>5, <1>6, <1>7, <1>8, <1>9 DEF PollInv, Trouble
<1> QED
  BY <1>3, <1>9, <1>10 DEF r

\* Turning the monitors off ends everything that is held.
LEMMA HostResolveAllSettles ==
    ASSUME NEW s, PollInv(s), OneAccount(s.dev)
    PROVE  LET r == HostResolveAll(s)
           IN  PollInv(r) /\ r.dev = None /\ ~r.cond.h.active /\ r.told = s.told + Owed(s.dev)
<1> DEFINE key == "system"
           c1 == IF s.cond.h.active THEN Resolve(s.c, key) ELSE s.c
           s1 == [s EXCEPT !.c = c1, !.cond = NoHostCond]
<1>1. HostResolveAll(s) = IF s.dev = None THEN s1 ELSE EndDevice(s1)
  BY DEF HostResolveAll
<1>2. CenterInv(c1) /\ AgreeBut(s.c, c1, {key}) /\ ~Up(c1, key)
  BY HostKeysType, EndIfHeld DEF PollInv, Trouble
<1> HIDE DEF c1
<1>3. AgreeBut(center, c1, HostKeys) /\ \A k \in HostKeys \ {key} : Up(c1, k) <=> Up(s.c, k)
  BY <1>2, OneHostKey DEF PollInv, HostKeys
<1>4. DOMAIN s1 = DOMAIN s /\ s1.c = c1 /\ s1.cond = NoHostCond /\ s1.dev = s.dev /\ s1.told = s.told
  BY DEF PollInv
<1> HIDE DEF s1
<1>5. Trouble(s1.c, s1.cond, s1.dev)
  BY <1>2, <1>3, <1>4, NoHostCondType DEF Trouble, PollInv, HostKeys
<1>6. PollInv(s1)
  BY <1>2, <1>3, <1>4, <1>5, NoHostCondType DEF PollInv
<1>7. CASE s.dev = None
  <2>1. s.told \in Int
    BY DEF PollInv
  <2> QED
    BY <1>1, <1>4, <1>6, <1>7, <2>1, NoHostCondType DEF Owed
<1>8. CASE s.dev # None
  BY <1>1, <1>4, <1>6, <1>8, NoHostCondType, EndDeviceSettles
<1> QED
  BY <1>7, <1>8

\* A device's counters are behind those of its runtime, if they are of it.
Behind(d) ==
    d # None => /\ d.gen <= mic.gen
                /\ (mic.serving /\ d.gen = mic.gen) => d.prev <= mic.dropped /\ d.ovPrev <= mic.overruns

\* The overruns of a device no poll has seen; UnseenBy(host.dev) is Unseen.
UnseenBy(d) ==
    IF ~mic.serving THEN 0 ELSE IF d = None THEN mic.untold
    ELSE IF d.gen = mic.gen THEN mic.overruns - d.ovPrev ELSE mic.overruns

LEMMA NewCounterStateType ==
    ASSUME MicType
    PROVE  LET d == NewCounterState
           IN  /\ d \in CounterStates /\ ~d.h.active /\ ~d.ov.active /\ d.unlogged = 0 /\ d.episode = 0
               /\ d.prev = mic.dropped /\ d.gen = mic.gen /\ d.ovPrev = mic.overruns
<1> DEFINE logAt == IF mic.overruns > 0 THEN 0 ELSE None
<1>1. logAt \in Nat \cup {None} /\ mic.dropped \in Nat /\ mic.gen \in Nat /\ mic.overruns \in Nat
  BY DEF MicType
<1>2. NewCounterState = [h |-> NoHysteresis, prev |-> mic.dropped, prevAt |-> 0, gen |-> mic.gen, missed |-> 0, ovPrev |-> mic.overruns,
     ov |-> NoFlap, logAt |-> logAt, unlogged |-> 0, episode |-> 0]
  BY DEF NewCounterState
<1> HIDE DEF logAt
<1> QED
  BY <1>1, <1>2, NoHysteresisType, NoFlapType DEF CounterStates

\* The counters of a poll: what was unseen is told, or owed.
LEMMA EvaluateCountersKeeps ==
    ASSUME NEW s, PollInv(s), OneAccount(s.dev), Behind(s.dev), MicType,
           s.told = 0, mic.untold = UnseenBy(s.dev) + Owed(s.dev)
    PROVE  LET r == EvaluateCounters(s)
           IN  /\ PollInv(r) /\ OneAccount(r.dev) /\ Behind(r.dev)
               /\ r.dev # None /\ mic.serving => r.dev.gen = mic.gen /\ r.dev.ovPrev = mic.overruns
               /\ r.dev # None \/ ~mic.serving => mic.untold = r.told + Owed(r.dev)
<1> DEFINE d == CounterOlder(s.dev)
           restarted == mic.gen # d.gen \/ mic.dropped < d.prev \/ mic.overruns < d.ovPrev
           r == EvaluateCounters(s)
<1>1. mic.serving \in BOOLEAN /\ mic.gen \in Nat /\ mic.dropped \in Nat /\ mic.overruns \in Nat /\ mic.untold \in Int
  BY DEF MicType
<1>2. CASE s.dev = None /\ mic.serving
  <2> DEFINE n == NewCounterState
  <2>1. r = [s EXCEPT !.dev = n, !.told = mic.untold]
    BY <1>2 DEF EvaluateCounters
  <2>2. /\ n \in CounterStates /\ ~n.h.active /\ ~n.ov.active /\ n.unlogged = 0 /\ n.episode = 0
        /\ n.prev = mic.dropped /\ n.gen = mic.gen /\ n.ovPrev = mic.overruns
    BY NewCounterStateType
  <2> HIDE DEF n, r
  <2>3. DOMAIN r = DOMAIN s /\ r.c = s.c /\ r.cond = s.cond /\ r.dev = n /\ r.told = mic.untold
    BY <2>1 DEF PollInv
  <2>4. n # None
    BY <2>2, NoneAssumption
  <2>5. Trouble(r.c, r.cond, r.dev)
    BY <1>2, <2>2, <2>3 DEF Trouble, PollInv
  <2>6. PollInv(r)
    BY <1>1, <2>2, <2>3, <2>5 DEF PollInv
  <2>7. Owed(r.dev) = 0
    BY <2>2, <2>3, <2>4 DEF Owed
  <2> QED
    BY <1>1, <1>2, <2>2, <2>3, <2>4, <2>6, <2>7 DEF OneAccount, Behind, r
<1>3. CASE s.dev = None /\ ~mic.serving
  <2>1. r = s
    BY <1>3 DEF EvaluateCounters
  <2> HIDE DEF r
  <2> QED
    BY <1>1, <1>3, <2>1 DEF UnseenBy, Owed, r
<1>4. ASSUME s.dev # None
      PROVE  /\ d \in CounterStates /\ d.h.active = s.dev.h.active /\ d.ov.active = s.dev.ov.active
             /\ d.prev = s.dev.prev /\ d.gen = s.dev.gen /\ d.ovPrev = s.dev.ovPrev
             /\ d.unlogged = s.dev.unlogged /\ d.episode = s.dev.episode
             /\ d.missed \in Nat /\ d.h \in Hystereses
  <2>1. s.dev \in CounterStates
    BY <1>4 DEF PollInv
  <2>2. d \in CounterStates /\ d.h.active = s.dev.h.active /\ d.ov.active = s.dev.ov.active
        /\ d.prev = s.dev.prev /\ d.gen = s.dev.gen /\ d.ovPrev = s.dev.ovPrev
        /\ d.unlogged = s.dev.unlogged /\ d.episode = s.dev.episode
    BY <2>1, CounterOlderType
  <2> HIDE DEF d
  <2> QED
    BY <2>2 DEF CounterStates
<1>5. CASE s.dev # None /\ mic.serving
  <2> DEFINE e == [d EXCEPT !.missed = 0, !.gen = mic.gen]
             t == [s EXCEPT !.dev = e]
             u == ObserveDrops(t, restarted)
  <2>1. r = ObserveOverruns(u, restarted)
    BY <1>5 DEF EvaluateCounters
  <2> HIDE DEF d
  <2>17. /\ DOMAIN e = DOMAIN d /\ e.missed = 0 /\ e.gen = mic.gen /\ e.h = d.h /\ e.ov = d.ov /\ e.prev = d.prev /\ e.prevAt = d.prevAt
         /\ e.ovPrev = d.ovPrev /\ e.unlogged = d.unlogged /\ e.episode = d.episode /\ e.logAt = d.logAt
    BY <1>4, <1>5 DEF CounterStates
  <2>18. e \in CounterStates
    <3>1. mic.gen \in Nat /\ d \in CounterStates
      BY <1>1, <1>4, <1>5
    <3> QED
      BY <3>1 DEF CounterStates
  <2>2. /\ e \in CounterStates /\ e.h = d.h /\ e.ov = d.ov /\ e.prev = s.dev.prev /\ e.gen = mic.gen /\ e.ovPrev = s.dev.ovPrev
        /\ e.unlogged = s.dev.unlogged /\ e.episode = s.dev.episode
    BY <1>4, <1>5, <2>17, <2>18
  <2> HIDE DEF e
  <2>3. DOMAIN t = DOMAIN s /\ t.c = s.c /\ t.cond = s.cond /\ t.dev = e /\ t.told = s.told
    BY DEF PollInv
  <2>4. e # None
    BY <2>2, NoneAssumption
  <2> HIDE DEF t
  <2>5. Trouble(t.c, t.cond, t.dev)
    BY <1>4, <1>5, <2>2, <2>3, <2>4 DEF Trouble, PollInv
  <2>6. PollInv(t)
    BY <2>2, <2>3, <2>5 DEF PollInv
  <2>7. restarted \in BOOLEAN
    OBVIOUS
  <2>8. restarted <=> mic.gen # s.dev.gen
    <3>1. d.prev = s.dev.prev /\ d.gen = s.dev.gen /\ d.ovPrev = s.dev.ovPrev /\ s.dev \in CounterStates
      BY <1>4, <1>5 DEF PollInv
    <3>2. s.dev.prev \in Nat /\ s.dev.ovPrev \in Nat
      BY <3>1 DEF CounterStates
    <3>3. mic.gen = s.dev.gen => s.dev.prev <= mic.dropped /\ s.dev.ovPrev <= mic.overruns
      BY <1>5 DEF Behind
    <3> QED
      BY <1>1, <3>1, <3>2, <3>3
  <2>9. ~restarted => s.dev.ovPrev <= mic.overruns
    BY <1>5, <2>8 DEF Behind
  <2> HIDE DEF restarted
  <2>10. /\ PollInv(u) /\ u.dev # None /\ u.told = s.told
         /\ u.dev.prev = mic.dropped /\ u.dev.gen = mic.gen /\ u.dev.ov = d.ov /\ u.dev.ovPrev = s.dev.ovPrev
         /\ u.dev.unlogged = s.dev.unlogged /\ u.dev.episode = s.dev.episode
    BY <2>2, <2>3, <2>4, <2>6, <2>7, ObserveDropsKeeps
  <2> HIDE DEF u
  <2>11. OneAccount(u.dev) /\ Owed(u.dev) = Owed(s.dev)
    BY <1>4, <1>5, <2>10 DEF OneAccount, Owed
  <2> DEFINE delta == IF restarted THEN mic.overruns ELSE mic.overruns - s.dev.ovPrev
  <2>12. /\ PollInv(r) /\ r.dev # None /\ OneAccount(r.dev)
         /\ r.told + Owed(r.dev) = u.told + Owed(u.dev) + delta
         /\ r.dev.prev = mic.dropped /\ r.dev.gen = mic.gen /\ r.dev.ovPrev = mic.overruns
    BY <2>1, <2>7, <2>9, <2>10, <2>11, ObserveOverrunsKeeps
  <2>13. delta = UnseenBy(s.dev)
    BY <1>5, <2>8 DEF UnseenBy
  <2>14. Owed(s.dev) \in Int /\ delta \in Int
    BY <1>1, <1>4, <1>5 DEF Owed, CounterStates, PollInv
  <2> HIDE DEF delta, r
  <2>15. mic.untold = r.told + Owed(r.dev)
    BY <2>10, <2>11, <2>12, <2>13, <2>14
  <2>16. Behind(r.dev)
    BY <1>1, <2>12 DEF Behind
  <2> QED
    BY <2>12, <2>15, <2>16 DEF r
<1>6. CASE s.dev # None /\ ~mic.serving /\ d.missed + 1 >= DevicePresenceGrace
  <2> DEFINE t == [s EXCEPT !.dev = d]
  <2>1. r = EndDevice(t)
    BY <1>6 DEF EvaluateCounters
  <2> HIDE DEF d
  <2>2. DOMAIN t = DOMAIN s /\ t.c = s.c /\ t.cond = s.cond /\ t.dev = d /\ t.told = s.told
    BY DEF PollInv
  <2> HIDE DEF t
  <2>3. d # None
    BY <1>4, <1>6, NoneAssumption
  <2>4. Trouble(t.c, t.cond, t.dev)
    BY <1>4, <1>6, <2>2, <2>3 DEF Trouble, PollInv
  <2>5. PollInv(t)
    BY <1>4, <1>6, <2>2, <2>4 DEF PollInv
  <2>6. OneAccount(t.dev) /\ Owed(t.dev) = Owed(s.dev)
    BY <1>4, <1>6, <2>2, <2>3 DEF OneAccount, Owed
  <2>7. PollInv(r) /\ r.dev = None /\ r.told = t.told + Owed(t.dev)
    BY <2>1, <2>2, <2>3, <2>5, <2>6, EndDeviceSettles
  <2>8. Owed(s.dev) \in Int
    BY <1>4, <1>6 DEF Owed, CounterStates, PollInv
  <2> HIDE DEF r
  <2>9. mic.untold = r.told + Owed(r.dev)
    BY <1>6, <2>2, <2>6, <2>7, <2>8 DEF Owed, UnseenBy
  <2> QED
    BY <2>7, <2>9 DEF OneAccount, Behind, r
<1>7. CASE s.dev # None /\ ~mic.serving /\ ~(d.missed + 1 >= DevicePresenceGrace)
  <2> DEFINE h == IF d.h.active THEN d.h ELSE NoHysteresis
             missed == d.missed + 1
             e == [d EXCEPT !.missed = missed, !.h = h]
  <2>1. r = [s EXCEPT !.dev = e]
    BY <1>7 DEF EvaluateCounters
  <2> HIDE DEF d
  <2>2. h \in Hystereses /\ (h.active <=> d.h.active)
    BY <1>4, <1>7, NoHysteresisType
  <2> HIDE DEF h
  <2>10. missed \in Nat
    BY <1>4, <1>7
  <2> HIDE DEF missed
  <2>11. d \in CounterStates /\ d.prev = s.dev.prev /\ d.gen = s.dev.gen /\ d.ovPrev = s.dev.ovPrev
         /\ d.unlogged = s.dev.unlogged /\ d.episode = s.dev.episode
    BY <1>4, <1>7
  <2>12. e \in CounterStates
    BY <2>2, <2>10, <2>11 DEF CounterStates
  <2>3. /\ e \in CounterStates /\ e.h = h /\ e.ov = d.ov /\ e.prev = s.dev.prev /\ e.gen = s.dev.gen /\ e.ovPrev = s.dev.ovPrev
        /\ e.unlogged = s.dev.unlogged /\ e.episode = s.dev.episode
    BY <2>11, <2>12 DEF CounterStates
  <2> HIDE DEF e, r
  <2>4. DOMAIN r = DOMAIN s /\ r.c = s.c /\ r.cond = s.cond /\ r.dev = e /\ r.told = s.told
    BY <2>1 DEF PollInv
  <2>5. e # None
    BY <2>3, NoneAssumption
  <2>6. Trouble(r.c, r.cond, r.dev)
    BY <1>4, <1>7, <2>2, <2>3, <2>4, <2>5 DEF Trouble, PollInv
  <2>7. PollInv(r)
    BY <2>3, <2>4, <2>6 DEF PollInv
  <2>8. OneAccount(r.dev) /\ Owed(r.dev) = Owed(s.dev) /\ Behind(r.dev)
    BY <1>4, <1>7, <2>3, <2>4, <2>5 DEF OneAccount, Owed, Behind
  <2>9. Owed(s.dev) \in Int
    BY <1>4, <1>7 DEF Owed, CounterStates, PollInv
  <2> QED
    BY <1>7, <2>4, <2>7, <2>8, <2>9 DEF UnseenBy, r
<1> QED
  BY <1>1, <1>2, <1>3, <1>5, <1>6, <1>7

HostType ==
    /\ DOMAIN host = {"set", "applied", "done", "kind", "reads", "reading", "cond", "dev"}
    /\ host.set \in Settings /\ host.applied \in Settings \cup {None}
    /\ host.done \in BOOLEAN /\ host.kind \in {"level", "memory"}
    /\ host.cond \in [h : Hystereses, lastOK : Nat \cup {None}] /\ host.dev \in CounterStates \cup {None}

\* A condition is up exactly while the host's or the device's state holds it,
\* and nothing is held against the settings a poll has seen.
HostInv ==
    /\ HostType
    /\ Trouble(center, host.cond, host.dev)
    /\ (host.applied # None /\ ~host.applied.on) => ~host.cond.h.active /\ host.dev = None
    /\ "host" \notin parts => ~host.cond.h.active /\ host.dev = None

\* What is untold is what no poll has seen, and what the counters owe.
OwedInv ==
    /\ OneAccount(host.dev) /\ Behind(host.dev)
    /\ mic.untold = UnseenBy(host.dev) + IF host.done THEN 0 ELSE Owed(host.dev)

LEMMA OwedType ==
    ASSUME MicType, HostType
    PROVE  UnseenBy(host.dev) \in Int /\ Owed(host.dev) \in Nat
<1>1. mic.serving \in BOOLEAN /\ mic.gen \in Nat /\ mic.overruns \in Nat /\ mic.untold \in Int
  BY DEF MicType
<1>2. CASE host.dev = None
  BY <1>1, <1>2 DEF UnseenBy, Owed
<1>3. CASE host.dev # None
  <2>1. host.dev \in CounterStates
    BY <1>3 DEF HostType
  <2>2. host.dev.ovPrev \in Nat /\ host.dev.unlogged \in Nat /\ host.dev.episode \in Nat
    BY <2>1 DEF CounterStates
  <2> QED
    BY <1>1, <1>3, <2>2 DEF UnseenBy, Owed
<1> QED
  BY <1>2, <1>3

\* The steps that leave the host monitor and the counters alone.
LEMMA HostElse ==
    ASSUME HostInv, host'.set \in Settings, DOMAIN host' = DOMAIN host, host'.applied = host.applied, host'.done \in BOOLEAN,
           host'.kind = host.kind, host'.cond = host.cond, host'.dev = host.dev,
           parts' = parts, AgreeBut(center, center', Keys \ HostKeys)
    PROVE  HostInv'
<1>1. \A k \in HostKeys : center'.active[k] = center.active[k]
  BY HostKeysType DEF AgreeBut
<1>2. Trouble(center', host.cond, host.dev)
  BY <1>1 DEF HostInv, Trouble, Up, HostKeys
<1>3. HostType'
  BY DEF HostInv, HostType
<1> QED
  BY <1>2, <1>3 DEF HostInv

LEMMA OwedElse ==
    ASSUME MicType, OwedInv, host'.dev = host.dev, host'.done = host.done,
           DOMAIN mic' = DOMAIN mic, mic'.serving = mic.serving, mic'.gen = mic.gen, mic'.dropped = mic.dropped,
           mic'.overruns = mic.overruns, mic'.untold = mic.untold
    PROVE  MicType' /\ OwedInv'
BY DEF MicType, OwedInv, Behind, UnseenBy

\* The runtime starts, ends, restarts, or loses something.
LEMMA RuntimeStepInv ==
    ASSUME MicType, HostType, OwedInv, RuntimeStarts \/ RuntimeEnds \/ RuntimeRestarts \/ Loses
    PROVE  MicType' /\ OwedInv' /\ mic'.tap = mic.tap /\ host' = host /\ center' = center /\ signal' = signal
<1> DEFINE u == UnseenBy(host.dev)
           d == host.dev
           o == IF host.done THEN 0 ELSE Owed(d)
<1>1. /\ mic.serving \in BOOLEAN /\ mic.gen \in Nat /\ mic.dropped \in Nat /\ mic.overruns \in Nat /\ mic.untold \in Int
      /\ DOMAIN mic = {"serving", "gen", "dropped", "overruns", "sound", "acc", "tap", "sse", "untold"}
  BY DEF MicType
<1>2. u \in Int /\ Owed(d) \in Nat /\ Unseen = u
  BY OwedType DEF Unseen, UnseenBy
<1>12. o \in Nat /\ (d = None => o = 0) /\ mic.untold = u + o
  BY <1>2 DEF OwedInv, Owed
<1>3. d # None => d.gen \in Nat /\ d.prev \in Nat /\ d.ovPrev \in Nat
  BY DEF HostType, CounterStates
<1>4. /\ OneAccount(d)
      /\ d # None => /\ d.gen <= mic.gen
                     /\ (mic.serving /\ d.gen = mic.gen) => d.prev <= mic.dropped /\ d.ovPrev <= mic.overruns
  BY DEF OwedInv, Behind
<1>6. u = IF ~mic.serving THEN 0 ELSE IF d = None THEN mic.untold
          ELSE IF d.gen = mic.gen THEN mic.overruns - d.ovPrev ELSE mic.overruns
  BY DEF UnseenBy
<1> HIDE DEF u, o
<1>7. ASSUME host' = host, DOMAIN mic' = DOMAIN mic, mic'.serving \in BOOLEAN, mic'.gen \in Nat, mic'.dropped \in Nat,
             mic'.overruns \in Nat, mic'.untold \in Int, d # None => d.gen <= mic'.gen,
             (d # None /\ mic'.serving /\ d.gen = mic'.gen) => d.prev <= mic'.dropped /\ d.ovPrev <= mic'.overruns,
             ~mic'.serving => mic'.untold = o,
             (mic'.serving /\ d # None /\ d.gen = mic'.gen) => mic'.untold = (mic'.overruns - d.ovPrev) + o,
             (mic'.serving /\ d # None /\ d.gen # mic'.gen) => mic'.untold = mic'.overruns + o
      PROVE  MicType' /\ OwedInv'
  <2>1. MicType'
    BY <1>1, <1>7 DEF MicType
  <2>2. Owed(host.dev)' = Owed(d) /\ OneAccount(host.dev)' /\ host'.done = host.done
    BY <1>4, <1>7
  <2>3. UnseenBy(host.dev)' = IF ~mic'.serving THEN 0 ELSE IF d = None THEN mic'.untold
                              ELSE IF d.gen = mic'.gen THEN mic'.overruns - d.ovPrev ELSE mic'.overruns
    BY <1>7 DEF UnseenBy
  <2>4. Behind(host.dev)'
    BY <1>7 DEF Behind
  <2>5. mic'.untold = UnseenBy(host.dev)' + o
    BY <1>3, <1>7, <1>12, <2>3
  <2>6. o = IF host'.done THEN 0 ELSE Owed(host.dev)'
    BY <2>2 DEF o
  <2> QED
    BY <2>1, <2>2, <2>4, <2>5, <2>6 DEF OwedInv
<1>8. CASE RuntimeStarts
  <2>1. ~mic.serving /\ mic' = NewRuntime(mic) /\ host' = host /\ center' = center /\ signal' = signal
    BY <1>8 DEF RuntimeStarts
  <2>2. /\ DOMAIN mic' = DOMAIN mic /\ mic'.serving /\ mic'.serving \in BOOLEAN /\ mic'.gen = mic.gen + 1 /\ mic'.dropped = 0 /\ mic'.overruns = 0
        /\ mic'.untold = mic.untold /\ mic'.tap = mic.tap
    BY <1>1, <2>1 DEF NewRuntime
  <2>3. d # None => d.gen < mic'.gen
    BY <1>1, <1>3, <1>4, <2>2
  <2>4. mic'.untold \in Int /\ mic'.gen \in Nat
    BY <1>1, <1>2, <2>2
  <2>5. /\ ~mic'.serving => mic'.untold = o
        /\ (mic'.serving /\ d # None /\ d.gen = mic'.gen) => mic'.untold = (mic'.overruns - d.ovPrev) + o
        /\ (mic'.serving /\ d # None /\ d.gen # mic'.gen) => mic'.untold = mic'.overruns + o
    BY <1>1, <1>2, <1>3, <1>4, <1>6, <1>12, <2>1, <2>2, <2>3
  <2>6. MicType' /\ OwedInv'
    <3>1. (d # None /\ mic'.serving /\ d.gen = mic'.gen) => d.prev <= mic'.dropped /\ d.ovPrev <= mic'.overruns
      BY <1>3, <2>3, <2>4
    <3>2. d # None => d.gen <= mic'.gen
      BY <1>3, <2>3, <2>4
    <3>3. /\ host' = host /\ DOMAIN mic' = DOMAIN mic /\ mic'.serving \in BOOLEAN /\ mic'.gen \in Nat /\ mic'.dropped \in Nat
          /\ mic'.overruns \in Nat /\ mic'.untold \in Int
      BY <2>1, <2>2, <2>4
    <3> QED
      BY <1>1, <1>3, <1>7, <1>12, <2>2, <2>5, <3>1, <3>2, <3>3
  <2> QED
    BY <2>1, <2>2, <2>6
<1>9. CASE RuntimeEnds
  <2>1. /\ mic.serving /\ mic' = [mic EXCEPT !.serving = FALSE, !.acc = None, !.untold = @ - Unseen, !.overruns = 0]
        /\ host' = host /\ center' = center /\ signal' = signal
    BY <1>9 DEF RuntimeEnds
  <2>2. /\ DOMAIN mic' = DOMAIN mic /\ mic'.serving = FALSE /\ mic'.gen = mic.gen /\ mic'.dropped = mic.dropped /\ mic'.overruns = 0
        /\ mic'.untold = mic.untold - u /\ mic'.tap = mic.tap
    BY <1>1, <1>2, <2>1
  <2> QED
    BY <1>1, <1>2, <1>3, <1>4, <1>6, <1>7, <1>12, <2>1, <2>2
<1>10. CASE RuntimeRestarts
  <2>1. /\ mic.serving /\ mic' = [NewRuntime(mic) EXCEPT !.untold = @ - Unseen]
        /\ host' = host /\ center' = center /\ signal' = signal
    BY <1>10 DEF RuntimeRestarts
  <2>2. /\ DOMAIN mic' = DOMAIN mic /\ mic'.serving /\ mic'.serving \in BOOLEAN /\ mic'.gen = mic.gen + 1 /\ mic'.dropped = 0 /\ mic'.overruns = 0
        /\ mic'.untold = mic.untold - u /\ mic'.tap = mic.tap
    BY <1>1, <1>2, <2>1 DEF NewRuntime
  <2>3. d # None => d.gen < mic'.gen
    BY <1>1, <1>3, <1>4, <2>2
  <2>4. mic'.untold \in Int /\ mic'.gen \in Nat
    BY <1>1, <1>2, <2>2
  <2>5. /\ ~mic'.serving => mic'.untold = o
        /\ (mic'.serving /\ d # None /\ d.gen = mic'.gen) => mic'.untold = (mic'.overruns - d.ovPrev) + o
        /\ (mic'.serving /\ d # None /\ d.gen # mic'.gen) => mic'.untold = mic'.overruns + o
    BY <1>1, <1>2, <1>3, <1>4, <1>6, <1>12, <2>1, <2>2, <2>3
  <2>6. MicType' /\ OwedInv'
    <3>1. (d # None /\ mic'.serving /\ d.gen = mic'.gen) => d.prev <= mic'.dropped /\ d.ovPrev <= mic'.overruns
      BY <1>3, <2>3, <2>4
    <3>2. d # None => d.gen <= mic'.gen
      BY <1>3, <2>3, <2>4
    <3>3. /\ host' = host /\ DOMAIN mic' = DOMAIN mic /\ mic'.serving \in BOOLEAN /\ mic'.gen \in Nat /\ mic'.dropped \in Nat
          /\ mic'.overruns \in Nat /\ mic'.untold \in Int
      BY <2>1, <2>2, <2>4
    <3> QED
      BY <1>1, <1>3, <1>7, <1>12, <2>2, <2>5, <3>1, <3>2, <3>3
  <2> QED
    BY <2>1, <2>2, <2>6
<1>11. CASE Loses
  <2>1. mic.serving /\ host' = host /\ center' = center /\ signal' = signal
    BY <1>11 DEF Loses
  <2>2. PICK n \in 1 .. OverrunOnsetCount :
            \/ mic' = [mic EXCEPT !.overruns = @ + n, !.untold = @ + n]
            \/ mic' = [mic EXCEPT !.dropped = @ + n]
    BY <1>11 DEF Loses
  <2>3. n \in Nat
    BY MonitorBounds
  <2>4. CASE mic' = [mic EXCEPT !.overruns = @ + n, !.untold = @ + n]
    <3>1. /\ DOMAIN mic' = DOMAIN mic /\ mic'.serving = mic.serving /\ mic'.gen = mic.gen /\ mic'.dropped = mic.dropped
          /\ mic'.overruns = mic.overruns + n /\ mic'.untold = mic.untold + n /\ mic'.tap = mic.tap
      BY <1>1, <2>4
    <3>2. mic'.untold \in Int /\ mic'.dropped \in Nat /\ mic'.overruns \in Nat
      BY <1>1, <2>3, <3>1
    <3>3. /\ ~mic'.serving => mic'.untold = o
          /\ (mic'.serving /\ d # None /\ d.gen = mic'.gen) => mic'.untold = (mic'.overruns - d.ovPrev) + o
          /\ (mic'.serving /\ d # None /\ d.gen # mic'.gen) => mic'.untold = mic'.overruns + o
      BY <1>1, <1>2, <1>3, <1>4, <1>6, <1>12, <2>1, <2>3, <3>1
    <3>4. (d # None /\ mic'.serving /\ d.gen = mic'.gen) => d.prev <= mic'.dropped /\ d.ovPrev <= mic'.overruns
      BY <1>1, <1>3, <1>4, <2>1, <2>3, <3>1
    <3>5. MicType' /\ OwedInv'
      BY <1>1, <1>4, <1>7, <2>1, <3>1, <3>2, <3>3, <3>4
    <3> QED
      BY <2>1, <3>1, <3>5
  <2>5. CASE mic' = [mic EXCEPT !.dropped = @ + n]
    <3>1. /\ DOMAIN mic' = DOMAIN mic /\ mic'.serving = mic.serving /\ mic'.gen = mic.gen /\ mic'.dropped = mic.dropped + n
          /\ mic'.overruns = mic.overruns /\ mic'.untold = mic.untold /\ mic'.tap = mic.tap
      BY <1>1, <2>5
    <3>2. mic'.untold \in Int /\ mic'.dropped \in Nat /\ mic'.overruns \in Nat
      BY <1>1, <2>3, <3>1
    <3>3. /\ ~mic'.serving => mic'.untold = o
          /\ (mic'.serving /\ d # None /\ d.gen = mic'.gen) => mic'.untold = (mic'.overruns - d.ovPrev) + o
          /\ (mic'.serving /\ d # None /\ d.gen # mic'.gen) => mic'.untold = mic'.overruns + o
      BY <1>1, <1>2, <1>3, <1>4, <1>6, <1>12, <2>1, <2>3, <3>1
    <3>4. (d # None /\ mic'.serving /\ d.gen = mic'.gen) => d.prev <= mic'.dropped /\ d.ovPrev <= mic'.overruns
      BY <1>1, <1>3, <1>4, <2>1, <2>3, <3>1
    <3>5. MicType' /\ OwedInv'
      BY <1>1, <1>4, <1>7, <2>1, <3>1, <3>2, <3>3, <3>4
    <3> QED
      BY <2>1, <3>1, <3>5
  <2> QED
    BY <2>2, <2>4, <2>5
<1> QED
  BY <1>8, <1>9, <1>10, <1>11

\* What a poll has come to.
PollDone(r) ==
    /\ PollInv(r) /\ OneAccount(r.dev) /\ Behind(r.dev)
    /\ ~host.set.on => ~r.cond.h.active /\ r.dev = None
    /\ r.dev # None /\ mic.serving => r.dev.gen = mic.gen /\ r.dev.ovPrev = mic.overruns
    /\ r.dev # None \/ ~mic.serving => mic.untold = r.told + Owed(r.dev)

\* A poll, whether the monitors are on, off, or turned off since the last one.
LEMMA HostPollInv ==
    ASSUME CenterInv(center), MicType, HostInv, OwedInv, HostPoll, parts' = parts
    PROVE  /\ CenterInv(center') /\ MicType' /\ HostInv' /\ OwedInv' /\ AgreeBut(center, center', HostKeys)
           /\ mic'.tap = mic.tap /\ signal' = signal
<1> DEFINE s0 == [c |-> center, cond |-> host.cond, dev |-> host.dev, told |-> 0]
           off == ~host.set.on
           s1 == IF off THEN IF host.applied = None \/ host.applied.on THEN HostResolveAll(s0) ELSE s0
                 ELSE EvaluateCounters(HostObserve(s0))
<1>1. /\ "host" \in parts /\ ~host.done /\ signal' = signal /\ center' = s1.c
      /\ host' = [host EXCEPT !.applied = host.set, !.cond = s1.cond, !.dev = s1.dev]
      /\ mic' = [mic EXCEPT !.untold = @ - s1.told]
  BY DEF HostPoll
<1>2. s0.c = center /\ s0.cond = host.cond /\ s0.dev = host.dev /\ s0.told = 0 /\ DOMAIN s0 = {"c", "cond", "dev", "told"}
  OBVIOUS
<1> HIDE DEF s0
<1>3. PollInv(s0) /\ HostType
  BY <1>2 DEF PollInv, HostInv, HostType, AgreeBut
<1>4. OneAccount(s0.dev) /\ Behind(s0.dev) /\ mic.untold = UnseenBy(s0.dev) + Owed(s0.dev)
  BY <1>1, <1>2 DEF OwedInv
<1>5. UnseenBy(s0.dev) \in Int /\ Owed(s0.dev) \in Nat /\ mic.untold \in Int /\ mic.serving \in BOOLEAN
  BY <1>2, <1>3, OwedType DEF MicType
<1>6. ASSUME off, host.applied = None \/ host.applied.on PROVE PollDone(s1)
  <2> DEFINE r == HostResolveAll(s0)
  <2>1. PollInv(r) /\ r.dev = None /\ ~r.cond.h.active /\ r.told = s0.told + Owed(s0.dev)
    BY <1>3, <1>4, HostResolveAllSettles
  <2>2. s1 = r
    BY <1>6
  <2> HIDE DEF r, s1
  <2>3. OneAccount(r.dev) /\ Behind(r.dev) /\ Owed(r.dev) = 0
    BY <2>1 DEF OneAccount, Behind, Owed
  <2>4. ~mic.serving => UnseenBy(s0.dev) = 0
    BY DEF UnseenBy
  <2>6. ~mic.serving => mic.untold = r.told + Owed(r.dev)
    BY <1>2, <1>4, <1>5, <2>1, <2>3, <2>4
  <2>5. PollDone(r)
    BY <2>1, <2>3, <2>6 DEF PollDone
  <2> QED
    BY <2>2, <2>5
<1>7. ASSUME off, ~(host.applied = None \/ host.applied.on) PROVE PollDone(s1)
  <2>1. ~s0.cond.h.active /\ s0.dev = None
    BY <1>2, <1>7 DEF HostInv
  <2>2. s1 = s0
    BY <1>7
  <2> HIDE DEF s1
  <2>3. Owed(s0.dev) = 0 /\ (~mic.serving => UnseenBy(s0.dev) = 0)
    BY <2>1 DEF Owed, UnseenBy
  <2>4. PollDone(s0)
    BY <1>2, <1>3, <1>4, <1>5, <2>1, <2>3 DEF PollDone
  <2> QED
    BY <2>2, <2>4
<1>8. ASSUME ~off PROVE PollDone(s1)
  <2> DEFINE o == HostObserve(s0)
             r == EvaluateCounters(o)
  <2>1. PollInv(o) /\ o.dev = s0.dev /\ o.told = s0.told
    BY <1>3, HostObserveKeeps
  <2>2. s1 = r
    BY <1>8
  <2> HIDE DEF o, s1
  <2>3. OneAccount(o.dev) /\ Behind(o.dev) /\ o.told = 0 /\ mic.untold = UnseenBy(o.dev) + Owed(o.dev)
    BY <1>2, <1>4, <2>1
  <2>4. /\ PollInv(r) /\ OneAccount(r.dev) /\ Behind(r.dev)
        /\ r.dev # None /\ mic.serving => r.dev.gen = mic.gen /\ r.dev.ovPrev = mic.overruns
        /\ r.dev # None \/ ~mic.serving => mic.untold = r.told + Owed(r.dev)
    BY <2>1, <2>3, EvaluateCountersKeeps
  <2> HIDE DEF r
  <2>6. host.set.on
    BY <1>8
  <2>5. PollDone(r)
    BY <2>4, <2>6 DEF PollDone
  <2> QED
    BY <2>2, <2>5
<1> HIDE DEF s1
<1>9. PollDone(s1)
  BY <1>6, <1>7, <1>8
<1> HIDE DEF s1
<1>10. /\ PollInv(s1) /\ OneAccount(s1.dev) /\ Behind(s1.dev)
       /\ off => ~s1.cond.h.active /\ s1.dev = None
       /\ s1.dev # None /\ mic.serving => s1.dev.gen = mic.gen /\ s1.dev.ovPrev = mic.overruns
       /\ s1.dev # None \/ ~mic.serving => mic.untold = s1.told + Owed(s1.dev)
  BY <1>9 DEF PollDone
<1>11. /\ DOMAIN host' = DOMAIN host /\ host'.set = host.set /\ host'.applied = host.set /\ host'.done = host.done
       /\ host'.kind = host.kind /\ host'.cond = s1.cond /\ host'.dev = s1.dev
  BY <1>1, <1>3 DEF HostType
<1>12. /\ DOMAIN mic' = DOMAIN mic /\ mic'.serving = mic.serving /\ mic'.gen = mic.gen /\ mic'.dropped = mic.dropped
       /\ mic'.overruns = mic.overruns /\ mic'.untold = mic.untold - s1.told /\ mic'.tap = mic.tap
  BY <1>1 DEF MicType
<1>13. /\ CenterInv(s1.c) /\ AgreeBut(center, s1.c, HostKeys) /\ Trouble(s1.c, s1.cond, s1.dev) /\ s1.told \in Int
       /\ s1.cond \in [h : Hystereses, lastOK : Nat \cup {None}] /\ s1.dev \in CounterStates \cup {None}
  BY <1>10 DEF PollInv
<1>14. MicType'
  BY <1>12, <1>13 DEF MicType
<1>15. HostInv'
  <2>1. HostType'
    BY <1>3, <1>11, <1>13 DEF HostType
  <2>2. Trouble(center', host'.cond, host'.dev)
    BY <1>1, <1>11, <1>13
  <2>3. (host'.applied # None /\ ~host'.applied.on) => ~host'.cond.h.active /\ host'.dev = None
    BY <1>10, <1>11
  <2> QED
    BY <1>1, <2>1, <2>2, <2>3 DEF HostInv
<1>16. OwedInv'
  <2>1. OneAccount(host.dev)' /\ Owed(host.dev)' = Owed(s1.dev) /\ ~host'.done
    BY <1>1, <1>10, <1>11
  <2>2. Behind(host.dev)'
    BY <1>10, <1>11, <1>12 DEF Behind
  <2>3. UnseenBy(host.dev)' = IF mic.serving /\ s1.dev = None THEN mic'.untold ELSE 0
    <3>1. UnseenBy(host.dev)' = IF ~mic.serving THEN 0 ELSE IF s1.dev = None THEN mic'.untold
                                ELSE IF s1.dev.gen = mic.gen THEN mic.overruns - s1.dev.ovPrev ELSE mic.overruns
      BY <1>11, <1>12 DEF UnseenBy
    <3>2. mic.overruns \in Nat
      BY DEF MicType
    <3> QED
      BY <1>10, <3>1, <3>2
  <2>4. Owed(s1.dev) \in Nat /\ (s1.dev = None => Owed(s1.dev) = 0)
    BY <1>13 DEF Owed, CounterStates
  <2>5. mic'.untold = UnseenBy(host.dev)' + Owed(s1.dev)
    BY <1>5, <1>10, <1>12, <1>13, <2>3, <2>4
  <2> QED
    BY <2>1, <2>2, <2>5 DEF OwedInv
<1> QED
  BY <1>1, <1>12, <1>13, <1>14, <1>15, <1>16

LEMMA HostStopsInv ==
    ASSUME MicType, HostInv, OwedInv, HostStops, parts' = parts
    PROVE  MicType' /\ HostInv' /\ OwedInv' /\ mic'.tap = mic.tap /\ signal' = signal /\ center' = center
<1> DEFINE told == IF host.dev = None THEN 0 ELSE EndOverruns([dev |-> host.dev, told |-> 0]).told
<1>1. /\ ~host.done /\ host' = [host EXCEPT !.done = TRUE] /\ mic' = [mic EXCEPT !.untold = @ - told]
      /\ center' = center /\ signal' = signal
  BY DEF HostStops
<1>2. HostType /\ UnseenBy(host.dev) \in Int /\ Owed(host.dev) \in Nat
  BY OwedType DEF HostInv
<1>3. told = Owed(host.dev)
  <2>1. CASE host.dev = None
    BY <2>1 DEF Owed
  <2>2. CASE host.dev # None
    <3>1. host.dev \in CounterStates
      BY <1>2, <2>2 DEF HostType
    <3>2. host.dev.unlogged \in Nat /\ host.dev.episode \in Nat /\ host.dev.ov.active \in BOOLEAN
      BY <3>1 DEF CounterStates, Flaps
    <3>3. told = IF host.dev.ov.active THEN host.dev.episode ELSE host.dev.unlogged
      BY <2>2, <3>2 DEF EndOverruns
    <3> QED
      BY <2>2, <3>2, <3>3 DEF OwedInv, OneAccount, Owed
  <2> QED
    BY <2>1, <2>2
<1> HIDE DEF told
<1>4. /\ DOMAIN host' = DOMAIN host /\ host'.set = host.set /\ host'.applied = host.applied /\ host'.done = TRUE
      /\ host'.kind = host.kind /\ host'.cond = host.cond /\ host'.dev = host.dev
  BY <1>1, <1>2 DEF HostType
<1>5. /\ DOMAIN mic' = DOMAIN mic /\ mic'.serving = mic.serving /\ mic'.gen = mic.gen /\ mic'.dropped = mic.dropped
      /\ mic'.overruns = mic.overruns /\ mic'.untold = mic.untold - told /\ mic'.tap = mic.tap
  BY <1>1 DEF MicType
<1>6. mic.untold = UnseenBy(host.dev) + Owed(host.dev) /\ mic.untold \in Int /\ OneAccount(host.dev) /\ Behind(host.dev)
  BY <1>1 DEF OwedInv, MicType
<1>7. MicType'
  BY <1>2, <1>3, <1>5, <1>6 DEF MicType
<1>8. HostInv'
  <2>1. AgreeBut(center, center', Keys \ HostKeys)
    BY <1>1 DEF AgreeBut
  <2>2. host'.set \in Settings /\ host'.done \in BOOLEAN
    BY <1>2, <1>4 DEF HostType
  <2> QED
    BY <1>4, <2>1, <2>2, HostElse
<1>9. OwedInv'
  <2>1. Behind(host.dev)' /\ OneAccount(host.dev)'
    BY <1>4, <1>5, <1>6 DEF Behind
  <2>2. UnseenBy(host.dev)' = IF mic.serving /\ host.dev = None THEN mic'.untold ELSE UnseenBy(host.dev)
    BY <1>4, <1>5 DEF UnseenBy
  <2>3. host.dev = None => Owed(host.dev) = 0
    BY DEF Owed
  <2>4. mic'.untold = UnseenBy(host.dev)'
    BY <1>2, <1>3, <1>5, <1>6, <2>2, <2>3
  <2>5. mic'.untold \in Int
    BY <1>7 DEF MicType
  <2> QED
    BY <1>4, <2>1, <2>4, <2>5 DEF OwedInv
<1> QED
  BY <1>1, <1>5, <1>7, <1>8, <1>9

MonitorInv == MicType /\ SignalInv /\ TapInv /\ HostInv /\ OwedInv

\* The keys of the emitters are their own.
LEMMA KeysApart ==
    ASSUME NEW c, NEW d
    PROVE  /\ AgreeBut(c, d, Audio) => AgreeBut(c, d, Keys \ HostKeys)
           /\ AgreeBut(c, d, HostKeys) => AgreeBut(c, d, Keys \ Audio)
           /\ AgreeBut(c, d, Audio) \/ AgreeBut(c, d, HostKeys) => AgreeBut(c, d, Audio \cup HostKeys)
           /\ c = d => \A K : AgreeBut(c, d, K)
BY DEF AgreeBut, Audio, HostKeys, Keys

LEMMA MonitorStepInv ==
    ASSUME CenterInv(center), SwitchType, MonitorInv, MonitorStep, parts' = parts
    PROVE  CenterInv(center') /\ MonitorInv' /\ AgreeBut(center, center', Audio \cup HostKeys)
<1>1. MicType /\ SignalInv /\ HostInv /\ OwedInv /\ HostType /\ TapInv /\ loop.set \in Settings
  BY DEF MonitorInv, HostInv, TapInv
<1>2. TapInv'
  BY <1>1, TapMonitorStep
<1>3. CASE SignalStores \/ SignalAttaches \/ SignalDetaches \/ SignalCloses \/ SignalWindow
  <2>1. CenterInv(center') /\ SignalInv' /\ AgreeBut(center, center', Audio)
    BY <1>1, <1>3, SignalStepInv
  <2>2. host' = host
    BY <1>3 DEF SignalStores, SignalAttaches, SignalDetaches, SignalCloses, SignalWindow
  <2>3. /\ DOMAIN mic' = DOMAIN mic /\ mic'.serving = mic.serving /\ mic'.gen = mic.gen /\ mic'.dropped = mic.dropped
        /\ mic'.overruns = mic.overruns /\ mic'.untold = mic.untold
    <3>1. CASE SignalStores
      BY <3>1 DEF SignalStores
    <3>2. CASE SignalAttaches
      BY <1>1, <3>2 DEF SignalAttaches, Tap, FirstConsumer, MicType
    <3>3. CASE SignalDetaches \/ SignalCloses
      BY <1>1, <3>3 DEF SignalDetaches, SignalCloses, MicType
    <3>4. CASE SignalWindow
      <4>1. mic' = [mic EXCEPT !.acc = None]
        BY <3>4 DEF SignalWindow
      <4> QED
        BY <1>1, <4>1 DEF MicType
    <3> QED
      BY <1>3, <3>1, <3>2, <3>3, <3>4
  <2>4. MicType' /\ OwedInv'
    BY <1>1, <2>2, <2>3, OwedElse
  <2>5. HostInv'
    <3>1. AgreeBut(center, center', Keys \ HostKeys)
      BY <2>1, KeysApart
    <3> QED
      BY <1>1, <2>2, <3>1, HostElse DEF HostType
  <2> QED
    BY <1>2, <2>1, <2>4, <2>5, KeysApart DEF MonitorInv
<1>4. CASE RuntimeStarts \/ RuntimeEnds \/ RuntimeRestarts \/ Loses
  <2>1. MicType' /\ OwedInv' /\ mic'.tap = mic.tap /\ host' = host /\ center' = center /\ signal' = signal
    BY <1>1, <1>4, RuntimeStepInv
  <2>2. \A K : AgreeBut(center, center', K)
    BY <2>1, KeysApart
  <2>3. SignalInv' /\ HostInv'
    BY <1>1, <2>1, <2>2, SignalElse, HostElse DEF HostType
  <2> QED
    BY <1>2, <2>1, <2>2, <2>3 DEF MonitorInv
<1>5. ASSUME center' = center, signal' = signal, DOMAIN mic' = DOMAIN mic, mic'.serving = mic.serving, mic'.gen = mic.gen,
             mic'.dropped = mic.dropped, mic'.overruns = mic.overruns, mic'.untold = mic.untold, mic'.tap = mic.tap,
             host'.set \in Settings, DOMAIN host' = DOMAIN host, host'.applied = host.applied, host'.done = host.done,
             host'.kind = host.kind, host'.cond = host.cond, host'.dev = host.dev
      PROVE  CenterInv(center') /\ MonitorInv' /\ AgreeBut(center, center', Audio \cup HostKeys)
  <2>1. \A K : AgreeBut(center, center', K)
    BY <1>5, KeysApart
  <2>2. MicType' /\ OwedInv'
    BY <1>1, <1>5, OwedElse
  <2>3. SignalInv'
    BY <1>1, <1>5, <2>1, SignalElse
  <2>4. HostInv'
    BY <1>1, <1>5, <2>1, HostElse DEF HostType
  <2> QED
    BY <1>2, <1>5, <2>1, <2>2, <2>3, <2>4 DEF MonitorInv
<1>6. CASE HostApplies
  <2>1. host' = [host EXCEPT !.set = loop.set] /\ center' = center /\ mic' = mic /\ signal' = signal
    BY <1>6 DEF HostApplies
  <2>2. /\ host'.set = loop.set /\ DOMAIN host' = DOMAIN host /\ host'.applied = host.applied /\ host'.done = host.done
        /\ host'.kind = host.kind /\ host'.cond = host.cond /\ host'.dev = host.dev
    BY <1>1, <2>1 DEF HostType
  <2> QED
    BY <1>1, <1>5, <2>1, <2>2
<1>7. CASE MeterObserve \/ HubCancel \/ HubSubscribe \/ Sound
  <2>1. center' = center /\ host' = host /\ signal' = signal
    BY <1>7 DEF MeterObserve, HubCancel, HubSubscribe, Sound
  <2>2. /\ DOMAIN mic' = DOMAIN mic /\ mic'.serving = mic.serving /\ mic'.gen = mic.gen /\ mic'.dropped = mic.dropped
        /\ mic'.overruns = mic.overruns /\ mic'.untold = mic.untold /\ mic'.tap = mic.tap
    <3>1. CASE MeterObserve \/ HubCancel
      BY <1>1, <3>1 DEF MeterObserve, HubCancel, MicType
    <3>2. CASE HubSubscribe
      BY <1>1, <3>2 DEF HubSubscribe, FirstConsumer, MicType
    <3>3. CASE Sound
      BY <1>1, <3>3 DEF Sound, MicType
    <3> QED
      BY <1>7, <3>1, <3>2, <3>3
  <2> QED
    BY <1>1, <1>5, <2>1, <2>2 DEF HostType
<1>8. CASE ApplySettings \/ Stopping
  <2>1. center' = center /\ host' = host /\ signal' = signal /\ mic' = mic
    BY <1>8 DEF ApplySettings, Stopping
  <2> QED
    BY <1>1, <1>5, <2>1 DEF HostType
<1>9. CASE HostReads
  <2>1. center' = center /\ signal' = signal /\ mic' = mic
    BY <1>9 DEF HostReads
  <2>2. host' = [host EXCEPT !.reads = FALSE] \/ \E r \in Readings(host.kind) : host' = [host EXCEPT !.reads = TRUE, !.reading = r]
    BY <1>9 DEF HostReads
  <2>3. /\ host'.set = host.set /\ DOMAIN host' = DOMAIN host /\ host'.applied = host.applied /\ host'.done = host.done
        /\ host'.kind = host.kind /\ host'.cond = host.cond /\ host'.dev = host.dev
    BY <1>1, <2>2 DEF HostType
  <2> QED
    BY <1>1, <1>5, <2>1, <2>3 DEF HostType
<1>10. CASE HostPoll
  <2>1. /\ CenterInv(center') /\ MicType' /\ HostInv' /\ OwedInv' /\ AgreeBut(center, center', HostKeys)
        /\ mic'.tap = mic.tap /\ signal' = signal
    BY <1>1, <1>10, HostPollInv
  <2>2. SignalInv'
    BY <1>1, <2>1, SignalElse, KeysApart
  <2> QED
    BY <1>2, <2>1, <2>2, KeysApart DEF MonitorInv
<1>11. CASE HostStops
  <2>1. MicType' /\ HostInv' /\ OwedInv' /\ mic'.tap = mic.tap /\ signal' = signal /\ center' = center
    BY <1>1, <1>11, HostStopsInv
  <2>2. \A K : AgreeBut(center, center', K)
    BY <2>1, KeysApart
  <2>3. SignalInv'
    BY <1>1, <2>1, <2>2, SignalElse
  <2> QED
    BY <1>2, <2>1, <2>2, <2>3 DEF MonitorInv
<1> QED
  BY <1>3, <1>4, <1>6, <1>7, <1>8, <1>9, <1>10, <1>11 DEF MonitorStep

----------------------------------------------------------------------------
(* Everything that meets in the center *)

\* The process restarts only where no emitter runs that would start over.
PartsInv ==
    parts \cap {"page", "certs"} # {} => parts \cap {"signal", "host", "updates", "clients", "lock"} = {}

\* An instance without a browser has no connection, and so has that of the certificates.
IdleInv ==
    /\ "certs" \in parts => "browser" \notin parts
    /\ "browser" \notin parts => stream = [st |-> "down", hand |-> None, merged |-> <<>>] /\ browser = NewBrowser

AlertsInv == PartsInv /\ IdleInv /\ CenterInv(center) /\ MonitorInv /\ LockInv /\ FlapInv /\ AvailableInv

Page == {"device:down"}

\* The keys some of the emitters do not touch.
LEMMA KeysOwned ==
    ASSUME NEW c, NEW d
    PROVE  /\ AgreeBut(c, d, Audio \cup HostKeys) =>
                 \A k \in {"run-lock-unwritable", "stream:flap", "update:available"} : d.active[k] = c.active[k]
           /\ AgreeBut(c, d, {"run-lock-unwritable"}) =>
                 \A k \in Audio \cup HostKeys \cup {"stream:flap", "update:available"} : d.active[k] = c.active[k]
           /\ AgreeBut(c, d, {"stream:flap"}) =>
                 \A k \in Audio \cup HostKeys \cup {"run-lock-unwritable", "update:available"} : d.active[k] = c.active[k]
           /\ AgreeBut(c, d, {"update:available"}) =>
                 \A k \in Audio \cup HostKeys \cup {"run-lock-unwritable", "stream:flap"} : d.active[k] = c.active[k]
           /\ AgreeBut(c, d, Page) =>
                 \A k \in Audio \cup HostKeys \cup {"run-lock-unwritable", "stream:flap", "update:available"} : d.active[k] = c.active[k]
BY DEF AgreeBut, Audio, HostKeys, Keys, Page

LEMMA LockElse ==
    ASSUME LockInv, lock' = lock, parts' = parts, center'.active["run-lock-unwritable"] = center.active["run-lock-unwritable"]
    PROVE  LockInv'
BY DEF LockInv, Raised

LEMMA FlapElse ==
    ASSUME FlapInv, flap' = flap, parts' = parts, center'.active["stream:flap"] = center.active["stream:flap"]
    PROVE  FlapInv'
BY DEF FlapInv, Raised

LEMMA AvailableElse ==
    ASSUME AvailableInv, mgr' = mgr, parts' = parts, center'.active["update:available"] = center.active["update:available"]
    PROVE  AvailableInv'
BY DEF AvailableInv, Raised

LEMMA MonitorElse ==
    ASSUME MonitorInv, mic' = mic, signal' = signal, host' = host, parts' = parts, TapInv',
           \A k \in Audio \cup HostKeys : center'.active[k] = center.active[k]
    PROVE  MonitorInv'
<1>1. AgreeBut(center, center', Keys \ Audio) /\ AgreeBut(center, center', Keys \ HostKeys)
  BY DEF AgreeBut
<1>2. MicType /\ SignalInv /\ HostInv /\ OwedInv /\ HostType
  BY DEF MonitorInv, HostInv
<1>3. MicType' /\ OwedInv'
  BY <1>2, OwedElse
<1>4. SignalInv'
  BY <1>1, <1>2, SignalElse
<1>5. HostInv'
  BY <1>1, <1>2, HostElse DEF HostType
<1> QED
  BY <1>3, <1>4, <1>5 DEF MonitorInv

LEMMA TapElse ==
    ASSUME TapInv, loop' = loop, signal' = signal, mic' = mic, parts' = parts
    PROVE  TapInv'
BY DEF TapInv, Ahead

\* A center that goes on with its history does so for the same connection and page.
LEMMA PageElse ==
    ASSUME CenterInv(center'), IdleInv, stream' = stream, browser' = browser, parts' = parts
    PROVE  CenterInv(center)' /\ IdleInv'
BY DEF CenterInv, PageFits, IdleInv

\* No emitter runs, and the center is a new one that holds nothing.
LEMMA StartsOver ==
    ASSUME AlertsInv, parts \cap {"page", "certs"} # {}, parts' = parts,
           CenterInv(center)', IdleInv', \A k \in Keys : ~Up(center', k),
           loop' = loop, mic' = mic, signal' = signal, host' = host, mgr' = mgr, flap' = flap, lock' = lock
    PROVE  AlertsInv'
<1>1. "signal" \notin parts /\ "host" \notin parts /\ "updates" \notin parts /\ "clients" \notin parts /\ "lock" \notin parts
  BY DEF AlertsInv, PartsInv
<1>2. /\ "run-lock-unwritable" \in Keys /\ "stream:flap" \in Keys /\ "update:available" \in Keys
      /\ Audio \subseteq Keys /\ HostKeys \subseteq Keys
  BY AudioKeys DEF Keys, Audio, HostKeys
<1>3. LockInv'
  BY <1>1, <1>2 DEF AlertsInv, LockInv, Raised, Up
<1>4. FlapInv'
  BY <1>1, <1>2 DEF AlertsInv, FlapInv, Raised, Up
<1>5. AvailableInv'
  BY <1>1, <1>2 DEF AlertsInv, AvailableInv, Raised, Up
<1>6. MicType /\ SignalInv /\ HostInv /\ OwedInv /\ TapInv
  BY DEF AlertsInv, MonitorInv
<1>7. MicType' /\ OwedInv' /\ TapInv'
  BY <1>6, OwedElse, TapElse
<1>8. SignalInv'
  <2>1. signal.st = None /\ \A k \in Audio : ~Up(center', k)
    BY <1>1, <1>2, <1>6 DEF SignalInv
  <2>2. Sounds3(center', signal.st)
    BY <2>1 DEF Sounds3, Audio
  <2>3. SignalType'
    BY <1>6 DEF SignalInv, SignalType
  <2> QED
    BY <1>6, <2>1, <2>2, <2>3 DEF SignalInv
<1>9. HostInv'
  <2>1. ~host.cond.h.active /\ host.dev = None /\ \A k \in HostKeys : ~Up(center', k)
    BY <1>1, <1>2, <1>6 DEF HostInv
  <2>2. Trouble(center', host.cond, host.dev)
    BY <2>1 DEF Trouble, HostKeys
  <2>3. HostType'
    BY <1>6 DEF HostInv, HostType
  <2> QED
    BY <1>6, <2>1, <2>2, <2>3 DEF HostInv
<1> QED
  BY <1>3, <1>4, <1>5, <1>7, <1>8, <1>9 DEF AlertsInv, MonitorInv, PartsInv

\* A connection, a snapshot or the page changes no condition, and goes on with
\* the center's history.
LEMMA StreamKeeps ==
    ASSUME CenterInv(center), IdleInv, StreamStep, parts' = parts
    PROVE  CenterInv(center)' /\ IdleInv' /\ center'.active = center.active
<1> DEFINE Goal == CenterType(center') /\ center'.active = center.active
<1>1. ASSUME center' = center PROVE Goal
  BY <1>1 DEF CenterInv
<1>2. ASSUME NEW sub, center' = [center EXCEPT !.sub = sub] PROVE Goal
  BY <1>2 DEF CenterInv, CenterType
<1>3. ASSUME ForwardTakes PROVE Goal
  <2>1. center' = [center EXCEPT !.sub = [center.sub EXCEPT !.q = Tail(@)]]
    BY <1>3 DEF ForwardTakes
  <2> QED
    BY <1>2, <2>1
<1>4. ASSUME StreamOpens \/ StreamBreaks PROVE Goal
  BY <1>2, <1>4 DEF StreamOpens, StreamBreaks
<1>5. ASSUME StreamConnects \/ ForwardPuts \/ WriteEvent \/ Resync
             \/ \E l \in browser.loads : ListNotifications(l) \/ LoadAnswered(l) \/ LoadFails(l)
      PROVE  Goal
  BY <1>1, <1>5 DEF StreamConnects, ForwardPuts, WriteEvent, Resync, ListNotifications, LoadAnswered, LoadFails
<1>6. Goal
  BY <1>3, <1>4, <1>5 DEF StreamStep
<1>7. PICK h : PageInv(h, center, stream, browser)
  BY DEF CenterInv, PageFits
<1>8. PageInv(h, center', stream', browser')
  BY <1>7, PageStep
<1>9. PageFits(center)'
  BY <1>8 DEF PageFits
<1>10. IdleInv'
  <2>1. CASE "browser" \in parts
    BY <2>1 DEF IdleInv
  <2>2. CASE "browser" \notin parts
    <3>1. stream.st = "down" /\ browser.loads = {} /\ browser.timer = None
      BY <2>2 DEF IdleInv, NewBrowser
    <3> QED
      BY <2>2, <3>1 DEF StreamStep, StreamOpens, StreamConnects, ForwardTakes, ForwardPuts, WriteEvent, StreamBreaks, Resync
  <2> QED
    BY <2>1, <2>2
<1> QED
  BY <1>6, <1>9, <1>10 DEF CenterInv

\* A page that is new has nothing of any center.
LEMMA NewIsOutdated ==
    ASSUME NEW boot
    PROVE  Outdated(boot, [st |-> "down", hand |-> None, merged |-> <<>>], NewBrowser)
<1>1. PICK b : b = NewBrowser
  OBVIOUS
<1>2. /\ DOMAIN b = {"boot", "items", "next", "up", "timer", "loads", "started", "applied", "failed", "late"}
      /\ b = [k \in DOMAIN b |-> b[k]]
  BY <1>1 DEF NewBrowser
<1>3. /\ b.up = FALSE /\ b.timer = None /\ b.loads = {} /\ b.started = 0 /\ b.applied = 0
      /\ b.next = 0 /\ b.late = FALSE /\ b.boot = None /\ b.items = {}
  BY <1>1 DEF NewBrowser
<1>4. /\ b.started \in Nat /\ b.applied \in 0 .. b.started /\ b.next \in Nat
      /\ b.boot = None => b.items = {} /\ b.next = 0
      /\ b.boot # None => b.boot \in Nat /\ b.boot < boot
  BY ONLY <1>3
<1>5. b.late \in BOOLEAN
  BY <1>3
<1>6. Outdated(boot, [st |-> "down", hand |-> None, merged |-> <<>>], b)
  BY <1>2, <1>3, <1>4, <1>5 DEF Outdated
<1> QED
  BY <1>1, <1>6

\* A page that has lost its connection, and its process, is behind.
LEMMA RestartLeaves ==
    ASSUME CenterInv(center), IdleInv, Restart, parts' = parts
    PROVE  IdleInv' /\ Outdated(center.boot + 1, stream', browser')
<1>1. PICK h : PageInv(h, center, stream, browser)
  BY DEF CenterInv, PageFits
<1>2. LoadsInv(h, center, browser) /\ ItemsInv(h, center, stream, browser) /\ center.boot \in Nat
  BY <1>1 DEF PageInv, HistoryOf
<1>3. PICK x : x = [[browser EXCEPT !.up = FALSE] EXCEPT !.timer = None]
  OBVIOUS
<1>4. PICK y : y = [[x EXCEPT !.loads = {}] EXCEPT !.failed = x.failed \/ browser.loads # {}]
  OBVIOUS
<1>5. /\ DOMAIN browser = {"boot", "items", "next", "up", "timer", "loads", "started", "applied", "failed", "late"}
      /\ browser = [k \in DOMAIN browser |-> browser[k]]
  BY <1>2 DEF ItemsInv
<1>6. /\ DOMAIN x = DOMAIN browser /\ x = [k \in DOMAIN x |-> x[k]] /\ x.up = FALSE /\ x.timer = None
      /\ x.boot = browser.boot /\ x.items = browser.items /\ x.next = browser.next /\ x.loads = browser.loads
      /\ x.started = browser.started /\ x.applied = browser.applied /\ x.late = browser.late /\ x.failed = browser.failed
  BY <1>3, <1>5
<1>7. /\ DOMAIN y = DOMAIN browser /\ y = [k \in DOMAIN y |-> y[k]] /\ y.up = FALSE /\ y.timer = None
      /\ y.boot = browser.boot /\ y.items = browser.items /\ y.next = browser.next /\ y.loads = {}
      /\ y.started = browser.started /\ y.applied = browser.applied /\ y.late = browser.late
      /\ y.failed = (browser.failed \/ browser.loads # {})
  BY <1>4, <1>5, <1>6
<1>8. stream' = [st |-> "down", hand |-> None, merged |-> <<>>] /\ browser' = y
  BY <1>3, <1>4, <1>5, <1>6 DEF Restart, Broken
<1>9. Outdated(center.boot + 1, stream', y)
  <2>1. y.boot # None => y.boot \in Nat /\ y.boot < center.boot + 1
    BY <1>2, <1>7 DEF ItemsInv
  <2>2. /\ y.boot = None => y.items = {} /\ y.next = 0
        /\ y.next \in Nat /\ y.late \in BOOLEAN /\ y.started \in Nat /\ y.applied \in 0 .. y.started
    BY <1>2, <1>7 DEF ItemsInv, LoadsInv
  <2> QED
    BY <1>5, <1>7, <1>8, <2>1, <2>2 DEF Outdated
<1>10. IdleInv'
  <2>1. CASE "browser" \in parts
    BY <2>1 DEF IdleInv
  <2>2. CASE "browser" \notin parts
    <3>1. browser = NewBrowser /\ ("certs" \in parts => "browser" \notin parts)
      BY <2>2 DEF IdleInv
    <3>2. y = NewBrowser
      BY <1>5, <1>7, <3>1 DEF NewBrowser
    <3> QED
      BY <1>8, <2>2, <3>1, <3>2 DEF IdleInv
  <2> QED
    BY <2>1, <2>2
<1> QED
  BY <1>8, <1>9, <1>10

\* A call of the other emitters is about a key of theirs, or none.
LEMMA EmitKeeps ==
    ASSUME CenterInv(center), Emit
    PROVE  CenterInv(center') /\ AgreeBut(center, center', Page)
<1> DEFINE key == "device:down"
<1>1. key \in Keys /\ "first" \in Texts /\ "later" \in Texts
  BY DEF Keys, Texts
<1>2. CASE center' = Publish(center)
  BY <1>2, PublishKeeps DEF AgreeBut
<1>3. CASE center' = Onset(center, key, "first")
  BY <1>1, <1>3, OnsetRaises DEF Page
<1>4. CASE center' = Update(center, key, "later")
  BY <1>1, <1>4, UpdateRewrites DEF Page
<1>5. CASE center' = Clear(center, key)
  BY <1>1, <1>5, ClearEnds DEF Page
<1> QED
  BY <1>2, <1>3, <1>4, <1>5 DEF Emit

\* The certificates publish an event, or see the process restart.
LEMMA CertKeeps ==
    ASSUME CertStep
    PROVE  "certs" \in parts /\ (center' = center \/ center' = Publish(center) \/ center' = Publish(NewCenter(center.boot + 1)))
BY DEF CertStep, Ensure, ApiRestarts, Install, Regenerate, Stage, Commit, SyncPair, Mark, Live, Ends, FileFaults, HostMoves

LEMMA AlertsStep ==
    ASSUME OffInv, OfferInv, AlertsInv, [Next]_vars
    PROVE  AlertsInv'
<1>1. /\ PartsInv /\ IdleInv /\ CenterInv(center) /\ MonitorInv /\ LockInv /\ FlapInv /\ AvailableInv
      /\ ManagerType /\ SwitchType /\ (\A a \in Askers : FetchInv(checks[a].fetch)) /\ TapInv /\ MicType /\ SignalInv
  BY DEF AlertsInv, OffInv, OfferInv, MonitorInv
<1>2. parts' = parts /\ PartsInv'
  BY <1>1 DEF Next, vars, PartsInv
<1> DEFINE Owned == Audio \cup HostKeys \cup {"run-lock-unwritable", "stream:flap", "update:available"}
<1>3. ASSUME CenterInv(center)', IdleInv', \A k \in Owned : center'.active[k] = center.active[k],
             loop' = loop, mic' = mic, signal' = signal, host' = host, mgr' = mgr, flap' = flap, lock' = lock
      PROVE  AlertsInv'
  <2>1. TapInv'
    BY <1>1, <1>2, <1>3, TapElse
  <2>2. MonitorInv'
    BY <1>1, <1>2, <1>3, <2>1, MonitorElse
  <2>3. LockInv' /\ FlapInv' /\ AvailableInv'
    BY <1>1, <1>2, <1>3, LockElse, FlapElse, AvailableElse
  <2> QED
    BY <1>2, <1>3, <2>2, <2>3 DEF AlertsInv
<1>4. CASE StreamStep /\ NotPage
  <2>1. CenterInv(center)' /\ IdleInv' /\ center'.active = center.active
    BY <1>1, <1>2, <1>4, StreamKeeps
  <2> QED
    BY <1>3, <1>4, <2>1 DEF NotPage, monitorVars, updateVars, streamEventVars
<1>5. CASE Emit /\ NotPage
  <2>1. CenterInv(center') /\ AgreeBut(center, center', Page)
    BY <1>1, <1>5, EmitKeeps
  <2>2. \A k \in Owned : center'.active[k] = center.active[k]
    BY <2>1, KeysOwned
  <2>3. CenterInv(center)' /\ IdleInv'
    BY <1>1, <1>2, <1>5, <2>1, PageElse DEF Emit
  <2> QED
    BY <1>3, <1>5, <2>2, <2>3 DEF NotPage, monitorVars, updateVars, streamEventVars
<1>6. ASSUME parts \cap {"page", "certs"} # {}, center' = Publish(NewCenter(center.boot + 1)),
             Outdated(center.boot + 1, stream', browser'), IdleInv',
             loop' = loop, mic' = mic, signal' = signal, host' = host, mgr' = mgr, flap' = flap, lock' = lock
      PROVE  AlertsInv'
  <2>1. center.boot + 1 \in Nat
    BY <1>1 DEF CenterInv, CenterType
  <2>2. CenterType(center') /\ \A k \in Keys : ~Up(center', k)
    BY <1>6, <2>1, NewCenterHolds
  <2>3. \E g : PageInv(g, center', stream', browser')
    BY <1>6, <2>1, NewCenterFits
  <2>4. CenterInv(center)'
    BY <2>2, <2>3 DEF CenterInv, PageFits
  <2> QED
    BY <1>2, <1>6, <2>2, <2>4, StartsOver
<1>7. CASE Restart /\ NotPage
  <2>1. parts \cap {"page", "certs"} # {} /\ center' = Publish(NewCenter(center.boot + 1))
    BY <1>7 DEF Restart
  <2>2. Outdated(center.boot + 1, stream', browser') /\ IdleInv'
    BY <1>1, <1>2, <1>7, RestartLeaves
  <2> QED
    BY <1>6, <1>7, <2>1, <2>2 DEF NotPage, monitorVars, updateVars, streamEventVars
<1>8. CASE MonitorStep /\ UNCHANGED <<stream, browser, updateVars, streamEventVars, lock, certs, site, provisioningVars>>
  <2>1. CenterInv(center') /\ MonitorInv' /\ AgreeBut(center, center', Audio \cup HostKeys)
    BY <1>1, <1>2, <1>8, MonitorStepInv
  <2>2. mgr' = mgr /\ flap' = flap /\ lock' = lock
    BY <1>8 DEF updateVars, streamEventVars
  <2>3. LockInv' /\ FlapInv' /\ AvailableInv'
    BY <1>1, <1>2, <2>1, <2>2, KeysOwned, LockElse, FlapElse, AvailableElse
  <2>4. CenterInv(center)' /\ IdleInv'
    BY <1>1, <1>2, <1>8, <2>1, PageElse
  <2> QED
    BY <1>2, <2>1, <2>3, <2>4 DEF AlertsInv
<1>9. CASE UpdateStep /\ UNCHANGED <<stream, browser, mic, signal, host, streamEventVars, lock, certs, site, provisioningVars>>
  <2>1. CenterInv(center') /\ AvailableInv' /\ AgreeBut(center, center', {"update:available"})
    BY <1>1, <1>2, <1>9, UpdateStepInv
  <2>2. mic' = mic /\ signal' = signal /\ host' = host /\ flap' = flap /\ lock' = lock
    BY <1>9 DEF streamEventVars
  <2>3. \A k \in Audio \cup HostKeys \cup {"run-lock-unwritable", "stream:flap"} : center'.active[k] = center.active[k]
    BY <2>1, KeysOwned
  <2>4. LockInv' /\ FlapInv'
    BY <1>1, <1>2, <2>2, <2>3, LockElse, FlapElse
  <2>5. TapInv'
    BY <1>1, <1>2, <1>9, <2>2, TapUpdateStep
  <2>6. MonitorInv'
    BY <1>1, <1>2, <2>2, <2>3, <2>5, MonitorElse
  <2>7. CenterInv(center)' /\ IdleInv'
    BY <1>1, <1>2, <1>9, <2>1, PageElse
  <2> QED
    BY <1>2, <2>1, <2>4, <2>6, <2>7 DEF AlertsInv
<1>10. CASE SiteChanges /\ UNCHANGED <<stream, browser, monitorVars, updateVars, streamEventVars, lock, certs, provisioningVars>>
  <2>1. center' = center
    BY <1>10 DEF SiteChanges
  <2>2. CenterInv(center)' /\ IdleInv'
    BY <1>1, <1>2, <1>10, <2>1, PageElse
  <2> QED
    BY <1>3, <1>10, <2>1, <2>2 DEF monitorVars, updateVars, streamEventVars
<1>11. CASE StreamEventsStep /\ UNCHANGED <<stream, browser, monitorVars, updateVars, lock, certs, site, provisioningVars>>
  <2>1. CenterInv(center') /\ FlapInv' /\ AgreeBut(center, center', {"stream:flap"})
    BY <1>1, <1>2, <1>11, FlapStepInv
  <2>2. loop' = loop /\ mic' = mic /\ signal' = signal /\ host' = host /\ mgr' = mgr /\ lock' = lock
    BY <1>11 DEF monitorVars, updateVars
  <2>3. \A k \in Audio \cup HostKeys \cup {"run-lock-unwritable", "update:available"} : center'.active[k] = center.active[k]
    BY <2>1, KeysOwned
  <2>4. LockInv' /\ AvailableInv' /\ TapInv'
    BY <1>1, <1>2, <2>2, <2>3, LockElse, AvailableElse, TapElse
  <2>5. MonitorInv'
    BY <1>1, <1>2, <2>2, <2>3, <2>4, MonitorElse
  <2>6. CenterInv(center)' /\ IdleInv'
    BY <1>1, <1>2, <1>11, <2>1, PageElse
  <2> QED
    BY <1>2, <2>1, <2>4, <2>5, <2>6 DEF AlertsInv
<1>12. CASE RunLockStep /\ UNCHANGED <<stream, browser, monitorVars, updateVars, streamEventVars, certs, site, provisioningVars>>
  <2>1. CenterInv(center') /\ LockInv' /\ AgreeBut(center, center', {"run-lock-unwritable"})
    BY <1>1, <1>2, <1>12, LockStepInv
  <2>2. loop' = loop /\ mic' = mic /\ signal' = signal /\ host' = host /\ mgr' = mgr /\ flap' = flap
    BY <1>12 DEF monitorVars, updateVars, streamEventVars
  <2>3. \A k \in Audio \cup HostKeys \cup {"stream:flap", "update:available"} : center'.active[k] = center.active[k]
    BY <2>1, KeysOwned
  <2>4. FlapInv' /\ AvailableInv' /\ TapInv'
    BY <1>1, <1>2, <2>2, <2>3, FlapElse, AvailableElse, TapElse
  <2>5. MonitorInv'
    BY <1>1, <1>2, <2>2, <2>3, <2>4, MonitorElse
  <2>6. CenterInv(center)' /\ IdleInv'
    BY <1>1, <1>2, <1>12, <2>1, PageElse
  <2> QED
    BY <1>2, <2>1, <2>4, <2>5, <2>6 DEF AlertsInv
<1>13. CASE CertStep /\ UNCHANGED <<stream, browser, monitorVars, updateVars, streamEventVars, lock, site, provisioningVars>>
  <2>1. "certs" \in parts /\ (center' = center \/ center' = Publish(center) \/ center' = Publish(NewCenter(center.boot + 1)))
    BY <1>13, CertKeeps
  <2>2. loop' = loop /\ mic' = mic /\ signal' = signal /\ host' = host /\ mgr' = mgr /\ flap' = flap /\ lock' = lock
    BY <1>13 DEF monitorVars, updateVars, streamEventVars
  <2>3. CASE center' = center \/ center' = Publish(center)
    <3>1. CenterInv(center') /\ center'.active = center.active
      BY <1>1, <2>3, PublishKeeps
    <3>2. CenterInv(center)' /\ IdleInv'
      BY <1>1, <1>2, <1>13, <3>1, PageElse
    <3> QED
      BY <1>3, <2>2, <3>1, <3>2
  <2>4. CASE center' = Publish(NewCenter(center.boot + 1))
    <3>1. parts \cap {"page", "certs"} # {}
      BY <2>1
    <3>2. stream' = [st |-> "down", hand |-> None, merged |-> <<>>] /\ browser' = NewBrowser /\ IdleInv'
      BY <1>1, <1>2, <1>13, <2>1 DEF IdleInv
    <3>3. Outdated(center.boot + 1, stream', browser')
      BY <3>2, NewIsOutdated
    <3> QED
      BY <1>6, <2>2, <2>4, <3>1, <3>2, <3>3
  <2> QED
    BY <2>1, <2>3, <2>4
<1>14. CASE UNCHANGED <<center, stream, browser, monitorVars, updateVars, streamEventVars, lock>>
  <2>1. center' = center /\ loop' = loop /\ mic' = mic /\ signal' = signal /\ host' = host /\ mgr' = mgr /\ flap' = flap /\ lock' = lock
    BY <1>14 DEF monitorVars, updateVars, streamEventVars
  <2>2. CenterInv(center)' /\ IdleInv'
    BY <1>1, <1>2, <1>14, <2>1, PageElse
  <2> QED
    BY <1>3, <2>1, <2>2
<1> QED
  BY <1>4, <1>5, <1>7, <1>8, <1>9, <1>10, <1>11, <1>12, <1>13, <1>14 DEF Next, vars, notificationVars

LEMMA AlertsStart == Init => AlertsInv
<1> SUFFICES ASSUME Init PROVE AlertsInv
  OBVIOUS
<1>1. PartsInv
  <2>1. PICK i \in Instances : parts = i.parts
    BY DEF Init
  <2> QED
    BY <2>1, PartsAssumption DEF PartsInv
<1>12. IdleInv
  <2>1. PICK i \in Instances : parts = i.parts
    BY DEF Init
  <2> QED
    BY <2>1, PartsAssumption DEF Init, IdleInv
<1>2. CenterInv(center) /\ \A k \in Keys : ~Up(center, k)
  <2>1. center = Publish(NewCenter(1)) /\ 1 \in Nat
    BY DEF Init
  <2>2. Outdated(1, stream, browser)
    BY NewIsOutdated DEF Init
  <2>3. \E g : PageInv(g, center, stream, browser)
    BY <2>1, <2>2, NewCenterFits
  <2> QED
    BY <2>1, <2>3, NewCenterHolds DEF CenterInv, PageFits
<1>3. /\ "run-lock-unwritable" \in Keys /\ "stream:flap" \in Keys /\ "update:available" \in Keys
      /\ Audio \subseteq Keys /\ HostKeys \subseteq Keys
  BY AudioKeys DEF Keys, Audio, HostKeys
<1>4. LockInv
  BY <1>2, <1>3 DEF Init, RunLockInit, LockInv, Raised, Up
<1>5. FlapInv
  BY <1>2, <1>3 DEF Init, StreamEventsInit, FlapInv, Raised, Up
<1>6. AvailableInv
  <2>1. mgr.available = FALSE
    BY DEF Init, UpdateInit
  <2> QED
    BY <1>2, <1>3, <2>1 DEF AvailableInv, Raised, Up
<1>7. /\ loop = [set |-> AllOn, todo |-> <<>>, stopping |-> FALSE]
      /\ mic = [serving |-> TRUE, gen |-> 1, dropped |-> 0, overruns |-> 0, sound |-> "fine",
                acc |-> None, tap |-> "signal" \in parts, sse |-> 0, untold |-> 0]
      /\ signal = [set |-> AllOn, applied |-> None, closed |-> FALSE, leaving |-> FALSE, st |-> None]
      /\ AllOn \in Settings
  BY DEF Init, MonitorInit, AllOn, Settings
<1>8. MicType
  BY <1>7 DEF MicType
<1>9. SignalInv
  <2>1. SignalType
    BY <1>7 DEF SignalType
  <2>2. Sounds3(center, signal.st)
    BY <1>2, <1>3, <1>7 DEF Sounds3, Audio
  <2> QED
    BY <1>2, <1>3, <1>7, <2>1, <2>2 DEF SignalInv
<1>10. TapInv
  BY <1>7, StoresFirstShort DEF TapInv
<1>11. HostInv /\ OwedInv
  <2>1. PICK kind \in {"level", "memory"} :
             host = [set |-> AllOn, applied |-> None, done |-> FALSE, kind |-> kind, reads |-> TRUE,
                     reading |-> IF kind = "memory" THEN MemTotal ELSE "normal", cond |-> NoHostCond, dev |-> None]
    BY DEF Init, MonitorInit
  <2>2. HostType
    BY <1>7, <2>1, NoHostCondType DEF HostType
  <2>3. Trouble(center, host.cond, host.dev)
    BY <1>2, <1>3, <2>1, NoHostCondType DEF Trouble, HostKeys
  <2>4. HostInv
    BY <2>1, <2>2, <2>3, NoHostCondType DEF HostInv
  <2>5. OwedInv
    BY <1>7, <2>1 DEF OwedInv, OneAccount, Behind, UnseenBy, Owed
  <2> QED
    BY <2>4, <2>5
<1> QED
  BY <1>1, <1>2, <1>4, <1>5, <1>6, <1>8, <1>9, <1>10, <1>11, <1>12 DEF AlertsInv, MonitorInv

\* AlertsInv is inductive with what the update manager keeps.
THEOREM AlertsInvariant == Spec => []AlertsInv
<1>1. OffInv /\ OfferInv /\ AlertsInv /\ [Next]_vars => AlertsInv'
  BY AlertsStep
<1> QED
  BY <1>1, AlertsStart, SwitchInvariant, OfferInvariant, PTL DEF Spec

\* A page that has nothing on its way holds the center's active conditions, for
\* any capacity of the ring and the buffers, any number of loads and whatever
\* was sent, dropped, trimmed, overtaken or restarted before
\* (notifications-core.ts applyLive and applySnapshot, notify.Center).
THEOREM ViewIsTrue == Spec => []ViewIsCurrent
<1>1. AlertsInv => ViewIsCurrent
  <2> SUFFICES ASSUME AlertsInv PROVE ViewIsCurrent
    OBVIOUS
  <2>1. PICK h : PageInv(h, center, stream, browser)
    BY DEF AlertsInv, CenterInv, PageFits
  <2> QED
    BY <2>1, SettledIsCurrent
<1> QED
  BY <1>1, AlertsInvariant, PTL

----------------------------------------------------------------------------
\* The floor of the memory condition is within the memory, and so is the level
\* that clears it.
LEMMA MemoryCanRecover == ~MemOver(TRUE, MemTotal)
<1> DEFINE q == MemTotal \div 100
           half == MemTotal \div 2
           part == q * MemFreePercent
           floor == Min({MemFreeMiB, half})
           limit == Max({part, floor})
           up == (MemTotal - limit) \div 2
           clear == Min({limit + limit \div MemClearGapDivisor, limit + up})
<1>1. MemTotal \in Nat /\ MemFreeMiB \in Nat /\ MemFreePercent \in 0 .. 100
  BY MonitorBounds
<1>2. q \in Nat /\ 100 * q <= MemTotal /\ half \in Nat /\ half <= MemTotal
  BY <1>1
<1> HIDE DEF q, half
<1>3. part \in Nat /\ part <= 100 * q
  BY <1>1, <1>2
<1> HIDE DEF part
<1>4. floor \in Nat /\ floor <= MemTotal
  BY <1>1, <1>2, MinOfTwo
<1> HIDE DEF floor
<1>5. limit \in Nat /\ limit <= MemTotal
  BY <1>1, <1>2, <1>3, <1>4, MaxOfTwo
<1> HIDE DEF limit
<1>6. up \in Nat /\ limit + up <= MemTotal
  BY <1>1, <1>5
<1> HIDE DEF up
<1>7. clear \in Int /\ clear <= MemTotal
  <2> DEFINE gap == limit \div MemClearGapDivisor
  <2>1. limit + gap \in Int /\ limit + up \in Int
    BY <1>5, <1>6 DEF MemClearGapDivisor
  <2> HIDE DEF gap
  <2>2. clear = IF limit + gap <= limit + up THEN limit + gap ELSE limit + up
    BY <2>1, MinOfTwo DEF gap
  <2> HIDE DEF clear
  <2> QED
    BY <1>1, <1>6, <2>1, <2>2
<1>8. ~(MemTotal < clear) => ~MemOver(TRUE, MemTotal)
  BY DEF MemOver, q, half, part, floor, limit, up
<1> HIDE DEF clear
<1>9. ~(MemTotal < clear)
  BY <1>1, <1>7
<1> QED
  BY <1>8, <1>9

\* No condition of the host is one that no reading of its sensor clears.
LEMMA HostCanRecover ==
    ASSUME HostType
    PROVE  \E r \in Readings(host.kind) : ~HostOver(host.kind, TRUE, r)
<1>1. CASE host.kind = "memory"
  <2>1. MemTotal \in Readings(host.kind)
    BY <1>1 DEF Readings
  <2>2. ~HostOver(host.kind, TRUE, MemTotal)
    BY <1>1, MemoryCanRecover DEF HostOver
  <2> QED
    BY <2>1, <2>2
<1>2. CASE host.kind = "level"
  <2>1. "normal" \in Readings(host.kind) /\ ~HostOver(host.kind, TRUE, "normal")
    BY <1>2 DEF Readings, HostOver, OverWithGap
  <2> QED
    BY <2>1
<1> QED
  BY <1>1, <1>2 DEF HostType

\* A condition is up exactly while its owner holds it raised: nothing an owner
\* forgets (a device that goes, settings that change, a check that is dropped, a
\* detector that is pruned) leaves an alert nobody will clear, and no host
\* condition one that no reading of the host can clear (the monitors of
\* internal/monitor, Manager of internal/update, the stream events and the run
\* lock of cmd/remotemic on the center of internal/notify).
THEOREM AlertsFollowTheirCause == Spec => []AlertsHaveCause
<1>1. AlertsInv => AlertsHaveCause
  <2> SUFFICES ASSUME AlertsInv PROVE AlertsHaveCause
    OBVIOUS
  <2>1. Sounds3(center, signal.st) /\ Trouble(center, host.cond, host.dev) /\ HostType /\ LockInv /\ FlapInv /\ AvailableInv
    BY DEF AlertsInv, MonitorInv, SignalInv, HostInv
  <2>2. \E r \in Readings(host.kind) : ~HostOver(host.kind, TRUE, r)
    BY <2>1, HostCanRecover
  <2>3. /\ Raised("audio:zero") <=> (signal.st # None /\ signal.st.zero.active)
        /\ Raised("audio:quiet") <=> (signal.st # None /\ signal.st.quiet.active)
        /\ Raised("audio:clip") <=> (signal.st # None /\ signal.st.clipActive)
    BY <2>1 DEF Sounds3, Raised, Up
  <2>4. /\ Raised("system") <=> host.cond.h.active
        /\ Raised("stream:drops") <=> (host.dev # None /\ host.dev.h.active)
        /\ Raised("device:overruns") <=> (host.dev # None /\ host.dev.ov.active)
    BY <2>1 DEF Trouble, Raised, Up
  <2>5. /\ Raised("stream:flap") <=> (flap # None /\ flap.active)
        /\ Raised("update:available") <=> mgr.available
        /\ Raised("update:available") => center.active["update:available"].text = mgr.latest.rel.version
        /\ Raised("run-lock-unwritable") <=> lock.failing
    BY <2>1 DEF FlapInv, AvailableInv, LockInv
  <2> QED
    BY <2>2, <2>3, <2>4, <2>5 DEF AlertsHaveCause
<1> QED
  BY <1>1, AlertsInvariant, PTL

\* Once an Apply is over, the monitor has its tap if notifications are on,
\* whichever way its detach raced with the attach; a monitor that has seen them
\* off, or the quiet alert off, holds nothing raised, and neither does one that
\* has left its tap (Signal.Apply, detach and reconcile, Host.poll in
\* internal/monitor).
THEOREM SettingsAreFollowed == Spec => []SettingsTakeEffect
<1>1. AlertsInv => SettingsTakeEffect
  <2> SUFFICES ASSUME AlertsInv PROVE SettingsTakeEffect
    OBVIOUS
  <2>1. SignalInv /\ HostInv /\ TapInv
    BY DEF AlertsInv, MonitorInv
  <2>2. ("signal" \in parts /\ loop.todo = <<>> /\ loop.set.on /\ ~signal.closed) => mic.tap
    BY <2>1 DEF TapInv, Ahead
  <2>3. (signal.applied # None /\ ~signal.applied.on) => ~\E k \in Audio : Raised(k)
    BY <2>1, OffHoldsNothing DEF Raised, Up
  <2>4. (signal.applied # None /\ ~signal.applied.quiet) => ~Raised("audio:quiet")
    BY <2>1 DEF SignalInv, Silent, Sounds3, Raised, Up
  <2>5. (~mic.tap /\ ~signal.closed) => ~\E k \in Audio : Raised(k)
    BY <2>1 DEF SignalInv, Raised, Up
  <2>6. (host.applied # None /\ ~host.applied.on) => ~\E k \in HostKeys : Raised(k)
    BY <2>1 DEF HostInv, Trouble, HostKeys, Raised, Up
  <2> QED
    BY <2>2, <2>3, <2>4, <2>5, <2>6 DEF SettingsTakeEffect, Audio, HostKeys
<1> QED
  BY <1>1, AlertsInvariant, PTL

\* Every overrun a poll has seen is in a log line, or counted toward the next
\* one: none is lost with a restart, a stop, a warning or notifications off
\* (observeOverruns, logOverruns and endOverruns in internal/monitor/host.go).
THEOREM NoOverrunIsForgotten == Spec => []OverrunsAccounted
<1>1. AlertsInv => OverrunsAccounted
  <2> SUFFICES ASSUME AlertsInv PROVE OverrunsAccounted
    OBVIOUS
  <2>1. HostType /\ OwedInv /\ MicType
    BY DEF AlertsInv, MonitorInv, HostInv
  <2>2. Unseen = UnseenBy(host.dev) /\ UnseenBy(host.dev) \in Int
    BY <2>1, OwedType DEF Unseen, UnseenBy
  <2>3. host.done => mic.untold = Unseen
    BY <2>1, <2>2 DEF OwedInv
  <2>4. ASSUME host.dev # None, ~host.done
        PROVE  mic.untold = Unseen + host.dev.unlogged + host.dev.episode
    <3>1. host.dev.unlogged \in Nat /\ host.dev.episode \in Nat
      BY <2>1, <2>4 DEF HostType, CounterStates
    <3>2. mic.untold = UnseenBy(host.dev) + (host.dev.unlogged + host.dev.episode)
      BY <2>1, <2>4 DEF OwedInv, Owed
    <3> QED
      BY <2>2, <3>1, <3>2
  <2> QED
    BY <2>3, <2>4 DEF OverrunsAccounted
<1> QED
  BY <1>1, AlertsInvariant, PTL

\* The lock file tells the state last asked for, or a retry of it is on its
\* way and the operator is told; after stop nothing is written
\* (runLockPublisher in cmd/remotemic/main.go).
THEOREM RunLockFollows == Spec => []RunLockSettles
<1>1. AlertsInv => RunLockSettles
  BY DEF AlertsInv, LockInv, RunLockSettles
<1> QED
  BY <1>1, AlertsInvariant, PTL

----------------------------------------------------------------------------
(* The gaps between connects, summed *)

\* There is a sum of the first n times.
HasElapsed(times, n) ==
    \E s : s = [i \in 0 .. n |-> IF i = 0 THEN 0 ELSE s[i - 1] + times[i]]

\* Each sum of Elapsed is made of the one before it.
LEMMA ElapsedExists ==
    ASSUME NEW times, NEW n \in Nat
    PROVE  HasElapsed(times, n)
<1> DEFINE SumsTo(s, m) == s = [i \in 0 .. m |-> IF i = 0 THEN 0 ELSE s[i - 1] + times[i]]
           T == {m \in Nat : ~HasElapsed(times, m)}
<1>1. SUFFICES ASSUME T # {} PROVE FALSE
  OBVIOUS
<1>2. PICK m \in T : \A j \in T : m <= j
  BY <1>1, LeastNat
<1>3. m # 0
  <2>1. SumsTo([i \in 0 .. 0 |-> 0], 0)
    OBVIOUS
  <2>2. HasElapsed(times, 0)
    BY <2>1 DEF HasElapsed
  <2> QED
    BY <1>2, <2>2
<1>4. m - 1 \in Nat /\ m - 1 \notin T
  BY <1>2, <1>3
<1>5. PICK s : SumsTo(s, m - 1)
  BY <1>4 DEF HasElapsed
<1> DEFINE h == [i \in 0 .. m |-> IF i < m THEN s[i] ELSE s[m - 1] + times[m]]
<1>6. SumsTo(h, m)
  <2> DEFINE l == [i \in 0 .. m |-> IF i = 0 THEN 0 ELSE h[i - 1] + times[i]]
  <2>1. ASSUME NEW i \in 0 .. m PROVE h[i] = l[i]
    <3>1. CASE i = 0
      BY <1>3, <1>4, <1>5, <3>1
    <3>2. CASE i # 0 /\ i < m
      <4>1. i \in 0 .. m - 1 /\ i - 1 \in 0 .. m /\ i - 1 < m
        BY <1>4, <3>2
      <4>2. h[i] = s[i] /\ h[i - 1] = s[i - 1]
        BY <3>2, <4>1
      <4>3. s[i] = s[i - 1] + times[i]
        BY <1>5, <3>2, <4>1
      <4> HIDE DEF h
      <4> QED
        BY <3>2, <4>2, <4>3
    <3>3. CASE i = m
      <4>1. m - 1 \in 0 .. m /\ m - 1 < m /\ i \in 0 .. m
        BY <1>4
      <4>2. h[i] = s[m - 1] + times[m] /\ h[m - 1] = s[m - 1]
        BY <3>3, <4>1
      <4> HIDE DEF h
      <4> QED
        BY <1>3, <3>3, <4>2
    <3> QED
      BY <1>4, <3>1, <3>2, <3>3
  <2> QED
    BY <2>1
<1>7. HasElapsed(times, m)
  BY <1>6 DEF HasElapsed
<1> QED
  BY <1>2, <1>7

\* One more gap takes its time.
LEMMA ElapsedSteps ==
    ASSUME NEW times \in Seq(Nat)
    PROVE  /\ Elapsed(times, 0) = 0
           /\ \A k \in 1 .. Len(times) : Elapsed(times, k) = Elapsed(times, k - 1) + times[k]
           /\ \A k \in 0 .. Len(times) : Elapsed(times, k) \in Nat
<1> DEFINE n == Len(times)
           sum == CHOOSE s : s = [i \in 0 .. n |-> IF i = 0 THEN 0 ELSE s[i - 1] + times[i]]
           T == {i \in 0 .. n : sum[i] \notin Nat}
<1>1. n \in Nat /\ \A i \in 1 .. n : times[i] \in Nat
  OBVIOUS
<1>2. \A k : Elapsed(times, k) = sum[k]
  BY DEF Elapsed
<1>3. sum = [i \in 0 .. n |-> IF i = 0 THEN 0 ELSE sum[i - 1] + times[i]]
  <2>1. HasElapsed(times, n)
    BY <1>1, ElapsedExists
  <2> QED
    BY <2>1, Zenon DEF HasElapsed
<1> HIDE DEF sum, n
<1>4. sum[0] = 0 /\ \A i \in 1 .. n : sum[i] = sum[i - 1] + times[i]
  <2>1. 0 \in 0 .. n /\ \A i \in 1 .. n : i \in 0 .. n /\ i # 0
    BY <1>1
  <2> QED
    BY <1>3, <2>1
<1>5. T = {}
  <2>1. SUFFICES ASSUME T # {} PROVE FALSE
    OBVIOUS
  <2>2. T \subseteq Nat
    BY <1>1
  <2>3. PICK i \in T : \A j \in T : i <= j
    BY <2>1, <2>2, LeastNat
  <2>4. i \in 1 .. n /\ i - 1 \in 0 .. n
    BY <1>1, <1>4, <2>3
  <2>5. sum[i - 1] \in Nat
    BY <2>3, <2>4
  <2> QED
    BY <1>1, <1>4, <2>3, <2>4, <2>5
<1> QED
  BY <1>2, <1>4, <1>5 DEF n

\* The time goes on, by each of the gaps at least.
LEMMA ElapsedGrows ==
    ASSUME NEW times \in Seq(Nat), NEW i \in 0 .. Len(times), NEW j \in i .. Len(times)
    PROVE  Elapsed(times, i) <= Elapsed(times, j)
<1> DEFINE T == {k \in i .. Len(times) : ~(Elapsed(times, i) <= Elapsed(times, k))}
<1>1. Len(times) \in Nat /\ i \in Nat
  OBVIOUS
<1>2. T = {}
  <2>1. SUFFICES ASSUME T # {} PROVE FALSE
    OBVIOUS
  <2>2. T \subseteq Nat
    BY <1>1
  <2>3. PICK k \in T : \A l \in T : k <= l
    BY <2>1, <2>2, LeastNat
  <2>4. Elapsed(times, i) \in Nat /\ k # i
    BY <1>1, <2>3, ElapsedSteps
  <2>5. k \in 1 .. Len(times) /\ k - 1 \in i .. Len(times) /\ k - 1 \in 0 .. Len(times) /\ ~(k <= k - 1)
    BY <1>1, <2>3, <2>4
  <2>6. Elapsed(times, i) <= Elapsed(times, k - 1)
    BY <2>3, <2>5
  <2>7. Elapsed(times, k) = Elapsed(times, k - 1) + times[k] /\ Elapsed(times, k - 1) \in Nat /\ times[k] \in Nat
    BY <2>5, ElapsedSteps
  <2>8. Elapsed(times, i) <= Elapsed(times, k)
    BY <2>4, <2>6, <2>7
  <2> QED
    BY <2>3, <2>8
<1> QED
  BY <1>2

LEMMA ElapsedCovers ==
    ASSUME NEW times \in Seq(Nat), NEW i \in 0 .. Len(times), NEW j \in i .. Len(times), NEW k \in i + 1 .. j
    PROVE  Elapsed(times, j) - Elapsed(times, i) >= times[k]
<1>1. /\ k - 1 \in 0 .. Len(times) /\ k \in 1 .. Len(times) /\ k \in 0 .. Len(times) /\ j \in 0 .. Len(times)
      /\ k - 1 \in i .. Len(times) /\ j \in k .. Len(times) /\ times[k] \in Nat
  OBVIOUS
<1>2. Elapsed(times, i) <= Elapsed(times, k - 1) /\ Elapsed(times, k) <= Elapsed(times, j)
  BY <1>1, ElapsedGrows
<1>3. /\ Elapsed(times, k) = Elapsed(times, k - 1) + times[k]
      /\ Elapsed(times, i) \in Nat /\ Elapsed(times, j) \in Nat /\ Elapsed(times, k - 1) \in Nat
  BY <1>1, ElapsedSteps
<1> QED
  BY <1>1, <1>2, <1>3

\* What gaps take does not depend on later ones.
LEMMA ElapsedAgrees ==
    ASSUME NEW s \in Seq(Nat), NEW t \in Seq(Nat), NEW n \in Nat, n <= Len(s), n <= Len(t),
           \A k \in 1 .. n : s[k] = t[k]
    PROVE  \A k \in 0 .. n : Elapsed(s, k) = Elapsed(t, k)
<1> DEFINE T == {k \in 0 .. n : Elapsed(s, k) # Elapsed(t, k)}
<1>1. T = {}
  <2>1. SUFFICES ASSUME T # {} PROVE FALSE
    OBVIOUS
  <2>2. T \subseteq Nat
    OBVIOUS
  <2>3. PICK k \in T : \A l \in T : k <= l
    BY <2>1, <2>2, LeastNat
  <2>4. k # 0
    BY <2>3, ElapsedSteps
  <2>5. k \in 1 .. n /\ k \in 1 .. Len(s) /\ k \in 1 .. Len(t) /\ k - 1 \in 0 .. n /\ ~(k <= k - 1)
    BY <2>3, <2>4
  <2>6. Elapsed(s, k - 1) = Elapsed(t, k - 1)
    BY <2>3, <2>5
  <2>7. Elapsed(s, k) = Elapsed(s, k - 1) + s[k] /\ Elapsed(t, k) = Elapsed(t, k - 1) + t[k] /\ s[k] = t[k]
    BY <2>5, ElapsedSteps
  <2> QED
    BY <2>3, <2>6, <2>7
<1> QED
  BY <1>1

\* Numbers that begin a range are as many as the last of them says.
LEMMA Beginning ==
    ASSUME NEW n \in Nat, NEW S \in SUBSET (1 .. n), \A i \in S : \A j \in 1 .. i : j \in S
    PROVE  Cardinality(S) \in 0 .. n /\ S = 1 .. Cardinality(S)
<1> DEFINE T == (1 .. n + 1) \ S
<1>1. T \subseteq Nat /\ n + 1 \in T
  OBVIOUS
<1>2. PICK m \in T : \A k \in T : m <= k
  BY <1>1, LeastNat
<1>3. m \in 1 .. n + 1 /\ m \notin S /\ m - 1 \in 0 .. n
  BY <1>2
<1>4. \A i \in 1 .. m - 1 : i \in S
  BY <1>2, <1>3
<1>5. \A i \in S : i \in 1 .. m - 1
  <2> SUFFICES ASSUME NEW i \in S, ~(i < m) PROVE FALSE
    BY <1>3
  <2>1. m \in 1 .. i
    BY <1>3
  <2> QED
    BY <1>3, <2>1
<1>6. S = 1 .. m - 1
  BY <1>4, <1>5
<1>7. Cardinality(1 .. m - 1) = m - 1
  <2> DEFINE p == m - 1
  <2>1. p \in Nat /\ p \in Int /\ 1 \in Int /\ (IF 1 > p THEN 0 ELSE p - 1 + 1) = p
    BY <1>3
  <2> HIDE DEF p
  <2>2. Cardinality(1 .. p) = p
    BY <2>1, FS_Interval
  <2> QED
    BY <2>2 DEF p
<1> QED
  BY <1>3, <1>6, <1>7

----------------------------------------------------------------------------
(* The flap detector is right about the history of the connects *)

\* The time since the k-th connect.
Age(k) == Span(k, Len(gaps) + 1)

\* A detector at rest has the age of every connect within the window and of
\* no other, and they are too few for a warning.
Windowed(f) ==
    /\ Len(f.events) <= FlapMax /\ Len(f.events) <= Len(gaps)
    /\ \A i \in 1 .. Len(f.events) : f.events[i] = Age(Len(gaps) - Len(f.events) + i)
    /\ \A k \in 1 .. Len(gaps) : k > Len(gaps) - Len(f.events) <=> Age(k) <= FlapWindow

\* The quiet time has not passed between the j-th connect and the last one.
Restless(j) == Burst(j) /\ \A k \in j .. Len(gaps) - 1 : gaps[k] < FlapQuiet

\* Until a quiet time has passed without a warning there was no burst; a
\* warning goes back to one, and its detector knows how long it has been quiet.
CountInv ==
    /\ gaps \in Seq(0 .. FlapQuiet)
    /\ ~PathFlap.active => Windowed(PathFlap) /\ ~Flapping
    /\ PathFlap.active =>
          /\ gaps # <<>> /\ PathFlap.last = gaps[Len(gaps)]
          /\ \E j \in 1 .. Len(gaps) : Restless(j)

\* The bounds, as the steps need them.
LEMMA FlapConstants ==
    /\ FlapMax \in Nat /\ FlapMax >= 1 /\ FlapWindow \in Nat /\ FlapQuiet \in Nat /\ FlapQuiet > FlapWindow
BY FlapBounds

\* A list of numbers of a kind is one of numbers.
LEMMA WiderList ==
    ASSUME NEW S, NEW T, S \subseteq T, NEW s \in Seq(S)
    PROVE  /\ s \in Seq(T) /\ Len(s) \in Nat /\ DOMAIN s = 1 .. Len(s)
           /\ \A k \in 1 .. Len(s) : s[k] \in S
OBVIOUS

\* A list with one element rewritten.
LEMMA OneRewritten ==
    ASSUME NEW S, NEW s \in Seq(S), NEW i \in 1 .. Len(s), NEW x \in S
    PROVE  LET t == [s EXCEPT ![i] = x] IN
           /\ t \in Seq(S) /\ Len(t) = Len(s) /\ DOMAIN t = 1 .. Len(s)
           /\ t[i] = x /\ \A k \in 1 .. Len(s) : k # i => t[k] = s[k]
OBVIOUS

\* A gap is a number of ticks.
LEMMA GapsType ==
    ASSUME gaps \in Seq(0 .. FlapQuiet)
    PROVE  /\ gaps \in Seq(Nat) /\ Len(gaps) \in Nat /\ DOMAIN gaps = 1 .. Len(gaps)
           /\ \A k \in 1 .. Len(gaps) : gaps[k] \in 0 .. FlapQuiet
<1>1. 0 .. FlapQuiet \subseteq Nat
  BY FlapConstants
<1> DEFINE S == 0 .. FlapQuiet
<1> HIDE DEF S
<1>2. S \subseteq Nat /\ gaps \in Seq(S)
  BY <1>1 DEF S
<1>3. /\ gaps \in Seq(Nat) /\ Len(gaps) \in Nat /\ DOMAIN gaps = 1 .. Len(gaps)
      /\ \A k \in 1 .. Len(gaps) : gaps[k] \in S
  BY <1>2, WiderList
<1> QED
  BY <1>3 DEF S

\* A connect is younger than those before it, and a quiet time ages them all
\* beyond the window.
LEMMA AgesFall ==
    ASSUME gaps \in Seq(0 .. FlapQuiet)
    PROVE  /\ \A k \in 1 .. Len(gaps) : Age(k) \in Nat
           /\ \A k, l \in 1 .. Len(gaps) : k <= l => Age(l) <= Age(k)
           /\ \A k \in 1 .. Len(gaps) : Age(k) >= gaps[Len(gaps)]
<1> DEFINE n == Len(gaps)
<1>1. gaps \in Seq(Nat) /\ n \in Nat
  BY GapsType
<1>2. \A k \in 1 .. n : Age(k) = Elapsed(gaps, n) - Elapsed(gaps, k - 1)
  <2>1. Len(gaps) + 1 - 1 = n
    BY <1>1
  <2> QED
    BY <2>1 DEF Age, Span
<1>3. \A k \in 1 .. n : Elapsed(gaps, k - 1) \in Nat /\ Elapsed(gaps, n) \in Nat /\ Elapsed(gaps, k - 1) <= Elapsed(gaps, n)
  <2> TAKE k \in 1 .. n
  <2>1. k - 1 \in 0 .. Len(gaps) /\ n \in k - 1 .. Len(gaps) /\ n \in 0 .. Len(gaps)
    BY <1>1
  <2> QED
    BY <1>1, <2>1, ElapsedSteps, ElapsedGrows
<1>4. \A k, l \in 1 .. n : k <= l => Elapsed(gaps, k - 1) <= Elapsed(gaps, l - 1)
  <2> SUFFICES ASSUME NEW k \in 1 .. n, NEW l \in 1 .. n, k <= l PROVE Elapsed(gaps, k - 1) <= Elapsed(gaps, l - 1)
    OBVIOUS
  <2>1. k - 1 \in 0 .. Len(gaps) /\ l - 1 \in k - 1 .. Len(gaps)
    BY <1>1
  <2> QED
    BY <1>1, <2>1, ElapsedGrows
<1>5. \A k \in 1 .. n : Elapsed(gaps, n) - Elapsed(gaps, k - 1) >= gaps[n]
  <2> TAKE k \in 1 .. n
  <2>1. k - 1 \in 0 .. Len(gaps) /\ n \in k - 1 .. Len(gaps) /\ n \in k - 1 + 1 .. n
    BY <1>1
  <2> QED
    BY <1>1, <2>1, ElapsedCovers
<1> HIDE DEF n
<1> QED
  BY <1>1, <1>2, <1>3, <1>4, <1>5 DEF n

\* Spans between connects stay as they were when the gaps before the last of
\* them do, and bursts with them.
LEMMA BurstsStay ==
    ASSUME gaps \in Seq(0 .. FlapQuiet), gaps' \in Seq(0 .. FlapQuiet), NEW n \in Nat, n <= Len(gaps), n <= Len(gaps'),
           \A k \in 1 .. n : gaps'[k] = gaps[k]
    PROVE  /\ \A k \in 0 .. n : Elapsed(gaps', k) = Elapsed(gaps, k)
           /\ \A j \in 1 .. n + 1 : Burst(j)' <=> Burst(j)
<1>1. gaps \in Seq(Nat) /\ gaps' \in Seq(Nat)
  BY FlapConstants
<1>2. \A k \in 0 .. n : Elapsed(gaps', k) = Elapsed(gaps, k)
  BY <1>1, ElapsedAgrees
<1>3. ASSUME NEW j \in 1 .. n + 1 PROVE Burst(j)' <=> Burst(j)
  <2>1. CASE j > FlapMax
    <3>1. j - 1 \in 0 .. n /\ j - FlapMax - 1 \in 0 .. n
      BY <1>3, <2>1, FlapConstants
    <3>2. Elapsed(gaps', j - 1) = Elapsed(gaps, j - 1) /\ Elapsed(gaps', j - FlapMax - 1) = Elapsed(gaps, j - FlapMax - 1)
      BY <1>2, <3>1
    <3> QED
      BY <2>1, <3>2 DEF Burst, Span
  <2>2. CASE ~(j > FlapMax)
    BY <2>2 DEF Burst
  <2> QED
    BY <2>1, <2>2
<1> QED
  BY <1>2, <1>3

\* A detector whose events are as they should be is told of one connect more.
LEMMA ConnectCounted ==
    ASSUME CountInv, FlapInv, ClientConnected
    PROVE  CountInv'
<1>n. PICK n : n = Len(gaps)
  OBVIOUS
<1>f. PICK f : f = FlapEvent(PathFlap, FlapMax, FlapQuiet)
  OBVIOUS
<1>1. /\ gaps \in Seq(0 .. FlapQuiet) /\ gaps \in Seq(Nat) /\ n \in Nat /\ DOMAIN gaps = 1 .. n
      /\ \A k \in 1 .. n : gaps[k] \in 0 .. FlapQuiet
  BY <1>n, GapsType DEF CountInv
<1>2. PathFlap \in Flaps /\ f \in Flaps
  BY <1>f, NoFlapType, FlapEventType DEF PathFlap, FlapInv
<1>3. flap' = f /\ PathFlap' = f /\ gaps' = Append(gaps, 0)
  <2>1. flap' = f /\ gaps' = Append(gaps, 0)
    BY <1>f DEF ClientConnected
  <2> QED
    BY <1>2, <2>1, NoneAssumption DEF PathFlap
<1>4. /\ gaps' \in Seq(0 .. FlapQuiet) /\ Len(gaps') = n + 1 /\ gaps'[n + 1] = 0 /\ \A k \in 1 .. n : gaps'[k] = gaps[k]
      /\ DOMAIN gaps' = 1 .. n + 1
  <2>1. 0 \in 0 .. FlapQuiet
    BY FlapConstants
  <2> QED
    BY <1>1, <1>3, <2>1
<1>5. /\ \A k \in 0 .. n : Elapsed(gaps', k) = Elapsed(gaps, k)
      /\ \A j \in 1 .. n + 1 : Burst(j)' <=> Burst(j)
  BY <1>1, <1>4, <1>n, BurstsStay
<1>6. Elapsed(gaps', n + 1) = Elapsed(gaps, n) /\ Elapsed(gaps, n) \in Nat
  <2>1. n + 1 \in 1 .. Len(gaps') /\ n \in 0 .. n /\ n + 1 - 1 = n /\ gaps' \in Seq(Nat)
    BY <1>1, <1>4, FlapConstants
  <2>2. Elapsed(gaps', n + 1) = Elapsed(gaps', n) + gaps'[n + 1]
    BY <2>1, ElapsedSteps
  <2>3. Elapsed(gaps, n) \in Nat
    BY <1>1, <2>1, ElapsedSteps
  <2> QED
    BY <1>4, <1>5, <2>1, <2>2, <2>3
\* The older connects have their ages still, and the new one is of age zero.
<1>7. Age(n + 1)' = 0 /\ \A k \in 1 .. n : Age(k)' = Age(k)
  <2>1. Len(gaps') + 1 - 1 = n + 1 /\ n + 1 - 1 = n /\ n \in 0 .. n /\ \A k \in 1 .. n : k - 1 \in 0 .. n
    BY <1>1, <1>4
  <2>2. Age(n + 1)' = Elapsed(gaps', n + 1) - Elapsed(gaps', n)
    BY <1>4, <1>n, <2>1 DEF Age, Span
  <2>3. \A k \in 1 .. n : Age(k)' = Elapsed(gaps', n + 1) - Elapsed(gaps', k - 1) /\ Age(k) = Elapsed(gaps, n) - Elapsed(gaps, k - 1)
    BY <1>4, <1>n, <2>1 DEF Age, Span
  <2> QED
    BY <1>5, <1>6, <2>1, <2>2, <2>3
<1>8. ASSUME ~PathFlap.active
      PROVE  CountInv'
  <2>m. PICK m : m = Len(PathFlap.events)
    OBVIOUS
  <2>1. Windowed(PathFlap) /\ ~Flapping
    BY <1>8 DEF CountInv
  <2>2. f = [active |-> m + 1 > FlapMax, events |-> Append(PathFlap.events, 0), last |-> 0]
    BY <1>8, <1>f, <2>m DEF FlapEvent, QuietGapElapsed
  <2>3. PathFlap.events \in Seq(Nat) /\ m \in Nat
    BY <1>2, <2>m DEF Flaps
  <2>4. /\ Len(f.events) = m + 1 /\ f.events[m + 1] = 0 /\ (\A i \in 1 .. m : f.events[i] = PathFlap.events[i])
        /\ f.last = 0 /\ (f.active <=> m + 1 > FlapMax)
    <3>1. f.events = Append(PathFlap.events, 0) /\ f.last = 0 /\ (f.active <=> m + 1 > FlapMax)
      BY <2>2
    <3> QED
      BY <2>3, <2>m, <3>1
  <2>5. /\ m <= FlapMax /\ m <= n
        /\ \A i \in 1 .. m : PathFlap.events[i] = Age(n - m + i)
        /\ \A k \in 1 .. n : k > n - m <=> Age(k) <= FlapWindow
    BY <1>n, <2>1, <2>m DEF Windowed
  \* The newest connect makes a burst exactly if it makes one too many.
  <2>6. Burst(n + 1) <=> m + 1 > FlapMax
    <3>1. Burst(n + 1) <=> n + 1 > FlapMax /\ Age((n + 1) - FlapMax) <= FlapWindow
      <4>1. Span((n + 1) - FlapMax, n + 1) = Age((n + 1) - FlapMax)
        BY <1>n DEF Age
      <4>2. Burst(n + 1) <=> n + 1 > FlapMax /\ Span((n + 1) - FlapMax, n + 1) <= FlapWindow
        BY DEF Burst
      <4> QED
        BY <4>1, <4>2
    <3>2. CASE n + 1 > FlapMax
      <4>1. (n + 1) - FlapMax \in 1 .. n
        BY <1>1, <3>2, FlapConstants
      <4>2. (n + 1) - FlapMax > n - m <=> Age((n + 1) - FlapMax) <= FlapWindow
        BY <2>5, <4>1
      <4>3. (n + 1) - FlapMax > n - m <=> m + 1 > FlapMax
        BY <1>1, <2>3, FlapConstants
      <4> QED
        BY <3>1, <3>2, <4>2, <4>3
    <3>3. CASE ~(n + 1 > FlapMax)
      <4>1. ~(m + 1 > FlapMax)
        BY <1>1, <2>3, <2>5, <3>3, FlapConstants
      <4> QED
        BY <3>1, <3>3, <4>1
    <3> QED
      BY <3>2, <3>3
  <2>7. CASE m + 1 > FlapMax
    <3>1. Restless(n + 1)'
      <4>1. n + 1 \in 1 .. n + 1 /\ n + 1 .. n + 1 - 1 = {}
        BY <1>1
      <4>2. Burst(n + 1)'
        BY <1>5, <2>6, <2>7, <4>1
      <4> QED
        BY <1>4, <4>1, <4>2 DEF Restless
    <3>2. gaps' # <<>> /\ n + 1 \in 1 .. Len(gaps')
      BY <1>1, <1>4
    <3> QED
      BY <1>3, <1>4, <2>4, <2>7, <3>1, <3>2 DEF CountInv
  <2>8. CASE ~(m + 1 > FlapMax)
    <3>1. Windowed(f)'
      <4>1. Len(f.events) <= FlapMax /\ Len(f.events) <= n + 1
        BY <1>1, <2>3, <2>4, <2>5, <2>8, FlapConstants
      <4>2. ASSUME NEW i \in 1 .. m + 1 PROVE f.events[i] = Age(n + 1 - (m + 1) + i)'
        <5>1. CASE i = m + 1
          <6>1. n + 1 - (m + 1) + i = n + 1
            BY <1>1, <2>3, <5>1
          <6> QED
            BY <1>7, <2>4, <5>1, <6>1
        <5>2. CASE i # m + 1
          <6>1. i \in 1 .. m /\ n + 1 - (m + 1) + i = n - m + i /\ n - m + i \in 1 .. n
            BY <1>1, <2>3, <2>5, <5>2
          <6> QED
            BY <1>7, <2>4, <2>5, <6>1
        <5> QED
          BY <5>1, <5>2
      <4>3. ASSUME NEW k \in 1 .. n + 1 PROVE k > n + 1 - (m + 1) <=> Age(k)' <= FlapWindow
        <5>1. CASE k = n + 1
          <6>1. k > n + 1 - (m + 1) /\ 0 <= FlapWindow
            BY <1>1, <2>3, <5>1, FlapConstants
          <6> QED
            BY <1>7, <5>1, <6>1
        <5>2. CASE k # n + 1
          <6>1. k \in 1 .. n /\ (k > n + 1 - (m + 1) <=> k > n - m)
            BY <1>1, <2>3, <5>2
          <6> QED
            BY <1>7, <2>5, <6>1
        <5> QED
          BY <5>1, <5>2
      <4> QED
        <5>1. Len(gaps') = n + 1 /\ Len(f.events) = m + 1
          BY <1>4, <2>4
        <5>2. \A i \in 1 .. Len(f.events) : f.events[i] = Age(Len(gaps) - Len(f.events) + i)'
          BY <1>1, <2>3, <4>2, <5>1 DEF Age, Span
        <5>3. \A k \in 1 .. Len(gaps') : k > Len(gaps') - Len(f.events) <=> Age(k)' <= FlapWindow
          BY <1>1, <2>3, <4>3, <5>1 DEF Age, Span
        <5> QED
          BY <4>1, <5>1, <5>2, <5>3 DEF Windowed
    <3>2. ~Flapping'
      <4> SUFFICES ASSUME Flapping' PROVE FALSE
        OBVIOUS
      <4>1. PICK j \in 1 .. n + 1 : Burst(j)' /\ \A k \in j .. n + 1 : gaps'[k] < FlapQuiet
        BY <1>4 DEF Flapping
      <4>2. Burst(j)
        BY <1>5, <4>1
      <4>3. j # n + 1
        BY <2>6, <2>8, <4>2
      <4>4. j \in 1 .. n /\ \A k \in j .. n : k \in 1 .. n /\ k \in j .. n + 1
        BY <1>1, <4>1, <4>3
      <4>5. \A k \in j .. n : gaps[k] < FlapQuiet
        BY <1>4, <4>1, <4>4
      <4> QED
        BY <1>1, <2>1, <4>2, <4>4, <4>5 DEF Flapping
    <3> QED
      BY <1>3, <1>4, <2>4, <2>8, <3>1, <3>2 DEF CountInv
  <2> QED
    BY <2>7, <2>8
<1>9. ASSUME PathFlap.active
      PROVE  CountInv'
  <2>1. n \in 1 .. n /\ PathFlap.last = gaps[n] /\ gaps[n] \in Nat /\ PathFlap.last # None
    <3>1. gaps # <<>> /\ PathFlap.last = gaps[n]
      BY <1>9, <1>n DEF CountInv
    <3>2. n \in 1 .. n
      BY <1>1, <3>1
    <3>3. gaps[n] \in Nat
      BY <1>1, <3>2, FlapConstants
    <3> QED
      BY <3>1, <3>2, <3>3, NoneAssumption
  <2>2. PICK j \in 1 .. n : Restless(j)
    BY <1>9, <1>n DEF CountInv
  <2>3. CASE gaps[n] >= FlapQuiet
    <3>1. f = [active |-> FALSE, events |-> <<0>>, last |-> 0]
      BY <1>9, <1>f, <2>1, <2>3 DEF FlapEvent, QuietGapElapsed
    <3>2. Len(f.events) = 1 /\ f.events[1] = 0 /\ f.active = FALSE
      BY <3>1
    \* The connects before the quiet time are all out of the window.
    <3>3. \A k \in 1 .. n : ~(Age(k) <= FlapWindow)
      <4>1. \A k \in 1 .. n : Age(k) \in Nat /\ Age(k) >= gaps[n]
        BY <1>1, <1>n, AgesFall
      <4> QED
        BY <2>1, <2>3, <4>1, FlapConstants
    <3>4. Windowed(f)'
      <4>1. ASSUME NEW i \in 1 .. 1 PROVE f.events[i] = Age(n + 1 - 1 + i)'
        <5>1. i = 1 /\ n + 1 - 1 + i = n + 1
          BY <1>1, <4>1
        <5> QED
          BY <1>7, <3>2, <5>1
      <4>2. ASSUME NEW k \in 1 .. n + 1 PROVE k > n + 1 - 1 <=> Age(k)' <= FlapWindow
        <5>1. CASE k = n + 1
          <6>1. k > n + 1 - 1 /\ 0 <= FlapWindow
            BY <1>1, <5>1, FlapConstants
          <6> QED
            BY <1>7, <5>1, <6>1
        <5>2. CASE k # n + 1
          <6>1. k \in 1 .. n /\ ~(k > n + 1 - 1)
            BY <1>1, <5>2
          <6> QED
            BY <1>7, <3>3, <6>1
        <5> QED
          BY <5>1, <5>2
      <4> QED
        <5>1. Len(gaps') = n + 1 /\ Len(f.events) = 1
          BY <1>4, <3>2
        <5>2. \A i \in 1 .. Len(f.events) : f.events[i] = Age(Len(gaps) - Len(f.events) + i)'
          BY <1>1, <4>1, <5>1 DEF Age, Span
        <5>3. \A k \in 1 .. Len(gaps') : k > Len(gaps') - Len(f.events) <=> Age(k)' <= FlapWindow
          BY <1>1, <4>2, <5>1 DEF Age, Span
        <5>4. Len(f.events) <= FlapMax /\ Len(f.events) <= Len(gaps')
          BY <1>1, <5>1, FlapConstants
        <5> QED
          BY <5>2, <5>3, <5>4 DEF Windowed
    <3>5. ~Flapping'
      <4> SUFFICES ASSUME Flapping' PROVE FALSE
        OBVIOUS
      <4>1. PICK i \in 1 .. n + 1 : Burst(i)' /\ \A k \in i .. n + 1 : gaps'[k] < FlapQuiet
        BY <1>4 DEF Flapping
      <4>2. CASE i = n + 1
        <5>1. Burst(n + 1)
          BY <1>5, <4>1, <4>2
        <5>2. (n + 1) - FlapMax \in 1 .. n /\ Age((n + 1) - FlapMax) <= FlapWindow
          BY <1>1, <1>n, <5>1, FlapConstants DEF Burst, Age
        <5> QED
          BY <3>3, <5>2
      <4>3. CASE i # n + 1
        <5>1. n \in i .. n + 1 /\ n \in 1 .. n
          BY <1>1, <2>1, <4>1, <4>3
        <5>2. gaps[n] < FlapQuiet
          BY <1>4, <4>1, <5>1
        <5> QED
          BY <2>1, <2>3, <5>2, FlapConstants
      <4> QED
        BY <4>2, <4>3
    <3> QED
      BY <1>3, <1>4, <3>2, <3>4, <3>5 DEF CountInv
  <2>4. CASE ~(gaps[n] >= FlapQuiet)
    <3>1. f = [PathFlap EXCEPT !.last = 0]
      BY <1>9, <1>f, <2>1, <2>4 DEF FlapEvent, QuietGapElapsed
    <3>2. f.active /\ f.last = 0
      BY <1>2, <1>9, <3>1 DEF Flaps
    <3>3. Restless(j)'
      <4>1. Burst(j)' /\ j \in 1 .. n + 1
        BY <1>1, <1>5, <2>2 DEF Restless
      <4>2. ASSUME NEW k \in j .. n PROVE gaps'[k] < FlapQuiet
        <5>1. k \in 1 .. n /\ gaps'[k] = gaps[k] /\ (k = n \/ k \in j .. n - 1)
          BY <1>1, <1>4, <2>2, <4>2
        <5>2. k = n => gaps[k] < FlapQuiet
          BY <2>1, <2>4, FlapConstants
        <5>3. k \in j .. n - 1 => gaps[k] < FlapQuiet
          BY <1>n, <2>2 DEF Restless
        <5> QED
          BY <5>1, <5>2, <5>3
      <4>3. Len(gaps') - 1 = n
        BY <1>1, <1>4
      <4> QED
        BY <1>1, <2>2, <4>1, <4>2, <4>3 DEF Restless
    <3>4. gaps' # <<>> /\ j \in 1 .. Len(gaps') /\ gaps'[Len(gaps')] = 0
      BY <1>1, <1>4, <2>2
    <3> QED
      BY <1>3, <1>4, <3>2, <3>3, <3>4 DEF CountInv
  <2> QED
    BY <2>3, <2>4
<1> QED
  BY <1>8, <1>9

\* A list of ages that falls loses the first of them as they grow.
LEMMA OlderEvents ==
    ASSUME NEW f \in Flaps, NEW window \in Nat, NEW quiet \in Nat,
           \A i, j \in 1 .. Len(f.events) : i <= j => f.events[j] <= f.events[i]
    PROVE  \E c \in 0 .. Len(f.events) :
              LET g == FlapOlder(f, window, quiet) IN
              /\ Len(g.events) = Len(f.events) - c
              /\ \A i \in 1 .. Len(f.events) : f.events[i] + 1 > window <=> i <= c
              /\ \A i \in 1 .. Len(f.events) - c : g.events[i] = f.events[c + i] + 1
              /\ g.active = f.active /\ g.last = Older(f.last, quiet)
<1> DEFINE older == [i \in DOMAIN f.events |-> f.events[i] + 1]
           S == {i \in DOMAIN older : older[i] > window}
           m == Len(f.events)
           out == Cardinality(S)
           rest == SubSeq(older, out + 1, Len(older))
<1>1. f.events \in Seq(Nat) /\ DOMAIN f.events = 1 .. m /\ m \in Nat
  BY DEF Flaps
<1>2. \A i \in 1 .. m : f.events[i] \in Nat
  BY <1>1
<1>3. older \in [1 .. m -> Nat]
  BY <1>1, <1>2
<1>4. older \in Seq(Nat) /\ Len(older) = m
  BY <1>1, <1>3
<1>5. \A i \in 1 .. m : older[i] = f.events[i] + 1
  BY <1>1
<1>6. S \in SUBSET (1 .. m) /\ (\A i \in 1 .. m : i \in S <=> f.events[i] + 1 > window)
  <2>1. DOMAIN older = 1 .. m
    BY <1>1
  <2> QED
    BY <1>5, <2>1
<1>7. \A i \in S : \A j \in 1 .. i : j \in S
  <2> SUFFICES ASSUME NEW i \in S, NEW j \in 1 .. i PROVE j \in S
    OBVIOUS
  <2>1. i \in 1 .. m /\ j \in 1 .. m /\ j <= i
    BY <1>1, <1>6
  <2>2. f.events[i] <= f.events[j] /\ f.events[i] + 1 > window
    BY <1>6, <2>1
  <2> QED
    BY <1>2, <1>6, <2>1, <2>2
<1> HIDE DEF S
<1>8. out \in 0 .. m /\ S = 1 .. out
  BY <1>1, <1>6, <1>7, Beginning
<1> HIDE DEF older, out
<1>9. Len(rest) = m - out /\ \A i \in 1 .. m - out : rest[i] = older[out + i]
  BY <1>1, <1>4, <1>8
<1>10. FlapOlder(f, window, quiet) = [f EXCEPT !.events = rest, !.last = Older(f.last, quiet)]
  BY DEF FlapOlder, older, out, S
<1> HIDE DEF rest
<1>11. LET g == FlapOlder(f, window, quiet) IN
       g.events = rest /\ g.active = f.active /\ g.last = Older(f.last, quiet)
  BY <1>10 DEF Flaps
<1>12. \A i \in 1 .. m : f.events[i] + 1 > window <=> i <= out
  BY <1>1, <1>6, <1>8
<1>13. \A i \in 1 .. m - out : rest[i] = f.events[out + i] + 1
  <2> TAKE i \in 1 .. m - out
  <2>1. out + i \in 1 .. m
    BY <1>1, <1>8
  <2> QED
    BY <1>5, <1>9, <2>1
<1> QED
  BY <1>8, <1>9, <1>11, <1>12, <1>13

\* A tick makes the connects of the window older, and those past it drop out.
LEMMA TickCounted ==
    ASSUME CountInv, FlapInv, ClockTicks
    PROVE  CountInv'
<1>n. PICK n : n = Len(gaps)
  OBVIOUS
<1>g. PICK g : g = IF gaps[n] + 1 <= FlapQuiet THEN gaps[n] + 1 ELSE FlapQuiet
  OBVIOUS
<1>1. /\ gaps \in Seq(0 .. FlapQuiet) /\ gaps \in Seq(Nat) /\ n \in Nat /\ DOMAIN gaps = 1 .. n
      /\ \A k \in 1 .. n : gaps[k] \in 0 .. FlapQuiet
  BY <1>n, GapsType DEF CountInv
<1>2. n \in 1 .. n /\ n >= 1 /\ gaps[n] \in 0 .. FlapQuiet
  <2>1. gaps # <<>>
    BY DEF ClockTicks
  <2> QED
    BY <1>1, <1>n, <2>1
<1>3. g \in 0 .. FlapQuiet /\ gaps[n] <= g /\ (gaps[n] < FlapQuiet => g = gaps[n] + 1) /\ (g < FlapQuiet => gaps[n] < FlapQuiet)
  BY <1>2, <1>g, FlapConstants
<1>4. gaps' = [gaps EXCEPT ![n] = g]
  <2>1. Min({gaps[n] + 1, FlapQuiet}) = g
    BY <1>2, <1>g, MinOfTwo, FlapConstants
  <2> QED
    BY <1>n, <2>1 DEF ClockTicks
<1>5. /\ gaps' \in Seq(0 .. FlapQuiet) /\ Len(gaps') = n /\ gaps'[n] = g /\ \A k \in 1 .. n - 1 : gaps'[k] = gaps[k]
      /\ DOMAIN gaps' = 1 .. n
  <2> DEFINE S == 0 .. FlapQuiet
  <2> HIDE DEF S
  <2>1. gaps \in Seq(S) /\ n \in 1 .. Len(gaps) /\ g \in S
    BY <1>1, <1>2, <1>3, <1>n DEF S
  <2>2. /\ gaps' \in Seq(S) /\ Len(gaps') = Len(gaps) /\ DOMAIN gaps' = 1 .. Len(gaps)
        /\ gaps'[n] = g /\ \A k \in 1 .. Len(gaps) : k # n => gaps'[k] = gaps[k]
    BY <1>4, <2>1, OneRewritten
  <2>3. \A k \in 1 .. n - 1 : k \in 1 .. n /\ k # n
    BY <1>1
  <2> QED
    BY <1>n, <2>2, <2>3 DEF S
<1>6. /\ \A k \in 0 .. n - 1 : Elapsed(gaps', k) = Elapsed(gaps, k)
      /\ \A j \in 1 .. n : Burst(j)' <=> Burst(j)
  <2>1. n - 1 \in Nat /\ n - 1 <= Len(gaps) /\ n - 1 <= Len(gaps') /\ (n - 1) + 1 = n
    BY <1>1, <1>2, <1>5, <1>n
  <2> QED
    BY <1>1, <1>5, <2>1, BurstsStay
\* Every connect ages by what the last gap grows.
<1>7. \A k \in 1 .. n : Age(k) \in Nat /\ Age(k)' = Age(k) + (g - gaps[n])
  <2>1. gaps' \in Seq(Nat) /\ n \in 1 .. Len(gaps') /\ n \in 1 .. Len(gaps) /\ n - 1 \in 0 .. n - 1 /\ n - 1 \in 0 .. Len(gaps)
    BY <1>1, <1>2, <1>5, <1>n, FlapConstants
  <2>2. Elapsed(gaps', n) = Elapsed(gaps', n - 1) + gaps'[n]
    BY <2>1, ElapsedSteps
  <2>3. Elapsed(gaps, n) = Elapsed(gaps, n - 1) + gaps[n] /\ Elapsed(gaps, n - 1) \in Nat
    BY <1>1, <2>1, ElapsedSteps
  <2> TAKE k \in 1 .. n
  <2>4. k - 1 \in 0 .. n - 1 /\ k - 1 \in 0 .. Len(gaps) /\ k \in 1 .. Len(gaps)
    BY <1>1, <1>n
  <2>5. Age(k)' = Elapsed(gaps', n) - Elapsed(gaps', k - 1) /\ Age(k) = Elapsed(gaps, n) - Elapsed(gaps, k - 1)
    BY <1>1, <1>5, <1>n DEF Age, Span
  <2>6. Elapsed(gaps', k - 1) = Elapsed(gaps, k - 1) /\ Elapsed(gaps', n - 1) = Elapsed(gaps, n - 1) /\ Elapsed(gaps, k - 1) \in Nat
    BY <1>1, <1>6, <2>1, <2>4, ElapsedSteps
  <2>7. Age(k) \in Nat
    BY <1>1, <2>4, AgesFall
  <2> QED
    BY <1>2, <1>3, <1>5, <2>2, <2>3, <2>5, <2>6, <2>7
<1>8. ~Flapping => ~Flapping'
  <2> SUFFICES ASSUME Flapping' PROVE Flapping
    OBVIOUS
  <2>1. PICK j \in 1 .. n : Burst(j)' /\ \A k \in j .. n : gaps'[k] < FlapQuiet
    BY <1>5 DEF Flapping
  <2>2. ASSUME NEW k \in j .. n PROVE gaps[k] < FlapQuiet
    <3>1. k \in 1 .. n /\ (k = n \/ k \in 1 .. n - 1) /\ gaps'[k] < FlapQuiet
      BY <1>1, <2>1, <2>2
    <3> QED
      BY <1>3, <1>5, <3>1
  <2> QED
    BY <1>1, <1>6, <1>n, <2>1, <2>2 DEF Flapping
<1>9. CASE flap = None
  <2>1. PathFlap = NoFlap /\ PathFlap' = NoFlap /\ ~NoFlap.active /\ Len(NoFlap.events) = 0
    BY <1>9 DEF PathFlap, ClockTicks, NoFlap
  <2>2. Windowed(NoFlap) /\ ~Flapping
    BY <2>1 DEF CountInv
  <2>3. ASSUME NEW k \in 1 .. n PROVE ~(Age(k) <= FlapWindow) /\ ~(Age(k)' <= FlapWindow)
    <3>1. ~(k > n - 0)
      BY <1>1
    <3>2. ~(Age(k) <= FlapWindow)
      BY <1>n, <2>1, <2>2, <3>1 DEF Windowed
    <3> QED
      BY <1>2, <1>3, <1>7, <3>2, FlapConstants
  <2>4. Windowed(NoFlap)'
    <3>1. Len(NoFlap.events) <= FlapMax /\ Len(NoFlap.events) <= Len(gaps') /\ 1 .. Len(NoFlap.events) = {}
      BY <1>1, <1>5, <2>1, FlapConstants
    <3>2. \A k \in 1 .. Len(gaps') : k > Len(gaps') - Len(NoFlap.events) <=> Age(k)' <= FlapWindow
      BY <1>1, <1>5, <2>1, <2>3
    <3> QED
      BY <3>1, <3>2 DEF Windowed
  <2> QED
    BY <1>5, <1>8, <2>1, <2>2, <2>4 DEF CountInv
<1>10. CASE flap # None
  <2>f. PICK f : f = FlapOlder(flap, FlapWindow, FlapQuiet)
    OBVIOUS
  <2>1. flap \in Flaps /\ PathFlap = flap
    BY <1>10 DEF FlapInv, PathFlap
  <2>2. f \in Flaps /\ f.active = flap.active
    BY <2>1, <2>f, FlapOlderType, FlapConstants
  <2>3. PathFlap' = f
    BY <1>10, <2>2, <2>f, NoneAssumption DEF ClockTicks, PathFlap
  <2>4. ASSUME ~flap.active
        PROVE  CountInv'
    <3>m. PICK m : m = Len(flap.events)
      OBVIOUS
    <3>1. Windowed(flap) /\ ~Flapping
      BY <2>1, <2>4 DEF CountInv
    <3>2. /\ m <= FlapMax /\ m <= n
          /\ \A i \in 1 .. m : flap.events[i] = Age(n - m + i)
          /\ \A k \in 1 .. n : k > n - m <=> Age(k) <= FlapWindow
      BY <1>n, <3>1, <3>m DEF Windowed
    <3>3. m \in Nat /\ m \in 0 .. n /\ \A i \in 1 .. m : flap.events[i] \in Nat
      <4>1. flap.events \in Seq(Nat)
        BY <2>1 DEF Flaps
      <4> QED
        BY SMTT(60), <1>1, <3>2, <3>m, <4>1
    <3>4. \A i \in 1 .. m : n - m + i \in 1 .. n
      BY <1>1, <3>3
    \* With a quiet time past, no connect is in the window.
    <3>5. \A i \in 1 .. m : Age(n - m + i)' = flap.events[i] + 1
      <4>1. CASE gaps[n] < FlapQuiet
        <5>1. g - gaps[n] = 1
          BY <1>2, <1>3, <4>1, FlapConstants
        <5> TAKE i \in 1 .. m
        <5>2. Age(n - m + i)' = Age(n - m + i) + (g - gaps[n]) /\ flap.events[i] = Age(n - m + i)
          BY <1>7, <3>2, <3>4
        <5> QED
          BY <5>1, <5>2
      <4>2. CASE ~(gaps[n] < FlapQuiet)
        <5>1. Age(n) \in Nat /\ Age(n) >= gaps[n]
          BY <1>1, <1>2, <1>n, AgesFall
        <5>2. ~(Age(n) <= FlapWindow)
          BY <1>2, <4>2, <5>1, FlapConstants
        <5>3. ~(n > n - m)
          BY <1>2, <3>2, <5>2
        <5> QED
          BY <1>1, <3>3, <5>3
      <4> QED
        BY <4>1, <4>2
    <3>6. \A i, j \in 1 .. m : i <= j => flap.events[j] <= flap.events[i]
      <4> SUFFICES ASSUME NEW i \in 1 .. m, NEW j \in 1 .. m, i <= j PROVE flap.events[j] <= flap.events[i]
        OBVIOUS
      <4>1. n - m + i \in 1 .. n /\ n - m + j \in 1 .. n /\ n - m + i <= n - m + j
        BY <1>1, <3>3, <3>4
      <4>2. Age(n - m + j) <= Age(n - m + i)
        BY <1>1, <1>n, <4>1, AgesFall
      <4> QED
        BY <3>2, <4>2
    <3>7. PICK c \in 0 .. m :
             /\ Len(f.events) = m - c
             /\ \A i \in 1 .. m : flap.events[i] + 1 > FlapWindow <=> i <= c
             /\ \A i \in 1 .. m - c : f.events[i] = flap.events[c + i] + 1
      BY ZenonT(60), <2>1, <2>f, <3>6, <3>m, OlderEvents, FlapConstants
    <3>8. c \in Nat /\ m - c \in 0 .. n /\ m - c <= FlapMax
      BY <1>1, <3>2, <3>3, <3>7, FlapConstants
    <3>9. ASSUME NEW i \in 1 .. m - c PROVE f.events[i] = Age(n - (m - c) + i)'
      <4>1. c + i \in 1 .. m /\ n - m + (c + i) = n - (m - c) + i
        BY <1>1, <3>3, <3>7, <3>8, <3>9
      <4>2. f.events[i] = flap.events[c + i] + 1
        BY <3>7, <3>9
      <4>3. Age(n - m + (c + i))' = flap.events[c + i] + 1
        BY <3>5, <4>1
      <4> QED
        BY <4>1, <4>2, <4>3
    <3>10. ASSUME NEW k \in 1 .. n PROVE k > n - (m - c) <=> Age(k)' <= FlapWindow
      <4>1. CASE k > n - m
        <5>i. PICK i \in 1 .. m : k = n - m + i
          <6>1. k - (n - m) \in 1 .. m /\ k = n - m + (k - (n - m))
            BY <1>1, <3>3, <3>10, <4>1
          <6> QED
            BY <6>1
        <5>1. Age(k)' = flap.events[i] + 1 /\ flap.events[i] \in Nat
          BY <3>3, <3>5, <5>i
        <5>2. flap.events[i] + 1 > FlapWindow <=> i <= c
          BY <3>7, <5>i
        <5>3. k > n - (m - c) <=> ~(i <= c)
          BY <1>1, <3>3, <3>8, <5>i
        <5> QED
          BY <5>1, <5>2, <5>3, FlapConstants
      <4>2. CASE ~(k > n - m)
        <5>1. ~(Age(k) <= FlapWindow) /\ Age(k) \in Nat /\ Age(k)' = Age(k) + (g - gaps[n])
          BY <1>7, <3>2, <4>2
        <5>2. ~(Age(k)' <= FlapWindow)
          BY <1>2, <1>3, <5>1, FlapConstants
        <5>3. ~(k > n - (m - c))
          BY <1>1, <3>3, <3>8, <4>2
        <5> QED
          BY <5>2, <5>3
      <4> QED
        BY <4>1, <4>2
    <3>11. Windowed(f)'
      <4>1. Len(gaps') = n /\ Len(f.events) = m - c
        BY <1>5, <3>7
      <4>2. \A i \in 1 .. Len(f.events) : f.events[i] = Age(Len(gaps) - Len(f.events) + i)'
        BY <1>1, <3>3, <3>8, <3>9, <4>1 DEF Age, Span
      <4>3. \A k \in 1 .. Len(gaps') : k > Len(gaps') - Len(f.events) <=> Age(k)' <= FlapWindow
        BY <1>1, <3>3, <3>8, <3>10, <4>1 DEF Age, Span
      <4>4. Len(f.events) <= FlapMax /\ Len(f.events) <= Len(gaps')
        BY <1>1, <3>8, <4>1
      <4> QED
        BY <4>2, <4>3, <4>4 DEF Windowed
    <3> QED
      BY <1>5, <1>8, <2>2, <2>3, <2>4, <3>1, <3>11 DEF CountInv
  <2>5. ASSUME flap.active
        PROVE  CountInv'
    <3>1. flap.last = gaps[n]
      BY <1>n, <2>1, <2>5 DEF CountInv
    <3>2. PICK j \in 1 .. n : Restless(j)
      BY <1>n, <2>1, <2>5 DEF CountInv
    <3>3. f.last = g
      <4>1. f.last = Older(flap.last, FlapQuiet)
        <5>1. DOMAIN flap = {"active", "events", "last"}
          BY <2>1 DEF Flaps
        <5> QED
          BY <2>f, <5>1 DEF FlapOlder
      <4>2. flap.last # None /\ flap.last \in Int
        BY <1>2, <3>1, NoneAssumption, FlapConstants
      <4>3. Older(flap.last, FlapQuiet) = Min({gaps[n] + 1, FlapQuiet})
        BY <3>1, <4>2 DEF Older
      <4> QED
        BY <1>2, <1>g, <4>1, <4>3, MinOfTwo, FlapConstants
    <3>4. Restless(j)'
      <4>1. Burst(j)'
        BY <1>6, <3>2 DEF Restless
      <4>2. ASSUME NEW k \in j .. n - 1 PROVE gaps'[k] < FlapQuiet
        <5>1. k \in 1 .. n - 1 /\ gaps[k] < FlapQuiet
          BY <1>1, <1>n, <3>2, <4>2 DEF Restless
        <5> QED
          BY <1>5, <5>1
      <4>3. Len(gaps') - 1 = n - 1
        BY <1>5
      <4> QED
        BY <1>1, <3>2, <4>1, <4>2, <4>3 DEF Restless
    <3>5. gaps' # <<>> /\ j \in 1 .. Len(gaps') /\ gaps'[Len(gaps')] = g
      BY <1>1, <1>2, <1>5, <3>2
    <3> QED
      BY <1>5, <2>2, <2>3, <2>5, <3>3, <3>4, <3>5 DEF CountInv
  <2> QED
    BY <2>4, <2>5
<1> QED
  BY <1>9, <1>10

\* The other steps of the events leave the gaps and what the detector is told of them.
LEMMA ElseCounted ==
    ASSUME CountInv, FlapInv, gaps' = gaps, PathFlap' = PathFlap
    PROVE  CountInv'
<1>1. \A k : Age(k)' = Age(k)
  BY DEF Age, Span
<1>2. \A j : Burst(j)' <=> Burst(j)
  BY DEF Burst, Span
<1>3. \A f : Windowed(f)' <=> Windowed(f)
  BY <1>1 DEF Windowed, Age, Span
<1>4. (Flapping' <=> Flapping) /\ \A j : Restless(j)' <=> Restless(j)
  BY <1>2 DEF Flapping, Restless
<1> QED
  BY <1>3, <1>4 DEF CountInv

\* A sweep takes a warning back after a quiet time, and drops a detector that
\* has nothing in its window.
LEMMA SweepCounted ==
    ASSUME CountInv, FlapInv, Sweep
    PROVE  CountInv'
<1>f. PICK f : f = FlapSweep(flap, FlapQuiet)
  OBVIOUS
<1>n. PICK n : n = Len(gaps)
  OBVIOUS
<1>1. /\ flap # None /\ flap \in Flaps /\ PathFlap = flap /\ flap' = (IF FlapIdle(f) THEN None ELSE f) /\ gaps' = gaps
  BY <1>f DEF Sweep, FlapInv, PathFlap
<1>2. /\ gaps \in Seq(0 .. FlapQuiet) /\ n \in Nat /\ DOMAIN gaps = 1 .. n /\ \A k \in 1 .. n : gaps[k] \in 0 .. FlapQuiet
  BY <1>n, GapsType DEF CountInv
<1>3. CASE QuietGapElapsed(flap, FlapQuiet)
  <2>1. PathFlap' = NoFlap /\ Len(NoFlap.events) = 0 /\ ~NoFlap.active
    <3>1. f = NoFlap /\ FlapIdle(NoFlap)
      BY <1>3, <1>f DEF FlapSweep, NoFlap, FlapIdle
    <3> QED
      BY <1>1, <3>1 DEF PathFlap, NoFlap
  <2>2. flap.active /\ flap.last >= FlapQuiet /\ n \in 1 .. n /\ flap.last = gaps[n] /\ gaps[n] \in 0 .. FlapQuiet
    <3>1. flap.active /\ flap.last >= FlapQuiet /\ gaps # <<>> /\ flap.last = gaps[n]
      BY <1>1, <1>3, <1>n DEF QuietGapElapsed, CountInv
    <3> QED
      BY <1>2, <1>n, <3>1
  <2>3. \A k \in 1 .. n : ~(Age(k)' <= FlapWindow)
    <3> TAKE k \in 1 .. n
    <3>1. Age(k) \in Nat /\ Age(k) >= gaps[n]
      BY <1>2, <1>n, AgesFall
    <3>2. Age(k)' = Age(k)
      BY <1>1 DEF Age, Span
    <3> QED
      BY <2>2, <3>1, <3>2, FlapConstants
  <2>4. Windowed(NoFlap)'
    <3>1. Len(NoFlap.events) <= FlapMax /\ Len(NoFlap.events) <= Len(gaps') /\ 1 .. Len(NoFlap.events) = {}
      BY <1>1, <1>2, <1>n, <2>1, FlapConstants
    <3>2. \A k \in 1 .. Len(gaps') : k > Len(gaps') - Len(NoFlap.events) <=> Age(k)' <= FlapWindow
      BY <1>1, <1>2, <1>n, <2>1, <2>3
    <3> QED
      BY <3>1, <3>2 DEF Windowed
  <2>5. ~Flapping'
    <3> SUFFICES ASSUME Flapping' PROVE FALSE
      OBVIOUS
    <3>1. PICK j \in 1 .. n : \A k \in j .. n : gaps[k] < FlapQuiet
      BY <1>1, <1>2, <1>n DEF Flapping
    <3>2. n \in j .. n
      BY <1>2, <3>1
    <3> QED
      BY <2>2, <3>1, <3>2, FlapConstants
  <2> QED
    BY <1>1, <1>2, <2>1, <2>4, <2>5 DEF CountInv
<1>4. CASE ~QuietGapElapsed(flap, FlapQuiet)
  <2>1. f = flap
    BY <1>4, <1>f DEF FlapSweep
  <2>2. CASE ~FlapIdle(flap)
    <3>1. PathFlap' = PathFlap
      BY <1>1, <2>1, <2>2 DEF PathFlap
    <3> QED
      BY <1>1, <3>1, ElseCounted
  \* An idle detector and none are one, but for what the last event was.
  <2>3. CASE FlapIdle(flap)
    <3>1. PathFlap' = NoFlap /\ NoFlap.events = flap.events /\ ~NoFlap.active /\ ~flap.active
      BY <1>1, <2>1, <2>3 DEF PathFlap, NoFlap, FlapIdle
    <3>2. Windowed(flap) /\ ~Flapping
      BY <1>1, <3>1 DEF CountInv
    <3>3. Windowed(NoFlap)' /\ ~Flapping'
      BY <1>1, <3>1, <3>2 DEF Windowed, Age, Span, Flapping, Burst
    <3> QED
      BY <1>1, <1>2, <3>1, <3>3 DEF CountInv
  <2> QED
    BY <2>2, <2>3
<1> QED
  BY <1>3, <1>4

LEMMA CountStep ==
    ASSUME AlertsInv, CountInv, [Next]_vars
    PROVE  CountInv'
<1>1. FlapInv
  BY DEF AlertsInv
<1>2. ASSUME UNCHANGED streamEventVars PROVE CountInv'
  <2>1. gaps' = gaps /\ PathFlap' = PathFlap
    BY <1>2 DEF streamEventVars, PathFlap
  <2> QED
    BY <1>1, <2>1, ElseCounted
<1>3. CASE StreamEventsStep
  <2>1. CASE ClientDisconnected
    <3>1. gaps' = gaps /\ (flap' = flap \/ flap' = PathFlap)
      BY <2>1 DEF ClientDisconnected
    <3>2. PathFlap' = PathFlap
      BY <3>1, NoFlapType DEF PathFlap
    <3> QED
      BY <1>1, <3>1, <3>2, ElseCounted
  <2> QED
    BY <1>1, <1>3, <2>1, ConnectCounted, SweepCounted, TickCounted DEF StreamEventsStep
<1>4. UNCHANGED streamEventVars \/ StreamEventsStep
  BY DEF Next, NotPage, vars
<1> QED
  BY <1>2, <1>3, <1>4

LEMMA CountStart == Init => CountInv
<1> SUFFICES ASSUME Init PROVE CountInv
  OBVIOUS
<1>1. gaps = <<>> /\ PathFlap = NoFlap /\ Len(gaps) = 0 /\ DOMAIN gaps = {}
  BY DEF Init, StreamEventsInit, PathFlap
<1>2. Len(NoFlap.events) = 0 /\ ~NoFlap.active
  BY DEF NoFlap
<1>3. Windowed(NoFlap) /\ ~Flapping
  BY <1>1, <1>2, FlapConstants DEF Windowed, Flapping
<1> QED
  BY <1>1, <1>2, <1>3 DEF CountInv

\* CountInv is inductive with what the alerts keep.
THEOREM CountInvariant == Spec => []CountInv
<1>1. AlertsInv /\ CountInv /\ [Next]_vars => CountInv'
  BY CountStep
<1> QED
  BY <1>1, CountStart, AlertsInvariant, PTL DEF Spec

\* The warning is up after more than FlapMax connects within the window, until
\* no connect has come for the quiet time, and a sweep or a connect has seen it
\* (Flap.Event and Flap.Sweep in internal/notify/detect.go, the stream events of
\* cmd/remotemic), whatever the times between the connects were.
THEOREM FlapsAreCounted == Spec => []FlapCounts
<1>1. AlertsInv /\ CountInv => FlapCounts
  <2> SUFFICES ASSUME AlertsInv, CountInv PROVE FlapCounts
    OBVIOUS
  <2>1. FlapInv
    BY DEF AlertsInv
  <2>2. Raised("stream:flap") <=> PathFlap.active
    BY <2>1, NoFlapType DEF FlapInv, PathFlap
  <2>3. Flapping => PathFlap.active
    BY DEF CountInv
  <2>4. ASSUME PathFlap.active, Last(gaps) < FlapQuiet PROVE Flapping
    <3>1. PICK j \in 1 .. Len(gaps) : Restless(j)
      BY <2>4 DEF CountInv
    <3>2. DOMAIN gaps = 1 .. Len(gaps) /\ Len(gaps) \in Nat
      BY GapsType DEF CountInv
    <3>3. ASSUME NEW k \in j .. Len(gaps) PROVE gaps[k] < FlapQuiet
      <4>1. k = Len(gaps) \/ k \in j .. Len(gaps) - 1
        <5>1. k \in Int /\ j \in Int /\ Len(gaps) \in Int /\ j <= k /\ k <= Len(gaps)
          BY <3>1, <3>2, <3>3
        <5>2. \A i, l, n \in Int : i <= l /\ l <= n => l = n \/ l \in i .. n - 1
          OBVIOUS
        <5> QED
          BY <5>1, <5>2
      <4>2. gaps[Len(gaps)] < FlapQuiet
        BY <2>4 DEF Last
      <4>3. k \in j .. Len(gaps) - 1 => gaps[k] < FlapQuiet
        BY <3>1 DEF Restless
      <4> QED
        BY <4>1, <4>2, <4>3
    <3> QED
      BY <3>1, <3>2, <3>3 DEF Flapping, Restless
  <2> QED
    BY <2>2, <2>3, <2>4 DEF FlapCounts
<1> QED
  BY <1>1, AlertsInvariant, CountInvariant, PTL

=============================================================================
