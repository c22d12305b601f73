---------------------------- MODULE Notifications ----------------------------
(***************************************************************************)
(* The notification center (internal/notify), its event stream             *)
(* (internal/sse, GET /events), its snapshot (GET /notifications) and the  *)
(* browser that follows them (web/src/lib/notifications.ts and             *)
(* notifications-core.ts).                                                 *)
(*                                                                         *)
(* The center is a value and its methods are functions on it: every one of *)
(* them runs under c.mu, so an emitter's step applies a few of them in a   *)
(* row.  An entry is its id, boot, kind, key and text; severity, category, *)
(* times and the read state of the browser are left out, and so is a       *)
(* request refused for its token.  The broadcaster has one subscriber, the *)
(* connection of the browser; a buffer on the way to it stands for what    *)
(* the network holds too.                                                  *)
(***************************************************************************)
EXTENDS Integers, FiniteSets, Sequences, SequencesExt, FiniteSetsExt

CONSTANTS
    None,               \* no entry, key, snapshot, timer or detector
    Capacity,           \* the ring's depth
    SubscriberBuffer,   \* the subscriber channel's depth
    MergeBuffer,        \* the connection's merge channel
    MaxLoads,           \* bound: snapshot requests in flight
    Instances           \* [parts, budget]: what an instance runs, and how often it is stirred

ASSUME NotificationBounds ==
    /\ Capacity \in Nat \ {0} /\ SubscriberBuffer \in Nat \ {0} /\ MergeBuffer \in Nat \ {0}
    /\ MaxLoads \in Nat \ {0}

\* The page and the certificates see the process restart, with which every
\* emitter would start over: their instances run none, and that of the
\* certificates no connection.
ASSUME PartsAssumption ==
    \A i \in Instances :
        /\ i.parts \cap {"page", "certs"} # {} => i.parts \cap {"signal", "host", "updates", "clients", "lock"} = {}
        /\ "certs" \in i.parts => "browser" \notin i.parts

VARIABLES
    center,    \* [boot, next, ring, active, sub]
    stream,    \* the connection: [st, hand, merged]
    browser,   \* what the page holds, see NewBrowser
    parts,     \* the emitters this instance runs; they meet in the center only
    budget     \* what the environment may still do, by kind

notificationVars == <<center, stream, browser>>

\* The condition keys, of one device, one client host and one path.
Keys == {"audio:zero", "audio:quiet", "audio:clip", "system", "stream:drops", "device:overruns",
         "stream:flap", "update:available", "run-lock-unwritable", "device:down"}

Spend(kind) == budget[kind] > 0 /\ budget' = [budget EXCEPT ![kind] = @ - 1]

----------------------------------------------------------------------------
(* The center *)

NoSubscriber == [on |-> FALSE, q |-> <<>>, lost |-> FALSE]

\* NewCenter, its ring holding nothing; next is the last id given.
NewCenter(boot) == [boot |-> boot, next |-> 0, ring |-> <<>>, active |-> [k \in Keys |-> None], sub |-> NoSubscriber]

\* A full subscriber loses the event.  Histories: lost records that the last
\* entry with a new id was one of those, at the last id given when it was sent.
Broadcast(c, e) ==
    LET new == e.id = c.next IN
    IF ~c.sub.on THEN c
    ELSE IF Len(c.sub.q) < SubscriberBuffer
    THEN [c EXCEPT !.sub.q = Append(@, [entry |-> e, at |-> c.next]), !.sub.lost = IF new THEN FALSE ELSE @]
    ELSE [c EXCEPT !.sub.lost = new \/ @]

\* ring.push overwrites the oldest entry of a full ring.
Push(ring, e) == Append(IF Len(ring) < Capacity THEN ring ELSE Tail(ring), e)

\* ring.replace leaves a trimmed entry trimmed.
Replace(ring, e) == [i \in DOMAIN ring |-> IF ring[i].id = e.id THEN e ELSE ring[i]]

Stamped(c, kind, key, text) == [id |-> c.next + 1, boot |-> c.boot, kind |-> kind, key |-> key, text |-> text]

PublishLocked(c, e) == Broadcast([c EXCEPT !.next = e.id, !.ring = Push(@, e)], e)

Publish(c) == PublishLocked(c, Stamped(c, "event", None, None))

\* Idempotent: an active condition is not raised again.
Onset(c, key, text) ==
    LET e == Stamped(c, "onset", key, text)
    IN  IF c.active[key] # None THEN c ELSE [PublishLocked(c, e) EXCEPT !.active[key] = e]

\* Clear, and Resolve, which only differ in their text.
Clear(c, key) ==
    IF c.active[key] = None THEN c
    ELSE PublishLocked([c EXCEPT !.active[key] = None], Stamped(c, "clear", key, None))

Resolve(c, key) ==
    IF c.active[key] = None THEN c
    ELSE PublishLocked([c EXCEPT !.active[key] = None], Stamped(c, "clear", key, None))

\* Update rewrites an active condition under its own id.
Update(c, key, text) ==
    LET e == [c.active[key] EXCEPT !.text = text] IN
    IF c.active[key] = None \/ c.active[key].text = text THEN c
    ELSE Broadcast([c EXCEPT !.active[key] = e, !.ring = Replace(@, e)], e)

\* Every entry of the ring and every active onset it has trimmed.
Snapshot(c) ==
    [boot |-> c.boot, nextId |-> c.next + 1,
     entries |-> Range(c.ring) \cup {c.active[k] : k \in {j \in Keys : c.active[j] # None}}]

----------------------------------------------------------------------------
(* The browser's view *)

\* up: the stream is up; timer: a pending re-sync; loads: requests in flight;
\* late is a history variable, see Overtaken.
NewBrowser ==
    [boot |-> None, items |-> {}, next |-> 0, up |-> FALSE, timer |-> None,
     loads |-> {}, started |-> 0, applied |-> 0, failed |-> FALSE,
     late |-> FALSE]

\* For each key the latest entry wins, and an onset is an active condition.
ActiveConditions(items) ==
    {e \in items : e.kind = "onset" /\ \A f \in items : f.key = e.key => f.id <= e.id}

\* pruneToRing drops what the server's ring has trimmed, save what is still active.
PruneToRing(b) ==
    LET floor == b.next - Capacity
    IN  [b EXCEPT !.items = {e \in @ : e.id >= floor \/ e \in ActiveConditions(@)}]

\* scheduleReload: a pending re-sync absorbs a later request.
ScheduleReload(b, kind) ==
    IF ~b.up THEN b
    ELSE [b EXCEPT !.timer = IF @ = None THEN kind ELSE IF kind = "resync" THEN "resync" ELSE @]

\* Mutant of ApplyLive: a gap in the ids goes unnoticed.
ApplyLiveIgnoresGap(b, e) ==
    IF b.boot \notin {None, e.boot} THEN ScheduleReload(b, "resync")
    ELSE PruneToRing([b EXCEPT !.boot = e.boot, !.items = {f \in @ : f.id # e.id} \cup {e},
                               !.next = IF e.id >= @ THEN e.id + 1 ELSE @])

\* applyLive and onSSE: an entry of another boot, or past a gap, asks for a re-sync.
ApplyLive(b, e) ==
    IF b.boot \notin {None, e.boot} THEN ScheduleReload(b, "resync")
    ELSE LET folded == PruneToRing([b EXCEPT !.boot = e.boot,
                                             !.items = {f \in @ : f.id # e.id} \cup {e},
                                             !.next = IF e.id >= @ THEN e.id + 1 ELSE @])
         IN  IF e.id > b.next THEN ScheduleReload(folded, "resync") ELSE folded

\* applySnapshot: the snapshot is authoritative for every id below its nextId.
ApplySnapshot(b, s) ==
    LET bootChanged == b.boot \notin {None, s.boot}
        ids == {e.id : e \in s.entries}
        kept == IF bootChanged THEN {} ELSE {e \in b.items : e.id \notin ids /\ e.id >= s.nextId}
    IN  [b EXCEPT !.boot = s.boot, !.items = kept \cup s.entries,
                  !.next = IF bootChanged THEN s.nextId ELSE Max({@, s.nextId})]

BeginLoad(b) == [b EXCEPT !.started = @ + 1, !.loads = @ \cup {[token |-> b.started + 1, snap |-> None]}]

----------------------------------------------------------------------------
(* The stream *)

\* What was sent after the at-th entry, and arrives only when the ring has been
\* written over since: what became of a condition may have gone from the ring,
\* and from the page, which takes its clear for history (late, until a snapshot
\* that is not).
Overtaken(at) == at + Capacity <= center.next

\* The handler subscribes before it writes its first bytes.
StreamOpens ==
    /\ "browser" \in parts /\ stream.st = "down"
    /\ stream' = [st |-> "open", hand |-> None, merged |-> <<>>]
    /\ center' = [center EXCEPT !.sub = [NoSubscriber EXCEPT !.on = TRUE]]
    /\ UNCHANGED browser

\* The page counts the stream as connected at its first bytes, and re-syncs.
StreamConnects ==
    /\ stream.st = "open" /\ Cardinality(browser.loads) < MaxLoads
    /\ stream' = [stream EXCEPT !.st = "up"]
    /\ browser' = BeginLoad([browser EXCEPT !.up = TRUE])
    /\ UNCHANGED center

\* forward blocks on a full merge channel, holding one event.
ForwardTakes ==
    /\ stream.st # "down" /\ stream.hand = None /\ center.sub.q # <<>>
    /\ stream' = [stream EXCEPT !.hand = Head(center.sub.q)]
    /\ center' = [center EXCEPT !.sub.q = Tail(@)]
    /\ UNCHANGED browser

ForwardPuts ==
    /\ stream.st # "down" /\ stream.hand # None /\ Len(stream.merged) < MergeBuffer
    /\ stream' = [stream EXCEPT !.merged = Append(@, stream.hand), !.hand = None]
    /\ UNCHANGED <<center, browser>>

\* The handler writes an event and the page folds it in.
WriteEvent ==
    /\ stream.st = "up" /\ stream.merged # <<>>
    /\ stream' = [stream EXCEPT !.merged = Tail(@)]
    /\ LET m == Head(stream.merged) IN
       browser' = [ApplyLive(browser, m.entry) EXCEPT !.late = @ \/ Overtaken(m.at)]
    /\ UNCHANGED center

\* A write fails or times out, or the client goes: nothing is armed while the stream is down.
Broken(b) == [b EXCEPT !.up = FALSE, !.timer = None]

StreamBreaks ==
    /\ stream.st # "down" /\ Spend("breaks")
    /\ stream' = [st |-> "down", hand |-> None, merged |-> <<>>]
    /\ center' = [center EXCEPT !.sub = NoSubscriber]
    /\ browser' = Broken(browser)

----------------------------------------------------------------------------
(* Snapshots *)

\* GET /notifications is answered; the answer is on its way.
ListNotifications(l) ==
    /\ l \in browser.loads /\ l.snap = None
    /\ browser' = [browser EXCEPT !.loads = (@ \ {l}) \cup {[l EXCEPT !.snap = Snapshot(center)]}]
    /\ UNCHANGED <<center, stream>>

\* load: only a newer snapshot already applied supersedes this one; one that is
\* applied makes a pending retry moot, but not a pending re-sync.
LoadAnswered(l) ==
    /\ l \in browser.loads /\ l.snap # None
    /\ LET b == [browser EXCEPT !.loads = @ \ {l}] IN
       browser' = IF l.token < b.applied THEN b
                  ELSE [ApplySnapshot(b, l.snap) EXCEPT !.applied = l.token, !.failed = FALSE, !.late = Overtaken(l.snap.nextId - 1),
                                                        !.timer = IF @ = "backoff" THEN None ELSE @]
    /\ UNCHANGED <<center, stream>>

\* A failed load that no newer one made moot is tried again.
LoadFails(l) ==
    /\ l \in browser.loads /\ Spend("loadfails")
    /\ LET failed == browser.failed \/ l.token >= browser.applied
           b == [browser EXCEPT !.loads = @ \ {l}, !.failed = failed]
       IN  browser' = IF failed THEN ScheduleReload(b, "backoff") ELSE b
    /\ UNCHANGED <<center, stream>>

\* The reload timer fires.
Resync ==
    /\ browser.timer # None /\ Cardinality(browser.loads) < MaxLoads
    /\ browser' = BeginLoad([browser EXCEPT !.timer = None])
    /\ UNCHANGED <<center, stream>>

StreamStep ==
    \/ /\ \/ StreamOpens \/ StreamConnects \/ ForwardTakes \/ ForwardPuts \/ WriteEvent \/ Resync
          \/ \E l \in browser.loads : ListNotifications(l) \/ LoadAnswered(l)
       /\ UNCHANGED budget
    \/ StreamBreaks
    \/ \E l \in browser.loads : LoadFails(l)

----------------------------------------------------------------------------
(* Detectors (detect.go).  A run and an event are kept by their age in the  *)
(* observations of their monitor, ages capped where nothing tells them      *)
(* apart.                                                                   *)

Hystereses == [active : BOOLEAN, run : Nat \cup {None}]

NoHysteresis == [active |-> FALSE, run |-> None]

\* Observe: over must last for enter before the onset, under for clear before the clear.
Observe(h, over, enter, clear) ==
    LET run == IF h.run = None THEN 0 ELSE h.run
        lasts == IF h.active THEN clear ELSE enter
    IN  IF over = h.active THEN [h EXCEPT !.run = None]
        ELSE IF run >= lasts THEN [active |-> ~h.active, run |-> None]
        ELSE [h EXCEPT !.run = run]

\* ResetRun abandons a pending run.
ResetRun(h) == [h EXCEPT !.run = None]

Older(age, cap) == IF age = None THEN None ELSE Min({age + 1, cap})

\* What a monitor publishes for a transition.
Transition(c, key, before, after) ==
    IF ~before.active /\ after.active THEN Onset(c, key, None)
    ELSE IF before.active /\ ~after.active THEN Clear(c, key)
    ELSE c

\* events: the ages of those in the window, oldest first.
Flaps == [active : BOOLEAN, events : Seq(Nat), last : Nat \cup {None}]

NoFlap == [active |-> FALSE, events |-> <<>>, last |-> None]

QuietGapElapsed(f, quiet) == f.active /\ f.last # None /\ f.last >= quiet

\* Mutant of FlapEvent: raised by the event that reaches max.
FlapEventOneEarly(f, max, quiet) ==
    IF QuietGapElapsed(f, quiet) THEN [active |-> FALSE, events |-> <<0>>, last |-> 0]
    ELSE IF f.active THEN [f EXCEPT !.last = 0]
    ELSE [active |-> Len(f.events) + 1 >= max, events |-> Append(f.events, 0), last |-> 0]

\* Flap.Event: more than max events in the window raise it; the first event
\* after a quiet gap clears it and starts a window.
FlapEvent(f, max, quiet) ==
    IF QuietGapElapsed(f, quiet) THEN [active |-> FALSE, events |-> <<0>>, last |-> 0]
    ELSE IF f.active THEN [f EXCEPT !.last = 0]
    ELSE [active |-> Len(f.events) + 1 > max, events |-> Append(f.events, 0), last |-> 0]

FlapSweep(f, quiet) == IF QuietGapElapsed(f, quiet) THEN NoFlap ELSE f

\* Idle: inactive, and no event left in the window.
FlapIdle(f) == ~f.active /\ f.events = <<>>

\* Time passes: events older than the window, the first ones, are out of it.
FlapOlder(f, window, quiet) ==
    LET older == [i \in DOMAIN f.events |-> f.events[i] + 1]
        out == Cardinality({i \in DOMAIN older : older[i] > window})
    IN  [f EXCEPT !.events = SubSeq(older, out + 1, Len(older)), !.last = Older(@, quiet)]

=============================================================================
