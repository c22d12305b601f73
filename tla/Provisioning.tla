---------------------------- MODULE Provisioning ----------------------------
(***************************************************************************)
(* How a capture device of the host becomes an entry of the configuration: *)
(* the identities a unit has (internal/audio/hardware_linux.go), the views *)
(* of what is present and what is owned (provider in                       *)
(* cmd/remotemic/management.go), the requests that add, replace and delete *)
(* entries (internal/mgmtserver/devices.go and config.go), the probe for   *)
(* the loudest channel (cmd/remotemic/channel_probe.go), the format and    *)
(* channel count a unit is opened with (internal/audio/capture.go) and the *)
(* rules a saved configuration meets (internal/config).                    *)
(*                                                                         *)
(* An entry is its name, its device id, its rate and its streams; flags,   *)
(* bit rates and settings blocks are left out.  A derived name is a base   *)
(* and the number appended to it (1 for none).  A selection of channels is *)
(* a set, which is what NormalizeChannels makes of it.  The token command  *)
(* and the shutdown of the appliance are in ConfigControl.                 *)
(***************************************************************************)
EXTENDS Notifications

CONSTANTS
    Unit,          \* [unit -> [serial, label, caps]], caps a set of [format, channels, rate]
    Ports,         \* the places a unit can be plugged into; None is one without a derivable path
    Cards,         \* the card indices, in the order the kernel gives them
    Shortened,     \* [base -> base]: the name bases over the length cap, and what is left of each
    Paths,         \* what randomPath may draw
    MaxDevices,
    MaxChannels,
    Requesters,    \* the requests in flight
    Overrides,     \* [name, mode, rate, channels]: what a request may say of the new entry
    Wires,         \* the device lists a PATCH may carry
    Hosts          \* [plugged, saved]: what an instance starts from

ASSUME ProvisioningBounds ==
    /\ MaxDevices \in Nat \ {0} /\ MaxChannels \in Nat \ {0}
    /\ \A u \in DOMAIN Unit : \A c \in Unit[u].caps : c.channels \in 1..MaxChannels /\ c.rate \in Nat

ASSUME IdAssumption ==
    /\ None \notin {"gone", "conflict", "patch"}
    /\ \A u \in DOMAIN Unit : None # [form |-> "serial", at |-> Unit[u].serial]
    /\ \A i \in DOMAIN Cards : None # [form |-> "card", at |-> Cards[i]]

\* The kernel has an index of its own for every unit.
ASSUME CardsAssumption ==
    /\ IsFiniteSet(DOMAIN Unit)
    /\ Cards \in Seq(Range(Cards)) /\ Cardinality(DOMAIN Unit) <= Len(Cards)
    /\ \A i, j \in DOMAIN Cards : Cards[i] = Cards[j] => i = j

ASSUME WiresAssumption == \A w \in Wires : w \in Seq(Range(w))

VARIABLES
    plugged,   \* [unit -> None or [port, card]]
    saved,     \* the device list of the store, and of the file
    view,      \* [detected, configured, enum]: the provider, and an enumeration under way
    running,   \* [cfg, todo]: the configuration applied last, and one handed to the run loop
    job,       \* [requester -> the request it handles]
    probe,     \* [requester -> the goroutine of its last channel probe]
    left       \* a client left during its reload, and none has been applied since

provisioningVars == <<plugged, saved, view, running, job, probe, left>>

----------------------------------------------------------------------------
(* The host's devices *)

Here == {u \in DOMAIN Unit : plugged[u] # None}

CardId(u) == [form |-> "card", at |-> plugged[u].card]

PortId(u) == IF plugged[u].port = None THEN None ELSE [form |-> "port", at |-> plugged[u].port]

\* The id the capture library reports: by serial, else by port, else by index.
DeviceId(u) ==
    IF Unit[u].serial # None THEN [form |-> "serial", at |-> Unit[u].serial]
    ELSE IF PortId(u) # None THEN PortId(u)
    ELSE CardId(u)

OfferedId(u) ==
    IF PortId(u) # None /\ \E v \in Here \ {u} : DeviceId(v) = DeviceId(u) THEN PortId(u) ELSE DeviceId(u)

\* The units an id names now: one if it resolves, several if it is ambiguous.
Named(id) == {u \in Here : id \in {DeviceId(u), PortId(u), CardId(u)}}

\* The ids refreshHardware publishes for one entry.
Claims(id) ==
    LET us == Named(id) IN
    ({id} \cup {PortId(u) : u \in us} \cup {DeviceId(u) : u \in {v \in us : us = {v}}}) \ {None}

RefreshHardware(devs) == UNION {Claims(devs[i].id) : i \in DOMAIN devs}

\* A capture a probe has open; a unit it holds is busy to everyone else.
Held(u) == \E r \in Requesters : probe[r].unit = u

ProbeChannels(u) == IF Held(u) THEN {} ELSE {c.channels : c \in Unit[u].caps}

RateProbeChannel(channels) == IF channels = {} \/ 1 \in channels THEN 1 ELSE Min(channels)

ProbeRates(u, channels) == IF Held(u) THEN {} ELSE {c.rate : c \in {d \in Unit[u].caps : d.channels = channels}}

\* The order in which the capture formats are tried.
CaptureFormats == <<"s16", "s32", "s24", "s24_3">>

\* The first format the unit takes with this count and rate; None if it takes
\* none, or is held.
OpenNegotiate(u, rate, channels) ==
    LET caps(f) == [format |-> f, channels |-> channels, rate |-> rate]
        taken == {i \in DOMAIN CaptureFormats : caps(CaptureFormats[i]) \in Unit[u].caps}
    IN  IF Held(u) \/ taken = {} THEN None ELSE CaptureFormats[Min(taken)]

\* The channels a capture carries; the library grants the rate and the count
\* asked for or fails.
OpenCaptureAt(u, rate, channels) ==
    LET count == Max({1, channels}) IN IF OpenNegotiate(u, rate, count) = None THEN {} ELSE 1..count

\* Mutant of ResolveOpenChannels: a unit without a small enough count is not
\* opened wider.
ResolveOpenChannelsExact(u, selection) == IF selection = {} THEN 1 ELSE Max(selection)

\* The count to open so that the highest selected channel is in it; a unit that
\* answers no query is tried at just that many.
ResolveOpenChannels(u, selection) ==
    LET top == IF selection = {} THEN 1 ELSE Max(selection)
        wide == {n \in ProbeChannels(u) : n >= top}
    IN  IF wide = {} THEN top ELSE Min(wide)

StreamChannelUnion(d) == UNION {d.streams[j].channels : j \in DOMAIN d.streams}

\* The channels the appliance gets when it opens a unit for an entry.
OpenDevice(u, d) == OpenCaptureAt(u, d.rate, ResolveOpenChannels(u, StreamChannelUnion(d)))

DetectDevices(skip) ==
    {LET id == OfferedId(u)
         channels == IF id \in skip THEN {} ELSE ProbeChannels(u)
     IN  [id |-> id, label |-> Unit[u].label, channels |-> channels,
          rates |-> IF id \in skip THEN {} ELSE ProbeRates(u, RateProbeChannel(channels))] : u \in Here}

----------------------------------------------------------------------------
(* What the provider tells *)

DetectedDevice(id) == {d \in view.detected : d.id = id}

AvailableDevices == {d \in view.detected : d.id \notin view.configured}

\* The answer to a request for an id that is not available, None if it is.
Unavailable(id) ==
    IF \E d \in AvailableDevices : d.id = id THEN None
    ELSE IF DetectedDevice(id) = {} THEN "gone"
    ELSE "conflict"

----------------------------------------------------------------------------
(* The rules of the configuration *)

StreamPaths(devs) == UNION {{devs[i].streams[j].path : j \in DOMAIN devs[i].streams} : i \in DOMAIN devs}

\* The path a lone stream without one gets.
DefaultPath == "/stream"

DefaultStream(s, alone) ==
    [path |-> IF s.path = None /\ alone THEN DefaultPath ELSE s.path,
     mode |-> IF s.mode = None THEN "pcm" ELSE s.mode,
     channels |-> IF s.channels = {} THEN {1} ELSE s.channels]

ApplyDefaults(devs) ==
    [i \in DOMAIN devs |->
        [devs[i] EXCEPT !.streams = [j \in DOMAIN @ |-> DefaultStream(@[j], Len(@) = 1)]]]

ValidStream(d, s) ==
    /\ s.path # None
    /\ s.mode \in {"pcm", "opus"}
    /\ s.channels # {} /\ s.channels \subseteq 1..MaxChannels
    /\ s.mode = "opus" => d.rate = 48000 /\ Cardinality(s.channels) <= 2

ValidDevice(d) ==
    /\ d.name # None /\ d.id # None
    /\ d.rate >= 8000 /\ d.rate <= 384000
    /\ d.streams # <<>> /\ Len(d.streams) <= MaxChannels
    /\ \A j \in DOMAIN d.streams : ValidStream(d, d.streams[j])

ValidConfig(devs) ==
    /\ Len(devs) <= MaxDevices
    /\ \A i \in DOMAIN devs : ValidDevice(devs[i])
    /\ \A i, j \in DOMAIN devs : i # j => devs[i].name # devs[j].name /\ devs[i].id # devs[j].id
    /\ \A i, k \in DOMAIN devs : \A j \in DOMAIN devs[i].streams, l \in DOMAIN devs[k].streams :
          devs[i].streams[j].path = devs[k].streams[l].path => i = k /\ j = l

\* An instance starts with no two units at one card index or in one place, and
\* with a list the store has loaded.
ASSUME HostsAssumption ==
    \A h \in Hosts :
        /\ h.plugged \in [DOMAIN Unit -> [port : Ports, card : Range(Cards)] \cup {None}]
        /\ \A u, v \in DOMAIN Unit :
              h.plugged[u] # None /\ h.plugged[v] # None /\ u # v =>
                  /\ h.plugged[u].card # h.plugged[v].card
                  /\ h.plugged[u].port = h.plugged[v].port => h.plugged[u].port = None
        /\ h.saved \in Seq(Range(h.saved)) /\ ValidConfig(h.saved)

\* Only what the write brings in is measured.
ValidateLengths(devs, prev) ==
    \A i \in DOMAIN devs :
        devs[i].name.base \in DOMAIN Shortened => \E j \in DOMAIN prev : prev[j].name = devs[i].name

ValidateWrite(devs, prev) == ValidConfig(devs) /\ ValidateLengths(devs, prev)

----------------------------------------------------------------------------
(* PATCH: the device list is replaced *)

\* A wire entry without streams would drop those of a device that has several.
Collapses(w, wire) ==
    /\ w.streams = None
    /\ \/ \E i \in DOMAIN saved : saved[i].name = w.name /\ Len(saved[i].streams) > 1
       \/ \E i \in DOMAIN saved :
             /\ saved[i].id = w.id /\ Len(saved[i].streams) > 1
             /\ \A k \in DOMAIN wire : wire[k].name # saved[i].name

WireToDevice(w) ==
    [name |-> w.name, id |-> w.id, rate |-> w.rate,
     streams |-> IF w.streams # None THEN w.streams ELSE <<w.flat>>]

PatchedDevices(wire) == [i \in DOMAIN wire |-> WireToDevice(wire[i])]

----------------------------------------------------------------------------
(* POST /devices: what the appliance chooses *)

DeriveName(label, taken) ==
    LET base == IF label \in DOMAIN Shortened THEN Shortened[label] ELSE label
        used == {t.n : t \in {u \in taken : u.base = base}}
    IN  [base |-> base, n |-> Min((1..(Cardinality(used) + 1)) \ used)]

CanOpus(d) == 48000 \in d.rates

PreferRate(rates) == IF rates = {} \/ 48000 \in rates THEN 48000 ELSE Max(rates)

ChooseParams(d, req, preferred) ==
    LET channels == IF req.channels = {} THEN {preferred} ELSE req.channels
        pcm == [mode |-> "pcm", rate |-> IF req.rate = None THEN PreferRate(d.rates) ELSE req.rate, channels |-> channels]
        opus == [mode |-> "opus", rate |-> 48000, channels |-> channels]
    IN  IF req.mode = "opus" THEN opus
        ELSE IF req.mode = None /\ CanOpus(d) /\ req.rate \in {None, 48000} /\ Cardinality(channels) = 1 THEN opus
        ELSE pcm

\* A request that names the device and nothing else.
NoOverrides == [name |-> None, mode |-> None, rate |-> None, channels |-> {}]

BuildProvisionedDevice(d, req, preferred, path) ==
    LET p == ChooseParams(d, req, preferred)
        names == {saved[i].name : i \in DOMAIN saved}
    IN  [name |-> IF req.name # None THEN req.name ELSE DeriveName(d.label, names), id |-> d.id, rate |-> p.rate,
         streams |-> <<[path |-> path, mode |-> p.mode, channels |-> p.channels]>>]

----------------------------------------------------------------------------
(* The loudest channel *)

\* Levels a measurement may read, in dBFS.
MeasuredLevels == {-90, -41, -40, -20}

LoudestChannel(levels) ==
    LET top == Max(Range(levels)) IN
    IF top <= -80 THEN 1 ELSE Min({i \in DOMAIN levels : levels[i] >= top - 1})

\* The widths to try; no probed count leaves the widest.
ProbeWidths(channels) == IF channels = {} THEN {MaxChannels} ELSE channels \ {1}

\* Nothing to choose between, or a rate no capture accepts: channel 1.
WantsProbe(d, req) ==
    /\ req.channels = {}
    /\ ProbeWidths(d.channels) # {}
    /\ LET rate == ChooseParams(d, req, 1).rate IN rate >= 8000 /\ rate <= 384000

NoProbe == [st |-> "none", id |-> None, rate |-> 0, width |-> 0, unit |-> None, done |-> FALSE]

OpenProbe(d, req, width) ==
    [NoProbe EXCEPT !.st = "opening", !.id = d.id, !.rate = ChooseParams(d, req, 1).rate, !.width = width]

\* probeOpenSlot: one open at a time.
SlotTaken == \E r \in Requesters : probe[r].st = "opening"

\* The first select of probeChannelLevels: with the slot taken every width fails.
StartProbe(r) ==
    /\ job[r].pc = "probe"
    /\ IF job[r].widths = {} \/ SlotTaken
       THEN job' = [job EXCEPT ![r].pc = "lock"] /\ UNCHANGED probe
       ELSE /\ probe' = [probe EXCEPT ![r] = OpenProbe(job[r].found, job[r].req, Max(job[r].widths))]
            /\ job' = [job EXCEPT ![r].pc = "probing", ![r].widths = @ \ {Max(job[r].widths)}]
    /\ UNCHANGED <<plugged, saved, view, running, left, budget>>

\* A unit the open reaches, at the rate the new entry would have.
Opens(p, u) ==
    /\ Named(p.id) = {u}
    /\ OpenCaptureAt(u, p.rate, p.width) # {}

\* Mutant of Opened: a source that opens after the cancel is kept.
OpenedAnyway(p, u) == [p EXCEPT !.st = "reading", !.unit = u]

\* The open returns a source: closed at once if nobody waits for it any more.
Opened(p, u) == IF p.done THEN NoProbe ELSE [p EXCEPT !.st = "reading", !.unit = u]

OpenReturns(r) ==
    /\ probe[r].st = "opening"
    /\ \/ \E u \in Here : Opens(probe[r], u) /\ probe' = [probe EXCEPT ![r] = Opened(@, u)]
       \/ probe' = [probe EXCEPT ![r] = IF @.done THEN NoProbe ELSE [@ EXCEPT !.st = "failed"]]
    /\ UNCHANGED <<plugged, saved, view, running, job, left, budget>>

\* The goroutine has read enough, or a read failed.
ProbeReads(r) ==
    /\ probe[r].st = "reading"
    /\ \E st \in {"levels", "failed"} : probe' = [probe EXCEPT ![r].st = st]
    /\ UNCHANGED <<plugged, saved, view, running, job, left, budget>>

\* The probe's result; after an error the next narrower width is tried, if
\* there is time left.
ProbeResult(r) ==
    /\ job[r].pc = "probing" /\ probe[r].st \in {"levels", "failed"}
    /\ probe' = [probe EXCEPT ![r] = NoProbe]
    /\ IF probe[r].st = "failed" THEN \E pc \in {"probe", "lock"} : job' = [job EXCEPT ![r].pc = pc]
       ELSE \E levels \in [1..probe[r].width -> MeasuredLevels] :
                job' = [job EXCEPT ![r].pc = "lock", ![r].preferred = LoudestChannel(levels)]
    /\ UNCHANGED <<plugged, saved, view, running, left, budget>>

\* The budget of the probe runs out, or the client leaves: an open source is
\* closed, an open under way is left to close what it gets.
ProbeCancelled(r) ==
    /\ job[r].pc = "probing"
    /\ probe' = [probe EXCEPT ![r] = IF @.st = "opening" THEN [@ EXCEPT !.done = TRUE] ELSE NoProbe]
    /\ job' = [job EXCEPT ![r].pc = "lock"]
    /\ UNCHANGED <<plugged, saved, view, running, left, budget>>

----------------------------------------------------------------------------
(* The requests *)

NoJob == [pc |-> "idle", op |-> None, req |-> None, found |-> None, widths |-> {}, preferred |-> 1,
          gone |-> FALSE, answer |-> None, steady |-> FALSE]

Reply(r, answer) == job' = [job EXCEPT ![r] = [NoJob EXCEPT !.answer = answer]]

Detected == {d.id : d \in view.detected}

\* Both views are those of the hardware as it is: nothing was plugged or
\* unplugged that the enumeration or the run loop has yet to see.
ViewsCurrent == Detected = {OfferedId(u) : u \in Here} /\ view.configured = RefreshHardware(running.cfg)

\* ProvisionDevice up to the probe: the checks that run without the lock.
AskProvision(r) ==
    /\ job[r].pc = "idle" /\ Spend("provisions")
    /\ \E id \in Detected \cup {CardId(u) : u \in Here}, over \in Overrides :
          IF DetectedDevice(id) = {} THEN Reply(r, "gone")
          ELSE IF \E i \in DOMAIN saved : saved[i].id = id THEN Reply(r, "exists")
          ELSE IF Unavailable(id) # None THEN Reply(r, Unavailable(id))
          ELSE \E d \in DetectedDevice(id) :
                 job' = [job EXCEPT ![r] =
                    [NoJob EXCEPT !.pc = IF WantsProbe(d, over) THEN "probe" ELSE "lock", !.op = "provision",
                                  !.req = over, !.found = d, !.widths = ProbeWidths(d.channels), !.steady = ViewsCurrent]]
    /\ UNCHANGED <<plugged, saved, view, running, probe, left>>

AskPatch(r) ==
    /\ job[r].pc = "idle" /\ Spend("patches")
    /\ \E wire \in Wires : job' = [job EXCEPT ![r] = [NoJob EXCEPT !.pc = "lock", !.op = "patch", !.req = wire]]
    /\ UNCHANGED <<plugged, saved, view, running, probe, left>>

AskDelete(r) ==
    /\ job[r].pc = "idle" /\ Spend("deletes")
    /\ \E i \in DOMAIN saved :
          job' = [job EXCEPT ![r] = [NoJob EXCEPT !.pc = "lock", !.op = "delete", !.req = saved[i].name]]
    /\ UNCHANGED <<plugged, saved, view, running, probe, left>>

\* patchMu, held from the lock to the answer.
Holding(r) == job[r].pc \in {"recheck", "update", "reload", "wait"}

Lock(r) ==
    /\ job[r].pc = "lock" /\ ~\E q \in Requesters : Holding(q)
    /\ IF job[r].op # "provision" THEN job' = [job EXCEPT ![r].pc = "update"]
       ELSE IF job[r].gone THEN Reply(r, "cancelled")
       ELSE job' = [job EXCEPT ![r].pc = "recheck"]
    /\ UNCHANGED <<plugged, saved, view, running, probe, left, budget>>

\* Mutant of Recheck: the check made before the probe is relied on.
RecheckSkipped(r) ==
    /\ job[r].pc = "recheck"
    /\ job' = [job EXCEPT ![r].pc = "update", ![r].steady = @ /\ ViewsCurrent /\ ~left]
    /\ UNCHANGED <<plugged, saved, view, running, probe, left, budget>>

Recheck(r) ==
    /\ job[r].pc = "recheck"
    /\ LET refusal == Unavailable(job[r].found.id) IN
       IF refusal # None THEN Reply(r, refusal)
       ELSE job' = [job EXCEPT ![r].pc = "update", ![r].steady = @ /\ ViewsCurrent /\ ~left]
    /\ UNCHANGED <<plugged, saved, view, running, probe, left, budget>>

\* The device lists an Update may end with, of the request r.
Provisioned(r) ==
    {ApplyDefaults(Append(saved, BuildProvisionedDevice(job[r].found, job[r].req, job[r].preferred, p))) :
        p \in Paths \ StreamPaths(saved)}

\* An Update of the store: refused, failed, or saved and to be applied.
Persist(r, devs, valid) ==
    \/ /\ valid
       /\ saved' = devs
       /\ job' = [job EXCEPT ![r].pc = "reload"]
       /\ UNCHANGED budget
    \/ /\ valid /\ Spend("fails")
       /\ Reply(r, "failed")
       /\ UNCHANGED saved
    \/ /\ ~valid
       /\ Reply(r, "invalid")
       /\ UNCHANGED <<saved, budget>>

UpdateProvision(r) ==
    /\ job[r].op = "provision"
    /\ IF \E i \in DOMAIN saved : saved[i].id = job[r].found.id
       THEN Reply(r, "exists") /\ UNCHANGED <<saved, budget>>
       ELSE \E devs \in Provisioned(r) : Persist(r, devs, ValidateWrite(devs, saved))

UpdatePatch(r) ==
    LET devs == ApplyDefaults(PatchedDevices(job[r].req)) IN
    /\ job[r].op = "patch"
    /\ Persist(r, devs, ValidateWrite(devs, saved) /\ ~\E w \in Range(job[r].req) : Collapses(w, job[r].req))

\* Names are unique, so one entry at most goes; a removal adds no string, so the
\* lengths are not looked at.
UpdateDelete(r) ==
    LET named == {i \in DOMAIN saved : saved[i].name = job[r].req}
    IN  /\ job[r].op = "delete"
        /\ IF named = {} THEN Reply(r, "gone") /\ UNCHANGED <<saved, budget>>
           ELSE \E i \in named :
                   LET devs == ApplyDefaults(RemoveAt(saved, i)) IN Persist(r, devs, ValidConfig(devs))

UpdateStore(r) ==
    /\ job[r].pc = "update"
    /\ UpdateProvision(r) \/ UpdatePatch(r) \/ UpdateDelete(r)
    /\ UNCHANGED <<plugged, view, running, probe, left>>

\* The reloader hands the saved configuration to the run loop.
HandOver(r) ==
    /\ job[r].pc = "reload" /\ running.todo = None
    /\ running' = [running EXCEPT !.todo = [cfg |-> saved, for |-> r]]
    /\ job' = [job EXCEPT ![r].pc = "wait"]
    /\ UNCHANGED <<plugged, saved, view, probe, left, budget>>

\* The reconcile: the ids the configuration owns are published before anything
\* else; the request is answered if its client still waits.
ReconcileDone ==
    /\ running.todo # None
    /\ running' = [cfg |-> running.todo.cfg, todo |-> None]
    /\ view' = [view EXCEPT !.configured = RefreshHardware(running.todo.cfg)]
    /\ job' = [r \in Requesters |-> IF r = running.todo.for /\ job[r].pc = "wait" THEN [NoJob EXCEPT !.answer = "ok"] ELSE job[r]]
    /\ left' = (left /\ running.todo.cfg # saved)
    /\ UNCHANGED <<plugged, saved, probe, budget>>

\* A retry of the devices that are down resolves them again.
RetryRefreshes ==
    /\ running.todo = None
    /\ view' = [view EXCEPT !.configured = RefreshHardware(running.cfg)]
    /\ UNCHANGED <<plugged, saved, running, job, probe, left, budget>>

ClientLeaves(r) ==
    /\ job[r].pc # "idle" /\ ~job[r].gone /\ Spend("leaves")
    /\ job' = [job EXCEPT ![r].gone = TRUE]
    /\ UNCHANGED <<plugged, saved, view, running, probe, left>>

\* The reloader gives up with its client; a hand-over already made stays made.
GivesUp(r) ==
    /\ job[r].gone /\ job[r].pc \in {"reload", "wait"}
    /\ Reply(r, "left")
    /\ left' = TRUE
    /\ UNCHANGED <<plugged, saved, view, running, probe, budget>>

----------------------------------------------------------------------------
(* The host and the enumeration *)

Unsteady == [r \in Requesters |-> [job[r] EXCEPT !.steady = FALSE]]

PlugIn ==
    /\ "provisioning" \in parts /\ Spend("plugs")
    /\ \E u \in DOMAIN Unit \ Here, port \in Ports :
          /\ port # None => \A v \in Here : plugged[v].port # port
          /\ plugged' = [plugged EXCEPT ![u] =
              [port |-> port, card |-> Cards[Min({i \in DOMAIN Cards : \A v \in Here : plugged[v].card # Cards[i]})]]]
    /\ job' = Unsteady
    /\ UNCHANGED <<saved, view, running, probe, left>>

PullOut ==
    /\ "provisioning" \in parts /\ Spend("plugs")
    /\ \E u \in Here : plugged' = [plugged EXCEPT ![u] = None]
    /\ job' = Unsteady
    /\ UNCHANGED <<saved, view, running, probe, left>>

\* detectDevices takes its time; its answer may be old when it is published.
Detect ==
    /\ "provisioning" \in parts /\ view.enum = None
    /\ view' = [view EXCEPT !.enum = DetectDevices(view.configured)]
    /\ UNCHANGED <<plugged, saved, running, job, probe, left, budget>>

SetDetected ==
    /\ view.enum # None
    /\ view' = [view EXCEPT !.detected = view.enum, !.enum = None]
    /\ UNCHANGED <<plugged, saved, running, job, probe, left, budget>>

----------------------------------------------------------------------------
\* The initial reconcile is over; the enumeration starts after it.
ProvisioningInit ==
    /\ IF "provisioning" \in parts THEN \E h \in Hosts : plugged = h.plugged /\ saved = h.saved
       ELSE plugged = [u \in DOMAIN Unit |-> None] /\ saved = <<>>
    /\ running = [cfg |-> saved, todo |-> None]
    /\ view = [detected |-> {}, configured |-> RefreshHardware(saved), enum |-> None]
    /\ job = [r \in Requesters |-> NoJob]
    /\ probe = [r \in Requesters |-> NoProbe]
    /\ left = FALSE

ProvisioningStep ==
    \/ \E r \in Requesters :
          \/ "provisioning" \in parts /\ (AskProvision(r) \/ AskPatch(r) \/ AskDelete(r))
          \/ StartProbe(r) \/ OpenReturns(r) \/ ProbeReads(r) \/ ProbeResult(r) \/ ProbeCancelled(r)
          \/ Lock(r) \/ Recheck(r) \/ UpdateStore(r) \/ HandOver(r) \/ ClientLeaves(r) \/ GivesUp(r)
    \/ ReconcileDone \/ ("provisioning" \in parts /\ RetryRefreshes) \/ PlugIn \/ PullOut \/ Detect \/ SetDetected

=============================================================================
