------------------------------- MODULE Events -------------------------------
(***************************************************************************)
(* The services around the streams: the emitters of notifications, the     *)
(* center they meet in and the browser that follows it; the certificate    *)
(* store; and the device list of the configuration.                        *)
(*                                                                         *)
(* These share nothing but the center, so an instance runs a few of them   *)
(* (parts): the page against any sequence of calls, the signal monitor,    *)
(* the host monitor, the release checks, the client events, the run lock,  *)
(* the certificates and the device list each with the steps that race in   *)
(* it.                                                                     *)
(***************************************************************************)
EXTENDS UpdateChecks, StreamEvents, RunLockPublisher, Certificates, Provisioning

vars == <<notificationVars, parts, budget, monitorVars, updateVars, streamEventVars, lock, certs, site, provisioningVars>>

\* What an active condition is: its text is as far as one is told from another,
\* or the release it offers.
OnsetsOf(texts) == [id : Nat, boot : Nat, kind : {"onset"}, key : Keys, text : texts]
Onsets == OnsetsOf({None, "first", "later"}) \cup OnsetsOf(Published)

EntriesOf(texts) ==
    [id : Nat, boot : Nat, kind : {"event", "onset", "clear"}, key : Keys \cup {None}, text : texts]
Entries == EntriesOf({None, "first", "later"}) \cup EntriesOf(Published)

ASSUME NoneAssumption ==
    /\ None \notin Onsets /\ None \notin [entry : Entries, at : Nat] /\ None \notin Settings
    /\ None \notin DeviceStates /\ None \notin CounterStates /\ None \notin Flaps
    /\ None \notin Nat /\ None \notin Keys /\ None \notin {"backoff", "resync"}

----------------------------------------------------------------------------
\* A call of the emitters not modelled one by one, on one key: device-down
\* conditions and discrete events of the appliance.
Emit ==
    /\ "page" \in parts /\ Spend("emits")
    /\ \/ center' = Publish(center)
       \/ center' = Onset(center, "device:down", "first")
       \/ center' = Update(center, "device:down", "later")
       \/ center' = Clear(center, "device:down")
    /\ UNCHANGED <<stream, browser>>

\* The process restarts: another boot id, a ring that begins with the start-up
\* event, and no connection; the page's requests in flight fail with it.
Restart ==
    /\ "page" \in parts /\ Spend("restarts")
    /\ center' = Publish(NewCenter(center.boot + 1))
    /\ stream' = [st |-> "down", hand |-> None, merged |-> <<>>]
    /\ browser' = [Broken(browser) EXCEPT !.loads = {}, !.failed = @ \/ browser.loads # {}]

Init ==
    /\ \E i \in Instances : parts = i.parts /\ budget = i.budget
    /\ center = Publish(NewCenter(1))
    /\ stream = [st |-> "down", hand |-> None, merged |-> <<>>]
    /\ browser = NewBrowser
    /\ MonitorInit /\ UpdateInit /\ StreamEventsInit /\ RunLockInit /\ CertInit /\ SiteInit /\ ProvisioningInit

NotPage == UNCHANGED <<monitorVars, updateVars, streamEventVars, lock, certs, site, provisioningVars>>

Next ==
    /\ UNCHANGED parts
    /\ \/ (StreamStep \/ Emit \/ Restart) /\ NotPage
       \/ MonitorStep /\ UNCHANGED <<stream, browser, updateVars, streamEventVars, lock, certs, site, provisioningVars>>
       \/ UpdateStep /\ UNCHANGED <<stream, browser, mic, signal, host, streamEventVars, lock, certs, site, provisioningVars>>
       \/ SiteChanges /\ UNCHANGED <<stream, browser, monitorVars, updateVars, streamEventVars, lock, certs, provisioningVars>>
       \/ StreamEventsStep /\ UNCHANGED <<stream, browser, monitorVars, updateVars, lock, certs, site, provisioningVars>>
       \/ RunLockStep /\ UNCHANGED <<stream, browser, monitorVars, updateVars, streamEventVars, certs, site, provisioningVars>>
       \/ CertStep /\ UNCHANGED <<stream, browser, monitorVars, updateVars, streamEventVars, lock, site, provisioningVars>>
       \/ ProvisioningStep /\ UNCHANGED <<notificationVars, monitorVars, updateVars, streamEventVars, lock, certs, site>>

Spec == Init /\ [][Next]_vars

----------------------------------------------------------------------------
(* Properties *)

\* A page whose stream is up and has nothing on its way holds exactly the
\* center's active conditions, whatever events were dropped on a slow stream,
\* trimmed from the ring or raced with a snapshot, and however the answers of
\* its loads were overtaken by one another.  A dropped event shows as a gap in
\* the ids at the next one: lost excludes the wait for that one, late what came
\* a whole ring behind, and applied = started a failed load whose retry an
\* older answer called off.
ViewIsCurrent ==
    (/\ stream = [st |-> "up", hand |-> None, merged |-> <<>>] /\ center.sub.q = <<>> /\ ~center.sub.lost
     /\ browser.timer = None /\ browser.applied = browser.started /\ ~browser.late)
        => {<<e.boot, e.id>> : e \in ActiveConditions(browser.items)}
               = {<<center.boot, center.active[k].id>> : k \in {j \in Keys : center.active[j] # None}}

Raised(key) == center.active[key] # None

\* A condition is up exactly while its owner holds it raised: nothing an owner
\* forgets (a device that goes, settings that change, a check that is dropped, a
\* detector that is pruned) leaves an alert nobody will clear, and no host
\* condition one that no reading of the host can clear.
AlertsHaveCause ==
    /\ Raised("audio:zero") <=> (signal.st # None /\ signal.st.zero.active)
    /\ Raised("audio:quiet") <=> (signal.st # None /\ signal.st.quiet.active)
    /\ Raised("audio:clip") <=> (signal.st # None /\ signal.st.clipActive)
    /\ Raised("system") <=> host.cond.h.active
    /\ Raised("stream:drops") <=> (host.dev # None /\ host.dev.h.active)
    /\ Raised("device:overruns") <=> (host.dev # None /\ host.dev.ov.active)
    /\ Raised("stream:flap") <=> (flap # None /\ flap.active)
    /\ Raised("update:available") <=> mgr.available
    /\ Raised("update:available") => center.active["update:available"].text = mgr.latest.rel.version
    /\ Raised("run-lock-unwritable") <=> lock.failing
    /\ Raised("system") => \E r \in Readings(host.kind) : ~HostOver(host.kind, TRUE, r)

\* Every overrun a poll has seen is in a log line, or counted toward the next
\* one: none is lost with a restart, a stop, a warning or notifications off.
OverrunsAccounted ==
    /\ host.dev # None /\ ~host.done => mic.untold = Unseen + host.dev.unlogged + host.dev.episode
    /\ host.done => mic.untold = Unseen

\* Turning checks off holds: a release the manager has was asked for after they
\* were last turned off, and a loop at rest has its timer armed exactly while
\* checks are on, armed since then too, even when off and on again reach the
\* loop as one wake.
OffStartsOver ==
    /\ (mgr.latest # None /\ loop.todo = <<>>) => mgr.latest.gen = mgr.offGen
    /\ (mgr.pc = "select" /\ ~mgr.wake /\ loop.todo = <<>>)
          => /\ mgr.enabled <=> mgr.timer # NoTimer
             /\ mgr.enabled => mgr.timer.gen = mgr.offGen

\* A release the manager has is of the tag the host named, in a manifest a
\* trusted key signed, whatever the host published or replaced between the
\* requests of the fetch; one it offers is a release later in the order of
\* Tags than the running one.
OfferIsGenuine ==
    mgr.latest # None
        => LET rel == mgr.latest.rel
               Place(v) == CHOOSE i \in DOMAIN Tags : Tags[i] = v
           IN  /\ rel.version = rel.tag /\ rel.raw.version = rel.tag /\ rel.sig = Sign(rel.raw, "release")
               /\ mgr.available <=> (rel.version.pre = <<>> /\ Place(rel.version) > Place(Running))

\* The warning is up after more than FlapMax connects within the window, until
\* no connect has come for the quiet time, and a sweep or a connect has seen it.
FlapCounts ==
    /\ Flapping => Raised("stream:flap")
    /\ (Raised("stream:flap") /\ Last(gaps) < FlapQuiet) => Flapping

\* The lock file tells the state last asked for, or a retry of it is on its
\* way and the operator is told; after stop nothing is written.
RunLockSettles ==
    /\ (~lock.stopped /\ lock.file # lock.want) => (lock.armed \/ lock.fired > 0) /\ Raised("run-lock-unwritable")
    /\ lock.stopped => ~lock.armed

\* Once an Apply is over, the monitor has its tap if notifications are on,
\* whichever way its detach raced with the attach; a monitor that has seen them
\* off, or the quiet alert off, holds nothing raised, and neither does one that
\* has left its tap.
SettingsTakeEffect ==
    /\ ("signal" \in parts /\ loop.todo = <<>> /\ loop.set.on /\ ~signal.closed) => mic.tap
    /\ (signal.applied # None /\ ~signal.applied.on) => ~\E k \in {"audio:zero", "audio:quiet", "audio:clip"} : Raised(k)
    /\ (signal.applied # None /\ ~signal.applied.quiet) => ~Raised("audio:quiet")
    /\ (~mic.tap /\ ~signal.closed) => ~\E k \in {"audio:zero", "audio:quiet", "audio:clip"} : Raised(k)
    /\ (host.applied # None /\ ~host.applied.on) => ~\E k \in {"system", "stream:drops", "device:overruns"} : Raised(k)

\* A certificate an operator installed, once the request was answered, is on
\* disk and served after every restart, power cut, read fault, failed request,
\* address change and expiry, until a later rotation reaches the files.  The
\* snapshot is the pair on disk unless a rotation failed halfway, and one said
\* to be managed is not pinned.
CertificateKept ==
    /\ certs.kept # None => \A f \in {"cert", "key"} : certs.disk[f] # None /\ certs.disk[f].id = certs.kept
    /\ (certs.kept # None /\ certs.live # None) => certs.live.id = certs.kept
    /\ (certs.live # None /\ certs.op = None /\ ~certs.torn)
          => /\ \A f \in {"cert", "key"} : certs.disk[f] = certs.live
             /\ certs.managed => ~certs.disk["pin"]

\* A provision saves no second entry for a unit, whatever id the first one has
\* and however another request's PATCH or provision raced with its probe, as
\* long as the hardware stayed as it was since the client asked, and no client
\* had left in the middle of a reload still to be made up for at the last check.
OneEntryPerUnit ==
    [][\A r \in Requesters :
          (job[r].op = "provision" /\ job[r].pc = "update" /\ job'[r].pc = "reload" /\ job[r].steady)
              => \A i \in DOMAIN saved : Named(saved[i].id) \cap Named(Last(saved').id) = {}]_vars

\* A request that leaves everything to the appliance is refused as invalid only
\* for a list that is full; and the appliance can open the unit with what is
\* derived for it (its rate, the channel that was loudest), in whichever format
\* and at whichever count covers that channel, if its capabilities are known and
\* no other request's probe holds it.
DefaultsFit ==
    [][\A r \in Requesters :
          (job[r].op = "provision" /\ job[r].pc = "update" /\ job[r].req = NoOverrides /\ job'[r].pc # "update")
              => /\ job'[r].answer = "invalid" => Len(saved) = MaxDevices
                 /\ (job'[r].pc = "reload" /\ job[r].steady /\ job[r].found.rates # {})
                       => LET new == Last(saved') IN
                          \E u \in Named(new.id) : Held(u) \/ StreamChannelUnion(new) \subseteq OpenDevice(u, new)]_vars

\* A request past its probe has no capture open that would keep the appliance
\* from the device, whichever of the open, the read, the budget and the client
\* ended first; one goroutine at most is stuck in an open.
ProbeOutOfTheWay ==
    /\ \A r \in Requesters : job[r].pc # "probing" => probe[r].unit = None
    /\ Cardinality({r \in Requesters : probe[r].st = "opening"}) <= 1

=============================================================================
