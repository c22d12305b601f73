--------------------------- MODULE ConfigControl ---------------------------
(***************************************************************************)
(* Who may change the configuration, and how a change reaches the running  *)
(* appliance: the API handlers that persist and hot-reload it              *)
(* (internal/mgmtserver/config.go, devices.go), the run loop that applies  *)
(* it (cmd/remotemic/main.go, appliance.go reconcile), the supervisor that *)
(* restarts a dead API and re-reads the file (management_retry.go), the    *)
(* token commands that edit the file (token.go) and the run lock that      *)
(* keeps them apart (internal/runlock).                                    *)
(*                                                                         *)
(* A configuration is its access token and one value for everything else.  *)
(* The serve flags (never persisted) and what reconcile does to the        *)
(* devices are left out: running is the configuration last applied.  A     *)
(* token command that finds an API sends it a PATCH, which is a request    *)
(* like any other here.  Writes of the run lock succeed.                   *)
(***************************************************************************)
EXTENDS Naturals, FiniteSets

CONSTANTS
    Tokens,         \* access tokens, the empty one included
    Asked,          \* those a PATCH may set
    Bodies,         \* values of the rest of a configuration
    Handlers,       \* handler goroutines that may be in flight
    Clis,           \* token commands that may run at once
    Nobody,         \* no handler, no command, no sender
    MaxStarts,      \* bound: starts of the appliance
    MaxApis,        \* bound: APIs brought up by one process
    MaxDisconnects, \* bound: clients that give up on a request
    MaxEdits,       \* bound: edits of the file by token commands
    MaxBusy         \* bound: requests and commands at a time, each edit made counting as one

ASSUME BoundsAssumption ==
    /\ MaxStarts \in Nat \ {0} /\ MaxApis \in Nat \ {0} /\ MaxDisconnects \in Nat
    /\ MaxEdits \in Nat /\ MaxBusy \in Nat

ASSUME NamesAssumption ==
    /\ Nobody \notin Handlers \cup Clis \cup {"appliance", "supervisor"}
    /\ Handlers \cap Clis = {} /\ "appliance" \notin Clis /\ "supervisor" \notin Handlers
    /\ Tokens # {} /\ Bodies # {} /\ Asked \subseteq Tokens

VARIABLES
    file,        \* the config file
    lock,        \* run lock: [holder, says], says what the file's content tells
    editLock,    \* holder of the edit lock
    proc,        \* "down", "load" (run lock held), "run"
    stopping,    \* the process context is cancelled
    guard,       \* the token the Guard enforces
    running,     \* configuration last reconciled
    restart,     \* the restart-required condition is active
    storeCfg,    \* mgmtParams.storeCfg
    api,         \* the supervisor's place
    fresh,       \* the edited file it is applying
    sReplied,    \* its reload was answered
    inst,        \* APIs brought up by this process; the last is the current one
    stores,      \* FileConfigStore of each API
    mu,          \* patchMu of each API: its holder
    hPc, hKind, hInst, hCur, ctxDone, replied,   \* handlers
    lPc, lCfg, lFrom,                            \* run loop and its request
    cPc, cCfg,                                   \* token commands
    starts, disconnects, edits,                  \* counted against their bounds
    \* history, never read by a guard
    missed,      \* an edit the API in service has not seen: saved after the lock's
                 \* word had changed, or in a file missing when it was to be read
    outlived,    \* a handler was left running when its API's drain gave up
    abandoned    \* a reload ended with its client's context, and none has
                 \* succeeded since

diskVars    == <<file, lock, editLock>>
procVars    == <<proc, stopping>>
boundVars   == <<starts, disconnects, edits>>
appVars     == <<guard, running, restart>>
superVars   == <<storeCfg, api, fresh, sReplied, inst>>
handlerVars == <<hPc, hKind, hInst, hCur, ctxDone, replied>>
loopVars    == <<lPc, lCfg, lFrom>>
cliVars     == <<cPc, cCfg>>
histVars    == <<missed, outlived, abandoned>>

vars == <<diskVars, procVars, appVars, superVars, stores, mu, handlerVars, loopVars,
          cliVars, boundVars, histVars>>

Configs == [token : Tokens, body : Bodies]
NoCfg   == [token |-> Nobody, body |-> Nobody]
Apis    == 1 .. MaxApis
Kinds   == {"patch", "provision", "delete"}

-----------------------------------------------------------------------------
(* The process *)

\* What a process that is not running has in memory.
Cleared ==
    /\ stopping' = FALSE /\ guard' = Nobody /\ running' = NoCfg /\ restart' = FALSE
    /\ storeCfg' = NoCfg /\ api' = "off" /\ fresh' = NoCfg /\ sReplied' = FALSE
    /\ inst' = 0 /\ stores' = [i \in Apis |-> NoCfg] /\ mu' = [i \in Apis |-> Nobody]
    /\ hPc' = [h \in Handlers |-> "idle"] /\ hKind' = [h \in Handlers |-> "none"]
    /\ hInst' = [h \in Handlers |-> 0] /\ hCur' = [h \in Handlers |-> NoCfg]
    /\ ctxDone' = [h \in Handlers |-> FALSE] /\ replied' = [h \in Handlers |-> FALSE]
    /\ lPc' = "off" /\ lCfg' = NoCfg /\ lFrom' = Nobody
    /\ missed' = FALSE /\ outlived' = FALSE /\ abandoned' = FALSE

Init ==
    /\ file \in Configs
    /\ lock = [holder |-> Nobody, says |-> "nothing"]
    /\ editLock = Nobody
    /\ proc = "down" /\ starts = 0 /\ disconnects = 0 /\ edits = 0
    /\ stopping = FALSE /\ guard = Nobody /\ running = NoCfg /\ restart = FALSE
    /\ storeCfg = NoCfg /\ api = "off" /\ fresh = NoCfg /\ sReplied = FALSE
    /\ inst = 0 /\ stores = [i \in Apis |-> NoCfg] /\ mu = [i \in Apis |-> Nobody]
    /\ hPc = [h \in Handlers |-> "idle"] /\ hKind = [h \in Handlers |-> "none"]
    /\ hInst = [h \in Handlers |-> 0] /\ hCur = [h \in Handlers |-> NoCfg]
    /\ ctxDone = [h \in Handlers |-> FALSE] /\ replied = [h \in Handlers |-> FALSE]
    /\ lPc = "off" /\ lCfg = NoCfg /\ lFrom = Nobody
    /\ cPc = [c \in Clis |-> "idle"] /\ cCfg = [c \in Clis |-> NoCfg]
    /\ missed = FALSE /\ outlived = FALSE /\ abandoned = FALSE

\* TryAcquire: whoever gets the lock empties what its last holder left.
TryAcquire(who) ==
    /\ lock.holder = Nobody
    /\ lock' = [holder |-> who, says |-> "nothing"]

\* run takes the run lock before it reads the configuration.
Start ==
    /\ proc = "down" /\ starts < MaxStarts
    /\ TryAcquire("appliance")
    /\ proc' = "load"
    /\ starts' = starts + 1
    /\ UNCHANGED <<file, editLock, stopping, appVars, superVars, stores, mu,
                   handlerVars, loopVars, cliVars, disconnects, edits, histVars>>

\* With management disabled, the lock says at once that there is no API.
LoadConfig ==
    /\ proc = "load"
    /\ proc' = "run"
    /\ storeCfg' = file
    /\ guard' = file.token
    /\ lCfg' = file
    /\ \/ lPc' = "start" /\ api' = "serve" /\ UNCHANGED lock
       \/ lPc' = "auth" /\ api' = "off" /\ lock' = [lock EXCEPT !.says = "noApi"]
    /\ UNCHANGED <<file, editLock, stopping, running, restart, fresh, sReplied,
                   inst, stores, mu, handlerVars, lFrom, cliVars, boundVars, histVars>>

\* A signal, or POST /restart.
Stop ==
    /\ proc = "run" /\ ~stopping
    /\ stopping' = TRUE
    /\ UNCHANGED <<diskVars, proc, appVars, superVars, stores, mu,
                   handlerVars, loopVars, cliVars, boundVars, histVars>>

\* The process ends, cleanly (the lock file is emptied) or killed (it is not).
Exit ==
    /\ proc # "down"
    /\ proc' = "down"
    /\ \E s \in {lock.says, "nothing"} : lock' = [holder |-> Nobody, says |-> s]
    /\ Cleared
    /\ UNCHANGED <<file, editLock, cliVars, boundVars>>

-----------------------------------------------------------------------------
(* The run loop *)

\* reconcile begins with the token.
ApplyToken ==
    /\ lPc = "auth"
    /\ guard' = lCfg.token
    /\ lPc' = "devices"
    /\ UNCHANGED <<diskVars, procVars, running, restart, superVars, stores, mu,
                   handlerVars, lCfg, lFrom, cliVars, boundVars, histVars>>

\* The rest of reconcile, and the reply to who asked for it, if it still waits.
ApplyDevices ==
    /\ lPc = "devices"
    /\ running' = lCfg
    /\ sReplied' = (sReplied \/ lFrom = "supervisor")
    /\ replied' = [h \in Handlers |-> replied[h] \/ lFrom = h]
    /\ lPc' = "idle" /\ lCfg' = NoCfg /\ lFrom' = Nobody
    /\ UNCHANGED <<diskVars, procVars, guard, restart, storeCfg, api, fresh, inst,
                   stores, mu, hPc, hKind, hInst, hCur, ctxDone, cliVars,
                   boundVars, histVars>>

\* ctx.Done: run returns, nobody receives reload requests any more.
LoopExit ==
    /\ lPc = "idle" /\ stopping
    /\ lPc' = "exited"
    /\ UNCHANGED <<diskVars, procVars, appVars, superVars, stores, mu, handlerVars,
                   lCfg, lFrom, cliVars, boundVars, histVars>>

\* The rendezvous on reconcileCh.
HandOff(who, cfg) ==
    /\ lPc = "idle"
    /\ lPc' = "auth" /\ lCfg' = cfg /\ lFrom' = who

-----------------------------------------------------------------------------
(* The management API and its supervisor *)

\* startManagement is part of run: once the first attempt is over, run goes on
\* to the initial reconcile.
Started == lPc' = IF lPc = "start" THEN "auth" ELSE lPc

\* serveManagement binds the listener over a store seeded with storeCfg: from
\* here on requests arrive.
Serve ==
    /\ api = "serve" /\ inst < MaxApis
    /\ inst' = inst + 1
    /\ stores' = [stores EXCEPT ![inst + 1] = storeCfg]
    /\ api' = "publish"
    /\ UNCHANGED <<diskVars, procVars, appVars, storeCfg, fresh, sReplied, mu,
                   handlerVars, loopVars, cliVars, boundVars, histVars>>

Publish ==
    /\ api = "publish"
    /\ lock' = [lock EXCEPT !.says = "api"]
    /\ api' = "up"
    /\ Started
    /\ UNCHANGED <<file, editLock, procVars, appVars, storeCfg, fresh, sReplied, inst,
                   stores, mu, handlerVars, lCfg, lFrom, cliVars, boundVars, histVars>>

\* The attempt failed: no certificate, no listener, or no readable file.
AttemptFails ==
    /\ api' = "down"
    /\ lock' = [lock EXCEPT !.says = "noApi"]

\* A background attempt finds management disabled: the supervisor gives up.
MgmtDisabled ==
    /\ api = "serve" /\ lPc # "start"
    /\ api' = "off"
    /\ lock' = [lock EXCEPT !.says = "noApi"]
    /\ UNCHANGED <<file, editLock, procVars, appVars, storeCfg, fresh, sReplied, inst,
                   stores, mu, handlerVars, loopVars, cliVars, boundVars, histVars>>

ServeFails ==
    /\ api = "serve"
    /\ AttemptFails
    /\ Started
    /\ UNCHANGED <<file, editLock, procVars, appVars, storeCfg, fresh, sReplied, inst,
                   stores, mu, handlerVars, lCfg, lFrom, cliVars, boundVars, histVars>>

\* The listener fails; halted stops the lock from advertising it.
ListenerDies ==
    /\ api = "up"
    /\ api' = "dead"
    /\ UNCHANGED <<diskVars, procVars, appVars, storeCfg, fresh, sReplied, inst, stores,
                   mu, handlerVars, loopVars, cliVars, boundVars, histVars>>

Halted ==
    /\ api = "dead" /\ ~stopping
    /\ lock' = [lock EXCEPT !.says = "nothing"]
    /\ api' = "drain"
    /\ UNCHANGED <<file, editLock, procVars, appVars, storeCfg, fresh, sReplied, inst,
                   stores, mu, handlerVars, loopVars, cliVars, boundVars, histVars>>

InFlight == {h \in Handlers : hPc[h] # "idle" /\ hInst[h] = inst}

\* Shutdown ran out of time: Close cancels the requests still open.
CloseConns ==
    /\ api = "drain" /\ InFlight # {}
    /\ ctxDone' = [h \in Handlers |-> ctxDone[h] \/ h \in InFlight]
    /\ api' = "closing"
    /\ UNCHANGED <<diskVars, procVars, appVars, storeCfg, fresh, sReplied, inst, stores,
                   mu, hPc, hKind, hInst, hCur, replied, loopVars, cliVars, boundVars,
                   histVars>>

\* The wait for the handlers ends, with the last of them or by its time limit.
Drained == api = "closing" \/ (api = "drain" /\ InFlight = {})

\* died: what this API's store holds seeds the next one's.
Died ==
    /\ Drained
    /\ outlived' = (outlived \/ InFlight # {})
    /\ storeCfg' = stores[inst]
    /\ lock' = [lock EXCEPT !.says = "noApi"]
    /\ api' = "down"
    /\ UNCHANGED <<file, editLock, procVars, appVars, fresh, sReplied, inst, stores, mu,
                   handlerVars, loopVars, cliVars, boundVars, missed, abandoned>>

\* A background attempt marks the appliance as starting before it reads.
AttemptUnmarked == UNCHANGED lock
MarkStarting == lock' = [lock EXCEPT !.says = "nothing"]

Attempt ==
    /\ api = "down" /\ ~stopping
    /\ MarkStarting
    /\ api' = "read"
    /\ UNCHANGED <<file, editLock, procVars, appVars, storeCfg, fresh, sReplied, inst,
                   stores, mu, handlerVars, loopVars, cliVars, boundVars, histVars>>

\* reloadAndServe: an edited file is applied first.
SeedsWithoutApplying ==
    /\ api = "read"
    /\ api' = "serve" /\ storeCfg' = file
    /\ UNCHANGED <<diskVars, procVars, appVars, fresh, sReplied, inst, stores, mu,
                   handlerVars, loopVars, cliVars, boundVars, histVars>>
Reload ==
    /\ api = "read"
    /\ api' = IF file = storeCfg THEN "serve" ELSE "apply"
    /\ fresh' = IF file = storeCfg THEN fresh ELSE file
    /\ UNCHANGED <<diskVars, procVars, appVars, storeCfg, sReplied, inst, stores, mu,
                   handlerVars, loopVars, cliVars, boundVars, histVars>>

\* A file that does not load fails the attempt; a missing one is not a change.
ReloadFails ==
    /\ api = "read"
    /\ \/ AttemptFails /\ UNCHANGED missed
       \/ /\ api' = "serve"
          /\ missed' = (missed \/ file # storeCfg)
          /\ UNCHANGED lock
    /\ UNCHANGED <<file, editLock, procVars, appVars, storeCfg, fresh, sReplied, inst,
                   stores, mu, handlerVars, loopVars, cliVars, boundVars, outlived,
                   abandoned>>

ApplyEdited ==
    /\ api = "apply"
    /\ HandOff("supervisor", fresh)
    /\ api' = "applying"
    /\ UNCHANGED <<diskVars, procVars, appVars, storeCfg, fresh, sReplied, inst, stores,
                   mu, handlerVars, cliVars, boundVars, histVars>>

\* The reload was answered: the file is what runs, and seeds the store.
EditedApplied ==
    /\ api = "applying" /\ sReplied
    /\ storeCfg' = fresh
    /\ restart' = FALSE
    /\ abandoned' = FALSE
    /\ fresh' = NoCfg /\ sReplied' = FALSE
    /\ api' = "serve"
    /\ UNCHANGED <<diskVars, procVars, guard, running, inst, stores, mu, handlerVars,
                   loopVars, cliVars, boundVars, missed, outlived>>

\* The appliance shuts down under the reload: the attempt fails.
ApplyStopped ==
    /\ api \in {"apply", "applying"} /\ stopping
    /\ AttemptFails
    /\ fresh' = NoCfg /\ sReplied' = FALSE
    /\ lFrom' = IF lFrom = "supervisor" THEN Nobody ELSE lFrom
    /\ UNCHANGED <<file, editLock, procVars, appVars, storeCfg, inst, stores, mu,
                   handlerVars, lPc, lCfg, cliVars, boundVars, histVars>>

-----------------------------------------------------------------------------
(* API handlers: PatchConfig, ProvisionDevice, DeleteDevice *)

\* The bound on what goes on at a time leaves room for one more.
HasSlot ==
    Cardinality({h \in Handlers : hPc[h] # "idle"}) + Cardinality({c \in Clis : cPc[c] # "idle"}) + edits < MaxBusy

Request(h, k) ==
    /\ hPc[h] = "idle"
    /\ HasSlot
    /\ api \in {"publish", "up"}
    /\ hPc' = [hPc EXCEPT ![h] = "lock"]
    /\ hKind' = [hKind EXCEPT ![h] = k]
    /\ hInst' = [hInst EXCEPT ![h] = inst]
    /\ UNCHANGED <<diskVars, procVars, appVars, superVars, stores, mu, hCur, ctxDone,
                   replied, loopVars, cliVars, boundVars, histVars>>

\* The client leaves or times out: the request's context is cancelled.
Disconnect(h) ==
    /\ hPc[h] # "idle" /\ ~ctxDone[h]
    /\ disconnects < MaxDisconnects
    /\ disconnects' = disconnects + 1
    /\ ctxDone' = [ctxDone EXCEPT ![h] = TRUE]
    /\ UNCHANGED <<diskVars, procVars, appVars, superVars, stores, mu, hPc, hKind,
                   hInst, hCur, replied, loopVars, cliVars, starts, edits, histVars>>

\* The handler returns: patchMu is released and nobody waits for its reply.
Return(h) ==
    /\ hPc' = [hPc EXCEPT ![h] = "idle"]
    /\ hKind' = [hKind EXCEPT ![h] = "none"]
    /\ hInst' = [hInst EXCEPT ![h] = 0]
    /\ hCur' = [hCur EXCEPT ![h] = NoCfg]
    /\ ctxDone' = [ctxDone EXCEPT ![h] = FALSE]
    /\ replied' = [replied EXCEPT ![h] = FALSE]
    /\ mu' = [mu EXCEPT ![hInst[h]] = Nobody]
    /\ lFrom' = IF lFrom = h THEN Nobody ELSE lFrom

\* patchMu.Lock.
LockIgnored(h) == TRUE
MutexFree(h) == mu[hInst[h]] = Nobody

Lock(h) ==
    /\ hPc[h] = "lock"
    /\ MutexFree(h)
    /\ mu' = [mu EXCEPT ![hInst[h]] = h]
    /\ hPc' = [hPc EXCEPT ![h] = "save"]
    /\ UNCHANGED <<diskVars, procVars, appVars, superVars, stores, hKind, hInst, hCur,
                   ctxDone, replied, loopVars, cliVars, boundVars, histVars>>

\* A PATCH merges any of its blocks; the device operations leave the token.
Merged(h, c) ==
    c.token = stores[hInst[h]].token \/ (hKind[h] = "patch" /\ c.token \in Asked)

\* FileConfigStore.Update: the file and the store change together.
Persist(h, c) ==
    /\ hPc[h] = "save"
    /\ hKind[h] = "provision" => ~ctxDone[h]
    /\ Merged(h, c)
    /\ file' = c
    /\ stores' = [stores EXCEPT ![hInst[h]] = c]
    /\ hCur' = [hCur EXCEPT ![h] = c]
    /\ hPc' = [hPc EXCEPT ![h] = IF hKind[h] = "patch" THEN "enforce" ELSE "send"]
    /\ UNCHANGED <<lock, editLock, procVars, appVars, superVars, mu, hKind, hInst,
                   ctxDone, replied, loopVars, cliVars, boundVars, histVars>>

\* The change does not validate, the write fails, or a provision's client has
\* left: nothing changed.
Refuse(h) ==
    /\ hPc[h] = "save"
    /\ Return(h)
    /\ UNCHANGED <<diskVars, procVars, appVars, superVars, stores, lPc, lCfg,
                   cliVars, boundVars, histVars>>

\* PatchConfig enforces the persisted token before the reload.
Enforce(h) ==
    /\ hPc[h] = "enforce"
    /\ guard' = hCur[h].token
    /\ hPc' = [hPc EXCEPT ![h] = "send"]
    /\ UNCHANGED <<diskVars, procVars, running, restart, superVars, stores, mu, hKind,
                   hInst, hCur, ctxDone, replied, loopVars, cliVars, boundVars,
                   histVars>>

\* The reloader: first the rendezvous with the run loop, then its answer.
Send(h) ==
    /\ hPc[h] = "send"
    /\ HandOff(h, hCur[h])
    /\ hPc' = [hPc EXCEPT ![h] = "wait"]
    /\ UNCHANGED <<diskVars, procVars, appVars, superVars, stores, mu, hKind, hInst,
                   hCur, ctxDone, replied, cliVars, boundVars, histVars>>

\* The reload succeeded: a PATCH ends the restart-required condition.
Applied(h) ==
    /\ hPc[h] = "wait" /\ replied[h]
    /\ restart' = (restart /\ hKind[h] # "patch")
    /\ abandoned' = FALSE
    /\ Return(h)
    /\ UNCHANGED <<diskVars, procVars, guard, running, superVars, stores, lPc, lCfg,
                   cliVars, boundVars, missed, outlived>>

\* The context ended first, in either select: the outcome counts as unknown.
Abandon(h) ==
    /\ hPc[h] \in {"send", "wait"} /\ ctxDone[h]
    /\ abandoned' = TRUE
    /\ Return(h)
    /\ UNCHANGED <<diskVars, procVars, appVars, superVars, stores, lPc, lCfg,
                   cliVars, boundVars, missed, outlived>>

\* The reloader gives up on a reload when the appliance shuts down.
ShutdownIgnored == FALSE
ReloadStopped == stopping

\* The appliance shuts down first: a PATCH reports that a restart is needed.
Fail(h) ==
    /\ hPc[h] \in {"send", "wait"} /\ ReloadStopped
    /\ restart' = (restart \/ hKind[h] = "patch")
    /\ Return(h)
    /\ UNCHANGED <<diskVars, procVars, guard, running, superVars, stores, lPc, lCfg,
                   cliVars, boundVars, histVars>>

-----------------------------------------------------------------------------
(* Token commands: changeToken and saveToken *)

\* The run lock is free: the command holds it while it edits.
CliLocks(c) ==
    /\ cPc[c] = "idle" /\ HasSlot
    /\ TryAcquire(c)
    /\ cPc' = [cPc EXCEPT ![c] = "edit"]
    /\ UNCHANGED <<file, editLock, procVars, appVars, superVars, stores, mu, handlerVars,
                   loopVars, cCfg, boundVars, histVars>>

CliHeld(c) ==
    /\ cPc[c] = "idle" /\ HasSlot
    /\ lock.holder # Nobody
    /\ cPc' = [cPc EXCEPT ![c] = "look"]
    /\ UNCHANGED <<diskVars, procVars, appVars, superVars, stores, mu, handlerVars,
                   loopVars, cCfg, boundVars, histVars>>

\* ReadState: it edits the file only if the holder serves no API.
CliLooks(c) ==
    /\ cPc[c] = "look"
    /\ cPc' = [cPc EXCEPT ![c] = IF lock.says = "noApi" THEN "edit" ELSE "idle"]
    /\ UNCHANGED <<diskVars, procVars, appVars, superVars, stores, mu, handlerVars,
                   loopVars, cCfg, boundVars, histVars>>

\* Load under the edit lock, then save; both locks are released.
CliLoads(c, t) ==
    /\ cPc[c] = "edit"
    /\ editLock = Nobody
    /\ edits < MaxEdits /\ edits' = edits + 1
    /\ editLock' = c
    /\ cCfg' = [cCfg EXCEPT ![c] = [file EXCEPT !.token = t]]
    /\ cPc' = [cPc EXCEPT ![c] = "save"]
    /\ UNCHANGED <<file, lock, procVars, appVars, superVars, stores, mu, handlerVars,
                   loopVars, starts, disconnects, histVars>>

CliSaves(c) ==
    /\ cPc[c] = "save"
    /\ file' = cCfg[c]
    /\ editLock' = Nobody
    /\ lock' = IF lock.holder = c THEN [holder |-> Nobody, says |-> "nothing"] ELSE lock
    /\ missed' = (missed \/ (lock.holder # c /\ proc # "down" /\ lock.says # "noApi"))
    /\ cPc' = [cPc EXCEPT ![c] = "idle"]
    /\ cCfg' = [cCfg EXCEPT ![c] = NoCfg]
    /\ UNCHANGED <<procVars, appVars, superVars, stores, mu, handlerVars, loopVars,
                   boundVars, outlived, abandoned>>

\* The edit lock stays busy, the check vetoes, or a load or save fails.
CliGivesUp(c) ==
    /\ cPc[c] \in {"edit", "save"}
    /\ editLock' = IF editLock = c THEN Nobody ELSE editLock
    /\ lock' = IF lock.holder = c THEN [holder |-> Nobody, says |-> "nothing"] ELSE lock
    /\ cPc' = [cPc EXCEPT ![c] = "idle"]
    /\ cCfg' = [cCfg EXCEPT ![c] = NoCfg]
    /\ UNCHANGED <<file, procVars, appVars, superVars, stores, mu, handlerVars, loopVars,
                   boundVars, histVars>>

-----------------------------------------------------------------------------
LoopStep == ApplyToken \/ ApplyDevices \/ LoopExit
HandlerStep(h) ==
    \/ Lock(h) \/ (\E c \in Configs : Persist(h, c)) \/ Refuse(h) \/ Enforce(h)
    \/ Send(h) \/ Applied(h) \/ Abandon(h) \/ Fail(h)
CliStep(c) == CliLooks(c) \/ (\E t \in Tokens : CliLoads(c, t)) \/ CliSaves(c) \/ CliGivesUp(c)

Next ==
    \/ Start \/ LoadConfig \/ Stop \/ Exit
    \/ ApplyToken \/ ApplyDevices \/ LoopExit
    \/ Serve \/ Publish \/ MgmtDisabled \/ ServeFails \/ ListenerDies
    \/ Halted \/ CloseConns \/ Died
    \/ Attempt \/ Reload \/ ReloadFails \/ ApplyEdited \/ EditedApplied \/ ApplyStopped
    \/ \E h \in Handlers :
         \/ \E k \in Kinds : Request(h, k)
         \/ Disconnect(h) \/ Lock(h)
         \/ \E c \in Configs : Persist(h, c)
         \/ Refuse(h) \/ Enforce(h) \/ Send(h) \/ Applied(h) \/ Abandon(h) \/ Fail(h)
    \/ \E c \in Clis :
         \/ CliLocks(c) \/ CliHeld(c) \/ CliLooks(c)
         \/ \E t \in Tokens : CliLoads(c, t)
         \/ CliSaves(c) \/ CliGivesUp(c)

Spec == Init /\ [][Next]_vars

(* Fairness: goroutines that can run do run; patchMu and the reload channel
   serve their waiters in turn (hence SF); the supervisor keeps trying, and a
   file that can be read is read some time; a token command finishes its edit.
   Nothing makes clients send requests, operators run commands, listeners fail
   or the process end. *)
Fairness ==
    /\ WF_vars(LoadConfig) /\ WF_vars(LoopStep)
    /\ WF_vars(Serve \/ ServeFails \/ MgmtDisabled) /\ WF_vars(Publish)
    /\ WF_vars(Halted) /\ WF_vars(CloseConns) /\ WF_vars(Died)
    /\ WF_vars(Attempt) /\ SF_vars(Reload)
    /\ SF_vars(ApplyEdited \/ ApplyStopped) /\ WF_vars(EditedApplied)
    /\ \A h \in Handlers : SF_vars(HandlerStep(h))
    /\ \A c \in Clis : WF_vars(CliStep(c))

FairSpec == Spec /\ Fairness

-----------------------------------------------------------------------------
(* Properties *)

CfgOrNone == Configs \cup {NoCfg}

\* Every variable keeps its type, the counters within their bounds.
TypeOK ==
    /\ file \in Configs
    /\ lock \in [holder : Clis \cup {"appliance", Nobody}, says : {"nothing", "api", "noApi"}]
    /\ editLock \in Clis \cup {Nobody}
    /\ proc \in {"down", "load", "run"} /\ stopping \in BOOLEAN
    /\ guard \in Tokens \cup {Nobody} /\ running \in CfgOrNone /\ restart \in BOOLEAN
    /\ storeCfg \in CfgOrNone /\ fresh \in CfgOrNone /\ sReplied \in BOOLEAN
    /\ api \in {"off", "serve", "publish", "up", "dead", "drain", "closing", "down",
                "read", "apply", "applying"}
    /\ inst \in 0 .. MaxApis
    /\ stores \in [Apis -> CfgOrNone] /\ mu \in [Apis -> Handlers \cup {Nobody}]
    /\ hPc \in [Handlers -> {"idle", "lock", "save", "enforce", "send", "wait"}]
    /\ hKind \in [Handlers -> Kinds \cup {"none"}]
    /\ hInst \in [Handlers -> 0 .. MaxApis] /\ hCur \in [Handlers -> CfgOrNone]
    /\ ctxDone \in [Handlers -> BOOLEAN] /\ replied \in [Handlers -> BOOLEAN]
    /\ lPc \in {"off", "start", "auth", "devices", "idle", "exited"}
    /\ lCfg \in CfgOrNone /\ lFrom \in Handlers \cup {"supervisor", Nobody}
    /\ cPc \in [Clis -> {"idle", "look", "edit", "save"}] /\ cCfg \in [Clis -> CfgOrNone]
    /\ starts \in 0 .. MaxStarts /\ disconnects \in 0 .. MaxDisconnects
    /\ edits \in 0 .. MaxEdits
    /\ missed \in BOOLEAN /\ outlived \in BOOLEAN /\ abandoned \in BOOLEAN

ApiExists == api \in {"publish", "up", "dead", "drain", "closing"}

\* The store an API answers from and saves over is the file: no edit by a token
\* command is out of its sight, so no later save reverts one.  The exceptions
\* are the window recoverManagement's comment admits and a handler that
\* outlived its API's drain.
StoreIsFile ==
    (ApiExists /\ ~missed /\ ~outlived) => stores[inst] = file

\* An API serves and nothing is under way.
Settled ==
    /\ proc = "run" /\ ~stopping /\ api = "up" /\ lPc = "idle"
    /\ \A h \in Handlers : hPc[h] = "idle"

\* Whatever requests, outages and edits came before: once nothing is under way,
\* what runs and what is enforced is what the store says, unless a reload was
\* abandoned by its client and none has succeeded since, or a handler outlived
\* its API's drain.
SettledIsApplied ==
    (Settled /\ ~abandoned /\ ~outlived) =>
        running = stores[inst] /\ guard = stores[inst].token

\* A request is always answered, through reloads, outages and shutdown.
RequestsEnd == \A h \in Handlers : hPc[h] # "idle" ~> hPc[h] = "idle"

\* A file edited while no API serves is applied by a background attempt, even
\* if the API itself cannot come up.  The exception: after an abandoned reload
\* storeCfg is not what runs, and a file edited back to it counts as unchanged.
\* Nobody applies what is edited after the supervisor has given up.
EditedFileApplied ==
    (proc = "run" /\ api = "down" /\ file # storeCfg)
        ~> (\/ running = file \/ (abandoned /\ file = storeCfg)
            \/ missed \/ stopping \/ proc # "run" \/ api = "off")

\* What PatchConfig's comment says of the token: persistence and enforcement
\* are not separated, the reconcile's own Set being harmless.
TokenEnforced ==
    (Settled /\ ~missed /\ ~outlived) => guard = stores[inst].token

=============================================================================
