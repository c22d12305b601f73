------------------------ MODULE ConfigControlProofs ------------------------
(***************************************************************************)
(* Proofs about configuration changes, for every number of handlers, token *)
(* commands, starts and outages and for every set of configurations: the   *)
(* type invariant; that the store an API saves over is the file, through   *)
(* token commands, the death of an API and the next one's start; and that  *)
(* what was saved last is what runs once nothing is under way.             *)
(***************************************************************************)
EXTENDS ConfigControl, TLAPS

-----------------------------------------------------------------------------
(* Types, by owner *)

DiskTypes ==
    /\ file \in Configs
    /\ lock \in [holder : Clis \cup {"appliance", Nobody}, says : {"nothing", "api", "noApi"}]
    /\ editLock \in Clis \cup {Nobody}

ProcTypes == proc \in {"down", "load", "run"} /\ stopping \in BOOLEAN

AppTypes == guard \in Tokens \cup {Nobody} /\ running \in CfgOrNone /\ restart \in BOOLEAN

SuperTypes ==
    /\ storeCfg \in CfgOrNone /\ fresh \in CfgOrNone /\ sReplied \in BOOLEAN
    /\ api \in {"off", "serve", "publish", "up", "dead", "drain", "closing", "down",
                "read", "apply", "applying"}
    /\ inst \in 0 .. MaxApis /\ (ApiExists => inst \in Apis)

StoreTypes == stores \in [Apis -> CfgOrNone] /\ mu \in [Apis -> Handlers \cup {Nobody}]

HandlerTypes ==
    /\ hPc \in [Handlers -> {"idle", "lock", "save", "enforce", "send", "wait"}]
    /\ hKind \in [Handlers -> Kinds \cup {"none"}]
    /\ hInst \in [Handlers -> 0 .. MaxApis] /\ hCur \in [Handlers -> CfgOrNone]
    /\ ctxDone \in [Handlers -> BOOLEAN] /\ replied \in [Handlers -> BOOLEAN]

LoopTypes ==
    /\ lPc \in {"off", "start", "auth", "devices", "idle", "exited"}
    /\ lCfg \in CfgOrNone /\ lFrom \in Handlers \cup {"supervisor", Nobody}

\* What a token command is about to save is a configuration.
CliTypes ==
    /\ cPc \in [Clis -> {"idle", "look", "edit", "save"}] /\ cCfg \in [Clis -> CfgOrNone]
    /\ \A c \in Clis : cPc[c] = "save" => cCfg[c] \in Configs

BoundTypes ==
    starts \in 0 .. MaxStarts /\ disconnects \in 0 .. MaxDisconnects /\ edits \in 0 .. MaxEdits

HistTypes == missed \in BOOLEAN /\ outlived \in BOOLEAN /\ abandoned \in BOOLEAN

Types ==
    /\ DiskTypes /\ ProcTypes /\ AppTypes /\ SuperTypes /\ StoreTypes
    /\ HandlerTypes /\ LoopTypes /\ CliTypes /\ BoundTypes /\ HistTypes

\* The parts of a configuration.
LEMMA ConfigParts ==
    /\ \A c \in CfgOrNone : c.token \in Tokens \cup {Nobody}
    /\ \A c \in Configs : c \in CfgOrNone /\ c.token \in Tokens
    /\ NoCfg \in CfgOrNone
    /\ \A c \in Configs, t \in Tokens : [c EXCEPT !.token = t] \in Configs
  BY DEF CfgOrNone, Configs, NoCfg

\* The process starts, loads its file, is told to stop, and ends.
LEMMA ProcessTypes ==
    ASSUME Types, Start \/ LoadConfig \/ Stop \/ Exit
    PROVE  Types'

<1> USE DEF Types, ApiExists, DiskTypes, ProcTypes, AppTypes, SuperTypes, StoreTypes, HandlerTypes, LoopTypes,
                CliTypes, BoundTypes, HistTypes,
            appVars, boundVars, cliVars, diskVars, handlerVars, histVars, loopVars, procVars,
                superVars
<1>1. CASE Start
  BY <1>1, ConfigParts, BoundsAssumption DEF Start, TryAcquire, Apis
<1>2. CASE LoadConfig
  BY <1>2, ConfigParts, BoundsAssumption DEF LoadConfig
<1>3. CASE Stop
  BY <1>3, ConfigParts, BoundsAssumption DEF Stop
<1>4. CASE Exit
  <2>1. DiskTypes'
    BY <1>4, ConfigParts, BoundsAssumption DEF Exit, Cleared, Apis, Kinds
  <2>2. ProcTypes'
    BY <1>4, ConfigParts, BoundsAssumption DEF Exit, Cleared, Apis, Kinds
  <2>3. AppTypes'
    BY <1>4, ConfigParts, BoundsAssumption DEF Exit, Cleared, Apis, Kinds
  <2>4. SuperTypes'
    <3>1. /\ storeCfg' = NoCfg /\ fresh' = NoCfg /\ sReplied' = FALSE /\ api' = "off" /\ inst' = 0
      BY <1>4 DEF Exit, Cleared
    <3>2. 0 \in 0 .. MaxApis
      BY BoundsAssumption
    <3> QED
      BY <3>1, <3>2, ConfigParts
  <2>5. StoreTypes'
    BY <1>4, ConfigParts, BoundsAssumption DEF Exit, Cleared, Apis, Kinds
  <2>6. HandlerTypes'
    BY <1>4, ConfigParts, BoundsAssumption DEF Exit, Cleared, Apis, Kinds
  <2>7. LoopTypes'
    BY <1>4, ConfigParts, BoundsAssumption DEF Exit, Cleared, Apis, Kinds
  <2>8. HistTypes'
    BY <1>4, ConfigParts, BoundsAssumption DEF Exit, Cleared, Apis, Kinds
  <2>9. CliTypes' /\ BoundTypes'
    BY <1>4 DEF Exit, Cleared, Apis, Kinds
  <2> HIDE DEF DiskTypes, ProcTypes, AppTypes, SuperTypes, StoreTypes, HandlerTypes, LoopTypes,
                   CliTypes, BoundTypes, HistTypes
  <2> QED
    BY <2>1, <2>2, <2>3, <2>4, <2>5, <2>6, <2>7, <2>8, <2>9
<1> QED
  BY <1>1, <1>2, <1>3, <1>4

\* The run loop applies what it was handed.
LEMMA LoopTypesKept ==
    ASSUME Types, ApplyToken \/ ApplyDevices \/ LoopExit
    PROVE  Types'

<1> USE DEF Types, ApiExists, DiskTypes, ProcTypes, AppTypes, SuperTypes, StoreTypes, HandlerTypes, LoopTypes,
                CliTypes, BoundTypes, HistTypes,
            appVars, boundVars, cliVars, diskVars, handlerVars, histVars, loopVars, procVars,
                superVars
<1>1. CASE ApplyToken
  BY <1>1, ConfigParts, BoundsAssumption DEF ApplyToken
<1>2. CASE ApplyDevices
  BY <1>2, ConfigParts, BoundsAssumption DEF ApplyDevices
<1>3. CASE LoopExit
  BY <1>3, ConfigParts, BoundsAssumption DEF LoopExit
<1> QED
  BY <1>1, <1>2, <1>3

\* The supervisor brings the API up, loses it and brings it back.
LEMMA SupervisorTypes ==
    ASSUME Types, Serve \/ Publish \/ MgmtDisabled \/ ServeFails \/ ListenerDies \/ Halted \/
               CloseConns \/ Died \/ Attempt \/ Reload \/ ReloadFails \/ ApplyEdited \/
               EditedApplied \/ ApplyStopped
    PROVE  Types'

<1> USE DEF Types, ApiExists, DiskTypes, ProcTypes, AppTypes, SuperTypes, StoreTypes, HandlerTypes, LoopTypes,
                CliTypes, BoundTypes, HistTypes,
            appVars, boundVars, cliVars, diskVars, handlerVars, histVars, loopVars, procVars,
                superVars
<1>1. CASE Serve
  BY <1>1, ConfigParts, BoundsAssumption DEF Serve, Apis
<1>2. CASE Publish
  BY <1>2, ConfigParts, BoundsAssumption DEF Publish, Started
<1>3. CASE MgmtDisabled
  BY <1>3, ConfigParts, BoundsAssumption DEF MgmtDisabled
<1>4. CASE ServeFails
  BY <1>4, ConfigParts, BoundsAssumption DEF ServeFails, AttemptFails, Started
<1>5. CASE ListenerDies
  BY <1>5, ConfigParts, BoundsAssumption DEF ListenerDies
<1>6. CASE Halted
  BY <1>6, ConfigParts, BoundsAssumption DEF Halted
<1>7. CASE CloseConns
  BY <1>7, ConfigParts, BoundsAssumption DEF CloseConns, InFlight
<1>8. CASE Died
  <2>1. DiskTypes'
    BY <1>8, ConfigParts, BoundsAssumption DEF Died, Drained, InFlight
  <2>2. SuperTypes'
    BY <1>8, ConfigParts, BoundsAssumption DEF Died, Drained, InFlight
  <2>3. HistTypes'
    BY <1>8, ConfigParts, BoundsAssumption DEF Died, Drained, InFlight
  <2>4. ProcTypes' /\ AppTypes' /\ StoreTypes' /\ HandlerTypes' /\ LoopTypes' /\ CliTypes' /\ BoundTypes'
    BY <1>8 DEF Died, Drained, InFlight
  <2> HIDE DEF DiskTypes, ProcTypes, AppTypes, SuperTypes, StoreTypes, HandlerTypes, LoopTypes,
                   CliTypes, BoundTypes, HistTypes
  <2> QED
    BY <2>1, <2>2, <2>3, <2>4
<1>9. CASE Attempt
  BY <1>9, ConfigParts, BoundsAssumption DEF Attempt, MarkStarting
<1>10. CASE Reload
  BY <1>10, ConfigParts, BoundsAssumption DEF Reload
<1>11. CASE ReloadFails
  <2>1. DiskTypes'
    BY <1>11, ConfigParts, BoundsAssumption DEF ReloadFails, AttemptFails
  <2>2. SuperTypes'
    BY <1>11, ConfigParts, BoundsAssumption DEF ReloadFails, AttemptFails
  <2>3. HistTypes'
    BY <1>11, ConfigParts, BoundsAssumption DEF ReloadFails, AttemptFails
  <2>4. ProcTypes' /\ AppTypes' /\ StoreTypes' /\ HandlerTypes' /\ LoopTypes' /\ CliTypes' /\ BoundTypes'
    BY <1>11 DEF ReloadFails, AttemptFails
  <2> HIDE DEF DiskTypes, ProcTypes, AppTypes, SuperTypes, StoreTypes, HandlerTypes, LoopTypes,
                   CliTypes, BoundTypes, HistTypes
  <2> QED
    BY <2>1, <2>2, <2>3, <2>4
<1>12. CASE ApplyEdited
  BY <1>12, ConfigParts, BoundsAssumption DEF ApplyEdited, HandOff
<1>13. CASE EditedApplied
  <2>1. AppTypes'
    BY <1>13, ConfigParts, BoundsAssumption DEF EditedApplied
  <2>2. SuperTypes'
    BY <1>13, ConfigParts, BoundsAssumption DEF EditedApplied
  <2>3. HistTypes'
    BY <1>13, ConfigParts, BoundsAssumption DEF EditedApplied
  <2>4. DiskTypes' /\ ProcTypes' /\ StoreTypes' /\ HandlerTypes' /\ LoopTypes' /\ CliTypes' /\ BoundTypes'
    BY <1>13 DEF EditedApplied
  <2> HIDE DEF DiskTypes, ProcTypes, AppTypes, SuperTypes, StoreTypes, HandlerTypes, LoopTypes,
                   CliTypes, BoundTypes, HistTypes
  <2> QED
    BY <2>1, <2>2, <2>3, <2>4
<1>14. CASE ApplyStopped
  <2>1. DiskTypes'
    BY <1>14 DEF ApplyStopped, AttemptFails
  <2>2. SuperTypes'
    BY <1>14, ConfigParts DEF ApplyStopped, AttemptFails
  <2>3. LoopTypes'
    BY <1>14 DEF ApplyStopped, AttemptFails
  <2>4. ProcTypes' /\ AppTypes' /\ StoreTypes' /\ HandlerTypes' /\ CliTypes' /\ BoundTypes' /\ HistTypes'
    BY <1>14 DEF ApplyStopped, AttemptFails
  <2> QED
    BY <2>1, <2>2, <2>3, <2>4
<1> QED
  BY <1>1, <1>2, <1>3, <1>4, <1>5, <1>6, <1>7, <1>8, <1>9, <1>10, <1>11, <1>12, <1>13, <1>14

\* A handler serves its request.
LEMMA HandlerTypesKept ==
    ASSUME Types, NEW h \in Handlers,
           (\E k \in Kinds : Request(h, k)) \/ Disconnect(h) \/ Lock(h) \/ (\E c \in Configs :
               Persist(h, c)) \/ Refuse(h) \/ Enforce(h) \/ Send(h) \/ Applied(h) \/ Abandon(h)
               \/ Fail(h)
    PROVE  Types'

<1> USE DEF Types, ApiExists, DiskTypes, ProcTypes, AppTypes, SuperTypes, StoreTypes, HandlerTypes, LoopTypes,
                CliTypes, BoundTypes, HistTypes,
            appVars, boundVars, cliVars, diskVars, handlerVars, histVars, loopVars, procVars,
                superVars
<1>1. ASSUME NEW k \in Kinds, Request(h, k) PROVE Types'
  BY <1>1, ConfigParts, BoundsAssumption DEF Request, HasSlot, Kinds
<1>2. CASE Disconnect(h)
  BY <1>2, ConfigParts, BoundsAssumption DEF Disconnect, Apis
<1>3. CASE Lock(h)
  <2>1. StoreTypes'
    BY <1>3, ConfigParts, BoundsAssumption DEF Lock, MutexFree
  <2>2. HandlerTypes'
    BY <1>3, ConfigParts, BoundsAssumption DEF Lock, MutexFree
  <2>3. DiskTypes' /\ ProcTypes' /\ AppTypes' /\ SuperTypes' /\ LoopTypes' /\ CliTypes' /\ BoundTypes' /\ HistTypes'
    BY <1>3 DEF Lock, MutexFree
  <2> HIDE DEF DiskTypes, ProcTypes, AppTypes, SuperTypes, StoreTypes, HandlerTypes, LoopTypes,
                   CliTypes, BoundTypes, HistTypes
  <2> QED
    BY <2>1, <2>2, <2>3
<1>4. ASSUME NEW c \in Configs, Persist(h, c) PROVE Types'
  <2>1. DiskTypes'
    BY <1>4, ConfigParts, BoundsAssumption DEF Persist, Merged
  <2>2. StoreTypes'
    BY <1>4, ConfigParts, BoundsAssumption DEF Persist, Merged
  <2>3. HandlerTypes'
    BY <1>4, ConfigParts, BoundsAssumption DEF Persist, Merged
  <2>4. ProcTypes' /\ AppTypes' /\ SuperTypes' /\ LoopTypes' /\ CliTypes' /\ BoundTypes' /\ HistTypes'
    BY <1>4 DEF Persist, Merged
  <2> HIDE DEF DiskTypes, ProcTypes, AppTypes, SuperTypes, StoreTypes, HandlerTypes, LoopTypes,
                   CliTypes, BoundTypes, HistTypes
  <2> QED
    BY <2>1, <2>2, <2>3, <2>4
<1>5. CASE Refuse(h)
  <2>1. StoreTypes'
    BY <1>5, ConfigParts, BoundsAssumption DEF Refuse, Return
  <2>2. HandlerTypes'
    BY <1>5, ConfigParts, BoundsAssumption DEF Refuse, Return
  <2>3. LoopTypes'
    BY <1>5, ConfigParts, BoundsAssumption DEF Refuse, Return
  <2>4. DiskTypes' /\ ProcTypes' /\ AppTypes' /\ SuperTypes' /\ CliTypes' /\ BoundTypes' /\ HistTypes'
    BY <1>5 DEF Refuse, Return
  <2> HIDE DEF DiskTypes, ProcTypes, AppTypes, SuperTypes, StoreTypes, HandlerTypes, LoopTypes,
                   CliTypes, BoundTypes, HistTypes
  <2> QED
    BY <2>1, <2>2, <2>3, <2>4
<1>6. CASE Enforce(h)
  BY <1>6, ConfigParts, BoundsAssumption DEF Enforce
<1>7. CASE Send(h)
  BY <1>7, ConfigParts, BoundsAssumption DEF Send, HandOff
<1>8. CASE Applied(h)
  <2>1. AppTypes'
    BY <1>8, ConfigParts, BoundsAssumption DEF Applied, Return
  <2>2. StoreTypes'
    BY <1>8, ConfigParts, BoundsAssumption DEF Applied, Return
  <2>3. HandlerTypes'
    BY <1>8, ConfigParts, BoundsAssumption DEF Applied, Return
  <2>4. LoopTypes'
    BY <1>8, ConfigParts, BoundsAssumption DEF Applied, Return
  <2>5. HistTypes'
    BY <1>8, ConfigParts, BoundsAssumption DEF Applied, Return
  <2>6. DiskTypes' /\ ProcTypes' /\ SuperTypes' /\ CliTypes' /\ BoundTypes'
    BY <1>8 DEF Applied, Return
  <2> HIDE DEF DiskTypes, ProcTypes, AppTypes, SuperTypes, StoreTypes, HandlerTypes, LoopTypes,
                   CliTypes, BoundTypes, HistTypes
  <2> QED
    BY <2>1, <2>2, <2>3, <2>4, <2>5, <2>6
<1>9. CASE Abandon(h)
  <2>1. StoreTypes'
    BY <1>9, ConfigParts, BoundsAssumption DEF Abandon, Return
  <2>2. HandlerTypes'
    BY <1>9, ConfigParts, BoundsAssumption DEF Abandon, Return
  <2>3. LoopTypes'
    BY <1>9, ConfigParts, BoundsAssumption DEF Abandon, Return
  <2>4. HistTypes'
    BY <1>9, ConfigParts, BoundsAssumption DEF Abandon, Return
  <2>5. DiskTypes' /\ ProcTypes' /\ AppTypes' /\ SuperTypes' /\ CliTypes' /\ BoundTypes'
    BY <1>9 DEF Abandon, Return
  <2> HIDE DEF DiskTypes, ProcTypes, AppTypes, SuperTypes, StoreTypes, HandlerTypes, LoopTypes,
                   CliTypes, BoundTypes, HistTypes
  <2> QED
    BY <2>1, <2>2, <2>3, <2>4, <2>5
<1>10. CASE Fail(h)
  <2>1. AppTypes'
    BY <1>10, ConfigParts, BoundsAssumption DEF Fail, ReloadStopped, Return
  <2>2. StoreTypes'
    BY <1>10, ConfigParts, BoundsAssumption DEF Fail, ReloadStopped, Return
  <2>3. HandlerTypes'
    BY <1>10, ConfigParts, BoundsAssumption DEF Fail, ReloadStopped, Return
  <2>4. LoopTypes'
    BY <1>10, ConfigParts, BoundsAssumption DEF Fail, ReloadStopped, Return
  <2>5. DiskTypes' /\ ProcTypes' /\ SuperTypes' /\ CliTypes' /\ BoundTypes' /\ HistTypes'
    BY <1>10 DEF Fail, ReloadStopped, Return
  <2> HIDE DEF DiskTypes, ProcTypes, AppTypes, SuperTypes, StoreTypes, HandlerTypes, LoopTypes,
                   CliTypes, BoundTypes, HistTypes
  <2> QED
    BY <2>1, <2>2, <2>3, <2>4, <2>5
<1> QED
  BY <1>1, <1>2, <1>3, <1>4, <1>5, <1>6, <1>7, <1>8, <1>9, <1>10

\* A token command edits the file, or leaves it to the API.
LEMMA CliTypesKept ==
    ASSUME Types, NEW c \in Clis,
           CliLocks(c) \/ CliHeld(c) \/ CliLooks(c) \/ (\E t \in Tokens : CliLoads(c, t)) \/
               CliSaves(c) \/ CliGivesUp(c)
    PROVE  Types'

<1> USE DEF Types, ApiExists, DiskTypes, ProcTypes, AppTypes, SuperTypes, StoreTypes, HandlerTypes, LoopTypes,
                CliTypes, BoundTypes, HistTypes,
            appVars, boundVars, cliVars, diskVars, handlerVars, histVars, loopVars, procVars,
                superVars
<1>1. CASE CliLocks(c)
  BY <1>1, ConfigParts, BoundsAssumption DEF CliLocks, HasSlot, TryAcquire
<1>2. CASE CliHeld(c)
  BY <1>2, ConfigParts, BoundsAssumption DEF CliHeld, HasSlot
<1>3. CASE CliLooks(c)
  BY <1>3, ConfigParts, BoundsAssumption DEF CliLooks
<1>4. ASSUME NEW t \in Tokens, CliLoads(c, t) PROVE Types'
  BY <1>4, ConfigParts, BoundsAssumption DEF CliLoads, Apis
<1>5. CASE CliSaves(c)
  BY <1>5, ConfigParts, BoundsAssumption DEF CliSaves
<1>6. CASE CliGivesUp(c)
  BY <1>6, ConfigParts, BoundsAssumption DEF CliGivesUp
<1> QED
  BY <1>1, <1>2, <1>3, <1>4, <1>5, <1>6

\* The initial state is typed.
LEMMA InitTypes == ASSUME Init PROVE Types
<1>1. 0 \in 0 .. MaxApis /\ 0 \in 0 .. MaxStarts /\ 0 \in 0 .. MaxDisconnects /\ 0 \in 0 .. MaxEdits
  BY BoundsAssumption
<1>2. DiskTypes /\ ProcTypes /\ BoundTypes /\ HistTypes
  BY <1>1 DEF Init, DiskTypes, ProcTypes, BoundTypes, HistTypes
<1>3. AppTypes /\ SuperTypes /\ LoopTypes
  BY <1>1, ConfigParts DEF Init, AppTypes, SuperTypes, LoopTypes, ApiExists
<1>4. StoreTypes /\ HandlerTypes /\ CliTypes
  BY <1>1, ConfigParts DEF Init, StoreTypes, HandlerTypes, CliTypes
<1> QED
  BY <1>2, <1>3, <1>4 DEF Types

\* Every step keeps the types.
LEMMA StepTypes == ASSUME Types, [Next]_vars PROVE Types'
<1>1. CASE UNCHANGED vars
  <2>1. UNCHANGED <<diskVars, procVars, appVars, superVars, stores, mu, handlerVars, loopVars, cliVars,
                    boundVars, histVars>>
    BY <1>1 DEF vars
  <2> USE DEF DiskTypes, ProcTypes, AppTypes, SuperTypes, StoreTypes, HandlerTypes, LoopTypes, CliTypes,
              BoundTypes, HistTypes
  <2>2. DiskTypes' /\ ProcTypes' /\ AppTypes' /\ BoundTypes' /\ HistTypes'
    BY <2>1 DEF Types, diskVars, procVars, appVars, boundVars, histVars
  <2>3. SuperTypes' /\ StoreTypes' /\ HandlerTypes'
    BY <2>1 DEF Types, superVars, handlerVars, ApiExists
  <2>4. LoopTypes' /\ CliTypes'
    BY <2>1 DEF Types, loopVars, cliVars
  <2> QED
    BY <2>2, <2>3, <2>4 DEF Types
<1>2. CASE Next
  BY <1>2, ProcessTypes, LoopTypesKept, SupervisorTypes, HandlerTypesKept, CliTypesKept DEF Next
<1> QED
  BY <1>1, <1>2

\* Every variable of a configuration change keeps its type.
THEOREM TypeCorrect == Spec => []TypeOK
<1>1. Init => Types
  BY InitTypes
<1>2. Types /\ [Next]_vars => Types'
  BY StepTypes
<1>3. Types => TypeOK
  BY DEF Types, TypeOK, DiskTypes, ProcTypes, AppTypes, SuperTypes, StoreTypes, HandlerTypes, LoopTypes,
         CliTypes, BoundTypes, HistTypes
<1> QED
  BY <1>1, <1>2, <1>3, PTL DEF Spec

-----------------------------------------------------------------------------
(* The inductive invariant *)

\* The run lock says what its holder's API does, and nothing survives in a
\* process that is not running.
LockInv ==
    /\ proc # "down" <=> lock.holder = "appliance"
    /\ proc # "run" => api = "off" /\ ~outlived
    /\ proc = "load" => lock.says = "nothing"
    /\ (proc = "run" /\ lock.says = "noApi") => api \in {"off", "down"}

\* A request under way is one of the API in service, and past patchMu it holds it.
ServedInv ==
    ~outlived =>
        \A h \in Handlers :
            /\ hPc[h] # "idle" => ApiExists /\ hInst[h] = inst
            /\ hPc[h] \notin {"idle", "lock"} => mu[inst] = h

\* The file is what the store holds, and what the next one will be seeded with.
SeedInv ==
    (~missed /\ ~outlived) =>
        /\ ApiExists => stores[inst] = file
        /\ api = "serve" => storeCfg = file
        /\ api \in {"apply", "applying"} => fresh = file

\* Who the run loop works for still waits, and who was answered has not left.
ReplyInv ==
    /\ lFrom = "supervisor" <=> api = "applying" /\ ~sReplied
    /\ sReplied => api = "applying"
    /\ \A h \in Handlers : /\ lFrom = h => hPc[h] = "wait" /\ ~replied[h]
                           /\ replied[h] => hPc[h] = "wait"
    /\ lFrom # Nobody => lPc \in {"auth", "devices"}

\* What is to run: what the API in service stores, or the next one is to store.
Target == IF ApiExists THEN stores[inst] ELSE storeCfg

\* The run loop has applied a configuration, or is about to.
Done(cfg)  == lPc = "idle" /\ running = cfg /\ guard = cfg.token
Doing(cfg) == lPc \in {"start", "auth", "devices"} /\ lCfg = cfg /\ (lPc = "devices" => guard = cfg.token)

\* The target is on its way to the run loop, in it, or through it, unless the
\* client of the one who carried it left.
PathInv ==
    (~stopping /\ ~outlived) =>
        /\ \A h \in Handlers :
              /\ hPc[h] \in {"enforce", "send", "wait"} => hCur[h] = stores[inst]
              /\ (hPc[h] = "wait" /\ replied[h]) => Done(stores[inst])
              /\ (hPc[h] = "wait" /\ ~replied[h]) => Doing(stores[inst]) /\ lFrom = h
        /\ api = "applying" => IF sReplied THEN Done(fresh) ELSE Doing(fresh)
        /\ api \notin {"off", "apply", "applying"} =>
              \/ abandoned \/ Done(Target) \/ Doing(Target)
              \/ \E h \in Handlers : hPc[h] \in {"enforce", "send"}

ChangeInv == Types /\ LockInv /\ ServedInv /\ SeedInv /\ ReplyInv /\ PathInv

\* Every step keeps the lock's word.
LEMMA LockKept == ASSUME Types, LockInv, Next PROVE LockInv'
<1> USE DEF Types, DiskTypes, LockInv
<1>1. CASE \/ Stop \/ ApplyToken \/ ApplyDevices \/ LoopExit
           \/ \E h \in Handlers : (\E k \in Kinds : Request(h, k)) \/ Disconnect(h) \/ Lock(h)
                \/ (\E c \in Configs : Persist(h, c)) \/ Refuse(h) \/ Enforce(h) \/ Send(h)
                \/ Applied(h) \/ Abandon(h) \/ Fail(h)
           \/ \E c \in Clis : CliHeld(c) \/ CliLooks(c) \/ (\E t \in Tokens : CliLoads(c, t))
  <2>1. UNCHANGED <<lock, proc, api, outlived>>
    BY <1>1 DEF Stop, ApplyToken, ApplyDevices, LoopExit, Request, Disconnect, Lock, Persist,
           Refuse, Enforce, Send, Applied, Abandon, Fail, CliHeld, CliLooks, CliLoads, diskVars,
           histVars, procVars, superVars
  <2> QED
    BY <2>1
<1>2. CASE Start
  BY <1>2, NamesAssumption DEF Start, TryAcquire, histVars, superVars
<1>3. CASE LoadConfig
  BY <1>3, NamesAssumption DEF LoadConfig, histVars
<1>4. CASE Exit
  BY <1>4, NamesAssumption DEF Exit, Cleared
<1>5. CASE Serve
  BY <1>5, NamesAssumption DEF Serve, diskVars, histVars, procVars
<1>6. CASE Publish
  BY <1>6, NamesAssumption DEF Publish, Started, histVars, procVars
<1>7. CASE MgmtDisabled
  BY <1>7, NamesAssumption DEF MgmtDisabled, histVars, procVars
<1>8. CASE ServeFails
  BY <1>8, NamesAssumption DEF ServeFails, AttemptFails, Started, histVars, procVars
<1>9. CASE ListenerDies
  BY <1>9, NamesAssumption DEF ListenerDies, diskVars, histVars, procVars
<1>10. CASE Halted
  BY <1>10, NamesAssumption DEF Halted, histVars, procVars
<1>11. CASE CloseConns
  BY <1>11, NamesAssumption DEF CloseConns, InFlight, diskVars, histVars, procVars
<1>12. CASE Died
  BY <1>12, NamesAssumption DEF Died, Drained, InFlight, procVars
<1>13. CASE Attempt
  BY <1>13, NamesAssumption DEF Attempt, MarkStarting, histVars, procVars
<1>14. CASE Reload
  BY <1>14, NamesAssumption DEF Reload, diskVars, histVars, procVars
<1>15. CASE ReloadFails
  BY <1>15, NamesAssumption DEF ReloadFails, AttemptFails, procVars
<1>16. CASE ApplyEdited
  BY <1>16, NamesAssumption DEF ApplyEdited, HandOff, diskVars, histVars, procVars
<1>17. CASE EditedApplied
  BY <1>17, NamesAssumption DEF EditedApplied, diskVars, procVars
<1>18. CASE ApplyStopped
  BY <1>18, NamesAssumption DEF ApplyStopped, AttemptFails, histVars, procVars
<1>19. ASSUME NEW c \in Clis, CliLocks(c) PROVE LockInv'
  BY <1>19, NamesAssumption DEF CliLocks, HasSlot, TryAcquire, histVars, procVars, superVars
<1>20. ASSUME NEW c \in Clis, CliSaves(c) PROVE LockInv'
  BY <1>20, NamesAssumption DEF CliSaves, procVars, superVars
<1>21. ASSUME NEW c \in Clis, CliGivesUp(c) PROVE LockInv'
  BY <1>21, NamesAssumption DEF CliGivesUp, histVars, procVars, superVars
<1> HIDE DEF Types, DiskTypes, LockInv
<1> QED
  BY <1>1, <1>2, <1>3, <1>4, <1>5, <1>6, <1>7, <1>8, <1>9, <1>10, <1>11, <1>12, <1>13, <1>14,
     <1>15, <1>16, <1>17, <1>18, <1>19, <1>20, <1>21 DEF Next

\* Every step keeps requests with the API in service, and patchMu with its holder.
LEMMA ServedKept == ASSUME Types, LockInv, ServedInv, Next PROVE ServedInv'
<1> USE DEF Types, StoreTypes, SuperTypes, HandlerTypes, ApiExists, LockInv, ServedInv
<1>1. CASE \/ Start \/ Stop \/ ApplyToken \/ ApplyDevices \/ LoopExit
           \/ \E h \in Handlers : Disconnect(h)
           \/ \E c \in Clis : CliLocks(c) \/ CliHeld(c) \/ CliLooks(c) \/ (\E t \in Tokens : CliLoads(c, t))
                \/ CliSaves(c) \/ CliGivesUp(c)
  <2>1. UNCHANGED <<api, inst, mu, hPc, hInst, outlived>>
    BY <1>1 DEF Start, Stop, ApplyToken, ApplyDevices, LoopExit, Disconnect, CliLocks, CliHeld,
           CliLooks, CliLoads, CliSaves, CliGivesUp, handlerVars, histVars, superVars
  <2> QED
    BY <2>1
<1>2. CASE LoadConfig
  BY <1>2, NamesAssumption DEF LoadConfig, handlerVars, histVars
<1>3. CASE Exit
  BY <1>3, NamesAssumption DEF Exit, Cleared
<1>4. CASE Serve
  BY <1>4, NamesAssumption DEF Serve, handlerVars, histVars
<1>5. CASE Publish
  BY <1>5, NamesAssumption DEF Publish, Started, handlerVars, histVars
<1>6. CASE MgmtDisabled
  BY <1>6, NamesAssumption DEF MgmtDisabled, handlerVars, histVars
<1>7. CASE ServeFails
  BY <1>7, NamesAssumption DEF ServeFails, AttemptFails, Started, handlerVars, histVars
<1>8. CASE ListenerDies
  BY <1>8, NamesAssumption DEF ListenerDies, handlerVars, histVars
<1>9. CASE Halted
  BY <1>9, NamesAssumption DEF Halted, handlerVars, histVars
<1>10. CASE CloseConns
  BY <1>10, NamesAssumption DEF CloseConns, InFlight, histVars
<1>11. CASE Died
  BY <1>11, NamesAssumption DEF Died, Drained, InFlight, handlerVars
<1>12. CASE Attempt
  BY <1>12, NamesAssumption DEF Attempt, MarkStarting, handlerVars, histVars
<1>13. CASE Reload
  BY <1>13, NamesAssumption DEF Reload, handlerVars, histVars
<1>14. CASE ReloadFails
  BY <1>14, NamesAssumption DEF ReloadFails, AttemptFails, handlerVars
<1>15. CASE ApplyEdited
  BY <1>15, NamesAssumption DEF ApplyEdited, HandOff, handlerVars, histVars
<1>16. CASE EditedApplied
  BY <1>16, NamesAssumption DEF EditedApplied, handlerVars
<1>17. CASE ApplyStopped
  BY <1>17, NamesAssumption DEF ApplyStopped, AttemptFails, handlerVars, histVars
<1>18. ASSUME NEW h \in Handlers, NEW k \in Kinds, Request(h, k) PROVE ServedInv'
  BY <1>18, NamesAssumption DEF Request, HasSlot, histVars, superVars
<1>19. ASSUME NEW h \in Handlers, Lock(h) PROVE ServedInv'
  BY <1>19, NamesAssumption DEF Lock, MutexFree, histVars, superVars
<1>20. ASSUME NEW h \in Handlers, NEW c \in Configs, Persist(h, c) PROVE ServedInv'
  BY <1>20, NamesAssumption DEF Persist, Merged, histVars, superVars
<1>21. ASSUME NEW h \in Handlers, Refuse(h) PROVE ServedInv'
  BY <1>21, NamesAssumption DEF Refuse, Return, histVars, superVars
<1>22. ASSUME NEW h \in Handlers, Enforce(h) PROVE ServedInv'
  BY <1>22, NamesAssumption DEF Enforce, histVars, superVars
<1>23. ASSUME NEW h \in Handlers, Send(h) PROVE ServedInv'
  BY <1>23, NamesAssumption DEF Send, HandOff, histVars, superVars
<1>24. ASSUME NEW h \in Handlers, Applied(h) PROVE ServedInv'
  BY <1>24, NamesAssumption DEF Applied, Return, superVars
<1>25. ASSUME NEW h \in Handlers, Abandon(h) PROVE ServedInv'
  BY <1>25, NamesAssumption DEF Abandon, Return, superVars
<1>26. ASSUME NEW h \in Handlers, Fail(h) PROVE ServedInv'
  BY <1>26, NamesAssumption DEF Fail, ReloadStopped, Return, histVars, superVars
<1> HIDE DEF Types, StoreTypes, SuperTypes, HandlerTypes, ApiExists, LockInv, ServedInv
<1> QED
  BY <1>1, <1>2, <1>3, <1>4, <1>5, <1>6, <1>7, <1>8, <1>9, <1>10, <1>11, <1>12, <1>13, <1>14,
     <1>15, <1>16, <1>17, <1>18, <1>19, <1>20, <1>21, <1>22, <1>23, <1>24, <1>25, <1>26 DEF Next

\* Every step keeps the file in the store, or says that it missed an edit.
LEMMA SeedKept == ASSUME Types, LockInv, ServedInv, SeedInv, Next PROVE SeedInv'
<1> USE DEF Types, StoreTypes, SuperTypes, HandlerTypes, ApiExists, LockInv, ServedInv, SeedInv
<1>1. CASE \/ Start \/ Stop \/ ApplyToken \/ ApplyDevices \/ LoopExit
           \/ \E h \in Handlers : (\E k \in Kinds : Request(h, k)) \/ Disconnect(h) \/ Lock(h) \/ Refuse(h)
                \/ Enforce(h) \/ Send(h) \/ Applied(h) \/ Abandon(h) \/ Fail(h)
           \/ \E c \in Clis : CliLocks(c) \/ CliHeld(c) \/ CliLooks(c) \/ (\E t \in Tokens : CliLoads(c, t))
                \/ CliGivesUp(c)
  <2>1. UNCHANGED <<file, storeCfg, api, fresh, inst, stores, missed, outlived>>
    BY <1>1 DEF Start, Stop, ApplyToken, ApplyDevices, LoopExit, Request, Disconnect, Lock,
           Refuse, Enforce, Send, Applied, Abandon, Fail, CliLocks, CliHeld, CliLooks, CliLoads,
           CliGivesUp, diskVars, histVars, superVars
  <2> QED
    BY <2>1
<1>2. CASE LoadConfig
  BY <1>2, NamesAssumption DEF LoadConfig, histVars
<1>3. CASE Exit
  BY <1>3, NamesAssumption DEF Exit, Cleared
<1>4. CASE Serve
  <2>1. /\ api = "serve" /\ api' = "publish" /\ inst < MaxApis /\ inst' = inst + 1
        /\ stores' = [stores EXCEPT ![inst + 1] = storeCfg]
    BY <1>4 DEF Serve
  <2>2. UNCHANGED <<file, storeCfg, fresh, missed, outlived>>
    BY <1>4 DEF Serve, diskVars, histVars, superVars
  <2>3. inst' \in Apis
    BY <2>1, BoundsAssumption DEF Apis
  <2>4. stores'[inst'] = storeCfg
    BY <2>1, <2>3
  <2> QED
    BY <2>1, <2>2, <2>4
<1>5. CASE Publish
  BY <1>5, NamesAssumption DEF Publish, Started, histVars
<1>6. CASE MgmtDisabled
  BY <1>6, NamesAssumption DEF MgmtDisabled, histVars
<1>7. CASE ServeFails
  BY <1>7, NamesAssumption DEF ServeFails, AttemptFails, Started, histVars
<1>8. CASE ListenerDies
  BY <1>8, NamesAssumption DEF ListenerDies, diskVars, histVars
<1>9. CASE Halted
  BY <1>9, NamesAssumption DEF Halted, histVars
<1>10. CASE CloseConns
  BY <1>10, NamesAssumption DEF CloseConns, InFlight, diskVars, histVars
<1>11. CASE Died
  BY <1>11, NamesAssumption DEF Died, Drained, InFlight
<1>12. CASE Attempt
  BY <1>12, NamesAssumption DEF Attempt, MarkStarting, histVars
<1>13. CASE Reload
  BY <1>13, NamesAssumption DEF Reload, diskVars, histVars
<1>14. CASE ReloadFails
  BY <1>14, NamesAssumption DEF ReloadFails, AttemptFails
<1>15. CASE ApplyEdited
  BY <1>15, NamesAssumption DEF ApplyEdited, HandOff, diskVars, histVars
<1>16. CASE EditedApplied
  BY <1>16, NamesAssumption DEF EditedApplied, diskVars
<1>17. CASE ApplyStopped
  BY <1>17, NamesAssumption DEF ApplyStopped, AttemptFails, histVars
<1>18. ASSUME NEW h \in Handlers, NEW c \in Configs, Persist(h, c) PROVE SeedInv'
  BY <1>18, NamesAssumption DEF Persist, Merged, histVars, superVars
<1>19. ASSUME NEW c \in Clis, CliSaves(c) PROVE SeedInv'
  BY ZenonT(60), <1>19, NamesAssumption DEF CliSaves, superVars
<1> HIDE DEF Types, StoreTypes, SuperTypes, HandlerTypes, ApiExists, LockInv, ServedInv, SeedInv
<1> QED
  BY <1>1, <1>2, <1>3, <1>4, <1>5, <1>6, <1>7, <1>8, <1>9, <1>10, <1>11, <1>12, <1>13, <1>14,
     <1>15, <1>16, <1>17, <1>18, <1>19 DEF Next

\* Every step keeps track of who waits for the run loop.
LEMMA ReplyKept == ASSUME Types, LockInv, ServedInv, ReplyInv, Next PROVE ReplyInv'
<1> USE DEF Types, SuperTypes, HandlerTypes, LoopTypes, ApiExists, LockInv, ServedInv, ReplyInv
<1>1. CASE \/ Start \/ Stop
           \/ \E h \in Handlers : Disconnect(h)
           \/ \E c \in Clis : CliLocks(c) \/ CliHeld(c) \/ CliLooks(c) \/ (\E t \in Tokens : CliLoads(c, t))
                \/ CliSaves(c) \/ CliGivesUp(c)
  <2>1. UNCHANGED <<api, sReplied, hPc, replied, lPc, lFrom>>
    BY <1>1 DEF Start, Stop, Disconnect, CliLocks, CliHeld, CliLooks, CliLoads, CliSaves,
           CliGivesUp, handlerVars, loopVars, superVars
  <2> QED
    BY <2>1
<1>2. CASE LoadConfig
  BY <1>2, NamesAssumption DEF LoadConfig, handlerVars
<1>3. CASE Exit
  BY <1>3, NamesAssumption DEF Exit, Cleared
<1>4. CASE ApplyToken
  BY <1>4, NamesAssumption DEF ApplyToken, handlerVars, superVars
<1>5. CASE ApplyDevices
  BY <1>5, NamesAssumption DEF ApplyDevices
<1>6. CASE LoopExit
  BY <1>6, NamesAssumption DEF LoopExit, handlerVars, superVars
<1>7. CASE Serve
  BY <1>7, NamesAssumption DEF Serve, handlerVars, loopVars
<1>8. CASE Publish
  BY <1>8, NamesAssumption DEF Publish, Started, handlerVars
<1>9. CASE MgmtDisabled
  BY <1>9, NamesAssumption DEF MgmtDisabled, handlerVars, loopVars
<1>10. CASE ServeFails
  BY <1>10, NamesAssumption DEF ServeFails, AttemptFails, Started, handlerVars
<1>11. CASE ListenerDies
  BY <1>11, NamesAssumption DEF ListenerDies, handlerVars, loopVars
<1>12. CASE Halted
  BY <1>12, NamesAssumption DEF Halted, handlerVars, loopVars
<1>13. CASE CloseConns
  BY <1>13, NamesAssumption DEF CloseConns, InFlight, loopVars
<1>14. CASE Died
  BY <1>14, NamesAssumption DEF Died, Drained, InFlight, handlerVars, loopVars
<1>15. CASE Attempt
  BY <1>15, NamesAssumption DEF Attempt, MarkStarting, handlerVars, loopVars
<1>16. CASE Reload
  BY <1>16, NamesAssumption DEF Reload, handlerVars, loopVars
<1>17. CASE ReloadFails
  BY <1>17, NamesAssumption DEF ReloadFails, AttemptFails, handlerVars, loopVars
<1>18. CASE ApplyEdited
  BY <1>18, NamesAssumption DEF ApplyEdited, HandOff, handlerVars
<1>19. CASE EditedApplied
  BY <1>19, NamesAssumption DEF EditedApplied, handlerVars, loopVars
<1>20. CASE ApplyStopped
  BY <1>20, NamesAssumption DEF ApplyStopped, AttemptFails, handlerVars
<1>21. ASSUME NEW h \in Handlers, NEW k \in Kinds, Request(h, k) PROVE ReplyInv'
  BY <1>21, NamesAssumption DEF Request, HasSlot, loopVars, superVars
<1>22. ASSUME NEW h \in Handlers, Lock(h) PROVE ReplyInv'
  BY <1>22, NamesAssumption DEF Lock, MutexFree, loopVars, superVars
<1>23. ASSUME NEW h \in Handlers, NEW c \in Configs, Persist(h, c) PROVE ReplyInv'
  BY <1>23, NamesAssumption DEF Persist, Merged, loopVars, superVars
<1>24. ASSUME NEW h \in Handlers, Refuse(h) PROVE ReplyInv'
  BY <1>24, NamesAssumption DEF Refuse, Return, superVars
<1>25. ASSUME NEW h \in Handlers, Enforce(h) PROVE ReplyInv'
  BY <1>25, NamesAssumption DEF Enforce, loopVars, superVars
<1>26. ASSUME NEW h \in Handlers, Send(h) PROVE ReplyInv'
  BY <1>26, NamesAssumption DEF Send, HandOff, superVars
<1>27. ASSUME NEW h \in Handlers, Applied(h) PROVE ReplyInv'
  BY <1>27, NamesAssumption DEF Applied, Return, superVars
<1>28. ASSUME NEW h \in Handlers, Abandon(h) PROVE ReplyInv'
  BY <1>28, NamesAssumption DEF Abandon, Return, superVars
<1>29. ASSUME NEW h \in Handlers, Fail(h) PROVE ReplyInv'
  BY <1>29, NamesAssumption DEF Fail, ReloadStopped, Return, superVars
<1> HIDE DEF Types, SuperTypes, HandlerTypes, LoopTypes, ApiExists, LockInv, ServedInv, ReplyInv
<1> QED
  BY <1>1, <1>2, <1>3, <1>4, <1>5, <1>6, <1>7, <1>8, <1>9, <1>10, <1>11, <1>12, <1>13, <1>14,
     <1>15, <1>16, <1>17, <1>18, <1>19, <1>20, <1>21, <1>22, <1>23, <1>24, <1>25, <1>26, <1>27,
     <1>28, <1>29 DEF Next

\* Every step keeps the target on its path through the run loop.
LEMMA PathKept == ASSUME Types, LockInv, ServedInv, ReplyInv, PathInv, Next PROVE PathInv'
<1> USE DEF Types, SuperTypes, StoreTypes, HandlerTypes, LoopTypes, ApiExists, LockInv,
            ServedInv, ReplyInv, PathInv, Target, Done, Doing
<1>1. CASE \/ Start
           \/ \E h \in Handlers : Disconnect(h)
           \/ \E c \in Clis : CliLocks(c) \/ CliHeld(c) \/ CliLooks(c) \/ (\E t \in Tokens : CliLoads(c, t))
                \/ CliSaves(c) \/ CliGivesUp(c)
  <2>1. UNCHANGED <<stopping, guard, running, storeCfg, api, fresh, sReplied, inst, stores, hPc, hCur, replied, lPc, lCfg, lFrom, outlived, abandoned>>
    BY <1>1 DEF Start, Disconnect, CliLocks, CliHeld, CliLooks, CliLoads, CliSaves, CliGivesUp,
           appVars, handlerVars, histVars, loopVars, procVars, superVars
  <2> QED
    BY <2>1
<1>2. CASE LoadConfig
  BY <1>2, NamesAssumption DEF LoadConfig, handlerVars, histVars
<1>3. CASE Stop
  BY <1>3, NamesAssumption DEF Stop, appVars, handlerVars, histVars, loopVars, superVars
<1>4. CASE Exit
  BY <1>4, NamesAssumption DEF Exit, Cleared
<1>5. CASE ApplyToken
  BY <1>5, NamesAssumption DEF ApplyToken, handlerVars, histVars, procVars, superVars
<1>6. CASE ApplyDevices
  BY <1>6, NamesAssumption DEF ApplyDevices, histVars, procVars
<1>7. CASE LoopExit
  BY <1>7, NamesAssumption DEF LoopExit, appVars, handlerVars, histVars, procVars, superVars
<1>8. CASE Serve
  <2>1. /\ api = "serve" /\ api' = "publish" /\ inst < MaxApis /\ inst' = inst + 1
        /\ stores' = [stores EXCEPT ![inst + 1] = storeCfg]
    BY <1>8 DEF Serve
  <2>2. UNCHANGED <<stopping, guard, running, storeCfg, fresh, sReplied, hPc, hCur, replied,
                      lPc, lCfg, lFrom, outlived, abandoned>>
    BY <1>8 DEF Serve, appVars, handlerVars, histVars, loopVars, procVars, superVars
  <2>3. inst' \in Apis
    BY <2>1, BoundsAssumption DEF Apis
  <2>4. stores'[inst'] = storeCfg
    BY <2>1, <2>3
  <2> QED
    BY <2>1, <2>2, <2>4
<1>9. CASE Publish
  BY <1>9, NamesAssumption DEF Publish, Started, appVars, handlerVars, histVars, procVars
<1>10. CASE MgmtDisabled
  BY <1>10, NamesAssumption DEF MgmtDisabled, appVars, handlerVars, histVars, loopVars, procVars
<1>11. CASE ServeFails
  BY <1>11, NamesAssumption DEF ServeFails, AttemptFails, Started, appVars, handlerVars,
       histVars, procVars
<1>12. CASE ListenerDies
  BY <1>12, NamesAssumption DEF ListenerDies, appVars, handlerVars, histVars, loopVars, procVars
<1>13. CASE Halted
  BY <1>13, NamesAssumption DEF Halted, appVars, handlerVars, histVars, loopVars, procVars
<1>14. CASE CloseConns
  BY <1>14, NamesAssumption DEF CloseConns, InFlight, appVars, histVars, loopVars, procVars
<1>15. CASE Died
  BY <1>15, NamesAssumption DEF Died, Drained, InFlight, appVars, handlerVars, loopVars, procVars
<1>16. CASE Attempt
  BY <1>16, NamesAssumption DEF Attempt, MarkStarting, appVars, handlerVars, histVars, loopVars,
       procVars
<1>17. CASE Reload
  BY <1>17, NamesAssumption DEF Reload, appVars, handlerVars, histVars, loopVars, procVars
<1>18. CASE ReloadFails
  BY <1>18, NamesAssumption DEF ReloadFails, AttemptFails, appVars, handlerVars, loopVars,
       procVars
<1>19. CASE ApplyEdited
  BY <1>19, NamesAssumption DEF ApplyEdited, HandOff, appVars, handlerVars, histVars, procVars
<1>20. CASE EditedApplied
  BY <1>20, NamesAssumption DEF EditedApplied, handlerVars, loopVars, procVars
<1>21. CASE ApplyStopped
  BY <1>21, NamesAssumption DEF ApplyStopped, AttemptFails, appVars, handlerVars, histVars,
       procVars
<1>22. ASSUME NEW h \in Handlers, NEW k \in Kinds, Request(h, k) PROVE PathInv'
  BY <1>22, NamesAssumption DEF Request, HasSlot, appVars, histVars, loopVars, procVars,
       superVars
<1>23. ASSUME NEW h \in Handlers, Lock(h) PROVE PathInv'
  BY <1>23, NamesAssumption DEF Lock, MutexFree, appVars, histVars, loopVars, procVars, superVars
<1>24. ASSUME NEW h \in Handlers, NEW c \in Configs, Persist(h, c) PROVE PathInv'
  BY <1>24, NamesAssumption DEF Persist, Merged, appVars, histVars, loopVars, procVars, superVars
<1>25. ASSUME NEW h \in Handlers, Refuse(h) PROVE PathInv'
  BY <1>25, NamesAssumption DEF Refuse, Return, appVars, histVars, procVars, superVars
<1>26. ASSUME NEW h \in Handlers, Enforce(h) PROVE PathInv'
  BY <1>26, NamesAssumption DEF Enforce, histVars, loopVars, procVars, superVars
<1>27. ASSUME NEW h \in Handlers, Send(h) PROVE PathInv'
  BY <1>27, NamesAssumption DEF Send, HandOff, appVars, histVars, procVars, superVars
<1>28. ASSUME NEW h \in Handlers, Applied(h) PROVE PathInv'
  BY <1>28, NamesAssumption DEF Applied, Return, procVars, superVars
<1>29. ASSUME NEW h \in Handlers, Abandon(h) PROVE PathInv'
  BY <1>29, NamesAssumption DEF Abandon, Return, appVars, procVars, superVars
<1>30. ASSUME NEW h \in Handlers, Fail(h) PROVE PathInv'
  BY <1>30, NamesAssumption DEF Fail, ReloadStopped, Return, histVars, procVars, superVars
<1> HIDE DEF Types, SuperTypes, StoreTypes, HandlerTypes, LoopTypes, ApiExists, LockInv,
             ServedInv, ReplyInv, PathInv, Target, Done, Doing
<1> QED
  BY <1>1, <1>2, <1>3, <1>4, <1>5, <1>6, <1>7, <1>8, <1>9, <1>10, <1>11, <1>12, <1>13, <1>14,
     <1>15, <1>16, <1>17, <1>18, <1>19, <1>20, <1>21, <1>22, <1>23, <1>24, <1>25, <1>26, <1>27,
     <1>28, <1>29, <1>30 DEF Next

\* The inductive invariant of a change's way from the request to the run loop.
THEOREM ChangeInvariant == Spec => []ChangeInv
<1>1. Init => ChangeInv
  <2> SUFFICES ASSUME Init PROVE ChangeInv
    OBVIOUS
  <2>1. Types
    BY InitTypes
  <2>2. LockInv /\ ServedInv /\ SeedInv
    BY NamesAssumption DEF Init, LockInv, ServedInv, SeedInv, ApiExists
  <2>3. ReplyInv /\ PathInv
    BY NamesAssumption DEF Init, ReplyInv, PathInv, ApiExists
  <2> QED
    BY <2>1, <2>2, <2>3 DEF ChangeInv
<1>2. ChangeInv /\ [Next]_vars => ChangeInv'
  <2> SUFFICES ASSUME ChangeInv, [Next]_vars PROVE ChangeInv'
    OBVIOUS
  <2>1. Types'
    BY StepTypes DEF ChangeInv
  <2>2. CASE UNCHANGED vars
    <3>1. UNCHANGED <<diskVars, procVars, appVars, superVars, stores, mu, handlerVars, loopVars, histVars>>
      BY <2>2 DEF vars
    <3>2. LockInv' /\ ServedInv' /\ SeedInv'
      BY <3>1 DEF ChangeInv, LockInv, ServedInv, SeedInv, ApiExists, diskVars, procVars, superVars,
             handlerVars, histVars
    <3>3. ReplyInv' /\ PathInv'
      BY <3>1 DEF ChangeInv, ReplyInv, PathInv, Target, Done, Doing, ApiExists, procVars, appVars, superVars,
             handlerVars, loopVars, histVars
    <3> QED
      BY <2>1, <3>2, <3>3 DEF ChangeInv
  <2>3. CASE Next
    BY <2>1, <2>3, LockKept, ServedKept, SeedKept, ReplyKept, PathKept DEF ChangeInv
  <2> QED
    BY <2>2, <2>3
<1> QED
  BY <1>1, <1>2, PTL DEF Spec

-----------------------------------------------------------------------------
(* What it gives *)

\* The store an API answers from and saves over is the file: whatever token
\* commands, dying APIs and restarts come in between, no later save reverts an
\* edit, but in the window recoverManagement's comment admits and after a drain
\* that timed out (FileConfigStore.Update, saveToken, reloadAndServe).
THEOREM StoreMatchesFile == Spec => []StoreIsFile
<1>1. ChangeInv => StoreIsFile
  BY DEF ChangeInv, SeedInv, StoreIsFile
<1> QED
  BY <1>1, ChangeInvariant, PTL

\* Once nothing is under way, what runs and what is enforced is what was saved
\* last, unless its client left and nothing has succeeded since, or a handler
\* outlived its API's drain (reloader, PatchConfig, reconcile).
THEOREM WhatIsSavedRuns == Spec => []SettledIsApplied
<1>1. ChangeInv => SettledIsApplied
  <2> SUFFICES ASSUME ChangeInv, Settled, ~abandoned, ~outlived
               PROVE  running = stores[inst] /\ guard = stores[inst].token
    BY DEF SettledIsApplied
  <2>1. Target = stores[inst]
    BY DEF Settled, ApiExists, Target
  <2>2. Done(Target)
    BY DEF ChangeInv, PathInv, Settled, Doing
  <2> QED
    BY <2>1, <2>2 DEF Done
<1> QED
  BY <1>1, ChangeInvariant, PTL

=============================================================================
