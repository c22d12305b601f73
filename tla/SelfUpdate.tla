----------------------------- MODULE SelfUpdate -----------------------------
(***************************************************************************)
(* The one-button update and what it shares a disk with: the appliance     *)
(* that stages a release and asks for it (internal/update/manager.go,      *)
(* stage.go) and reports how it went (boot.go), the root updater that      *)
(* swaps the binary, watches the new version come up and rolls it back     *)
(* (apply.go), and `service install`, which replaces the same binary       *)
(* (internal/service/install.go).  Any of them may be killed, and the      *)
(* power cut, between any two steps; files survive, in the order they      *)
(* were written.                                                           *)
(*                                                                         *)
(* A binary is its version: equal versions have equal hashes, and what is  *)
(* staged passes the signature and hash checks or is as good as missing.   *)
(* A request is that it exists.  The fields of a result that only its      *)
(* message uses are left out, and with them the version a failure names.   *)
(* The state directory can be opened.  --allow-downgrade is not used.      *)
(***************************************************************************)
EXTENDS Naturals

CONSTANTS
    MaxVersion,    \* versions are 1 .. MaxVersion, 0 is a file that is not there
    Pids,          \* process IDs
    NoPid,
    ClockSteps,    \* the clock may step, so that a claim looks older than it is
    MaxCuts,       \* bound: power cuts, kills of the updater or an install, and runs
                   \* refused for the directory's permissions (the unit's start
                   \* limit ends those)
    MaxInstalls    \* bound: runs of service install

ASSUME ConstantsAssumption ==
    /\ MaxVersion \in Nat \ {0} /\ MaxCuts \in Nat /\ MaxInstalls \in Nat
    /\ NoPid \notin Pids /\ ClockSteps \in BOOLEAN
    /\ \A p, q \in Pids \cup {NoPid} : Pids \ {p, q} # {}

VARIABLES
    \* beside the binary, root's
    bin, prev, new, journal, binLock,
    \* the staging directory, the service user's
    request, taken, staged, status, health,
    \* the updater: place, own version, version it installs, process it watches,
    \* result, and whether it removes the request on its way out
    uPc, uVer, uTo, uCand, uRes, uDrop,
    \* the appliance: place in its start, version, main process; manager's phase
    aPc, aVer, pid, phase, target,
    \* service install: place, own version, whether it found a journal
    iPc, iVer, interrupted,
    cuts, installs,
    \* history, never read by a guard
    unproven,    \* bin was swapped in and never seen healthy
    gaveUp,      \* its rollback failed, or an install took the kept copy away
    mine         \* the updater's claim is on the request of this attempt

binVars     == <<bin, prev, new, journal>>
stagingVars == <<request, taken, staged, status, health>>
updVars     == <<uPc, uVer, uTo, uCand, uRes, uDrop>>
procVars    == <<aPc, aVer, pid>>
mgrVars     == <<phase, target>>
appVars     == <<procVars, mgrVars>>
instVars    == <<iPc, iVer, interrupted, installs>>
proofVars   == <<unproven, gaveUp>>

vars == <<binVars, binLock, stagingVars, updVars, appVars, instVars, cuts,
          proofVars, mine>>

Versions  == 1 .. MaxVersion
NoJournal == [from |-> 0, to |-> 0]
NoHealth  == [version |-> 0, pid |-> NoPid]
Outcomes  == {"updated", "rolled_back", "failed"}

\* Installed addresses a result: the process running that version reports it.
Result(o, to, installed) == [outcome |-> o, to |-> to, installed |-> installed]
NoResult == Result("none", 0, 0)

UpdaterPcs ==
    {"off", "check", "lock", "look", "revalidate", "claim", "verify", "new", "probe",
     "keep", "journal", "swap", "restart", "await", "commit", "rollback",
     "clear", "report", "rerun", "finish", "exit"}
\* Between WithdrawOrphanedRequest and Boot the appliance is not yet serving.
AppliancePcs == {"down", "start", "boot", "look", "clean", "watch", "up"}
\* "idle" is also the phase after a failure, "withdrawn" after one kind of it.
Phases == {"idle", "cleaning", "staging", "requesting", "waiting", "tried", "withdrawn"}
InstallPcs == {"off", "lock", "check", "drop", "copy", "journal", "withdraw"}

Init ==
    /\ bin = 1 /\ prev = 0 /\ new = 0 /\ journal = NoJournal /\ binLock = "free"
    /\ request = FALSE /\ taken = FALSE /\ staged = 0
    /\ status = NoResult /\ health = NoHealth
    /\ uPc = "off" /\ uVer = 0 /\ uTo = 0 /\ uCand = NoPid /\ uRes = NoResult
    /\ uDrop = FALSE
    /\ aPc = "down" /\ aVer = 0 /\ pid = NoPid /\ phase = "idle" /\ target = 0
    /\ iPc = "off" /\ iVer = 0 /\ interrupted = FALSE /\ installs = 0 /\ cuts = 0
    /\ unproven = FALSE /\ gaveUp = FALSE /\ mine = FALSE

-----------------------------------------------------------------------------
(* The appliance's process *)

\* A process ID that neither the health file nor the updater remembers.
FreshPid == CHOOSE p \in Pids : p \notin {health.pid, uCand}

\* systemd starts what is at the path, with an empty memory.
Started ==
    /\ aPc' = "start" /\ aVer' = bin /\ pid' = FreshPid
    /\ phase' = "idle" /\ target' = 0

Stopped ==
    /\ aPc' = "down" /\ aVer' = 0 /\ pid' = NoPid
    /\ phase' = "idle" /\ target' = 0

Start ==
    /\ aPc = "down"
    /\ Started
    /\ UNCHANGED <<binVars, binLock, stagingVars, updVars, instVars, cuts, proofVars, mine>>

\* It crashes or exits; Restart=always brings it back.
Die ==
    /\ aPc # "down"
    /\ Stopped
    /\ mine' = FALSE
    /\ UNCHANGED <<binVars, binLock, stagingVars, updVars, instVars, cuts, proofVars>>

\* prepareUpdates: before this process can have written one of its own.
WithdrawOrphanedRequest ==
    /\ aPc = "start"
    /\ aPc' = "boot"
    /\ request' = FALSE
    /\ UNCHANGED <<binVars, binLock, taken, staged, status, health, updVars, aVer, pid,
                   mgrVars, instVars, cuts, proofVars, mine>>

\* Boot, once the appliance serves: the health file first, if it can be written.
BootHealth ==
    /\ aPc = "boot"
    /\ aPc' = "look"
    /\ health' \in {[version |-> aVer, pid |-> pid], health}
    /\ UNCHANGED <<binVars, binLock, request, taken, staged, status, updVars, aVer, pid,
                   mgrVars, instVars, cuts, proofVars, mine>>

\* attempts: a request or claim on disk counts as live until it is too old, which
\* it can be when no updater runs, or the clock has stepped.
OnDisk == request \/ taken

MayBeAbandoned == OnDisk => ClockSteps \/ uPc = "off"

BootLive ==
    /\ aPc = "look"
    /\ OnDisk
    /\ aPc' = "watch"
    /\ UNCHANGED <<binVars, binLock, stagingVars, updVars, aVer, pid, mgrVars, instVars,
                   cuts, proofVars, mine>>

RestoredFrom(res, v) ==
    /\ res.outcome = "rolled_back"
    /\ res.to = v
    /\ res.installed # v

\* Nothing in flight: report a result of this version, drop another's unless the
\* updater is about to restart the appliance onto the version it is for.
BootReport ==
    /\ aPc = "look"
    /\ MayBeAbandoned
    /\ aPc' = "clean"
    /\ status' = IF RestoredFrom(status, aVer) THEN status ELSE NoResult
    /\ UNCHANGED <<binVars, binLock, request, taken, staged, health, updVars, aVer, pid,
                   mgrVars, instVars, cuts, proofVars, mine>>

\* Stager.clean
Cleaned == request' = FALSE /\ taken' = FALSE /\ staged' = 0

BootClean ==
    /\ aPc = "clean"
    /\ aPc' = "up"
    /\ Cleaned
    /\ UNCHANGED <<binVars, binLock, status, health, updVars, aVer, pid, mgrVars,
                   instVars, cuts, proofVars, mine>>

\* watchResult reports a result of this version, or its time is up.
WatchReports ==
    /\ aPc = "watch"
    /\ status.installed = aVer
    /\ aPc' = "up"
    /\ status' = NoResult
    /\ UNCHANGED <<binVars, binLock, request, taken, staged, health, updVars, aVer, pid,
                   mgrVars, instVars, cuts, proofVars, mine>>

WatchEnds ==
    /\ aPc = "watch"
    /\ aPc' = "up"
    /\ UNCHANGED <<binVars, binLock, stagingVars, updVars, aVer, pid, mgrVars, instVars,
                   cuts, proofVars, mine>>

-----------------------------------------------------------------------------
(* The manager, in a process whose API serves *)

Serving == aPc \notin {"down", "start"}
Busy == phase \notin {"idle", "withdrawn"}

\* The conditions of StartApply that concern what else is going on.
MayApply == ~Busy /\ MayBeAbandoned /\ journal = NoJournal

StartApply(v) ==
    /\ Serving
    /\ MayApply
    /\ v > aVer
    /\ phase' = "cleaning" /\ target' = v
    /\ mine' = FALSE
    /\ UNCHANGED <<binVars, binLock, stagingVars, updVars, procVars, instVars, cuts,
                   proofVars>>

\* Stage: leftovers go first, an earlier result with them.
StageClean ==
    /\ phase = "cleaning"
    /\ phase' = "staging"
    /\ Cleaned
    /\ status' = NoResult
    /\ UNCHANGED <<binVars, binLock, health, updVars, procVars, target, instVars, cuts,
                   proofVars, mine>>

\* The binary and the manifest pair are downloaded and checked.
StageRelease ==
    /\ phase = "staging"
    /\ phase' = "requesting"
    /\ staged' = target /\ target' = 0
    /\ UNCHANGED <<binVars, binLock, request, taken, status, health, updVars, procVars,
                   instVars, cuts, proofVars, mine>>

\* Staging fails, or checks are turned off, which is not a failure; what there was
\* to clean is cleaned, unless there was no build to stage.
StageFails ==
    /\ phase \in {"cleaning", "staging", "requesting"}
    /\ phase' = "idle"
    /\ target' = 0
    /\ IF phase = "cleaning" THEN UNCHANGED <<request, taken, staged>> ELSE Cleaned
    /\ UNCHANGED <<binVars, binLock, status, health, updVars, procVars, instVars, cuts,
                   proofVars, mine>>

StageRequest ==
    /\ phase = "requesting"
    /\ phase' = "waiting"
    /\ request' = TRUE
    /\ UNCHANGED <<binVars, binLock, taken, staged, status, health, updVars, procVars,
                   target, instVars, cuts, proofVars, mine>>

Waiting == phase \in {"waiting", "tried"}

\* awaitUpdater takes a result of this version; a failed one may have left the
\* request unclaimed.
AwaitTakes ==
    /\ Waiting
    /\ status.installed = aVer
    /\ status' = NoResult
    /\ request' = (request /\ status.outcome # "failed")
    /\ phase' = "idle"
    /\ UNCHANGED <<binVars, binLock, taken, staged, health, updVars, procVars, target,
                   instVars, cuts, proofVars, mine>>

\* After updaterStartTimeout it removes the request: if it is still there, the
\* attempt is over; if not, the updater has it.
AwaitWithdraws ==
    /\ phase = "waiting"
    /\ request' = FALSE
    /\ phase' = IF request THEN "withdrawn" ELSE "tried"
    /\ UNCHANGED <<binVars, binLock, taken, staged, status, health, updVars, procVars,
                   target, instVars, cuts, proofVars, mine>>

AwaitGivesUp ==
    /\ phase = "tried"
    /\ phase' = "idle"
    /\ UNCHANGED <<binVars, binLock, stagingVars, updVars, procVars, target, instVars,
                   cuts, proofVars, mine>>

-----------------------------------------------------------------------------
(* The root updater: Applier.Apply *)

Goto(pc) == uPc' = pc /\ UNCHANGED <<uVer, uTo, uCand, uRes, uDrop>>

\* The result, and the step that follows it.
Ends(res, pc) == uRes' = res /\ uPc' = pc /\ UNCHANGED <<uVer, uTo, uCand, uDrop>>

Refusal == Result("failed", 0, uVer)

\* A step cannot be done, and nothing has been swapped: the update fails.
Refused(drop) ==
    /\ uRes' = Refusal /\ uPc' = "finish" /\ uDrop' = drop
    /\ UNCHANGED <<uVer, uTo, uCand>>

Idle ==
    /\ uPc' = "off" /\ uVer' = 0 /\ uTo' = 0 /\ uCand' = NoPid
    /\ uRes' = NoResult /\ uDrop' = FALSE

\* What only the updater's own steps change.
Elsewhere == <<appVars, instVars, cuts>>

\* The path unit: a request, or the journal of a run that was cut off.
RequestOnly == request
PathExists == request \/ journal # NoJournal

UpdaterStarts ==
    /\ uPc = "off"
    /\ PathExists
    /\ uPc' = "check" /\ uVer' = bin
    /\ UNCHANGED <<binVars, binLock, stagingVars, uTo, uCand, uRes, uDrop, Elsewhere,
                   proofVars, mine>>

\* checkBinDir: only root can write where the binary is, or the run is refused.
CheckBinDir ==
    /\ uPc = "check"
    /\ \/ Goto("lock") /\ UNCHANGED cuts
       \/ cuts < MaxCuts /\ cuts' = cuts + 1 /\ Refused(TRUE)
    /\ UNCHANGED <<binVars, binLock, stagingVars, appVars, instVars, proofVars, mine>>

\* LockBin: flock, held from here to the end.
LockBin ==
    /\ uPc = "lock"
    /\ binLock = "free"
    /\ binLock' = "updater"
    /\ Goto("look")
    /\ UNCHANGED <<binVars, stagingVars, Elsewhere, proofVars, mine>>

LockTimesOut ==
    /\ uPc = "lock"
    /\ binLock # "free"
    /\ Refused(TRUE)
    /\ UNCHANGED <<binVars, binLock, stagingVars, Elsewhere, proofVars, mine>>

NoneInterrupted ==
    /\ uPc = "look"
    /\ journal = NoJournal
    /\ Goto("revalidate")
    /\ UNCHANGED <<binVars, binLock, stagingVars, Elsewhere, proofVars, mine>>

\* recoverInterrupted, where the binary shows that nothing is to be renamed, or
\* that nothing can be.
RecoverInPlace ==
    /\ uPc = "look"
    /\ journal # NoJournal
    /\ ~(bin = journal.to /\ prev = journal.from)
    /\ uRes' = IF bin = journal.from
               THEN Result("rolled_back", journal.to, journal.from)
               ELSE Result("failed", journal.to, uVer)
    /\ uPc' = "clear" /\ uDrop' = TRUE
    /\ UNCHANGED <<binVars, binLock, stagingVars, uVer, uTo, uCand, Elsewhere, proofVars,
                   mine>>

\* The kept copy is renamed over the binary.
Restored ==
    /\ prev # 0
    /\ bin' = prev /\ prev' = 0
    /\ unproven' = FALSE
    /\ UNCHANGED <<new, journal, gaveUp>>

RestoreFails ==
    /\ gaveUp' = TRUE
    /\ UNCHANGED <<binVars, unproven>>

RecoverRenames ==
    /\ uPc = "look"
    /\ journal # NoJournal
    /\ bin = journal.to /\ prev = journal.from
    /\ \/ Restored /\ uRes' = Result("rolled_back", journal.to, journal.from)
       \/ RestoreFails /\ uRes' = Result("failed", journal.to, journal.to)
    /\ uPc' = "clear" /\ uDrop' = TRUE
    /\ UNCHANGED <<binLock, stagingVars, uVer, uTo, uCand, Elsewhere, mine>>

\* revalidate: an install may have replaced the binary before the lock was taken.
Unreplaced == bin = uVer

Revalidate ==
    /\ uPc = "revalidate"
    /\ (Unreplaced /\ Goto("claim")) \/ Refused(TRUE)
    /\ UNCHANGED <<binVars, binLock, stagingVars, Elsewhere, proofVars, mine>>

\* The claim is a rename: either it or a withdrawal wins.
ClaimByCopy == request' = request /\ taken' = TRUE
ClaimFile == request' = FALSE /\ taken' = TRUE

Claim ==
    /\ uPc = "claim"
    /\ request
    /\ ClaimFile
    /\ Goto("verify")
    /\ mine' = Waiting
    /\ UNCHANGED <<binVars, binLock, staged, status, health, Elsewhere, proofVars>>

\* No request any more, or one that cannot be renamed.
ClaimsNothing ==
    /\ uPc = "claim"
    /\ \/ ~request /\ Goto("exit")
       \/ request /\ Refused(FALSE)
    /\ UNCHANGED <<binVars, binLock, stagingVars, Elsewhere, proofVars, mine>>

Acceptable == staged > uVer

\* verifyStaged: a newer release, read into memory whole.
VerifyStaged ==
    /\ uPc = "verify"
    /\ taken
    /\ Acceptable
    /\ uTo' = staged /\ uPc' = "new"
    /\ UNCHANGED <<binVars, binLock, stagingVars, uVer, uCand, uRes, uDrop, Elsewhere,
                   proofVars, mine>>

RefuseStaged ==
    /\ uPc = "verify"
    /\ Refused(FALSE)
    /\ UNCHANGED <<binVars, binLock, stagingVars, Elsewhere, proofVars, mine>>

\* install: the steps before the swap.  Each may fail, and then only the new
\* copy is removed.
WriteNew ==
    /\ uPc = "new"
    /\ new' = uTo
    /\ Goto("probe")
    /\ UNCHANGED <<bin, prev, journal, binLock, stagingVars, Elsewhere, proofVars, mine>>

NewRuns ==
    /\ uPc = "probe"
    /\ Goto("keep")
    /\ UNCHANGED <<binVars, binLock, stagingVars, Elsewhere, proofVars, mine>>

KeepPrev ==
    /\ uPc = "keep"
    /\ prev' = bin
    /\ Goto("journal")
    /\ UNCHANGED <<bin, new, journal, binLock, stagingVars, Elsewhere, proofVars, mine>>

JournalLate == uPc' = "swap" /\ UNCHANGED <<journal, uVer, uTo, uCand, uRes, uDrop>>
JournalWritten == journal' = [from |-> uVer, to |-> uTo] /\ Goto("swap")

WriteJournal ==
    /\ uPc = "journal"
    /\ JournalWritten
    /\ UNCHANGED <<bin, prev, new, binLock, stagingVars, Elsewhere, proofVars, mine>>

\* A sidecar that cannot be written is removed or as it was; the kept copy is
\* rewritten from scratch, so it may be gone.
PrepareFails ==
    /\ uPc \in {"new", "probe", "keep", "journal"}
    /\ new' \in IF uPc = "new" THEN {new, 0} ELSE {0}
    /\ prev' \in IF uPc = "keep" THEN {prev, 0} ELSE {prev}
    /\ Refused(FALSE)
    /\ UNCHANGED <<bin, journal, binLock, stagingVars, Elsewhere, proofVars, mine>>

\* The health file goes, so that no earlier one passes for the new version's.
Swap ==
    /\ uPc = "swap"
    /\ health' = NoHealth
    /\ bin' = new /\ new' = 0
    /\ unproven' = TRUE /\ gaveUp' = FALSE
    /\ Goto("restart")
    /\ UNCHANGED <<prev, journal, binLock, request, taken, staged, status, Elsewhere, mine>>

SwapFails ==
    /\ uPc = "swap"
    /\ health' = NoHealth
    /\ journal' = NoJournal /\ new' = 0
    /\ Refused(FALSE)
    /\ UNCHANGED <<bin, prev, binLock, request, taken, staged, status, Elsewhere,
                   proofVars, mine>>

\* systemctl restart; when it fails the unit is down or as it was.
Restart(pc, onError) ==
    \/ Started /\ Goto(pc) /\ mine' = FALSE
    \/ Stopped /\ Goto(onError) /\ mine' = FALSE
    \/ UNCHANGED <<appVars, mine>> /\ Goto(onError)

RestartUnit ==
    /\ uPc = "restart"
    /\ Restart("await", "rollback")
    /\ UNCHANGED <<binVars, binLock, stagingVars, instVars, cuts, proofVars>>

\* awaitHealthy: the health file is of the new version and of the main process.
AnyProcess == health.version = uTo
IsCandidate == health.version = uTo /\ health.pid = pid

\* One poll: a candidate, none (the main process may not be known either), or the
\* same one again after it has stayed up for the settle time.
PollHealth ==
    /\ uPc = "await"
    /\ health # NoHealth
    /\ \/ IsCandidate /\ uCand # health.pid /\ uCand' = health.pid /\ uPc' = "await"
       \/ uCand # NoPid /\ uCand' = NoPid /\ uPc' = "await"
       \/ IsCandidate /\ uCand = health.pid /\ uPc' = "commit" /\ UNCHANGED uCand
    /\ UNCHANGED <<binVars, binLock, stagingVars, uVer, uTo, uRes, uDrop, Elsewhere,
                   proofVars, mine>>

\* The timeout, or SIGTERM.
HealthTimesOut ==
    /\ uPc = "await"
    /\ Goto("rollback")
    /\ UNCHANGED <<binVars, binLock, stagingVars, Elsewhere, proofVars, mine>>

\* Removing the journal is the commit point.
Commit ==
    /\ uPc = "commit"
    /\ journal' = NoJournal
    /\ unproven' = FALSE
    /\ Ends(Result("updated", uTo, uTo), "finish")
    /\ UNCHANGED <<bin, prev, new, gaveUp, binLock, stagingVars, Elsewhere, mine>>

Rollback ==
    /\ uPc = "rollback"
    /\ \/ Restored /\ Ends(Result("rolled_back", uTo, uVer), "clear")
       \/ RestoreFails /\ Ends(Result("failed", uTo, uTo), "clear")
    /\ UNCHANGED <<binLock, stagingVars, Elsewhere, mine>>

\* A rollback and a recovery both end here: no journal, so that neither is done
\* again, the result before the restart, the restart whatever the outcome.
ClearJournal ==
    /\ uPc = "clear"
    /\ journal' = NoJournal /\ new' = 0
    /\ Goto("report")
    /\ UNCHANGED <<bin, prev, binLock, stagingVars, Elsewhere, proofVars, mine>>

\* writeResult, which may fail.
Written(pc) == status' \in {status, uRes} /\ Ends(NoResult, pc)

ReportRollback ==
    /\ uPc = "report"
    /\ Written("rerun")
    /\ UNCHANGED <<binVars, binLock, request, taken, staged, health, Elsewhere, proofVars,
                   mine>>

RestartRestored ==
    /\ uPc = "rerun"
    /\ Restart("exit", "exit")
    /\ UNCHANGED <<binVars, binLock, stagingVars, instVars, cuts, proofVars>>

\* finish, with what an installed release leaves staged.
Finish ==
    /\ uPc = "finish"
    /\ Written("exit")
    /\ staged' = IF uRes.outcome = "updated" THEN 0 ELSE staged
    /\ UNCHANGED <<binVars, binLock, request, taken, health, Elsewhere, proofVars, mine>>

\* The deferred calls: the request if it was not claimed, the lock, the claim.
Exit ==
    /\ uPc = "exit"
    /\ request' = (request /\ ~uDrop)
    /\ taken' = FALSE
    /\ binLock' = IF binLock = "updater" THEN "free" ELSE binLock
    /\ Idle
    /\ mine' = FALSE
    /\ UNCHANGED <<binVars, staged, status, health, Elsewhere, proofVars>>

-----------------------------------------------------------------------------
(* service install, run by an operator from a binary of version v *)

InstallStarts(v) ==
    /\ iPc = "off"
    /\ installs < MaxInstalls
    /\ iPc' = "lock" /\ iVer' = v /\ installs' = installs + 1
    /\ UNCHANGED <<binVars, binLock, stagingVars, updVars, appVars, interrupted, cuts,
                   proofVars, mine>>

InstallDone == iPc' = "off" /\ iVer' = 0 /\ interrupted' = FALSE /\ UNCHANGED installs

InstallGoto(pc) == iPc' = pc /\ UNCHANGED <<iVer, interrupted, installs>>

\* It waits for the updater's lock, and gives up after a while.
TakeLock == binLock = "free" /\ binLock' = "install"

InstallLocks ==
    /\ iPc = "lock"
    /\ TakeLock
    /\ InstallGoto("check")
    /\ UNCHANGED <<binVars, stagingVars, updVars, appVars, cuts, proofVars, mine>>

InstallBusy ==
    /\ iPc = "lock"
    /\ binLock # "free"
    /\ InstallDone
    /\ UNCHANGED <<binVars, binLock, stagingVars, updVars, appVars, cuts, proofVars, mine>>

\* checkDowngrade
VersionUnread == bin \in Versions
NotNewer == bin <= iVer

CheckDowngrade ==
    /\ iPc = "check"
    /\ \/ NotNewer /\ InstallGoto("drop") /\ UNCHANGED binLock
       \/ ~NotNewer /\ InstallDone /\ binLock' = "free"
    /\ UNCHANGED <<binVars, stagingVars, updVars, appVars, cuts, proofVars, mine>>

\* dropKeptCopy: before the binary is replaced, so that nothing rolls it back.
DropKeptCopy ==
    /\ iPc = "drop"
    /\ iPc' = "copy"
    /\ interrupted' = (journal # NoJournal)
    /\ prev' = IF journal # NoJournal THEN 0 ELSE prev
    /\ gaveUp' = (gaveUp \/ journal # NoJournal)
    /\ UNCHANGED <<bin, new, journal, binLock, stagingVars, updVars, appVars, iVer,
                   installs, cuts, unproven, mine>>

CopyBinary ==
    /\ iPc = "copy"
    /\ bin' = iVer
    /\ unproven' = FALSE
    /\ InstallGoto("journal")
    /\ UNCHANGED <<prev, new, journal, binLock, stagingVars, updVars, appVars, cuts,
                   gaveUp, mine>>

\* A step of the installation fails, and it ends there.
InstallFails ==
    /\ iPc \in {"drop", "copy", "journal", "withdraw"}
    /\ InstallDone
    /\ binLock' = "free"
    /\ UNCHANGED <<binVars, stagingVars, updVars, appVars, cuts, proofVars, mine>>

DropJournal ==
    /\ iPc = "journal"
    /\ journal' = IF interrupted THEN NoJournal ELSE journal
    /\ InstallGoto("withdraw")
    /\ UNCHANGED <<bin, prev, new, binLock, stagingVars, updVars, appVars, cuts,
                   proofVars, mine>>

\* prepareStaging, then the units are enabled, which starts the appliance if it
\* is down, and the lock is released.
WithdrawStagedRequest ==
    /\ iPc = "withdraw"
    /\ request' = FALSE
    /\ InstallDone
    /\ binLock' = "free"
    /\ UNCHANGED <<binVars, taken, staged, status, health, updVars, appVars, cuts,
                   proofVars, mine>>

-----------------------------------------------------------------------------
(* Kills and power cuts.  flock goes with its process. *)

Unlocked(who) == binLock' = IF binLock = who THEN "free" ELSE binLock

UpdaterKilled ==
    /\ uPc # "off" /\ cuts < MaxCuts
    /\ cuts' = cuts + 1
    /\ Idle /\ Unlocked("updater") /\ mine' = FALSE
    /\ UNCHANGED <<binVars, stagingVars, appVars, instVars, proofVars>>

InstallKilled ==
    /\ iPc # "off" /\ cuts < MaxCuts
    /\ cuts' = cuts + 1
    /\ InstallDone /\ Unlocked("install")
    /\ UNCHANGED <<binVars, stagingVars, updVars, appVars, proofVars, mine>>

PowerCut ==
    /\ cuts < MaxCuts
    /\ cuts' = cuts + 1
    /\ Idle /\ InstallDone /\ Stopped /\ binLock' = "free" /\ mine' = FALSE
    /\ UNCHANGED <<binVars, stagingVars, proofVars>>

-----------------------------------------------------------------------------
ApplianceNext ==
    \/ Start \/ Die \/ WithdrawOrphanedRequest \/ BootHealth \/ BootLive \/ BootReport
    \/ BootClean \/ WatchReports \/ WatchEnds

StageNext == StageClean \/ StageRelease \/ StageFails \/ StageRequest

AwaitNext == AwaitTakes \/ AwaitWithdraws \/ AwaitGivesUp

ManagerNext == (\E v \in Versions : StartApply(v)) \/ StageNext \/ AwaitNext

\* The updater's run up to the swap, and from it on.
PrepareNext ==
    \/ CheckBinDir \/ LockBin \/ LockTimesOut \/ NoneInterrupted
    \/ RecoverInPlace \/ RecoverRenames \/ Revalidate \/ Claim \/ ClaimsNothing
    \/ VerifyStaged \/ RefuseStaged \/ WriteNew \/ NewRuns \/ KeepPrev \/ WriteJournal
    \/ PrepareFails

SwapNext ==
    \/ Swap \/ SwapFails \/ RestartUnit \/ PollHealth \/ HealthTimesOut \/ Commit
    \/ Rollback \/ ClearJournal \/ ReportRollback \/ RestartRestored \/ Finish \/ Exit

InstallSteps ==
    \/ InstallLocks \/ InstallBusy \/ CheckDowngrade \/ DropKeptCopy \/ CopyBinary
    \/ InstallFails \/ DropJournal \/ WithdrawStagedRequest

Next ==
    \/ ApplianceNext \/ ManagerNext
    \/ UpdaterStarts \/ PrepareNext \/ SwapNext
    \/ (\E v \in Versions : InstallStarts(v)) \/ InstallSteps
    \/ UpdaterKilled \/ InstallKilled \/ PowerCut

Spec == Init /\ [][Next]_vars

\* Processes run: the path unit starts the updater, the updater and the installer
\* go on, and the health wait is bounded by its timeout.
Fairness ==
    /\ WF_vars(UpdaterStarts)
    /\ WF_vars(PrepareNext)
    /\ WF_vars(SwapNext /\ uPc # "await")
    /\ WF_vars(HealthTimesOut)
    /\ WF_vars(InstallSteps)

FairSpec == Spec /\ Fairness

-----------------------------------------------------------------------------
(* Properties *)

TypeOK ==
    /\ bin \in Versions /\ prev \in 0 .. MaxVersion /\ new \in 0 .. MaxVersion
    /\ journal \in [from : 0 .. MaxVersion, to : 0 .. MaxVersion]
    /\ binLock \in {"free", "updater", "install"}
    /\ request \in BOOLEAN /\ taken \in BOOLEAN /\ staged \in 0 .. MaxVersion
    /\ status \in [outcome : Outcomes \cup {"none"}, to : 0 .. MaxVersion,
                   installed : 0 .. MaxVersion]
    /\ health \in [version : 0 .. MaxVersion, pid : Pids \cup {NoPid}]
    /\ uPc \in UpdaterPcs /\ uVer \in 0 .. MaxVersion /\ uTo \in 0 .. MaxVersion
    /\ uCand \in Pids \cup {NoPid}
    /\ uRes \in [outcome : Outcomes \cup {"none"}, to : 0 .. MaxVersion,
                 installed : 0 .. MaxVersion]
    /\ uDrop \in BOOLEAN
    /\ aPc \in AppliancePcs /\ aVer \in 0 .. MaxVersion /\ pid \in Pids \cup {NoPid}
    /\ phase \in Phases /\ target \in 0 .. MaxVersion
    /\ iPc \in InstallPcs /\ iVer \in 0 .. MaxVersion /\ interrupted \in BOOLEAN
    /\ cuts \in 0 .. MaxCuts /\ installs \in 0 .. MaxInstalls
    /\ unproven \in BOOLEAN /\ gaveUp \in BOOLEAN /\ mine \in BOOLEAN

\* Wherever the power fails, a swapped-in version that has not been seen healthy
\* can be rolled back: the journal names it and the copy it replaced is kept.
\* The exceptions are a rollback that failed and an install that took over.
UnprovenCanBeRolledBack ==
    unproven /\ ~gaveUp =>
        /\ journal.to = bin
        /\ journal.from \in Versions
        /\ prev = journal.from

\* The installed binary never goes back to an older version, whoever writes it and
\* whatever was cut off, but for the rollback of a version never seen healthy to
\* the one it replaced.
NeverDowngraded ==
    [][bin' < bin => unproven /\ bin' = journal.from]_vars

\* The updater keeps the new version only on the word of the process that runs
\* now, which runs that version and has come up; a crash loop does not do.
KeptMeansUp ==
    [][uPc = "await" /\ uPc' = "commit" =>
        aVer = uTo /\ aVer = bin /\ aPc \notin {"down", "start", "boot"}]_vars

\* An attempt the manager reports as withdrawn is not installed: the updater's
\* claim and the withdrawal never both succeed.
WithdrawnIsNotInstalled == phase = "withdrawn" => ~mine

\* A swapped-in version does not stay unproven: the updater, or the one started
\* after a cut, confirms it or rolls it back, or an install replaces it.
UnprovenSettles == unproven ~> (~unproven \/ gaveUp)

=============================================================================
