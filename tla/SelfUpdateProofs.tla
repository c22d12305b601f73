------------------------- MODULE SelfUpdateProofs -------------------------
(***************************************************************************)
(* For every number of versions, processes, cuts and installs: types, the  *)
(* way back from a version never seen healthy, no downgrade, no install of *)
(* what was withdrawn, and no commit but to what runs.                     *)
(***************************************************************************)
EXTENDS SelfUpdate, TLAPS

-----------------------------------------------------------------------------
(* The inductive invariant *)

\* Places at which the updater holds the lock beside the binary.  It may also
\* hold it at "finish" and "exit", which a refused run reaches without it.
Holding == {"look", "revalidate", "claim", "verify", "new", "probe", "keep",
            "journal", "swap", "restart", "await", "commit", "rollback", "clear",
            "report", "rerun"}

InstallHolding == {"check", "drop", "copy", "journal", "withdraw"}

LockInv ==
    /\ uPc \in Holding => binLock = "updater"
    /\ iPc \in InstallHolding => binLock = "install"

\* No version waits for proof with a way back.
Settled == ~unproven \/ gaveUp

\* What the updater knows at each place of its run.
UpdaterInv ==
    /\ uPc # "off" => uVer \in Versions
    /\ uPc \in {"claim", "verify", "new", "probe", "keep", "journal", "swap"} => bin = uVer
    /\ uPc \in {"new", "probe", "keep", "journal", "swap"} => uTo \in Versions /\ uVer < uTo
    /\ uPc \in {"probe", "keep", "journal", "swap"} => new = uTo
    /\ uPc \in {"journal", "swap"} => prev = uVer
    /\ uPc \in {"revalidate", "claim", "verify", "new", "probe", "keep", "journal"} =>
          journal = NoJournal
    /\ uPc = "swap" => journal = [from |-> uVer, to |-> uTo]
    /\ uPc \in {"swap", "clear"} => Settled
    /\ uPc \in {"restart", "await", "commit", "rollback"} => unproven /\ ~gaveUp

\* What a journal says, to an updater that finds one.
JournalInv ==
    journal # NoJournal =>
        /\ journal.from \in Versions /\ journal.to \in Versions
        /\ journal.from < journal.to
        /\ bin = journal.to /\ prev = journal.from => unproven

\* What an install knows at each place.
InstallInv ==
    /\ iPc # "off" => iVer \in Versions
    /\ iPc \in {"drop", "copy"} => bin <= iVer
    /\ iPc = "copy" /\ journal # NoJournal => prev = 0
    /\ iPc = "journal" => ~unproven

\* Whose request the updater's claim is on.
ClaimInv ==
    /\ phase \in {"cleaning", "staging", "requesting", "withdrawn"} => ~mine
    /\ phase = "waiting" /\ mine => ~request

SwapInv == LockInv /\ UpdaterInv /\ JournalInv /\ InstallInv /\ UnprovenCanBeRolledBack

UpdateInv == TypeOK /\ SwapInv /\ ClaimInv

-----------------------------------------------------------------------------
(* Types, apart from the flags, and the flags *)

Results == [outcome : Outcomes \cup {"none"}, to : 0 .. MaxVersion,
            installed : 0 .. MaxVersion]

FileTypes ==
    /\ bin \in Versions /\ prev \in 0 .. MaxVersion /\ new \in 0 .. MaxVersion
    /\ journal \in [from : 0 .. MaxVersion, to : 0 .. MaxVersion]
    /\ binLock \in {"free", "updater", "install"}
    /\ staged \in 0 .. MaxVersion /\ status \in Results
    /\ health \in [version : 0 .. MaxVersion, pid : Pids \cup {NoPid}]

UpdaterTypes ==
    /\ uPc \in UpdaterPcs /\ uVer \in 0 .. MaxVersion /\ uTo \in 0 .. MaxVersion
    /\ uCand \in Pids \cup {NoPid} /\ uRes \in Results

ApplianceTypes ==
    /\ aPc \in AppliancePcs /\ aVer \in 0 .. MaxVersion /\ pid \in Pids \cup {NoPid}
    /\ phase \in Phases /\ target \in 0 .. MaxVersion

InstallTypes ==
    /\ iPc \in InstallPcs /\ iVer \in 0 .. MaxVersion
    /\ cuts \in 0 .. MaxCuts /\ installs \in 0 .. MaxInstalls

Flags ==
    /\ request \in BOOLEAN /\ taken \in BOOLEAN /\ uDrop \in BOOLEAN
    /\ interrupted \in BOOLEAN /\ unproven \in BOOLEAN /\ gaveUp \in BOOLEAN
    /\ mine \in BOOLEAN

LEMMA TypesSplit ==
    TypeOK <=> FileTypes /\ UpdaterTypes /\ ApplianceTypes /\ InstallTypes /\ Flags
BY DEF TypeOK, FileTypes, UpdaterTypes, ApplianceTypes, InstallTypes, Flags, Results

LEMMA TypesSplitNext ==
    TypeOK' <=> FileTypes' /\ UpdaterTypes' /\ ApplianceTypes' /\ InstallTypes' /\ Flags'
BY DEF TypeOK, FileTypes, UpdaterTypes, ApplianceTypes, InstallTypes, Flags, Results

LEMMA Bounds ==
    /\ MaxVersion \in Nat /\ 0 \in 0 .. MaxVersion
    /\ \A v \in Versions : v \in 0 .. MaxVersion
    /\ MaxCuts \in Nat /\ MaxInstalls \in Nat
    /\ 0 \notin Versions /\ NoJournal.from = 0
BY ConstantsAssumption DEF Versions, NoJournal

\* A process ID that nobody remembers exists.
LEMMA FreshPidExists ==
    ASSUME TypeOK
    PROVE  FreshPid \in Pids
<1>1. health.pid \in Pids \cup {NoPid} /\ uCand \in Pids \cup {NoPid}
  BY DEF TypeOK
<1>2. Pids \ {health.pid, uCand} # {}
  BY <1>1, ConstantsAssumption
<1>3. \E p \in Pids : p \notin {health.pid, uCand}
  BY <1>2
<1> QED
  BY <1>3 DEF FreshPid

LEMMA NoResultType == NoResult \in Results
BY ConstantsAssumption DEF NoResult, Result, Results

LEMMA InitTypes == Init => TypeOK
<1> SUFFICES ASSUME Init PROVE TypeOK
  OBVIOUS
<1>1. FileTypes
  BY ConstantsAssumption, NoResultType
  DEF Init, FileTypes, Versions, NoJournal, NoHealth
<1>2. UpdaterTypes
  BY ConstantsAssumption, NoResultType DEF Init, UpdaterTypes, UpdaterPcs
<1>3. ApplianceTypes
  BY ConstantsAssumption DEF Init, ApplianceTypes, AppliancePcs, Phases
<1>4. InstallTypes
  BY ConstantsAssumption DEF Init, InstallTypes, InstallPcs
<1>5. Flags
  BY DEF Init, Flags
<1> QED
  BY <1>1, <1>2, <1>3, <1>4, <1>5, TypesSplit

LEMMA KeepFiles ==
    ASSUME FileTypes, UNCHANGED <<binVars, binLock, staged, status, health>>
    PROVE  FileTypes'
BY DEF FileTypes, binVars

LEMMA KeepUpdater ==
    ASSUME UpdaterTypes, UNCHANGED updVars
    PROVE  UpdaterTypes'
BY DEF UpdaterTypes, updVars

LEMMA KeepAppliance ==
    ASSUME ApplianceTypes, UNCHANGED appVars
    PROVE  ApplianceTypes'
BY DEF ApplianceTypes, appVars, procVars, mgrVars

LEMMA KeepInstall ==
    ASSUME InstallTypes, UNCHANGED <<instVars, cuts>>
    PROVE  InstallTypes'
BY DEF InstallTypes, instVars

\* The steps of the appliance's process touch neither the updater nor an install.
LEMMA ApplianceStepTypes ==
    ASSUME TypeOK, ApplianceNext
    PROVE  TypeOK'
<1>0. FileTypes /\ UpdaterTypes /\ ApplianceTypes /\ InstallTypes /\ Flags
  BY TypesSplit
<1>1. UNCHANGED <<binVars, binLock, updVars, instVars, cuts, unproven, gaveUp>>
  BY DEF ApplianceNext, Start, Die, WithdrawOrphanedRequest, BootHealth, BootLive,
         BootReport, BootClean, WatchReports, WatchEnds, proofVars
<1>2. UpdaterTypes' /\ InstallTypes'
  BY <1>0, <1>1, KeepUpdater, KeepInstall
<1>3. staged' \in 0 .. MaxVersion /\ status' \in Results
  <2>1. staged' \in {staged, 0} /\ status' \in {status, NoResult}
    BY DEF stagingVars, ApplianceNext, Start, Die, WithdrawOrphanedRequest,
           BootHealth, BootLive, BootReport, BootClean, Cleaned, WatchReports, WatchEnds
  <2>2. staged' \in 0 .. MaxVersion
    BY <1>0, <2>1, Bounds DEF FileTypes
  <2>3. status' \in Results
    BY <1>0, <2>1, NoResultType DEF FileTypes
  <2> QED
    BY <2>2, <2>3
<1>4. health' \in [version : 0 .. MaxVersion, pid : Pids \cup {NoPid}]
  BY <1>0
  DEF FileTypes, ApplianceTypes, stagingVars, ApplianceNext, Start, Die,
      WithdrawOrphanedRequest, BootHealth, BootLive, BootReport, BootClean,
      WatchReports, WatchEnds
<1>5. FileTypes'
  BY <1>0, <1>1, <1>3, <1>4 DEF FileTypes, binVars
<1>6. ApplianceTypes'
  <2>1. CASE Start
    BY <1>0, <2>1, FreshPidExists, ConstantsAssumption
    DEF Start, Started, ApplianceTypes, FileTypes, Versions, Phases, AppliancePcs
  <2>2. CASE Die
    BY <1>0, <2>2, ConstantsAssumption DEF Die, Stopped, ApplianceTypes, Phases, AppliancePcs
  <2>3. CASE ~Start /\ ~Die
    <3>1. aPc' \in AppliancePcs /\ UNCHANGED <<aVer, pid, phase, target>>
      BY <2>3
      DEF ApplianceNext, WithdrawOrphanedRequest, BootHealth, BootLive, BootReport,
          BootClean, WatchReports, WatchEnds, mgrVars, AppliancePcs
    <3> QED
      BY <1>0, <3>1 DEF ApplianceTypes
  <2> QED
    BY <2>1, <2>2, <2>3
<1>7. request' \in BOOLEAN /\ taken' \in BOOLEAN /\ mine' \in BOOLEAN
  BY <1>0
  DEF Flags, stagingVars, ApplianceNext, Start, Die, WithdrawOrphanedRequest,
      BootHealth, BootLive, BootReport, BootClean, Cleaned, WatchReports, WatchEnds
<1>8. Flags'
  BY <1>0, <1>1, <1>7 DEF Flags, updVars, instVars
<1> QED
  BY <1>2, <1>5, <1>6, <1>8, TypesSplitNext

\* The manager's steps touch only what is staged and its own phase.
LEMMA ManagerStepTypes ==
    ASSUME TypeOK, ManagerNext
    PROVE  TypeOK'
<1> USE DEF ManagerNext, StageNext, AwaitNext, StartApply, StageClean, StageRelease,
            StageFails, StageRequest, AwaitTakes, AwaitWithdraws, AwaitGivesUp, Cleaned
<1>0. FileTypes /\ UpdaterTypes /\ ApplianceTypes /\ InstallTypes /\ Flags
  BY TypesSplit
<1>1. UNCHANGED <<binVars, binLock, health, updVars, procVars, instVars, cuts, unproven, gaveUp>>
  BY DEF stagingVars, proofVars
<1>2. UpdaterTypes' /\ InstallTypes'
  BY <1>0, <1>1, KeepUpdater, KeepInstall
<1>3. staged' \in {staged, 0, target} /\ status' \in {status, NoResult}
  BY DEF stagingVars
<1>4. staged' \in 0 .. MaxVersion
  BY <1>0, <1>3, Bounds DEF FileTypes, ApplianceTypes
<1>5. status' \in Results
  BY <1>0, <1>3, NoResultType DEF FileTypes
<1>6. FileTypes'
  BY <1>0, <1>1, <1>4, <1>5 DEF FileTypes, binVars
<1>7. target' \in {target, 0} \/ target' \in Versions
  BY DEF mgrVars
<1>8. phase' \in Phases
  BY DEF Phases
<1>9. ApplianceTypes'
  BY <1>0, <1>1, <1>7, <1>8, Bounds DEF ApplianceTypes, procVars
<1>10. request' \in BOOLEAN /\ taken' \in BOOLEAN /\ mine' \in BOOLEAN
  BY <1>0 DEF Flags, stagingVars
<1>11. Flags'
  BY <1>0, <1>1, <1>10 DEF Flags, updVars, instVars
<1> QED
  BY <1>2, <1>6, <1>9, <1>11, TypesSplitNext

LEMMA ResultTypes ==
    ASSUME NEW o \in Outcomes, NEW v \in 0 .. MaxVersion, NEW w \in 0 .. MaxVersion
    PROVE  Result(o, v, w) \in Results
BY DEF Result, Results

\* The results the updater may give.
LEMMA UpdaterResults ==
    ASSUME FileTypes, UpdaterTypes
    PROVE  /\ Refusal \in Results
           /\ \A o \in Outcomes : \A v, w \in {0, uVer, uTo, journal.from, journal.to} :
                 Result(o, v, w) \in Results
<1>1. {0, uVer, uTo, journal.from, journal.to} \subseteq 0 .. MaxVersion
  BY Bounds DEF FileTypes, UpdaterTypes
<1>2. ASSUME NEW o \in Outcomes, NEW v \in {0, uVer, uTo, journal.from, journal.to},
             NEW w \in {0, uVer, uTo, journal.from, journal.to}
      PROVE  Result(o, v, w) \in Results
  BY <1>1, ResultTypes
<1>3. Refusal \in Results
  BY <1>2 DEF Refusal, Outcomes
<1> QED
  BY <1>2, <1>3

\* The updater's own variables.
LEMMA UpdaterOwnTypes ==
    ASSUME TypeOK, UpdaterStarts \/ PrepareNext \/ SwapNext
    PROVE  UpdaterTypes'
<1>0. FileTypes /\ UpdaterTypes
  BY TypesSplit
<1> USE DEF UpdaterStarts, PrepareNext, SwapNext, CheckBinDir, LockBin, LockTimesOut,
            NoneInterrupted, RecoverInPlace, RecoverRenames, Revalidate, Claim,
            ClaimsNothing, VerifyStaged, RefuseStaged, WriteNew, NewRuns, KeepPrev,
            JournalWritten, WriteJournal, PrepareFails, Swap, SwapFails, RestartUnit,
            Restart, PollHealth, HealthTimesOut, Commit, Rollback, ClearJournal,
            Written, ReportRollback, RestartRestored, Finish, Exit, Goto, Ends, Refused, Idle
<1>1. uPc' \in UpdaterPcs
  BY DEF UpdaterPcs
<1>2. uVer' \in {uVer, bin, 0}
  OBVIOUS
<1>3. uTo' \in {uTo, staged, 0}
  OBVIOUS
<1>4. uCand' \in {uCand, NoPid} \/ uCand' = health.pid
  OBVIOUS
<1>5. \/ uRes' \in {uRes, NoResult, Refusal}
      \/ \E o \in Outcomes : \E v, w \in {0, uVer, uTo, journal.from, journal.to} :
            uRes' = Result(o, v, w)
  BY DEF Outcomes
<1>6. uRes' \in Results
  BY <1>0, <1>5, UpdaterResults, NoResultType DEF UpdaterTypes
<1>7. uVer' \in 0 .. MaxVersion /\ uTo' \in 0 .. MaxVersion
  BY <1>0, <1>2, <1>3, Bounds DEF FileTypes, UpdaterTypes
<1>8. uCand' \in Pids \cup {NoPid}
  BY <1>0, <1>4 DEF FileTypes, UpdaterTypes
<1> QED
  BY <1>1, <1>6, <1>7, <1>8 DEF UpdaterTypes

\* The files the updater writes.  What it swaps in is a version: UpdaterInv.
LEMMA UpdaterFileTypes ==
    ASSUME TypeOK, UpdaterInv, UpdaterStarts \/ PrepareNext \/ SwapNext
    PROVE  FileTypes'
<1>0. FileTypes /\ UpdaterTypes
  BY TypesSplit
\* What the code of these steps writes.
<1>1. /\ bin' = bin \/ (prev # 0 /\ bin' = prev) \/ (uPc = "swap" /\ bin' = new)
      /\ prev' \in {prev, 0, bin} /\ new' \in {new, 0, uTo}
      /\ journal' \in {journal, NoJournal, [from |-> uVer, to |-> uTo]}
      /\ binLock' \in {binLock, "free", "updater"}
      /\ staged' \in {staged, 0} /\ status' \in {status, uRes}
      /\ health' \in {health, NoHealth}
  BY DEF UpdaterStarts, PrepareNext, SwapNext, CheckBinDir, LockBin, LockTimesOut,
         NoneInterrupted, RecoverInPlace, RecoverRenames, Revalidate, Claim,
         ClaimFile, ClaimsNothing, VerifyStaged, RefuseStaged, WriteNew, NewRuns,
         KeepPrev, JournalWritten, WriteJournal, PrepareFails, Swap, SwapFails,
         RestartUnit, PollHealth, HealthTimesOut, Commit, Rollback, ClearJournal,
         Written, ReportRollback, RestartRestored, Finish, Exit, Restored,
         RestoreFails, binVars, stagingVars
<1>6. bin' \in Versions
  <2>1. CASE bin' = bin
    BY <1>0, <2>1 DEF FileTypes
  <2>2. CASE prev # 0 /\ bin' = prev
    BY <1>0, <2>2, Bounds DEF FileTypes, Versions
  <2>3. CASE uPc = "swap" /\ bin' = new
    BY <2>3 DEF UpdaterInv
  <2> QED
    BY <1>1, <2>1, <2>2, <2>3
<1>7. prev' \in 0 .. MaxVersion /\ new' \in 0 .. MaxVersion
  BY <1>0, <1>1, Bounds DEF FileTypes, UpdaterTypes
<1>8. journal' \in [from : 0 .. MaxVersion, to : 0 .. MaxVersion]
  BY <1>0, <1>1, Bounds DEF FileTypes, UpdaterTypes, NoJournal
<1>9. binLock' \in {"free", "updater", "install"}
  BY <1>0, <1>1 DEF FileTypes
<1>10. staged' \in 0 .. MaxVersion
  BY <1>0, <1>1, Bounds DEF FileTypes
<1>11. status' \in Results
  BY <1>0, <1>1 DEF FileTypes, UpdaterTypes
<1>12. health' \in [version : 0 .. MaxVersion, pid : Pids \cup {NoPid}]
  BY <1>0, <1>1, Bounds DEF FileTypes, NoHealth
<1> QED
  BY <1>6, <1>7, <1>8, <1>9, <1>10, <1>11, <1>12 DEF FileTypes

\* What the updater's steps do to the appliance, by restarting it, and to the rest.
LEMMA UpdaterStepTypes ==
    ASSUME TypeOK, UpdaterInv, UpdaterStarts \/ PrepareNext \/ SwapNext
    PROVE  TypeOK'
<1>0. FileTypes /\ UpdaterTypes /\ ApplianceTypes /\ InstallTypes /\ Flags
  BY TypesSplit
<1>1. FileTypes' /\ UpdaterTypes'
  BY UpdaterFileTypes, UpdaterOwnTypes
<1>2. /\ Started \/ Stopped \/ UNCHANGED appVars
      /\ UNCHANGED instVars
      /\ cuts' = cuts \/ (cuts < MaxCuts /\ cuts' = cuts + 1)
  BY DEF UpdaterStarts, PrepareNext, SwapNext, CheckBinDir, LockBin, LockTimesOut,
         NoneInterrupted, RecoverInPlace, RecoverRenames, Revalidate, Claim,
         ClaimsNothing, VerifyStaged, RefuseStaged, WriteNew, NewRuns, KeepPrev,
         WriteJournal, PrepareFails, Swap, SwapFails, RestartUnit, Restart, PollHealth,
         HealthTimesOut, Commit, Rollback, ClearJournal, ReportRollback,
         RestartRestored, Finish, Exit, Elsewhere
<1>4. /\ request' \in BOOLEAN /\ taken' \in BOOLEAN /\ uDrop' \in BOOLEAN
      /\ unproven' \in BOOLEAN /\ gaveUp' \in BOOLEAN /\ mine' \in BOOLEAN
  <2> USE <1>0
      DEF Flags, UpdaterStarts, PrepareNext, SwapNext, CheckBinDir, LockBin, LockTimesOut,
             NoneInterrupted, RecoverInPlace, RecoverRenames, Revalidate, Claim, ClaimFile,
             ClaimsNothing, VerifyStaged, RefuseStaged, WriteNew, NewRuns, KeepPrev,
             WriteJournal, JournalWritten, PrepareFails, Swap, SwapFails, RestartUnit, Restart,
             PollHealth, HealthTimesOut, Commit, Rollback, ClearJournal, Written,
             ReportRollback, RestartRestored, Finish, Exit
  <2>1. request' \in BOOLEAN
    BY DEF stagingVars
  <2>2. taken' \in BOOLEAN
    BY DEF stagingVars
  <2>3. uDrop' \in BOOLEAN
    BY DEF Goto, Ends, Refused, Idle
  <2>4. unproven' \in BOOLEAN
    BY DEF proofVars, Restored, RestoreFails
  <2>5. gaveUp' \in BOOLEAN
    BY DEF proofVars, Restored, RestoreFails
  <2>6. mine' = mine \/ mine' = FALSE \/ mine' = Waiting
    OBVIOUS
  <2>7. mine \in BOOLEAN
    BY DEF Flags
  <2>8. Waiting \in BOOLEAN
    BY DEF Waiting
  <2> QED
    BY <2>1, <2>2, <2>3, <2>4, <2>5, <2>6, <2>7, <2>8
<1>5. ApplianceTypes'
  <2>1. CASE Started
    BY <1>0, <2>1, FreshPidExists, Bounds
    DEF Started, ApplianceTypes, FileTypes, Phases, AppliancePcs
  <2>2. CASE Stopped
    BY <1>0, <2>2, Bounds DEF Stopped, ApplianceTypes, Phases, AppliancePcs
  <2> QED
    BY <1>0, <1>2, <2>1, <2>2, KeepAppliance
<1>6. InstallTypes'
  BY <1>0, <1>2, Bounds DEF InstallTypes, instVars
<1>7. Flags'
  BY <1>0, <1>2, <1>4 DEF Flags, instVars
<1> QED
  BY <1>1, <1>5, <1>6, <1>7, TypesSplitNext

\* The steps of an install, which touch neither the updater nor the appliance.
LEMMA InstallStepTypes ==
    ASSUME TypeOK, InstallInv, (\E v \in Versions : InstallStarts(v)) \/ InstallSteps
    PROVE  TypeOK'
<1>0. FileTypes /\ UpdaterTypes /\ ApplianceTypes /\ InstallTypes /\ Flags
  BY TypesSplit
<1>1. /\ UNCHANGED <<updVars, appVars, staged, status, health, taken, mine, cuts>>
      /\ bin' = bin \/ (iPc = "copy" /\ bin' = iVer)
      /\ prev' \in {prev, 0} /\ new' = new /\ journal' \in {journal, NoJournal}
      /\ binLock' \in {binLock, "free", "install"}
      /\ iVer' \in {iVer, 0} \/ iVer' \in Versions
      /\ installs' = installs \/ (installs < MaxInstalls /\ installs' = installs + 1)
  BY DEF InstallSteps, InstallStarts, InstallLocks, TakeLock, InstallBusy, CheckDowngrade,
         DropKeptCopy, CopyBinary, InstallFails, DropJournal, WithdrawStagedRequest,
         InstallDone, InstallGoto, binVars, stagingVars
<1>2. iPc' \in InstallPcs
  BY DEF InstallSteps, InstallStarts, InstallLocks, InstallBusy, CheckDowngrade,
         DropKeptCopy, CopyBinary, InstallFails, DropJournal, WithdrawStagedRequest,
         InstallDone, InstallGoto, InstallPcs
<1>3. /\ request' \in BOOLEAN /\ interrupted' \in BOOLEAN
      /\ unproven' \in BOOLEAN /\ gaveUp' \in BOOLEAN
  BY <1>0 DEF Flags, InstallSteps, InstallStarts, InstallLocks, InstallBusy,
         CheckDowngrade, DropKeptCopy, CopyBinary, InstallFails, DropJournal,
         WithdrawStagedRequest, InstallDone, InstallGoto, stagingVars, proofVars
<1>4. bin' \in Versions
  BY <1>0, <1>1 DEF FileTypes, InstallInv
<1>5. prev' \in 0 .. MaxVersion /\ iVer' \in 0 .. MaxVersion
  BY <1>0, <1>1, Bounds DEF FileTypes, InstallTypes
<1>6. journal' \in [from : 0 .. MaxVersion, to : 0 .. MaxVersion]
  BY <1>0, <1>1, Bounds DEF FileTypes, NoJournal
<1>7. FileTypes'
  BY <1>0, <1>1, <1>4, <1>5, <1>6 DEF FileTypes
<1>8. UpdaterTypes' /\ ApplianceTypes'
  BY <1>0, <1>1, KeepUpdater, KeepAppliance
<1>9. installs' \in 0 .. MaxInstalls
  BY <1>0, <1>1, Bounds DEF InstallTypes
<1>10. InstallTypes'
  BY <1>0, <1>1, <1>2, <1>5, <1>9 DEF InstallTypes
<1>11. Flags'
  BY <1>0, <1>1, <1>3 DEF Flags, updVars
<1> QED
  BY <1>7, <1>8, <1>10, <1>11, TypesSplitNext

\* Kills and cuts.
LEMMA CutTypes ==
    ASSUME TypeOK, UpdaterKilled \/ InstallKilled \/ PowerCut
    PROVE  TypeOK'
<1>0. FileTypes /\ UpdaterTypes /\ ApplianceTypes /\ InstallTypes /\ Flags
  BY TypesSplit
<1>1. /\ UNCHANGED <<binVars, stagingVars, proofVars>>
      /\ Idle \/ UNCHANGED updVars
      /\ Stopped \/ UNCHANGED appVars
      /\ InstallDone \/ UNCHANGED instVars
      /\ cuts < MaxCuts /\ cuts' = cuts + 1
      /\ binLock' \in {binLock, "free"}
      /\ mine' = mine \/ mine' = FALSE
  BY DEF UpdaterKilled, InstallKilled, PowerCut, Unlocked
<1>2. FileTypes'
  BY <1>0, <1>1 DEF FileTypes, binVars, stagingVars
<1>3. UpdaterTypes'
  <2>1. CASE Idle
    BY <1>0, <2>1, Bounds, NoResultType DEF Idle, UpdaterTypes, UpdaterPcs
  <2> QED
    BY <1>0, <1>1, <2>1, KeepUpdater
<1>4. ApplianceTypes'
  <2>1. CASE Stopped
    BY <1>0, <2>1, Bounds DEF Stopped, ApplianceTypes, Phases, AppliancePcs
  <2> QED
    BY <1>0, <1>1, <2>1, KeepAppliance
<1>5. InstallTypes'
  BY <1>0, <1>1, Bounds DEF InstallTypes, InstallDone, instVars, InstallPcs
<1>6. Flags'
  BY <1>0, <1>1 DEF Flags, Idle, InstallDone, updVars, instVars, stagingVars, proofVars
<1> QED
  BY <1>2, <1>3, <1>4, <1>5, <1>6, TypesSplitNext

LEMMA StepTypes ==
    ASSUME TypeOK, UpdaterInv, InstallInv, [Next]_vars
    PROVE  TypeOK'
<1>1. CASE ApplianceNext
  BY <1>1, ApplianceStepTypes
<1>2. CASE ManagerNext
  BY <1>2, ManagerStepTypes
<1>3. CASE UpdaterStarts \/ PrepareNext \/ SwapNext
  BY <1>3, UpdaterStepTypes
<1>4. CASE (\E v \in Versions : InstallStarts(v)) \/ InstallSteps
  BY <1>4, InstallStepTypes
<1>5. CASE UpdaterKilled \/ InstallKilled \/ PowerCut
  BY <1>5, CutTypes
<1>6. CASE UNCHANGED vars
  <2>1. FileTypes /\ UpdaterTypes /\ ApplianceTypes /\ InstallTypes /\ Flags
    BY TypesSplit
  <2>2. FileTypes' /\ UpdaterTypes' /\ ApplianceTypes' /\ InstallTypes'
    BY <1>6, <2>1, KeepFiles, KeepUpdater, KeepAppliance, KeepInstall DEF vars, stagingVars
  <2>3. Flags'
    BY <1>6, <2>1 DEF Flags, vars, stagingVars, updVars, instVars, proofVars
  <2> QED
    BY <2>2, <2>3, TypesSplitNext
<1> QED
  BY <1>1, <1>2, <1>3, <1>4, <1>5, <1>6 DEF Next

-----------------------------------------------------------------------------
(* The binary, its sidecars and who holds the lock *)

LEMMA InitSwap == Init => SwapInv
BY DEF Init, SwapInv, LockInv, UpdaterInv, JournalInv, InstallInv,
       UnprovenCanBeRolledBack, Holding, InstallHolding, Settled

\* A step that touches no file beside the binary keeps what they say.
LEMMA FilesUntouched ==
    ASSUME SwapInv, UNCHANGED <<binVars, proofVars>>
    PROVE  JournalInv' /\ UnprovenCanBeRolledBack'
BY DEF SwapInv, JournalInv, UnprovenCanBeRolledBack, binVars, proofVars

LEMMA InstallUntouched ==
    ASSUME SwapInv, UNCHANGED <<binVars, proofVars, iPc, iVer>>
    PROVE  InstallInv'
BY DEF SwapInv, InstallInv, binVars, proofVars

\* While the updater holds the lock, no install is at a place that relies on the
\* files.
LEMMA UpdaterExcludesInstall ==
    ASSUME SwapInv, uPc \in Holding, UNCHANGED <<iPc, iVer>>
    PROVE  InstallInv'
<1>1. iPc \notin InstallHolding
  BY DEF SwapInv, LockInv
<1> QED
  BY <1>1 DEF SwapInv, InstallInv, InstallHolding

\* The other way round.
LEMMA InstallExcludesUpdater ==
    ASSUME SwapInv, iPc \in InstallHolding
    PROVE  uPc \notin Holding
BY DEF SwapInv, LockInv

\* Steps of the appliance and its manager, and steps of nobody.
LEMMA Bystanders ==
    ASSUME SwapInv, UNCHANGED <<binVars, binLock, proofVars, uPc, uVer, uTo, iPc, iVer>>
    PROVE  SwapInv'
<1>1. LockInv'
  BY DEF SwapInv, LockInv
<1>2. UpdaterInv'
  BY DEF SwapInv, UpdaterInv, Settled, binVars, proofVars
<1> QED
  BY <1>1, <1>2, FilesUntouched, InstallUntouched DEF SwapInv

\* The updater moves on without writing beside the binary.
LEMMA UpdaterMoves ==
    ASSUME TypeOK, SwapInv,
           \/ UpdaterStarts \/ CheckBinDir \/ LockTimesOut \/ NoneInterrupted
           \/ RecoverInPlace \/ Revalidate \/ Claim \/ ClaimsNothing \/ VerifyStaged
           \/ RefuseStaged \/ NewRuns \/ RestartUnit \/ PollHealth \/ HealthTimesOut
           \/ ReportRollback \/ RestartRestored \/ Finish
    PROVE  SwapInv'
<1> USE DEF UpdaterStarts, CheckBinDir, LockTimesOut, NoneInterrupted, RecoverInPlace,
            Revalidate, Claim, ClaimsNothing, VerifyStaged, RefuseStaged, NewRuns,
            RestartUnit, Restart, PollHealth, HealthTimesOut, ReportRollback, Written,
            RestartRestored, Finish, Goto, Ends, Refused
<1>1. UNCHANGED <<binVars, binLock, proofVars, iPc, iVer>>
  BY DEF Elsewhere, instVars
<1>2. LockInv'
  BY <1>1 DEF SwapInv, LockInv, Holding
<1>3. UpdaterInv'
  <2>1. CASE UpdaterStarts \/ CheckBinDir \/ LockTimesOut
    BY <1>1, <2>1 DEF TypeOK, SwapInv, UpdaterInv
  <2>2. CASE NoneInterrupted \/ Revalidate \/ Claim \/ ClaimsNothing \/ RefuseStaged
    BY <1>1, <2>2 DEF SwapInv, UpdaterInv, binVars, Unreplaced
  <2>3. CASE RecoverInPlace
    <3>1. Settled
      BY <2>3 DEF SwapInv, UnprovenCanBeRolledBack, Settled
    <3> QED
      BY <1>1, <2>3, <3>1 DEF SwapInv, UpdaterInv, Settled, proofVars
  <2>4. CASE VerifyStaged
    <3>1. uTo' \in Versions /\ uVer' < uTo'
      BY <2>4, ConstantsAssumption DEF TypeOK, SwapInv, UpdaterInv, Acceptable, Versions
    <3> QED
      BY <1>1, <2>4, <3>1 DEF SwapInv, UpdaterInv, binVars
  <2>5. CASE NewRuns
    BY <1>1, <2>5 DEF SwapInv, UpdaterInv, binVars
  <2>6. CASE RestartUnit \/ PollHealth \/ HealthTimesOut
    BY <1>1, <2>6 DEF SwapInv, UpdaterInv, proofVars
  <2>7. CASE ReportRollback \/ RestartRestored \/ Finish
    BY <1>1, <2>7 DEF SwapInv, UpdaterInv
  <2> QED
    BY <2>1, <2>2, <2>3, <2>4, <2>5, <2>6, <2>7
<1> QED
  BY <1>1, <1>2, <1>3, FilesUntouched, InstallUntouched DEF SwapInv

\* The updater takes the lock, or gives it up at its end.
LEMMA UpdaterLocks ==
    ASSUME SwapInv, LockBin \/ Exit
    PROVE  SwapInv'
<1>1. UNCHANGED <<binVars, proofVars, iPc, iVer>>
  BY DEF LockBin, Exit, Elsewhere, instVars
<1>2. LockInv'
  BY DEF SwapInv, LockInv, LockBin, Exit, Goto, Idle, Elsewhere, instVars, Holding
<1>3. UpdaterInv'
  BY DEF SwapInv, UpdaterInv, LockBin, Exit, Goto, Idle
<1> QED
  BY <1>1, <1>2, <1>3, FilesUntouched, InstallUntouched DEF SwapInv

\* Up to the swap: the new copy, the kept copy and the journal, in this order.
LEMMA UpdaterPrepares ==
    ASSUME TypeOK, SwapInv, WriteNew \/ KeepPrev \/ WriteJournal \/ PrepareFails
    PROVE  SwapInv'
<1> USE DEF WriteNew, KeepPrev, WriteJournal, JournalWritten, PrepareFails, Goto, Refused
<1>1. /\ UNCHANGED <<bin, binLock, proofVars, iPc, iVer, uVer, uTo>>
      /\ uPc \in {"new", "probe", "keep", "journal"}
  BY DEF Elsewhere, instVars
<1>2. uPc \in Holding /\ journal = NoJournal /\ bin = uVer /\ uVer \in Versions
      /\ uTo \in Versions /\ uVer < uTo
  BY <1>1 DEF SwapInv, UpdaterInv, Holding
<1>3. Settled
  BY <1>2, ConstantsAssumption
  DEF SwapInv, UnprovenCanBeRolledBack, Settled, NoJournal, Versions
<1>4. InstallInv'
  BY <1>1, <1>2, UpdaterExcludesInstall
<1>5. LockInv'
  BY <1>1, <1>2 DEF SwapInv, LockInv
<1>6. UpdaterInv'
  <2>1. CASE WriteNew
    BY <1>1, <1>2, <2>1 DEF UpdaterInv
  <2>2. CASE KeepPrev
    BY <1>1, <1>2, <2>2 DEF SwapInv, UpdaterInv
  <2>3. CASE WriteJournal
    BY <1>1, <1>2, <1>3, <2>3 DEF SwapInv, UpdaterInv, Settled, proofVars
  <2>4. CASE PrepareFails
    BY <1>1, <1>2, <2>4 DEF UpdaterInv
  <2> QED
    BY <2>1, <2>2, <2>3, <2>4
<1>7. JournalInv'
  <2>1. CASE WriteJournal
    <3>1. journal'.from = uVer /\ journal'.to = uTo /\ bin' # uTo
      BY <1>1, <1>2, <2>1 DEF Versions
    <3> QED
      BY <1>2, <3>1 DEF JournalInv
  <2>2. CASE ~WriteJournal
    <3>1. journal' = NoJournal
      BY <1>2, <2>2
    <3> QED
      BY <3>1 DEF JournalInv, NoJournal
  <2> QED
    BY <2>1, <2>2
<1>8. UnprovenCanBeRolledBack'
  BY <1>1, <1>3 DEF UnprovenCanBeRolledBack, Settled, proofVars
<1> QED
  BY <1>4, <1>5, <1>6, <1>7, <1>8 DEF SwapInv

\* The swap itself.
LEMMA UpdaterSwaps ==
    ASSUME TypeOK, SwapInv, Swap \/ SwapFails
    PROVE  SwapInv' /\ (bin' = bin \/ bin < bin')
<1> USE DEF Swap, SwapFails, Goto, Refused
<1>1. UNCHANGED <<prev, binLock, iPc, iVer, uVer, uTo>> /\ uPc = "swap"
  BY DEF Elsewhere, instVars
<1>2. /\ uPc \in Holding /\ bin = uVer /\ new = uTo /\ prev = uVer
      /\ journal = [from |-> uVer, to |-> uTo] /\ Settled
      /\ uVer \in Versions /\ uTo \in Versions /\ uVer < uTo
  BY <1>1 DEF SwapInv, UpdaterInv, Holding
<1>3. InstallInv'
  BY <1>1, <1>2, UpdaterExcludesInstall
<1>4. LockInv'
  BY <1>1, <1>2 DEF SwapInv, LockInv
<1>5. UpdaterInv'
  BY <1>1, <1>2 DEF UpdaterInv
<1>6. CASE Swap
  <2>1. bin' = uTo /\ journal' = journal /\ prev' = uVer /\ unproven' = TRUE
    BY <1>1, <1>2, <1>6
  <2>2. JournalInv' /\ UnprovenCanBeRolledBack'
    BY <1>2, <2>1 DEF JournalInv, UnprovenCanBeRolledBack
  <2> QED
    BY <1>2, <1>3, <1>4, <1>5, <2>1, <2>2 DEF SwapInv
<1>7. CASE SwapFails
  <2>1. bin' = bin /\ journal' = NoJournal /\ UNCHANGED proofVars
    BY <1>7
  <2>2. JournalInv' /\ UnprovenCanBeRolledBack'
    BY <1>2, <2>1 DEF JournalInv, UnprovenCanBeRolledBack, Settled, proofVars
  <2> QED
    BY <1>3, <1>4, <1>5, <2>1, <2>2 DEF SwapInv
<1> QED
  BY <1>6, <1>7

\* The kept copy goes back over the binary, by a rollback or by the recovery of a
\* run that was cut off: only over a version never seen healthy.
LEMMA UpdaterRestores ==
    ASSUME TypeOK, SwapInv, Rollback \/ RecoverRenames
    PROVE  SwapInv' /\ (bin' = bin \/ (unproven /\ bin' = journal.from))
<1> USE DEF Rollback, RecoverRenames, Ends
<1>1. /\ UNCHANGED <<journal, binLock, iPc, iVer, uVer, uTo>>
      /\ uPc \in {"rollback", "look"} /\ uPc' = "clear"
  BY DEF Elsewhere, instVars, Restored, RestoreFails, binVars
<1>2. uPc \in Holding
  BY <1>1 DEF Holding
<1>3. unproven /\ bin = journal.to /\ prev = journal.from
  <2>1. CASE Rollback
    BY <2>1 DEF SwapInv, UpdaterInv, UnprovenCanBeRolledBack
  <2>2. CASE RecoverRenames
    BY <2>2 DEF SwapInv, JournalInv
  <2> QED
    BY <2>1, <2>2
<1>4. journal # NoJournal
  <2>1. CASE Rollback
    BY <2>1, Bounds DEF SwapInv, UpdaterInv, UnprovenCanBeRolledBack
  <2> QED
    BY <2>1
<1>5. journal.from \in Versions /\ journal.to \in Versions /\ journal.from < journal.to
  BY <1>4 DEF SwapInv, JournalInv
<1>6. InstallInv'
  BY <1>1, <1>2, UpdaterExcludesInstall
<1>7. LockInv'
  BY <1>1, <1>2 DEF SwapInv, LockInv
<1>8. Restored \/ RestoreFails
  OBVIOUS
<1>9. Settled'
  BY <1>8 DEF Settled, Restored, RestoreFails
<1>10. uVer \in Versions
  BY <1>1 DEF SwapInv, UpdaterInv
<1>11. UpdaterInv'
  BY <1>1, <1>9, <1>10 DEF UpdaterInv
<1>12. CASE Restored
  <2>1. bin' = journal.from /\ journal' = journal /\ unproven' = FALSE
    BY <1>3, <1>12 DEF Restored
  <2>2. bin' # journal'.to
    BY <1>5, <2>1 DEF Versions
  <2>3. JournalInv' /\ UnprovenCanBeRolledBack'
    BY <1>5, <2>1, <2>2 DEF JournalInv, UnprovenCanBeRolledBack
  <2> QED
    BY <1>3, <1>6, <1>7, <1>11, <2>1, <2>3 DEF SwapInv
<1>13. CASE RestoreFails
  <2>1. UNCHANGED <<bin, prev, journal, unproven>> /\ gaveUp' = TRUE
    BY <1>13 DEF RestoreFails, binVars
  <2>2. JournalInv' /\ UnprovenCanBeRolledBack'
    BY <2>1 DEF SwapInv, JournalInv, UnprovenCanBeRolledBack
  <2> QED
    BY <1>6, <1>7, <1>11, <2>1, <2>2 DEF SwapInv
<1> QED
  BY <1>8, <1>12, <1>13

\* The journal goes: the version is confirmed, or there is nothing to roll back.
LEMMA UpdaterClears ==
    ASSUME SwapInv, Commit \/ ClearJournal
    PROVE  SwapInv' /\ bin' = bin
<1> USE DEF Commit, ClearJournal, Goto, Ends
<1>1. /\ UNCHANGED <<bin, prev, binLock, iPc, iVer, uVer, uTo>> /\ journal' = NoJournal
      /\ uPc \in {"commit", "clear"} /\ uPc' \in {"finish", "report"}
      /\ uPc = "clear" => uPc' = "report" /\ UNCHANGED proofVars
      /\ uPc = "commit" => unproven' = FALSE
  BY DEF Elsewhere, instVars
<1>2. uPc \in Holding /\ (uPc = "clear" => Settled) /\ uVer \in Versions
  BY <1>1 DEF SwapInv, UpdaterInv, Holding
<1>3. Settled'
  BY <1>1, <1>2 DEF Settled, proofVars
<1>4. InstallInv' /\ LockInv'
  BY <1>1, <1>2, UpdaterExcludesInstall DEF SwapInv, LockInv
<1>5. UpdaterInv'
  BY <1>1, <1>2 DEF UpdaterInv
<1>6. JournalInv' /\ UnprovenCanBeRolledBack'
  BY <1>1, <1>3 DEF JournalInv, UnprovenCanBeRolledBack, Settled
<1> QED
  BY <1>1, <1>4, <1>5, <1>6 DEF SwapInv

\* The steps of an install, which never goes back to an older version.
LEMMA InstallSwap ==
    ASSUME TypeOK, SwapInv, (\E v \in Versions : InstallStarts(v)) \/ InstallSteps
    PROVE  SwapInv' /\ (bin' = bin \/ bin <= bin')
<1>0. UNCHANGED <<uPc, uVer, uTo, new>>
  BY DEF InstallSteps, InstallStarts, InstallLocks, InstallBusy, CheckDowngrade,
         DropKeptCopy, CopyBinary, InstallFails, DropJournal, WithdrawStagedRequest,
         updVars, binVars
<1>1. CASE \/ (\E v \in Versions : InstallStarts(v)) \/ InstallLocks \/ InstallBusy
           \/ CheckDowngrade \/ InstallFails \/ WithdrawStagedRequest
  <2> USE DEF InstallStarts, InstallLocks, TakeLock, InstallBusy, CheckDowngrade,
              InstallFails, WithdrawStagedRequest, InstallDone, InstallGoto
  <2>1. UNCHANGED <<binVars, proofVars>>
    BY <1>1
  <2>2. LockInv'
    BY <1>0, <1>1 DEF SwapInv, LockInv, Holding, InstallHolding
  <2>3. UpdaterInv'
    BY <1>0, <2>1 DEF SwapInv, UpdaterInv, Settled, binVars, proofVars
  <2>4. InstallInv'
    BY <1>1, <2>1 DEF SwapInv, InstallInv, NotNewer, binVars, proofVars
  <2> QED
    BY <2>1, <2>2, <2>3, <2>4, FilesUntouched DEF SwapInv, binVars
<1>2. CASE DropKeptCopy \/ CopyBinary \/ DropJournal
  <2> USE DEF DropKeptCopy, CopyBinary, DropJournal, InstallGoto
  <2>1. /\ iPc \in {"drop", "copy", "journal"} /\ iPc' \in {"copy", "journal", "withdraw"}
        /\ UNCHANGED <<binLock, iVer>>
    BY <1>2
  <2>2. iPc \in InstallHolding /\ iPc' \in InstallHolding /\ uPc \notin Holding
        /\ iVer \in Versions
    BY <2>1, InstallExcludesUpdater DEF InstallHolding, SwapInv, InstallInv
  <2>3. LockInv'
    BY <1>0, <2>1, <2>2 DEF SwapInv, LockInv
  <2>4. UpdaterInv'
    BY <1>0, <2>2 DEF SwapInv, UpdaterInv, Holding
  <2>5. CASE DropKeptCopy
    <3>1. UNCHANGED <<bin, journal, unproven>> /\ iPc = "drop" /\ iPc' = "copy"
          /\ IF journal # NoJournal THEN prev' = 0 /\ gaveUp' ELSE UNCHANGED <<prev, gaveUp>>
      BY <2>5 DEF TypeOK
    <3>2. InstallInv'
      BY <2>1, <2>2, <3>1 DEF SwapInv, InstallInv
    <3>3. JournalInv'
      BY <3>1, Bounds DEF SwapInv, JournalInv
    <3>4. UnprovenCanBeRolledBack'
      BY <3>1 DEF SwapInv, UnprovenCanBeRolledBack
    <3> QED
      BY <2>3, <2>4, <3>1, <3>2, <3>3, <3>4 DEF SwapInv
  <2>6. CASE CopyBinary
    <3>1. /\ UNCHANGED <<prev, journal, gaveUp>> /\ iPc = "copy" /\ iPc' = "journal"
          /\ bin' = iVer /\ unproven' = FALSE
      BY <2>6
    <3>2. InstallInv'
      BY <2>1, <2>2, <3>1 DEF InstallInv
    <3>3. journal # NoJournal => prev = 0
      BY <3>1 DEF SwapInv, InstallInv
    <3>4. JournalInv'
      BY <3>1, <3>3, Bounds DEF SwapInv, JournalInv
    <3>5. UnprovenCanBeRolledBack'
      BY <3>1 DEF UnprovenCanBeRolledBack
    <3>6. bin <= bin'
      BY <3>1 DEF SwapInv, InstallInv
    <3> QED
      BY <2>3, <2>4, <3>2, <3>4, <3>5, <3>6 DEF SwapInv
  <2>7. CASE DropJournal
    <3>1. UNCHANGED <<bin, prev, proofVars>> /\ journal' \in {journal, NoJournal}
          /\ iPc = "journal" /\ iPc' = "withdraw"
      BY <2>7
    <3>2. ~unproven
      BY <3>1 DEF SwapInv, InstallInv
    <3>3. InstallInv'
      BY <2>1, <2>2, <3>1 DEF InstallInv
    <3>4. JournalInv' /\ UnprovenCanBeRolledBack'
      BY <3>1, <3>2 DEF SwapInv, JournalInv, UnprovenCanBeRolledBack, proofVars
    <3> QED
      BY <2>3, <2>4, <3>1, <3>3, <3>4 DEF SwapInv
  <2> QED
    BY <1>2, <2>5, <2>6, <2>7
<1> QED
  BY <1>1, <1>2 DEF InstallSteps

\* Kills and cuts: the files stay, the lock goes with its holder.
LEMMA CutSwap ==
    ASSUME SwapInv, UpdaterKilled \/ InstallKilled \/ PowerCut
    PROVE  SwapInv' /\ bin' = bin
<1> USE DEF UpdaterKilled, InstallKilled, PowerCut, Unlocked, Idle, InstallDone
<1>1. UNCHANGED <<binVars, proofVars>>
  OBVIOUS
<1>2. LockInv'
  BY DEF SwapInv, LockInv, Holding, InstallHolding, updVars, instVars
<1>3. UpdaterInv'
  BY <1>1 DEF SwapInv, UpdaterInv, Settled, binVars, proofVars, updVars
<1>4. InstallInv'
  BY <1>1 DEF SwapInv, InstallInv, binVars, proofVars, instVars
<1> QED
  BY <1>1, <1>2, <1>3, <1>4, FilesUntouched DEF SwapInv, binVars

\* Every step keeps the invariant on the files, and takes the binary back only to
\* what an unproven version replaced.
LEMMA StepSwap ==
    ASSUME TypeOK, SwapInv, [Next]_vars
    PROVE  SwapInv' /\ (bin' < bin => unproven /\ bin' = journal.from)
<1>1. CASE ApplianceNext
  <2>1. UNCHANGED <<binVars, binLock, proofVars, updVars, instVars>>
    BY <1>1
    DEF ApplianceNext, Start, Die, WithdrawOrphanedRequest, BootHealth, BootLive,
        BootReport, BootClean, WatchReports, WatchEnds
  <2>2. SwapInv' /\ bin' = bin
    BY <2>1, Bystanders DEF updVars, instVars, binVars
  <2> QED
    BY <2>2 DEF TypeOK, Versions
<1>2. CASE ManagerNext
  <2>1. UNCHANGED <<binVars, binLock, proofVars, updVars, instVars>>
    BY <1>2
    DEF ManagerNext, StageNext, AwaitNext, StartApply, StageClean, StageRelease,
        StageFails, StageRequest, AwaitTakes, AwaitWithdraws, AwaitGivesUp
  <2>2. SwapInv' /\ bin' = bin
    BY <2>1, Bystanders DEF updVars, instVars, binVars
  <2> QED
    BY <2>2 DEF TypeOK, Versions
<1>3. CASE UNCHANGED vars
  <2>1. SwapInv' /\ bin' = bin
    BY <1>3, Bystanders DEF vars, updVars, instVars, binVars
  <2> QED
    BY <2>1 DEF TypeOK, Versions
<1>4. CASE UpdaterKilled \/ InstallKilled \/ PowerCut
  BY <1>4, CutSwap DEF TypeOK, Versions
<1>5. CASE (\E v \in Versions : InstallStarts(v)) \/ InstallSteps
  <2>1. SwapInv' /\ (bin' = bin \/ bin <= bin')
    BY <1>5, InstallSwap
  <2>2. TypeOK'
    BY <1>5, InstallStepTypes DEF SwapInv
  <2> QED
    BY <2>1, <2>2 DEF TypeOK, Versions
<1>6. CASE UpdaterStarts \/ PrepareNext \/ SwapNext
  <2>0. bin \in Nat /\ bin' \in Nat
    BY <1>6, UpdaterStepTypes DEF SwapInv, TypeOK, Versions
  <2>1. CASE \/ UpdaterStarts \/ CheckBinDir \/ LockTimesOut \/ NoneInterrupted
             \/ RecoverInPlace \/ Revalidate \/ Claim \/ ClaimsNothing \/ VerifyStaged
             \/ RefuseStaged \/ NewRuns \/ RestartUnit \/ PollHealth \/ HealthTimesOut
             \/ ReportRollback \/ RestartRestored \/ Finish
    <3>1. bin' = bin
      BY <2>1
      DEF UpdaterStarts, CheckBinDir, LockTimesOut, NoneInterrupted, RecoverInPlace,
          Revalidate, Claim, ClaimsNothing, VerifyStaged, RefuseStaged, NewRuns,
          RestartUnit, PollHealth, HealthTimesOut, ReportRollback, RestartRestored,
          Finish, binVars
    <3> QED
      BY <2>0, <2>1, <3>1, UpdaterMoves
  <2>2. CASE LockBin \/ Exit
    <3>1. bin' = bin
      BY <2>2 DEF LockBin, Exit, binVars
    <3> QED
      BY <2>0, <2>2, <3>1, UpdaterLocks
  <2>3. CASE WriteNew \/ KeepPrev \/ WriteJournal \/ PrepareFails
    <3>1. bin' = bin
      BY <2>3 DEF WriteNew, KeepPrev, WriteJournal, PrepareFails
    <3> QED
      BY <2>0, <2>3, <3>1, UpdaterPrepares
  <2>4. CASE Swap \/ SwapFails
    BY <2>0, <2>4, UpdaterSwaps
  <2>5. CASE Rollback \/ RecoverRenames
    BY <2>0, <2>5, UpdaterRestores
  <2>6. CASE Commit \/ ClearJournal
    BY <2>0, <2>6, UpdaterClears
  <2> QED
    BY <1>6, <2>1, <2>2, <2>3, <2>4, <2>5, <2>6 DEF PrepareNext, SwapNext
<1> QED
  BY <1>1, <1>2, <1>3, <1>4, <1>5, <1>6 DEF Next

-----------------------------------------------------------------------------
(* The claim on a request and its withdrawal *)

\* No step but a few of the manager's and the claim makes a request, a claim on it
\* or an attempt.
LEMMA ClaimKept ==
    ASSUME ClaimInv, request' => request, mine' => mine,
           phase' = phase \/ phase' \in {"idle", "tried"}
    PROVE  ClaimInv'
BY DEF ClaimInv

LEMMA StepClaim ==
    ASSUME TypeOK, ClaimInv, [Next]_vars
    PROVE  ClaimInv'
<1>1. CASE ApplianceNext
  <2>1. /\ (request' => request) /\ (mine' => mine)
        /\ phase' = phase \/ phase' \in {"idle", "tried"}
    BY <1>1
    DEF ApplianceNext, Start, Started, Die, Stopped, WithdrawOrphanedRequest,
        BootHealth, BootLive, BootReport, BootClean, Cleaned, WatchReports, WatchEnds,
        stagingVars, mgrVars
  <2> QED
    BY <2>1, ClaimKept
<1>2. CASE ManagerNext
  <2>1. CASE \E v \in Versions : StartApply(v)
    BY <2>1 DEF StartApply, ClaimInv
  <2>2. CASE StageClean \/ StageRelease
    BY <2>2 DEF StageClean, StageRelease, ClaimInv
  <2>3. CASE StageRequest
    BY <2>3 DEF StageRequest, ClaimInv
  <2>4. CASE AwaitWithdraws
    BY <2>4 DEF AwaitWithdraws, ClaimInv, TypeOK
  <2>5. CASE StageFails \/ AwaitTakes \/ AwaitGivesUp
    <3>1. /\ (request' => request) /\ (mine' => mine)
          /\ phase' = phase \/ phase' \in {"idle", "tried"}
      <4>1. CASE StageFails
        BY <4>1 DEF StageFails, Cleaned
      <4>2. CASE AwaitTakes
        BY <4>2 DEF AwaitTakes
      <4>3. CASE AwaitGivesUp
        BY <4>3 DEF AwaitGivesUp, stagingVars
      <4> QED
        BY <2>5, <4>1, <4>2, <4>3
    <3> QED
      BY <3>1, ClaimKept
  <2> QED
    BY <1>2, <2>1, <2>2, <2>3, <2>4, <2>5 DEF ManagerNext, StageNext, AwaitNext
<1>3. CASE Claim
  <2>1. request' = FALSE /\ mine' = Waiting /\ phase' = phase
    BY <1>3 DEF Claim, ClaimFile, Elsewhere, appVars, mgrVars
  <2> QED
    BY <2>1 DEF ClaimInv, Waiting
<1>4. CASE (UpdaterStarts \/ PrepareNext \/ SwapNext) /\ ~Claim
  <2>1. request' => request
    BY <1>4
    DEF UpdaterStarts, PrepareNext, SwapNext, CheckBinDir, LockBin, LockTimesOut,
        NoneInterrupted, RecoverInPlace, RecoverRenames, Revalidate, ClaimsNothing,
        VerifyStaged, RefuseStaged, WriteNew, NewRuns, KeepPrev, WriteJournal,
        PrepareFails, Swap, SwapFails, RestartUnit, PollHealth, HealthTimesOut, Commit,
        Rollback, ClearJournal, ReportRollback, RestartRestored, Finish, Exit, stagingVars
  <2>2. mine' => mine
    BY <1>4
    DEF UpdaterStarts, PrepareNext, SwapNext, CheckBinDir, LockBin, LockTimesOut,
        NoneInterrupted, RecoverInPlace, RecoverRenames, Revalidate, ClaimsNothing,
        VerifyStaged, RefuseStaged, WriteNew, NewRuns, KeepPrev, WriteJournal,
        PrepareFails, Swap, SwapFails, RestartUnit, Restart,
        PollHealth, HealthTimesOut, Commit, Rollback, ClearJournal, ReportRollback,
        RestartRestored, Finish, Exit
  <2>3. phase' = phase \/ phase' \in {"idle", "tried"}
    BY <1>4
    DEF UpdaterStarts, PrepareNext, SwapNext, CheckBinDir, LockBin, LockTimesOut,
        NoneInterrupted, RecoverInPlace, RecoverRenames, Revalidate, ClaimsNothing,
        VerifyStaged, RefuseStaged, WriteNew, NewRuns, KeepPrev, WriteJournal,
        PrepareFails, Swap, SwapFails, RestartUnit, Restart, Started, Stopped,
        PollHealth, HealthTimesOut, Commit, Rollback, ClearJournal, ReportRollback,
        RestartRestored, Finish, Exit, Elsewhere, appVars, mgrVars
  <2> QED
    BY <2>1, <2>2, <2>3, ClaimKept
<1>5. CASE (\E v \in Versions : InstallStarts(v)) \/ InstallSteps
  <2>1. /\ (request' => request) /\ (mine' => mine)
        /\ phase' = phase \/ phase' \in {"idle", "tried"}
    BY <1>5
    DEF InstallSteps, InstallStarts, InstallLocks, InstallBusy, CheckDowngrade,
        DropKeptCopy, CopyBinary, InstallFails, DropJournal, WithdrawStagedRequest,
        stagingVars, appVars, mgrVars
  <2> QED
    BY <2>1, ClaimKept
<1>6. CASE UpdaterKilled \/ InstallKilled \/ PowerCut \/ UNCHANGED vars
  <2>1. /\ (request' => request) /\ (mine' => mine)
        /\ phase' = phase \/ phase' \in {"idle", "tried"}
    BY <1>6
    DEF UpdaterKilled, InstallKilled, PowerCut, Stopped, vars, stagingVars, appVars, mgrVars
  <2> QED
    BY <2>1, ClaimKept
<1> QED
  BY <1>1, <1>2, <1>3, <1>4, <1>5, <1>6 DEF Next, PrepareNext

-----------------------------------------------------------------------------
(* The word of the process that runs now *)

\* A process has an ID while there is one; a health file with that ID is of its
\* version, and written once it was up.
HealthInv ==
    /\ aPc # "down" => pid # NoPid
    /\ health.pid = NoPid => health = NoHealth
    /\ health.pid # NoPid /\ health.pid = pid =>
          health.version = aVer /\ aPc \notin {"down", "start", "boot"}

\* From the swap to the commit the binary is the version the updater installs.
SwappedInv == uPc \in {"restart", "await", "commit"} => bin = uTo

WordInv == HealthInv /\ SwappedInv

\* Steps that leave the appliance's process and the health file alone.
LEMMA HealthUntouched ==
    ASSUME HealthInv, UNCHANGED <<health, procVars>>
    PROVE  HealthInv'
BY DEF HealthInv, procVars

\* A process that starts has an ID the health file does not; one that stops, none.
LEMMA HealthRestarted ==
    ASSUME TypeOK, HealthInv, health' = health, Started \/ Stopped
    PROVE  HealthInv'
<1>1. CASE Started
  <2>1. Pids \ {health.pid, uCand} # {}
    BY ConstantsAssumption DEF TypeOK
  <2>2. FreshPid \in Pids /\ FreshPid # health.pid
    BY <2>1 DEF FreshPid
  <2>3. pid' # NoPid /\ pid' # health'.pid
    BY <1>1, <2>2, ConstantsAssumption DEF Started
  <2> QED
    BY <2>3 DEF HealthInv
<1>2. CASE Stopped
  BY <1>2 DEF Stopped, HealthInv
<1> QED
  BY <1>1, <1>2

\* The updater removes the health file before it swaps.
LEMMA HealthRemoved ==
    ASSUME TypeOK, HealthInv, health' = NoHealth, UNCHANGED procVars
    PROVE  HealthInv'
BY DEF HealthInv, NoHealth, procVars

LEMMA StepHealth ==
    ASSUME TypeOK, HealthInv, [Next]_vars
    PROVE  HealthInv'
<1>1. CASE ApplianceNext
  <2>1. CASE Start \/ Die
    BY <2>1, HealthRestarted DEF Start, Die, stagingVars
  <2>2. CASE BootHealth
    <3>1. /\ aPc = "boot" /\ aPc' = "look" /\ UNCHANGED <<aVer, pid>>
          /\ health' = [version |-> aVer, pid |-> pid] \/ health' = health
      BY <2>2 DEF BootHealth
    <3> QED
      BY <3>1 DEF HealthInv
  <2>3. CASE WithdrawOrphanedRequest
    BY <2>3 DEF WithdrawOrphanedRequest, HealthInv
  <2>4. CASE BootLive \/ BootReport \/ BootClean \/ WatchReports \/ WatchEnds
    <3>1. /\ UNCHANGED <<health, aVer, pid>> /\ aPc \notin {"down", "start", "boot"}
          /\ aPc' \notin {"down", "start", "boot"}
      BY <2>4 DEF BootLive, BootReport, BootClean, WatchReports, WatchEnds, stagingVars
    <3> QED
      BY <3>1 DEF HealthInv
  <2> QED
    BY <1>1, <2>1, <2>2, <2>3, <2>4 DEF ApplianceNext
<1>2. CASE ManagerNext
  <2>1. UNCHANGED <<health, procVars>>
    BY <1>2 DEF ManagerNext, StageNext, AwaitNext, StartApply, StageClean, StageRelease,
                StageFails, StageRequest, AwaitTakes, AwaitWithdraws, AwaitGivesUp, stagingVars
  <2> QED
    BY <2>1, HealthUntouched
<1>3. CASE UpdaterStarts \/ PrepareNext
  <2>1. UNCHANGED <<health, procVars>>
    BY <1>3 DEF UpdaterStarts, PrepareNext, CheckBinDir, LockBin, LockTimesOut, NoneInterrupted,
                RecoverInPlace, RecoverRenames, Revalidate, Claim, ClaimsNothing, VerifyStaged,
                RefuseStaged, WriteNew, NewRuns, KeepPrev, WriteJournal, PrepareFails,
                stagingVars, Elsewhere, appVars
  <2> QED
    BY <2>1, HealthUntouched
<1>4. CASE Swap \/ SwapFails
  BY <1>4, HealthRemoved DEF Swap, SwapFails, Elsewhere, appVars
<1>5. CASE RestartUnit \/ RestartRestored
  <2>1. health' = health /\ (Started \/ Stopped \/ UNCHANGED procVars)
    BY <1>5 DEF RestartUnit, RestartRestored, Restart, stagingVars, appVars
  <2> QED
    BY <2>1, HealthRestarted, HealthUntouched
<1>6. CASE SwapNext /\ ~(Swap \/ SwapFails \/ RestartUnit \/ RestartRestored)
  <2>1. UNCHANGED <<health, procVars>>
    BY <1>6 DEF SwapNext, PollHealth, HealthTimesOut, Commit, Rollback, ClearJournal,
                ReportRollback, Finish, Exit, stagingVars, Elsewhere, appVars
  <2> QED
    BY <2>1, HealthUntouched
<1>7. CASE \/ (\E v \in Versions : InstallStarts(v)) \/ InstallSteps
           \/ UpdaterKilled \/ InstallKilled \/ UNCHANGED vars
  <2>1. UNCHANGED <<health, procVars>>
    BY <1>7 DEF InstallSteps, InstallStarts, InstallLocks, InstallBusy, CheckDowngrade,
                DropKeptCopy, CopyBinary, InstallFails, DropJournal, WithdrawStagedRequest,
                UpdaterKilled, InstallKilled, vars, stagingVars, appVars
  <2> QED
    BY <2>1, HealthUntouched
<1>8. CASE PowerCut
  BY <1>8, HealthRestarted DEF PowerCut, stagingVars
<1> QED
  BY <1>1, <1>2, <1>3, <1>4, <1>5, <1>6, <1>7, <1>8 DEF Next

LEMMA StepSwapped ==
    ASSUME SwapInv, SwappedInv, [Next]_vars
    PROVE  SwappedInv'
<1>1. CASE ApplianceNext \/ ManagerNext
  <2>1. UNCHANGED <<bin, uPc, uTo>>
    BY <1>1 DEF ApplianceNext, Start, Die, WithdrawOrphanedRequest, BootHealth, BootLive,
                BootReport, BootClean, WatchReports, WatchEnds,
                ManagerNext, StageNext, AwaitNext, StartApply, StageClean, StageRelease,
                StageFails, StageRequest, AwaitTakes, AwaitWithdraws, AwaitGivesUp, binVars, updVars
  <2> QED
    BY <2>1 DEF SwappedInv
<1>2. CASE UpdaterStarts \/ PrepareNext
  <2>1. uPc' \notin {"restart", "await", "commit"}
    BY <1>2 DEF UpdaterStarts, PrepareNext, CheckBinDir, LockBin, LockTimesOut, NoneInterrupted,
                RecoverInPlace, RecoverRenames, Revalidate, Claim, ClaimsNothing, VerifyStaged,
                RefuseStaged, WriteNew, NewRuns, KeepPrev, WriteJournal, JournalWritten, PrepareFails,
                Goto, Refused
  <2> QED
    BY <2>1 DEF SwappedInv
<1>3. CASE Swap
  <2>1. uPc = "swap" /\ bin' = new /\ uTo' = uTo
    BY <1>3 DEF Swap, Goto
  <2>2. new = uTo
    BY <2>1 DEF SwapInv, UpdaterInv
  <2> QED
    BY <2>1, <2>2 DEF SwappedInv
<1>4. CASE RestartUnit \/ PollHealth
  <2>1. uPc \in {"restart", "await"} /\ UNCHANGED <<bin, uTo>>
    BY <1>4 DEF RestartUnit, Restart, PollHealth, Goto, binVars
  <2> QED
    BY <2>1 DEF SwappedInv
<1>5. CASE SwapNext /\ ~(Swap \/ RestartUnit \/ PollHealth)
  <2>1. uPc' \notin {"restart", "await", "commit"}
    BY <1>5 DEF SwapNext, SwapFails, HealthTimesOut, Commit, Rollback, ClearJournal,
                ReportRollback, RestartRestored, Restart, Finish, Exit, Written, Goto, Ends, Refused, Idle
  <2> QED
    BY <2>1 DEF SwappedInv
<1>6. CASE CopyBinary
  <2>1. iPc \in InstallHolding /\ uPc' = uPc
    BY <1>6 DEF CopyBinary, InstallHolding, updVars
  <2>2. uPc \notin Holding
    BY <2>1, InstallExcludesUpdater
  <2> QED
    BY <2>1, <2>2 DEF SwappedInv, Holding
<1>7. CASE ((\E v \in Versions : InstallStarts(v)) \/ InstallSteps) /\ ~CopyBinary
  <2>1. UNCHANGED <<bin, uPc, uTo>>
    BY <1>7 DEF InstallSteps, InstallStarts, InstallLocks, InstallBusy, CheckDowngrade,
                DropKeptCopy, InstallFails, DropJournal, WithdrawStagedRequest, binVars, updVars
  <2> QED
    BY <2>1 DEF SwappedInv
<1>8. CASE UpdaterKilled \/ PowerCut
  BY <1>8 DEF UpdaterKilled, PowerCut, Idle, SwappedInv
<1>9. CASE InstallKilled \/ UNCHANGED vars
  <2>1. UNCHANGED <<bin, uPc, uTo>>
    BY <1>9 DEF InstallKilled, vars, binVars, updVars
  <2> QED
    BY <2>1 DEF SwappedInv
<1> QED
  BY <1>1, <1>2, <1>3, <1>4, <1>5, <1>6, <1>7, <1>8, <1>9 DEF Next, InstallSteps

-----------------------------------------------------------------------------
(* Theorems *)

\* The state of updater, appliance and installer keeps its types, and whatever is
\* cut off where: the lock excludes, each process knows of the files what its place
\* says, and the journal tells the next updater the truth.
THEOREM UpdateInvariant == Spec => []UpdateInv
<1>1. Init => UpdateInv
  BY InitTypes, InitSwap DEF UpdateInv, Init, ClaimInv
<1>2. UpdateInv /\ [Next]_vars => UpdateInv'
  <2> SUFFICES ASSUME UpdateInv, [Next]_vars PROVE UpdateInv'
    OBVIOUS
  <2>1. TypeOK /\ SwapInv /\ ClaimInv /\ UpdaterInv /\ InstallInv
    BY DEF UpdateInv, SwapInv
  <2> QED
    BY <2>1, StepTypes, StepSwap, StepClaim DEF UpdateInv
<1> QED
  BY <1>1, <1>2, PTL DEF Spec

\* The variables keep their types (SelfUpdate's TypeOK): the updater never swaps in
\* a file that is not there.
THEOREM TypeCorrect == Spec => []TypeOK
<1>1. UpdateInv => TypeOK
  BY DEF UpdateInv
<1> QED
  BY <1>1, UpdateInvariant, PTL

\* However often and wherever the updater, an install or the machine is cut off, a
\* version swapped in by apply.go's install and not yet seen healthy has its journal
\* and its kept copy.
THEOREM WayBackKept == Spec => []UnprovenCanBeRolledBack
<1>1. UpdateInv => UnprovenCanBeRolledBack
  BY DEF UpdateInv, SwapInv
<1> QED
  BY <1>1, UpdateInvariant, PTL

\* No writer of the binary, updater, recovery or service install, takes it back to
\* an older version, but for rolling back one never seen healthy to the version it
\* replaced.
THEOREM NoDowngrade == Spec => NeverDowngraded
<1>1. UpdateInv /\ [Next]_vars => [bin' < bin => unproven /\ bin' = journal.from]_vars
  BY StepSwap DEF UpdateInv
<1> QED
  BY <1>1, UpdateInvariant, PTL DEF Spec, NeverDowngraded

\* The updater's claim (a rename) and awaitUpdater's withdrawal never both succeed.
THEOREM WithdrawalIsFinal == Spec => []WithdrawnIsNotInstalled
<1>1. UpdateInv => WithdrawnIsNotInstalled
  BY DEF UpdateInv, ClaimInv, WithdrawnIsNotInstalled
<1> QED
  BY <1>1, UpdateInvariant, PTL

\* A health file with the main process's ID is that process's word: awaitHealthy
\* reads version and ID, Boot writes them, and the updater removes an older file
\* before it swaps.
THEOREM WordInvariant == Spec => []WordInv
<1>1. Init => WordInv
  BY DEF Init, WordInv, HealthInv, SwappedInv, NoHealth
<1>2. UpdateInv /\ WordInv /\ [Next]_vars => WordInv'
  BY StepHealth, StepSwapped DEF UpdateInv, WordInv
<1> QED
  BY <1>1, <1>2, UpdateInvariant, PTL DEF Spec

\* The updater commits only to what runs: the process whose health file it read is
\* the main process, of the version installed, and has come up (PollHealth, from
\* awaitHealthy in internal/update/apply.go).
THEOREM CommitsToWhatRuns == Spec => KeptMeansUp
<1>1. WordInv /\ [Next]_vars =>
        [uPc = "await" /\ uPc' = "commit" => aVer = uTo /\ aVer = bin /\ aPc \notin {"down", "start", "boot"}]_vars
  <2> SUFFICES ASSUME WordInv, Next, uPc = "await", uPc' = "commit"
               PROVE  aVer = uTo /\ aVer = bin /\ aPc \notin {"down", "start", "boot"}
    OBVIOUS
  <2>1. PollHealth
    <3>1. CASE ApplianceNext \/ ManagerNext
      BY <3>1 DEF ApplianceNext, Start, Die, WithdrawOrphanedRequest, BootHealth, BootLive,
                  BootReport, BootClean, WatchReports, WatchEnds,
                  ManagerNext, StageNext, AwaitNext, StartApply, StageClean, StageRelease,
                  StageFails, StageRequest, AwaitTakes, AwaitWithdraws, AwaitGivesUp, updVars
    <3>2. CASE UpdaterStarts \/ PrepareNext
      BY <3>2 DEF UpdaterStarts, PrepareNext, CheckBinDir, LockBin, LockTimesOut, NoneInterrupted,
                  RecoverInPlace, RecoverRenames, Revalidate, Claim, ClaimsNothing, VerifyStaged,
                  RefuseStaged, WriteNew, NewRuns, KeepPrev, WriteJournal, PrepareFails
    <3>3. CASE SwapNext
      BY <3>3 DEF SwapNext, Swap, SwapFails, RestartUnit, HealthTimesOut, Goto, Commit, Rollback,
                  ClearJournal, ReportRollback, RestartRestored, Finish, Exit
    <3>4. CASE (\E v \in Versions : InstallStarts(v)) \/ InstallSteps
      BY <3>4 DEF InstallSteps, InstallStarts, InstallLocks, InstallBusy, CheckDowngrade, DropKeptCopy,
                  CopyBinary, InstallFails, DropJournal, WithdrawStagedRequest, updVars
    <3>5. CASE UpdaterKilled \/ InstallKilled \/ PowerCut
      BY <3>5 DEF UpdaterKilled, InstallKilled, PowerCut, Idle, updVars
    <3> QED
      BY <3>1, <3>2, <3>3, <3>4, <3>5 DEF Next
  <2>2. health # NoHealth /\ IsCandidate
    BY <2>1 DEF PollHealth
  <2>3. health.version = aVer /\ aPc \notin {"down", "start", "boot"}
    BY <2>2 DEF IsCandidate, WordInv, HealthInv
  <2> QED
    BY <2>2, <2>3 DEF IsCandidate, WordInv, SwappedInv
<1> QED
  BY <1>1, WordInvariant, PTL DEF Spec, KeptMeansUp

=============================================================================
