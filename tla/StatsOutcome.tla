---------------------------- MODULE StatsOutcome ----------------------------
(***************************************************************************)
(* The coordinated statistics import: usp_S11RunStatsImport runs           *)
(* UPDATE_ALL2 for a preparation exactly once, Phase A commits the import  *)
(* with a durable continuation, usp_S11CompleteStatsReportsCore builds the *)
(* reports in three transactions, each with its checkpoint, and            *)
(* usp_S11CompleteStatsReports finishes what a lost session left.  Legacy  *)
(* calls of UPDATE_ALL2 without a preparation run beside them.             *)
(*                                                                         *)
(* The import itself is ImportPipeline's subject; here it is one step that *)
(* gives an open file the next scan order.  A transaction that other       *)
(* sessions can meet half-way (Phase A, a report stage) is two steps, its  *)
(* lock and its commit; a shorter one is one step.                         *)
(***************************************************************************)
EXTENDS Integers

CONSTANTS
    Sessions,      \* SQL sessions
    Preparations,  \* rows of ExportPreparation with ConsumerKind scan_data
    Files,         \* completed file names
    FirstScan,     \* MAX(SCANORDER) of KingdomScanData4 at the start
    MaxScan,       \* bound of the scan orders, 2147483647 in the code
    MaxConfig,     \* bound of the changes of ProcConfig
    KvkStart,      \* MATCHMAKING_SCAN of the latest KVK: reports exist from there
    NoPreparation, \* @ExportPreparationID is NULL: a legacy call
    NoFile,
    Nobody

ASSUME ConstantsAssumption ==
    /\ {FirstScan, MaxScan, MaxConfig, KvkStart} \subseteq Nat
    /\ FirstScan > 0
    /\ FirstScan <= MaxScan
    /\ NoPreparation \notin Preparations
    /\ NoFile \notin Files
    /\ Nobody \notin Sessions

VARIABLES
    \* tables
    execution,    \* StatsImportExecution, state "none" is no row
    continuation, \* StatsImportReportContinuation, latest 0 is no row
    holder,       \* the preparation that owns sql_snapshot:legacy_outputs
    doubtful,     \* its State is uncertain and the resource is blocked
    claim,        \* what KS4_ImportFileClaim says of each file
    latest,       \* MAX(SCANORDER) of KingdomScanData4
    config,       \* version of the contents of ProcConfig
    reports,      \* the scan and configuration each report was built from
    counter,      \* MAX(LastRunCounter) of SP_TaskStatus
    \* application locks
    runLock,      \* session owner of S11:stats-import:<PreparationID>
    guard,        \* session owner of k98-legacy-output-snapshot
    importLock,   \* transaction owner of the KS4 import lock
    \* sessions
    pc,           \* where the session is
    call,         \* the call it works on and its locals
    \* environment
    calm          \* no more failures and no new work

receiptVars == <<execution, continuation, counter>>
ownerVars   == <<holder, doubtful>>
dataVars    == <<claim, latest, config, reports>>
lockVars    == <<runLock, guard, importLock>>
sessVars    == <<pc, call>>
vars        == <<receiptVars, ownerVars, dataVars, lockVars, sessVars, calm>>

States == {"none", "prepared", "running", "import_committed", "completed",
           "rolled_back", "partial"}

(* The reports, by the stage that builds them: the averages, dashboards and *)
(* KVK outputs; STATS_FOR_UPLOAD; the summaries.                            *)
Stages == 0..2

Steps == {"idle", "enter", "import", "phaseA", "validate", "archive", "open",
          "stage", "write", "finish", "catch", "lost"}

NoExecution == [state |-> "none", file |-> NoFile, scan |-> 0, run |-> 0, settled |-> FALSE]

NoContinuation == [latest |-> 0, config |-> 0, stage |-> 0, planned |-> FALSE]

NoCall == [entry |-> "none", prep |-> NoPreparation, file |-> NoFile,
           stage |-> 0, planned |-> FALSE, asOf |-> 0]

Executions == [state : States, file : Files \cup {NoFile}, scan : 0..MaxScan,
               run : Nat, settled : BOOLEAN]

Continuations == [latest : 0..MaxScan, config : Nat, stage : 0..3, planned : BOOLEAN]

Calls == [entry : {"none", "run", "recover", "legacy"},
          prep : Preparations \cup {NoPreparation}, file : Files \cup {NoFile},
          stage : Stages, planned : BOOLEAN, asOf : Nat]

TablesTypeOK ==
    /\ execution \in [Preparations -> Executions]
    /\ continuation \in [Preparations -> Continuations]
    /\ holder \in Preparations \cup {NoPreparation}
    /\ doubtful \in BOOLEAN
    /\ claim \in [Files -> {"open", "imported", "archived"}]
    /\ latest \in FirstScan..MaxScan
    /\ config \in Nat
    /\ reports \in [Stages -> [scan : 0..MaxScan, config : Nat]]
    /\ counter \in Nat

SessionsTypeOK ==
    /\ runLock \in [Preparations -> Sessions \cup {Nobody}]
    /\ guard \in Sessions \cup {Nobody}
    /\ importLock \in Sessions \cup {Nobody}
    /\ pc \in [Sessions -> Steps]
    /\ call \in [Sessions -> Calls]
    /\ calm \in BOOLEAN

(* A session at work has what its call was given, another one has nothing. *)
AtWork(s) ==
    IF pc[s] \in {"idle", "lost"}
    THEN call[s] = NoCall
    ELSE /\ call[s].file \in Files
         /\ call[s].entry # "none"
         /\ call[s].entry # "legacy" => call[s].prep \in Preparations
         /\ pc[s] \in {"enter", "finish", "catch"} => call[s].entry = "run"
         /\ pc[s] = "validate" => call[s].entry = "recover"
         /\ pc[s] \in {"import", "phaseA"} => call[s].entry # "recover"

TypeOK ==
    /\ TablesTypeOK
    /\ SessionsTypeOK
    /\ \A s \in Sessions : AtWork(s)

Init ==
    /\ execution = [p \in Preparations |-> NoExecution]
    /\ continuation = [p \in Preparations |-> NoContinuation]
    /\ holder = NoPreparation
    /\ doubtful = FALSE
    /\ claim = [f \in Files |-> "open"]
    /\ latest = FirstScan
    /\ config = 1
    /\ reports = [k \in Stages |-> [scan |-> FirstScan, config |-> 1]]
    /\ counter = 0
    /\ runLock = [p \in Preparations |-> Nobody]
    /\ guard = Nobody
    /\ importLock = Nobody
    /\ pc = [s \in Sessions |-> "idle"]
    /\ call = [s \in Sessions |-> NoCall]
    /\ calm = FALSE

-----------------------------------------------------------------------------
(* Calls, their ends and their failures. *)

Goto(s, step) == pc' = [pc EXCEPT ![s] = step]

Legacy(s) == call[s].entry = "legacy"

(* The end of a transaction releases the lock it owns, *)
EndTransaction(s) == importLock' = IF importLock = s THEN Nobody ELSE importLock

(* and the end of a call the locks of its session: the wrapper releases the *)
(* execution lock, the bot the ones it took before it called.               *)
Leave(s) ==
    /\ Goto(s, "idle")
    /\ call' = [call EXCEPT ![s] = NoCall]
    /\ runLock' = [p \in Preparations |-> IF runLock[p] = s THEN Nobody ELSE runLock[p]]
    /\ guard' = IF guard = s THEN Nobody ELSE guard
    /\ EndTransaction(s)

(* An error rolls back.  Only the wrapper, once it has entered, records it. *)
Throw(s) ==
    IF call[s].entry = "run" /\ pc[s] # "enter"
    THEN /\ Goto(s, "catch")
         /\ EndTransaction(s)
         /\ UNCHANGED <<call, runLock, guard>>
    ELSE Leave(s)

(* What the bot's session holds when it calls: g for the snapshot guard, l  *)
(* for the execution lock.                                                  *)
Begin(s, e, p, f, l, g, step) ==
    /\ pc[s] = "idle"
    /\ ~calm \/ (l /\ g)
    /\ l => runLock[p] = Nobody
    /\ g => guard = Nobody
    /\ runLock' = IF l THEN [runLock EXCEPT ![p] = s] ELSE runLock
    /\ guard' = IF g THEN s ELSE guard
    /\ call' = [call EXCEPT ![s] = [NoCall EXCEPT !.entry = e, !.prep = p, !.file = f]]
    /\ Goto(s, step)
    /\ UNCHANGED <<receiptVars, ownerVars, dataVars, importLock, calm>>

(* usp_S11RunStatsImport takes the execution lock itself, without waiting.  *)
CallRun(s, p, f, g) ==
    /\ ~calm
    /\ execution[p].state # "none"
    /\ Begin(s, "run", p, f, TRUE, g, "enter")

CallRecovery(s, p, f, l, g) ==
    /\ execution[p].state # "none"
    /\ Begin(s, "recover", p, f, l, g, "validate")

(* A legacy caller; a file that is not open is refused before anything here. *)
CallLegacy(s, f) ==
    /\ claim[f] = "open"
    /\ Begin(s, "legacy", NoPreparation, f, FALSE, FALSE, "import")

-----------------------------------------------------------------------------
(* usp_S11RunStatsImport and Phase A of UPDATE_ALL2. *)

(* A receipt that was entered before can be entered again. *)
EnterableAgain(p, f) ==
    /\ execution[p].state \in {"prepared", "running", "rolled_back"}
    /\ execution[p].file = f
    /\ holder = p
    /\ ~doubtful

(* The prepared receipt and the exclusive ownership of its preparation. *)
Enterable(p, f) ==
    /\ execution[p].state = "prepared"
    /\ execution[p].file = f
    /\ holder = p
    /\ ~doubtful

Enter(s) ==
    LET p == call[s].prep IN
    /\ pc[s] = "enter"
    /\ IF Enterable(p, call[s].file)
       THEN /\ execution' = [execution EXCEPT ![p].state = "running"]
            /\ Goto(s, "import")
            /\ UNCHANGED <<call, lockVars>>
       ELSE /\ Leave(s)
            /\ UNCHANGED execution
    /\ UNCHANGED <<continuation, counter, ownerVars, dataVars, calm>>

(* UPDATE_ALL2 checks that its caller is the wrapper, claims the file and   *)
(* waits for the import lock.                                               *)
OpenPhaseA(s) ==
    LET p == call[s].prep IN
    /\ pc[s] = "import"
    /\ importLock = Nobody
    /\ IF Legacy(s) \/ (/\ runLock[p] = s
                        /\ execution[p].file = call[s].file
                        /\ execution[p].state = "running"
                        /\ ~execution[p].settled)
       THEN /\ importLock' = s
            /\ Goto(s, "phaseA")
            /\ UNCHANGED <<call, runLock, guard>>
       ELSE Throw(s)
    /\ UNCHANGED <<receiptVars, ownerVars, dataVars, calm>>

(* The receipt and the continuation that Phase A writes for a preparation. *)
CommitReceipt(p, n) ==
    /\ execution' = [execution EXCEPT ![p].state = "import_committed", ![p].scan = n]
    /\ continuation' = [continuation EXCEPT
         ![p] = [NoContinuation EXCEPT !.latest = n, !.config = config]]

(* One scan order too many. *)
ScanLeftOrLast == latest <= MaxScan

ScanLeft == latest < MaxScan

CommitPhaseA(s) ==
    LET p == call[s].prep
        f == call[s].file
    IN
    /\ pc[s] = "phaseA"
    /\ IF /\ claim[f] = "open"
          /\ ScanLeft
          /\ Legacy(s) \/ (execution[p].state = "running" /\ continuation[p].latest = 0)
       THEN /\ claim' = [claim EXCEPT ![f] = "imported"]
            /\ latest' = latest + 1
            /\ IF Legacy(s)
               THEN UNCHANGED <<execution, continuation>>
               ELSE CommitReceipt(p, latest + 1)
            /\ EndTransaction(s)
            /\ Goto(s, "archive")
            /\ UNCHANGED <<call, runLock, guard>>
       ELSE /\ Throw(s)
            /\ UNCHANGED <<claim, latest, execution, continuation>>
    /\ UNCHANGED <<counter, ownerVars, config, reports, calm>>

Archive(s) ==
    LET f == call[s].file IN
    /\ pc[s] = "archive"
    /\ importLock = Nobody
    /\ IF claim[f] # "open"
       THEN /\ claim' = [claim EXCEPT ![f] = "archived"]
            /\ Goto(s, "open")
            /\ UNCHANGED <<call, lockVars>>
       ELSE /\ Throw(s)
            /\ UNCHANGED claim
    /\ UNCHANGED <<receiptVars, ownerVars, latest, config, reports, calm>>

-----------------------------------------------------------------------------
(* usp_S11ValidateStatsReportStage. *)

(* The execution lock is taken for granted. *)
HoldsGuard(s, p) == guard = s

HoldsBothLocks(s, p) == runLock[p] = s /\ guard = s

(* Only the configuration is compared. *)
SameConfiguration(p) ==
    /\ continuation[p].latest # 0
    /\ continuation[p].config = config

(* The data is what it was when Phase A committed. *)
Current(p) ==
    /\ continuation[p].latest = latest
    /\ continuation[p].config = config

(* A caught error closes the import for good. *)
ReportableOnce(p) ==
    /\ ~execution[p].settled
    /\ execution[p].state \in {"import_committed", "completed"}
    /\ execution[p].state = "completed" <=> continuation[p].stage = 3

(* The committed import of p may be reported on, and its two receipts agree. *)
Reportable(p) ==
    /\ ~execution[p].settled
    /\ execution[p].state \in {"import_committed", "partial", "completed"}
    /\ execution[p].state = "completed" <=> continuation[p].stage = 3

(* The ownership it was prepared with is trusted. *)
OwnedAtFirst(p) == execution[p].state # "none"

Owned(p) == holder = p

Valid(s) ==
    LET p == call[s].prep
        f == call[s].file
    IN
    \/ Legacy(s)
    \/ /\ HoldsBothLocks(s, p)
       /\ execution[p].file = f
       /\ Reportable(p)
       /\ Owned(p)
       /\ claim[f] \in {"imported", "archived"}
       /\ Current(p)

-----------------------------------------------------------------------------
(* usp_S11CompleteStatsReports and usp_S11CompleteStatsReportsCore.  Every  *)
(* transaction validates under the import lock, which it does not wait for. *)

Admitted(s) == importLock = Nobody /\ Valid(s)

(* The recovery entry goes on without the archive. *)
ValidateOnly(s) ==
    /\ pc[s] = "validate"
    /\ IF Admitted(s)
       THEN Goto(s, "open") /\ UNCHANGED <<call, lockVars>>
       ELSE Throw(s)
    /\ UNCHANGED <<receiptVars, ownerVars, dataVars, calm>>

(* The recovery entry validates before it archives. *)
Validate(s) ==
    /\ pc[s] = "validate"
    /\ IF Admitted(s)
       THEN Goto(s, "archive") /\ UNCHANGED <<call, lockVars>>
       ELSE Throw(s)
    /\ UNCHANGED <<receiptVars, ownerVars, dataVars, calm>>

(* What follows the reports: the wrapper looks at the receipt once more. *)
Done(s) ==
    IF call[s].entry = "run"
    THEN Goto(s, "finish") /\ EndTransaction(s) /\ UNCHANGED <<call, runLock, guard>>
    ELSE Leave(s)

OpenReports(s) ==
    LET stage == IF Legacy(s) THEN 0 ELSE continuation[call[s].prep].stage IN
    /\ pc[s] = "open"
    /\ IF Admitted(s)
       THEN IF stage = 3
            THEN Done(s)
            ELSE /\ call' = [call EXCEPT ![s].stage = stage]
                 /\ Goto(s, "stage")
                 /\ UNCHANGED lockVars
       ELSE Throw(s)
    /\ UNCHANGED <<receiptVars, ownerVars, dataVars, calm>>

OpenStage(s) ==
    /\ pc[s] = "stage"
    /\ IF Admitted(s)
       THEN /\ importLock' = s
            /\ call' = [call EXCEPT ![s].asOf = config]
            /\ Goto(s, "write")
            /\ UNCHANGED <<runLock, guard>>
       ELSE Throw(s)
    /\ UNCHANGED <<receiptVars, ownerVars, dataVars, calm>>

(* The later stages ask their own session whether there is a KVK to report  *)
(* on, although the first may have run in another one.                      *)
PlannedHere(s) == IF call[s].stage = 0 THEN latest >= KvkStart ELSE call[s].planned

(* The first stage finds out, the second is told by the continuation.       *)
Planned(s) ==
    CASE call[s].stage = 0 -> latest >= KvkStart
      [] call[s].stage = 1 /\ ~Legacy(s) -> continuation[call[s].prep].planned
      [] OTHER -> call[s].planned

(* What a stage builds.  Only the validation of a preparation locks         *)
(* ProcConfig, so a legacy stage may read an older version than it ends in. *)
Build(s) ==
    IF call[s].stage = 1 /\ ~Planned(s)
    THEN UNCHANGED reports
    ELSE \E c \in call[s].asOf..config :
           reports' = [reports EXCEPT ![call[s].stage] = [scan |-> latest, config |-> c]]

(* The checkpoint of a stage; the last one closes the execution receipt.    *)
Open(p, k) ==
    /\ continuation[p].stage = k
    /\ k = 2 => /\ execution[p].state \in {"import_committed", "partial"}
                /\ ~execution[p].settled

(* Every stage writes the plan of its session. *)
Replan(p, k, plan) ==
    /\ continuation' = [continuation EXCEPT ![p].stage = k + 1, ![p].planned = plan]
    /\ execution' = IF k < 2 THEN execution
                    ELSE [execution EXCEPT ![p].state = "completed", ![p].run = counter + 1]

Checkpoint(p, k, plan) ==
    /\ continuation' = [continuation EXCEPT
         ![p].stage = k + 1, ![p].planned = IF k = 0 THEN plan ELSE @]
    /\ execution' = IF k < 2 THEN execution
                    ELSE [execution EXCEPT ![p].state = "completed", ![p].run = counter + 1]

CommitStage(s) ==
    LET k == call[s].stage
        p == call[s].prep
    IN
    /\ pc[s] = "write"
    /\ IF Legacy(s) \/ Open(p, k)
       THEN /\ Build(s)
            /\ IF Legacy(s)
               THEN UNCHANGED <<execution, continuation>>
               ELSE Checkpoint(p, k, Planned(s))
            /\ counter' = IF k = 2 THEN counter + 1 ELSE counter
            /\ IF k = 2
               THEN Done(s)
               ELSE /\ call' = [call EXCEPT ![s].stage = k + 1, ![s].planned = Planned(s), ![s].asOf = 0]
                    /\ Goto(s, "stage")
                    /\ EndTransaction(s)
                    /\ UNCHANGED <<runLock, guard>>
       ELSE /\ Throw(s)
            /\ UNCHANGED <<receiptVars, reports>>
    /\ UNCHANGED <<ownerVars, claim, latest, config, calm>>

(* The wrapper returns only with its completion receipt. *)
Finish(s) ==
    /\ pc[s] = "finish"
    /\ IF execution[call[s].prep].state = "completed" THEN Leave(s) ELSE Throw(s)
    /\ UNCHANGED <<receiptVars, ownerVars, dataVars, calm>>

(* Without a look at what is completed. *)
CaughtAlways(state) == IF state = "running" THEN "rolled_back" ELSE "partial"

(* What a caught error makes of the receipt. *)
Caught(state) ==
    CASE state = "running" -> "rolled_back"
      [] state = "import_committed" -> "partial"
      [] OTHER -> state

Catch(s) ==
    /\ pc[s] = "catch"
    /\ execution' = [execution EXCEPT ![call[s].prep].state = Caught(@)]
    /\ Leave(s)
    /\ UNCHANGED <<continuation, counter, ownerVars, dataVars, calm>>

-----------------------------------------------------------------------------
(* Failures.  A statement fails, or a wait for the import lock ends after   *)
(* 60 seconds.                                                              *)
Fault(s) ==
    /\ ~calm
    /\ pc[s] \notin {"idle", "catch", "lost"}
    /\ Throw(s)
    /\ UNCHANGED <<receiptVars, ownerVars, dataVars, calm>>

(* An attention or a lost connection ends the batch without its CATCH       *)
(* block; the session's locks stay until the server ends the session.       *)
Disconnect(s) ==
    /\ ~calm
    /\ pc[s] \notin {"idle", "lost"}
    /\ Goto(s, "lost")
    /\ call' = [call EXCEPT ![s] = NoCall]
    /\ EndTransaction(s)
    /\ UNCHANGED <<receiptVars, ownerVars, dataVars, runLock, guard, calm>>

EndSession(s) ==
    /\ pc[s] = "lost"
    /\ Leave(s)
    /\ UNCHANGED <<receiptVars, ownerVars, dataVars, calm>>

-----------------------------------------------------------------------------
(* The bot and its administrators. *)

Prepare(p, f) ==
    /\ execution[p].state = "none"
    /\ holder = NoPreparation
    /\ \A q \in Preparations : execution[q].file # f
    /\ execution' = [execution EXCEPT ![p] = [NoExecution EXCEPT !.state = "prepared", !.file = f]]
    /\ holder' = p
    /\ doubtful' = FALSE
    /\ UNCHANGED <<continuation, counter, dataVars, lockVars, sessVars, calm>>

(* The bot lost sight of the preparation and blocks its resource. *)
Doubt ==
    /\ holder # NoPreparation
    /\ ~doubtful
    /\ doubtful' = TRUE
    /\ UNCHANGED <<receiptVars, holder, dataVars, lockVars, sessVars, calm>>

(* The resource goes back when the preparation is completed, when an         *)
(* administrator settles a caught failure under both locks,                 *)
Release(p) ==
    /\ holder = p
    /\ execution[p].state = "completed"
    /\ holder' = NoPreparation
    /\ UNCHANGED <<receiptVars, doubtful, dataVars, lockVars, sessVars, calm>>

Settle(p) ==
    /\ holder = p
    /\ runLock[p] = Nobody
    /\ guard = Nobody
    /\ execution[p].state \in {"rolled_back", "partial"}
    /\ ~execution[p].settled
    /\ execution' = [execution EXCEPT ![p].settled = TRUE]
    /\ holder' = NoPreparation
    /\ UNCHANGED <<continuation, counter, doubtful, dataVars, lockVars, sessVars, calm>>

(* or when a manual recovery withdraws an uncertain one under the guard,    *)
(* whatever its receipt says.                                               *)
Withdraw ==
    /\ holder # NoPreparation
    /\ doubtful
    /\ guard = Nobody
    /\ holder' = NoPreparation
    /\ UNCHANGED <<receiptVars, doubtful, dataVars, lockVars, sessVars, calm>>

(* ProcConfig changes, unless a stage of a preparation has it locked. *)
Reconfigure ==
    /\ ~calm
    /\ config < MaxConfig
    /\ \A s \in Sessions : pc[s] = "write" => Legacy(s)
    /\ config' = config + 1
    /\ UNCHANGED <<receiptVars, ownerVars, claim, latest, reports, lockVars, sessVars, calm>>

CalmDown ==
    /\ ~calm
    /\ calm' = TRUE
    /\ UNCHANGED <<receiptVars, ownerVars, dataVars, lockVars, sessVars>>

-----------------------------------------------------------------------------
Step(s) ==
    \/ Enter(s) \/ OpenPhaseA(s) \/ CommitPhaseA(s)
    \/ Validate(s) \/ Archive(s) \/ OpenReports(s) \/ OpenStage(s) \/ CommitStage(s)
    \/ Finish(s) \/ Catch(s) \/ EndSession(s)

Call(s) ==
    \E f \in Files :
      \/ CallLegacy(s, f)
      \/ \E p \in Preparations, g \in BOOLEAN :
           \/ CallRun(s, p, f, g)
           \/ \E l \in BOOLEAN : CallRecovery(s, p, f, l, g)

Bot ==
    \/ Doubt \/ Withdraw
    \/ \E p \in Preparations :
         Release(p) \/ Settle(p) \/ \E f \in Files : Prepare(p, f)

Next ==
    \/ \E s \in Sessions : Step(s) \/ Call(s) \/ Fault(s) \/ Disconnect(s)
    \/ Bot
    \/ Reconfigure

Spec == Init /\ [][Next]_vars

(* Every session keeps running, the server ends a lost one, and the bot      *)
(* recovers a preparation again whenever it can take both locks.            *)
Recover(p) == \E s \in Sessions : CallRecovery(s, p, execution[p].file, TRUE, TRUE)

Fairness ==
    /\ \A s \in Sessions : WF_vars(Step(s))
    /\ \A p \in Preparations : SF_vars(Recover(p))
    /\ WF_vars(CalmDown)

FairSpec == Init /\ [][Next \/ CalmDown]_vars /\ Fairness

-----------------------------------------------------------------------------
(* Properties. *)

(* The execution receipt and the continuation tell the same story, at every *)
(* point where a session can be lost: an import is committed if and only if *)
(* it can be continued, completed if and only if all reports are delivered  *)
(* and counted, and settled only when it was caught before that.            *)
ReceiptsAgree ==
    \A p \in Preparations :
      LET e == execution[p]
          c == continuation[p]
      IN
      /\ e.state \in {"import_committed", "partial", "completed"} <=> c.latest # 0
      /\ e.scan = c.latest
      /\ c.stage # 0 => c.latest # 0
      /\ e.state = "completed" <=> c.stage = 3
      /\ e.state = "completed" <=> e.run # 0
      /\ e.settled => e.state \in {"rolled_back", "partial"}

(* A completed import rests on an archived file, by whichever entry it was   *)
(* completed.                                                               *)
CompletedIsArchived ==
    \A p \in Preparations :
      execution[p].state = "completed" =>
        /\ execution[p].file \in Files
        /\ claim[execution[p].file] = "archived"

(* Why they hold.  The import lock is held by the one session inside Phase A *)
(* or a stage, and the execution lock by the wrapper from end to end.       *)
LocksAreHeld ==
    \A s \in Sessions :
      /\ pc[s] \in {"phaseA", "write"} <=> importLock = s
      /\ call[s].entry = "run" => runLock[call[s].prep] = s

(* What a stage was admitted on stays true until it commits, without the    *)
(* import lock being asked again: the guards keep administrators out and    *)
(* the table locks keep the configuration.                                  *)
StillAdmitted(s) ==
    LET p == call[s].prep IN
    /\ call[s].asOf <= config
    /\ \A q \in Preparations : continuation[q].config <= call[s].asOf
    /\ ~Legacy(s) =>
         /\ HoldsBothLocks(s, p)
         /\ execution[p].file = call[s].file
         /\ Reportable(p)
         /\ execution[p].state # "completed" => Owned(p)
         /\ Current(p)
         /\ call[s].asOf = config

StageIsAdmitted == \A s \in Sessions : pc[s] = "write" => StillAdmitted(s)

(* Reports are built on archived files. *)
ArchivedFirst ==
    \A s \in Sessions :
      pc[s] \in {"open", "stage", "write"} => claim[call[s].file] = "archived"

(* As long as the import of p is current, what its stages built stands,      *)
(* legacy calls or not.                                                     *)
ReportsAreFresh ==
    \A p \in Preparations :
      LET c == continuation[p] IN
      /\ c.latest <= latest
      /\ c.config <= config
      /\ c.stage > 0 => (c.planned <=> c.latest >= KvkStart)
      /\ Current(p) =>
           \A k \in Stages : k < c.stage /\ (k = 1 => c.planned) =>
             reports[k] = [scan |-> c.latest, config |-> c.config]

OutcomeInvariant ==
    /\ ReceiptsAgree
    /\ CompletedIsArchived
    /\ LocksAreHeld
    /\ StageIsAdmitted
    /\ ArchivedFirst
    /\ ReportsAreFresh

Completes(p) == execution[p].state # "completed" /\ execution'[p].state = "completed"

(* When a preparation completes, the reports in the database are those of   *)
(* its own import and configuration, although its stages ran in different   *)
(* sessions and legacy calls rebuilt the same tables in between.            *)
CompletionIsCoherent ==
    [][\A p \in Preparations :
         LET c == continuation[p]
             own == [scan |-> c.latest, config |-> c.config]
         IN
         Completes(p) =>
           /\ reports'[0] = own
           /\ reports'[2] = own
           /\ c.latest >= KvkStart => reports'[1] = own]_vars

(* No preparation completes after its ownership was taken away. *)
CompletionIsOwned == [][\A p \in Preparations : Completes(p) => holder = p]_vars

(* Between its preparation and its settlement a receipt moves only while a   *)
(* session owns the execution lock: who holds that lock and sees no session *)
(* at work sees the final state.                                            *)
ReceiptsMoveUnderLock ==
    [][\A p \in Preparations :
         \/ <<execution[p], continuation[p]>>' = <<execution[p], continuation[p]>>
         \/ execution[p].state = "none"
         \/ execution'[p] = [execution[p] EXCEPT !.settled = TRUE]
         \/ runLock[p] # Nobody]_vars

(* What the coordinated import implements. *)
Phase ==
    [p \in Preparations |->
       CASE execution[p].state = "none" -> "absent"
         [] execution[p].state = "prepared" -> "ready"
         [] execution[p].state = "rolled_back" -> "failed"
         [] execution[p].state \in {"import_committed", "partial"} -> "committed"
         [] OTHER -> execution[p].state]

Outcomes == INSTANCE OutcomeLedger WITH
    phase <- Phase,
    scan <- [p \in Preparations |-> execution[p].scan],
    delivered <- [p \in Preparations |-> continuation[p].stage],
    settled <- [p \in Preparations |-> execution[p].settled]

(* A preparation is executed and committed at most once, and its reports are *)
(* delivered once each and in order, through errors, lost sessions and      *)
(* recoveries.                                                              *)
ImplementsOutcomes == Outcomes!Spec

(* A committed import that stays the latest, under the same configuration    *)
(* and the same ownership, does not stay unfinished.                        *)
Recoverable(p) ==
    /\ execution[p].state \in {"import_committed", "partial"}
    /\ ~execution[p].settled
    /\ Owned(p)
    /\ Current(p)

CommittedIsFinished ==
    \A p \in Preparations : Recoverable(p) ~> ~Recoverable(p)
=============================================================================
