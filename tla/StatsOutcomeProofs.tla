------------------------- MODULE StatsOutcomeProofs -------------------------
(***************************************************************************)
(* Theorems about StatsOutcome for every set of sessions, preparations and *)
(* files, and every bound of the scans and configurations.                 *)
(***************************************************************************)
EXTENDS StatsOutcome, TLAPS

(* How a call ends or fails keeps the sessions well typed. *)
LEMMA LeaveType ==
    ASSUME TypeOK, NEW s \in Sessions, Leave(s), calm' = calm
    PROVE  SessionsTypeOK' /\ \A t \in Sessions : AtWork(t)'
<1>1. NoCall \in Calls
  BY DEF NoCall, Calls, Stages
<1>2. SessionsTypeOK'
  BY <1>1 DEF TypeOK, SessionsTypeOK, Leave, Goto, EndTransaction, Steps
<1>3. ASSUME NEW t \in Sessions
      PROVE  AtWork(t)'
  <2>1. CASE t = s
    BY <2>1 DEF TypeOK, SessionsTypeOK, AtWork, Leave, Goto
  <2>2. CASE t # s
    <3>1. pc'[t] = pc[t] /\ call'[t] = call[t]
      BY <2>2 DEF TypeOK, SessionsTypeOK, Leave, Goto
    <3> QED BY <3>1 DEF TypeOK, AtWork
  <2> QED BY <2>1, <2>2
<1> QED BY <1>2, <1>3

(* A failed step keeps the sessions well typed, caught or not. *)
LEMMA ThrowType ==
    ASSUME TypeOK, NEW s \in Sessions, Throw(s), calm' = calm, pc[s] \notin {"idle", "lost"}
    PROVE  SessionsTypeOK' /\ \A t \in Sessions : AtWork(t)'
<1>1. CASE call[s].entry = "run" /\ pc[s] # "enter"
  BY <1>1 DEF TypeOK, SessionsTypeOK, AtWork, Throw, Goto, EndTransaction, Steps
<1>2. CASE ~(call[s].entry = "run" /\ pc[s] # "enter")
  BY <1>2, LeaveType DEF Throw
<1> QED BY <1>1, <1>2

(* A step that goes on keeps what the session was called for. *)
LEMMA GoType ==
    ASSUME TypeOK, NEW s \in Sessions, NEW step \in Steps, Goto(s, step),
           pc[s] \notin {"idle", "lost"}, step \notin {"idle", "lost", "validate"},
           step \in {"enter", "finish", "catch"} => call[s].entry = "run",
           step \in {"import", "phaseA"} => call[s].entry # "recover",
           importLock' \in Sessions \cup {Nobody}, UNCHANGED <<runLock, guard, calm>>,
           NEW c \in Calls, call' = [call EXCEPT ![s] = c],
           c.entry = call[s].entry, c.prep = call[s].prep, c.file = call[s].file
    PROVE  SessionsTypeOK' /\ \A t \in Sessions : AtWork(t)'
<1>1. SessionsTypeOK'
  BY DEF TypeOK, SessionsTypeOK, Goto
<1>2. ASSUME NEW t \in Sessions
      PROVE  AtWork(t)'
  <2>1. CASE t = s
    <3>1. pc'[t] = step /\ call'[t] = c
      BY <2>1 DEF TypeOK, SessionsTypeOK, Goto
    <3> QED BY <2>1, <3>1 DEF TypeOK, AtWork
  <2>2. CASE t # s
    <3>1. pc'[t] = pc[t] /\ call'[t] = call[t]
      BY <2>2 DEF TypeOK, SessionsTypeOK, Goto
    <3> QED BY <3>1 DEF TypeOK, AtWork
  <2> QED BY <2>1, <2>2
<1> QED BY <1>1, <1>2

(* A step that moves no session keeps the sessions well typed. *)
LEMMA StayType ==
    ASSUME TypeOK, NEW s \in Sessions, NEW step \in Steps, Goto(s, step),
           pc[s] \notin {"idle", "lost"}, step \notin {"idle", "lost", "validate"},
           step \in {"enter", "finish", "catch"} => call[s].entry = "run",
           step \in {"import", "phaseA"} => call[s].entry # "recover",
           importLock' \in Sessions \cup {Nobody}, UNCHANGED <<runLock, guard, call, calm>>
    PROVE  SessionsTypeOK' /\ \A t \in Sessions : AtWork(t)'
  BY DEF TypeOK, SessionsTypeOK, AtWork, Goto

(* The end of the reports keeps the sessions well typed. *)
LEMMA DoneType ==
    ASSUME TypeOK, NEW s \in Sessions, Done(s), calm' = calm, pc[s] \notin {"idle", "lost"}
    PROVE  SessionsTypeOK' /\ \A t \in Sessions : AtWork(t)'
<1>1. CASE call[s].entry = "run"
  BY <1>1, StayType DEF Done, EndTransaction, TypeOK, SessionsTypeOK, Steps
<1>2. CASE call[s].entry # "run"
  BY <1>2, LeaveType DEF Done
<1> QED BY <1>1, <1>2

(* What the report stages plan is a truth value. *)
LEMMA PlannedType ==
    ASSUME TypeOK, NEW s \in Sessions, pc[s] = "write"
    PROVE  Planned(s) \in BOOLEAN
<1>1. call[s].planned \in BOOLEAN
  BY DEF TypeOK, SessionsTypeOK, Calls
<1>2. ~Legacy(s) => continuation[call[s].prep].planned \in BOOLEAN
  BY DEF TypeOK, TablesTypeOK, Continuations, AtWork, Legacy
<1>3. CASE call[s].stage = 0
  BY <1>3 DEF Planned
<1>4. CASE call[s].stage = 1 /\ ~Legacy(s)
  <2>1. Planned(s) = continuation[call[s].prep].planned
    BY <1>4 DEF Planned
  <2> QED BY <1>2, <1>4, <2>1
<1>5. CASE call[s].stage # 0 /\ ~(call[s].stage = 1 /\ ~Legacy(s))
  <2>1. Planned(s) = call[s].planned
    BY <1>5 DEF Planned
  <2> QED BY <1>1, <2>1
<1> QED BY <1>3, <1>4, <1>5

(* The tables stay well typed when only the receipts' owners or nothing changes. *)
LEMMA TablesStay ==
    ASSUME TypeOK, UNCHANGED <<receiptVars, ownerVars, dataVars>>
    PROVE  TablesTypeOK'
  BY DEF TypeOK, TablesTypeOK, receiptVars, ownerVars, dataVars

(* A row of a receipt is changed to a well-typed one. *)
LEMMA RowType ==
    ASSUME TypeOK, NEW p \in Preparations
    PROVE  /\ execution[p] \in Executions
           /\ \A r \in Executions : [execution EXCEPT ![p] = r] \in [Preparations -> Executions]
           /\ continuation[p] \in Continuations
           /\ \A r \in Continuations :
                [continuation EXCEPT ![p] = r] \in [Preparations -> Continuations]
  BY DEF TypeOK, TablesTypeOK

(* Phase A writes well-typed receipts. *)
LEMMA CommitReceiptType ==
    ASSUME TypeOK, NEW p \in Preparations, NEW n \in 0..MaxScan, CommitReceipt(p, n)
    PROVE  /\ execution' \in [Preparations -> Executions]
           /\ continuation' \in [Preparations -> Continuations]
<1> DEFINE e == [execution[p] EXCEPT !.state = "import_committed", !.scan = n]
           c == [NoContinuation EXCEPT !.latest = n, !.config = config]
<1>1. e \in Executions
  BY RowType DEF Executions, States
<1>3. c \in Continuations
  <2>1. config \in Nat /\ 0 \in 0..3
    BY DEF TypeOK, TablesTypeOK
  <2> QED BY <2>1 DEF Continuations, NoContinuation
<1>2. execution' = [execution EXCEPT ![p] = e] /\ continuation' = [continuation EXCEPT ![p] = c]
  BY DEF CommitReceipt, TypeOK, TablesTypeOK
<1> HIDE DEF e, c
<1> QED BY <1>1, <1>2, <1>3, RowType

(* The first state is well typed. *)
LEMMA InitType == Init => TypeOK
<1> SUFFICES ASSUME Init PROVE TypeOK
  OBVIOUS
<1>1. NoExecution \in Executions /\ NoContinuation \in Continuations /\ NoCall \in Calls
  BY ConstantsAssumption
     DEF NoExecution, Executions, NoContinuation, Continuations, NoCall, Calls, States, Stages
<1>2. /\ execution \in [Preparations -> Executions]
      /\ continuation \in [Preparations -> Continuations]
      /\ reports \in [Stages -> [scan : 0..MaxScan, config : Nat]]
      /\ call \in [Sessions -> Calls]
  BY <1>1, ConstantsAssumption DEF Init
<1>3. TablesTypeOK
  <2>1. FirstScan \in Nat /\ MaxScan \in Nat /\ FirstScan <= MaxScan
    BY ConstantsAssumption
  <2>2. latest \in FirstScan..MaxScan /\ config \in Nat /\ counter \in Nat
    BY <2>1 DEF Init
  <2>3. claim \in [Files -> {"open", "imported", "archived"}]
    BY DEF Init
  <2>4. holder \in Preparations \cup {NoPreparation} /\ doubtful \in BOOLEAN
    BY DEF Init
  <2> QED BY <1>2, <2>2, <2>3, <2>4 DEF TablesTypeOK
<1>4. SessionsTypeOK
  BY <1>2 DEF Init, SessionsTypeOK, Steps
<1>5. \A s \in Sessions : AtWork(s)
  BY DEF Init, AtWork
<1> QED BY <1>3, <1>4, <1>5 DEF TypeOK

(* The steps of the wrapper and of Phase A keep the types. *)
LEMMA ImportStepType ==
    ASSUME TypeOK, NEW s \in Sessions,
           Enter(s) \/ OpenPhaseA(s) \/ CommitPhaseA(s) \/ Archive(s)
    PROVE  TypeOK'
<1> DEFINE p == call[s].prep
           f == call[s].file
<1> USE DEF Steps
<1>0. /\ pc[s] \in {"enter", "import", "phaseA", "archive"} => f \in Files
      /\ pc[s] = "enter" => call[s].entry = "run"
      /\ pc[s] \in {"import", "phaseA"} => call[s].entry # "recover"
      /\ pc[s] \in {"enter", "import", "phaseA", "archive"} /\ ~Legacy(s) => p \in Preparations
      /\ importLock \in Sessions \cup {Nobody}
  BY DEF TypeOK, AtWork, SessionsTypeOK, Legacy
<1>1. CASE Enter(s)
  <2>1. TablesTypeOK'
    <3> DEFINE r == [execution[p] EXCEPT !.state = "running"]
    <3>1. p \in Preparations
      BY <1>0, <1>1 DEF Enter, Legacy
    <3>2. r \in Executions
      BY <3>1, RowType DEF Executions, States
    <3>3. execution' \in [Preparations -> Executions]
      BY <1>1, <3>1, <3>2, RowType DEF Enter, TypeOK, TablesTypeOK
    <3> QED BY <1>1, <3>3 DEF Enter, TypeOK, TablesTypeOK, ownerVars, dataVars
  <2>2. SessionsTypeOK' /\ \A t \in Sessions : AtWork(t)'
    <3>1. CASE Enterable(p, f)
      BY <1>0, <1>1, <3>1, StayType DEF Enter, lockVars
    <3>2. CASE ~Enterable(p, f)
      BY <1>1, <3>2, LeaveType DEF Enter
    <3> QED BY <3>1, <3>2
  <2> QED BY <2>1, <2>2 DEF TypeOK
<1>2. CASE OpenPhaseA(s)
  <2>1. TablesTypeOK'
    BY <1>2, TablesStay DEF OpenPhaseA
  <2>2. SessionsTypeOK' /\ \A t \in Sessions : AtWork(t)'
    <3>1. CASE Throw(s)
      BY <1>2, <3>1, ThrowType DEF OpenPhaseA
    <3>2. CASE ~Throw(s)
      BY <1>0, <1>2, <3>2, StayType DEF OpenPhaseA
    <3> QED BY <3>1, <3>2
  <2> QED BY <2>1, <2>2 DEF TypeOK
<1>3. CASE CommitPhaseA(s)
  <2>1. TablesTypeOK'
    <3>1. CASE Legacy(s)
      BY <1>3, <1>0, <3>1, ConstantsAssumption
         DEF CommitPhaseA, ScanLeft, TypeOK, TablesTypeOK, ownerVars
    <3>2. CASE ~Legacy(s)
      <4>1. latest + 1 \in 0..MaxScan \/ ~ScanLeft
        BY ConstantsAssumption DEF TypeOK, TablesTypeOK, ScanLeft
      <4>2. CASE UNCHANGED <<claim, latest, execution, continuation>>
        BY <1>3, <4>2, TablesStay DEF CommitPhaseA, receiptVars, dataVars
      <4>3. CASE ~UNCHANGED <<claim, latest, execution, continuation>>
        <5>1. /\ CommitReceipt(p, latest + 1) /\ ScanLeft
              /\ claim' = [claim EXCEPT ![f] = "imported"] /\ latest' = latest + 1
              /\ UNCHANGED <<counter, ownerVars, config, reports>>
          BY <1>3, <3>2, <4>3 DEF CommitPhaseA
        <5>2. latest + 1 \in 0..MaxScan
          BY <4>1, <5>1
        <5>3. /\ execution' \in [Preparations -> Executions]
              /\ continuation' \in [Preparations -> Continuations]
          BY <1>0, <1>3, <3>2, <5>1, <5>2, CommitReceiptType DEF CommitPhaseA
        <5>4. claim' \in [Files -> {"open", "imported", "archived"}] /\ latest' \in FirstScan..MaxScan
          BY <1>0, <1>3, <5>1, <5>2, ConstantsAssumption
             DEF CommitPhaseA, TypeOK, TablesTypeOK
        <5> QED BY <5>1, <5>3, <5>4 DEF TypeOK, TablesTypeOK, ownerVars
      <4> QED BY <4>2, <4>3
    <3> QED BY <3>1, <3>2
  <2>2. SessionsTypeOK' /\ \A t \in Sessions : AtWork(t)'
    <3>1. CASE Throw(s)
      BY <1>3, <3>1, ThrowType DEF CommitPhaseA
    <3>2. CASE ~Throw(s)
      BY <1>0, <1>3, <3>2, StayType DEF CommitPhaseA, EndTransaction
    <3> QED BY <3>1, <3>2
  <2> QED BY <2>1, <2>2 DEF TypeOK
<1>4. CASE Archive(s)
  <2>1. TablesTypeOK'
    BY <1>4, <1>0 DEF Archive, TypeOK, TablesTypeOK, receiptVars, ownerVars
  <2>2. SessionsTypeOK' /\ \A t \in Sessions : AtWork(t)'
    <3>1. CASE Throw(s)
      BY <1>4, <3>1, ThrowType DEF Archive
    <3>2. CASE ~Throw(s)
      BY <1>0, <1>4, <3>2, StayType DEF Archive, lockVars
    <3> QED BY <3>1, <3>2
  <2> QED BY <2>1, <2>2 DEF TypeOK
<1> QED BY <1>1, <1>2, <1>3, <1>4

(* The steps around the report stages keep the types. *)
LEMMA ReportStepType ==
    ASSUME TypeOK, NEW s \in Sessions,
           Validate(s) \/ OpenReports(s) \/ OpenStage(s) \/ Finish(s) \/ Catch(s) \/ EndSession(s)
    PROVE  TypeOK'
<1> USE DEF Steps
<1>0. importLock \in Sessions \cup {Nobody} /\ call[s] \in Calls /\ config \in Nat
  BY DEF TypeOK, SessionsTypeOK, TablesTypeOK
<1>1. CASE Validate(s)
  <2>1. SessionsTypeOK' /\ \A t \in Sessions : AtWork(t)'
    BY <1>0, <1>1, ThrowType, StayType DEF Validate, lockVars
  <2> QED BY <1>1, <2>1, TablesStay DEF Validate, TypeOK
<1>2. CASE OpenReports(s)
  <2> DEFINE stage == IF Legacy(s) THEN 0 ELSE continuation[call[s].prep].stage
  <2>1. CASE Throw(s)
    BY <1>2, <2>1, ThrowType, TablesStay DEF OpenReports, TypeOK
  <2>2. CASE Done(s)
    BY <1>2, <2>2, DoneType, TablesStay DEF OpenReports, TypeOK
  <2>3. CASE ~Throw(s) /\ ~Done(s)
    <3>1. /\ stage # 3 /\ call' = [call EXCEPT ![s].stage = stage] /\ pc[s] = "open"
          /\ Goto(s, "stage") /\ UNCHANGED <<lockVars, calm>>
      BY <1>2, <2>3 DEF OpenReports
    <3>2. stage \in 0..3
      BY <1>0, <3>1 DEF TypeOK, TablesTypeOK, Continuations, AtWork, Legacy
    <3>3. stage \in Stages
      BY <3>1, <3>2 DEF Stages
    <3> HIDE DEF stage
    <3> DEFINE c == [call[s] EXCEPT !.stage = stage]
    <3>4. /\ c \in Calls /\ call' = [call EXCEPT ![s] = c]
          /\ c.entry = call[s].entry /\ c.prep = call[s].prep /\ c.file = call[s].file
      BY <1>0, <3>1, <3>3 DEF Calls, TypeOK, SessionsTypeOK
    <3> HIDE DEF c
    <3>5. SessionsTypeOK' /\ \A t \in Sessions : AtWork(t)'
      BY <1>0, <3>1, <3>4, GoType DEF lockVars
    <3> QED BY <1>2, <3>5, TablesStay DEF OpenReports, TypeOK
  <2> QED BY <2>1, <2>2, <2>3
<1>3. CASE OpenStage(s)
  <2>1. CASE Throw(s)
    BY <1>3, <2>1, ThrowType, TablesStay DEF OpenStage, TypeOK
  <2>2. CASE ~Throw(s)
    <3> DEFINE c == [call[s] EXCEPT !.asOf = config]
    <3>1. /\ call' = [call EXCEPT ![s].asOf = config] /\ pc[s] = "stage" /\ importLock' = s
          /\ Goto(s, "write") /\ UNCHANGED <<runLock, guard, calm>>
      BY <1>3, <2>2 DEF OpenStage
    <3>2. /\ c \in Calls /\ call' = [call EXCEPT ![s] = c]
          /\ c.entry = call[s].entry /\ c.prep = call[s].prep /\ c.file = call[s].file
      BY <1>0, <3>1 DEF Calls, TypeOK, SessionsTypeOK
    <3> HIDE DEF c
    <3>3. SessionsTypeOK' /\ \A t \in Sessions : AtWork(t)'
      BY <3>1, <3>2, GoType
    <3> QED BY <1>3, <3>3, TablesStay DEF OpenStage, TypeOK
  <2> QED BY <2>1, <2>2
<1>4. CASE Finish(s)
  BY <1>4, LeaveType, ThrowType, TablesStay DEF Finish, TypeOK
<1>5. CASE Catch(s)
  <2>1. call[s].prep \in Preparations
    BY <1>5 DEF Catch, TypeOK, AtWork
  <2> DEFINE p == call[s].prep
             r == [execution[p] EXCEPT !.state = Caught(execution[p].state)]
  <2>2. r \in Executions
    BY <2>1, RowType DEF Caught, Executions, States
  <2>3. TablesTypeOK'
    <3>1. execution' = [execution EXCEPT ![p] = r]
      BY <1>5 DEF Catch, TypeOK, TablesTypeOK
    <3> HIDE DEF r
    <3>2. execution' \in [Preparations -> Executions]
      BY <2>1, <2>2, <3>1, RowType
    <3> QED BY <1>5, <3>2 DEF Catch, TypeOK, TablesTypeOK, ownerVars, dataVars
  <2> QED BY <1>5, <2>3, LeaveType DEF Catch, TypeOK
<1>6. CASE EndSession(s)
  BY <1>6, LeaveType, TablesStay DEF EndSession, TypeOK
<1> QED BY <1>1, <1>2, <1>3, <1>4, <1>5, <1>6

(* A stage builds well-typed reports. *)
LEMMA BuildType ==
    ASSUME TypeOK, NEW s \in Sessions, Build(s)
    PROVE  reports' \in [Stages -> [scan : 0..MaxScan, config : Nat]]
<1>1. CASE UNCHANGED reports
  BY <1>1 DEF TypeOK, TablesTypeOK
<1>2. CASE ~UNCHANGED reports
  <2>1. PICK c \in call[s].asOf..config :
          reports' = [reports EXCEPT ![call[s].stage] = [scan |-> latest, config |-> c]]
    BY <1>2 DEF Build
  <2>2. c \in Nat /\ latest \in 0..MaxScan
    BY ConstantsAssumption DEF TypeOK, TablesTypeOK, SessionsTypeOK, Calls
  <2> QED BY <2>1, <2>2 DEF TypeOK, TablesTypeOK
<1> QED BY <1>1, <1>2

(* A checkpoint writes well-typed receipts. *)
LEMMA CheckpointType ==
    ASSUME TypeOK, NEW p \in Preparations, NEW k \in Stages, NEW plan \in BOOLEAN,
           Checkpoint(p, k, plan)
    PROVE  /\ execution' \in [Preparations -> Executions]
           /\ continuation' \in [Preparations -> Continuations]
<1> DEFINE e == [execution[p] EXCEPT !.state = "completed", !.run = counter + 1]
           b == IF k = 0 THEN plan ELSE continuation[p].planned
           c == [continuation[p] EXCEPT !.stage = k + 1, !.planned = b]
<1>1. e \in Executions
  <2>1. counter + 1 \in Nat /\ execution[p] \in Executions
    BY RowType DEF TypeOK, TablesTypeOK
  <2> QED BY <2>1 DEF Executions, States
<1>2. c \in Continuations
  <2>1. k + 1 \in 0..3 /\ continuation[p] \in Continuations
    BY RowType DEF Stages
  <2>2. b \in BOOLEAN
    BY <2>1 DEF Continuations
  <2> HIDE DEF b
  <2> QED BY <2>1, <2>2 DEF Continuations
<1>3. continuation' = [continuation EXCEPT ![p] = c]
  BY DEF Checkpoint, TypeOK, TablesTypeOK
<1>4. execution' = execution \/ execution' = [execution EXCEPT ![p] = e]
  BY DEF Checkpoint, TypeOK, TablesTypeOK
<1> HIDE DEF e, c
<1> QED BY <1>1, <1>2, <1>3, <1>4, RowType DEF TypeOK, TablesTypeOK

(* The commit of a stage keeps the types. *)
LEMMA CommitStageType ==
    ASSUME TypeOK, NEW s \in Sessions, CommitStage(s)
    PROVE  TypeOK'
<1> DEFINE k == call[s].stage
           p == call[s].prep
<1>0. /\ pc[s] = "write" /\ k \in Stages /\ call[s] \in Calls /\ Planned(s) \in BOOLEAN
      /\ ~Legacy(s) => p \in Preparations
      /\ counter \in Nat
  BY PlannedType DEF CommitStage, TypeOK, TablesTypeOK, SessionsTypeOK, AtWork, Legacy, Calls
<1>1. TablesTypeOK'
  <2>1. /\ execution' \in [Preparations -> Executions]
        /\ continuation' \in [Preparations -> Continuations]
    <3>1. CASE UNCHANGED <<execution, continuation>>
      BY <3>1 DEF TypeOK, TablesTypeOK
    <3>2. CASE ~Legacy(s) /\ Checkpoint(p, k, Planned(s))
      BY <1>0, <3>2, CheckpointType
    <3> QED BY <3>1, <3>2 DEF CommitStage, receiptVars
  <2>2. reports' \in [Stages -> [scan : 0..MaxScan, config : Nat]]
    <3>1. CASE Build(s)
      BY <3>1, BuildType
    <3>2. CASE ~Build(s)
      BY <3>2 DEF CommitStage, TypeOK, TablesTypeOK
    <3> QED BY <3>1, <3>2
  <2>3. counter' \in Nat
    BY <1>0 DEF CommitStage, receiptVars
  <2> QED BY <2>1, <2>2, <2>3 DEF CommitStage, TypeOK, TablesTypeOK, ownerVars
<1>2. SessionsTypeOK' /\ \A t \in Sessions : AtWork(t)'
  <2>1. CASE Throw(s)
    BY <1>0, <2>1, ThrowType DEF CommitStage
  <2>2. CASE Done(s)
    BY <1>0, <2>2, DoneType DEF CommitStage
  <2>3. CASE ~Throw(s) /\ ~Done(s)
    <3> DEFINE c == [call[s] EXCEPT !.stage = k + 1, !.planned = Planned(s), !.asOf = 0]
    <3>1. /\ call' = [call EXCEPT ![s].stage = k + 1, ![s].planned = Planned(s), ![s].asOf = 0]
          /\ k # 2 /\ Goto(s, "stage") /\ EndTransaction(s) /\ UNCHANGED <<runLock, guard, calm>>
      BY <2>3 DEF CommitStage
    <3>2. k + 1 \in Stages
      BY <1>0, <3>1 DEF Stages
    <3>3. c \in Calls
      BY <1>0, <3>2 DEF Calls
    <3>4. /\ call' = [call EXCEPT ![s] = c]
          /\ c.entry = call[s].entry /\ c.prep = call[s].prep /\ c.file = call[s].file
      BY <1>0, <3>1 DEF Calls, TypeOK, SessionsTypeOK
    <3>5. importLock' \in Sessions \cup {Nobody} /\ "stage" \in Steps
      BY <3>1 DEF EndTransaction, TypeOK, SessionsTypeOK, Steps
    <3> HIDE DEF c
    <3> QED BY <1>0, <3>1, <3>3, <3>4, <3>5, GoType
  <2> QED BY <2>1, <2>2, <2>3
<1> QED BY <1>1, <1>2 DEF TypeOK

(* A call by the bot keeps the types. *)
LEMMA CallType ==
    ASSUME TypeOK, NEW s \in Sessions, Call(s)
    PROVE  TypeOK'
<1>1. ASSUME NEW e \in {"run", "recover", "legacy"}, NEW p \in Preparations \cup {NoPreparation},
             NEW f \in Files, NEW l \in BOOLEAN, NEW g \in BOOLEAN, NEW step \in Steps,
             step \notin {"idle", "lost", "finish", "catch"}, Begin(s, e, p, f, l, g, step),
             e # "legacy" => p \in Preparations,
             step = "enter" => e = "run", step = "validate" => e = "recover",
             step \in {"import", "phaseA"} => e # "recover"
      PROVE  TypeOK'
  <2> DEFINE c == [NoCall EXCEPT !.entry = e, !.prep = p, !.file = f]
  <2>1. c \in Calls /\ c.entry = e /\ c.prep = p /\ c.file = f
    <3>1. NoCall \in Calls
      BY DEF NoCall, Calls, Stages
    <3> QED BY <3>1 DEF Calls
  <2>2. call' = [call EXCEPT ![s] = c] /\ pc' = [pc EXCEPT ![s] = step]
    BY <1>1 DEF Begin, Goto
  <2> HIDE DEF c
  <2>3. SessionsTypeOK'
    BY <1>1, <2>1, <2>2 DEF Begin, TypeOK, SessionsTypeOK
  <2>4. ASSUME NEW t \in Sessions
        PROVE  AtWork(t)'
    <3>1. CASE t = s
      <4>1. pc'[t] = step /\ call'[t] = c
        BY <2>2, <3>1 DEF TypeOK, SessionsTypeOK
      <4> QED BY <1>1, <2>1, <4>1 DEF AtWork
    <3>2. CASE t # s
      <4>1. pc'[t] = pc[t] /\ call'[t] = call[t]
        BY <2>2, <3>2 DEF TypeOK, SessionsTypeOK
      <4> QED BY <4>1 DEF TypeOK, AtWork
    <3> QED BY <3>1, <3>2
  <2> QED BY <1>1, <2>3, <2>4, TablesStay DEF Begin, TypeOK
<1>2. PICK f \in Files :
        \/ CallLegacy(s, f)
        \/ \E p \in Preparations, g \in BOOLEAN :
             CallRun(s, p, f, g) \/ \E l \in BOOLEAN : CallRecovery(s, p, f, l, g)
  BY DEF Call
<1>3. CASE CallLegacy(s, f)
  BY <1>1, <1>3 DEF CallLegacy, Steps
<1>4. ASSUME NEW p \in Preparations, NEW g \in BOOLEAN, CallRun(s, p, f, g)
      PROVE  TypeOK'
  BY <1>1, <1>4 DEF CallRun, Steps
<1>5. ASSUME NEW p \in Preparations, NEW g \in BOOLEAN, NEW l \in BOOLEAN,
             CallRecovery(s, p, f, l, g)
      PROVE  TypeOK'
  BY <1>1, <1>5 DEF CallRecovery, Steps
<1> QED BY <1>2, <1>3, <1>4, <1>5

(* A failure keeps the types. *)
LEMMA FailureType ==
    ASSUME TypeOK, NEW s \in Sessions, Fault(s) \/ Disconnect(s)
    PROVE  TypeOK'
<1>1. CASE Fault(s)
  BY <1>1, ThrowType, TablesStay DEF Fault, TypeOK
<1>2. CASE Disconnect(s)
  <2>1. NoCall \in Calls
    BY DEF NoCall, Calls, Stages
  <2>2. SessionsTypeOK'
    BY <1>2, <2>1 DEF Disconnect, Goto, EndTransaction, TypeOK, SessionsTypeOK, Steps
  <2>3. ASSUME NEW t \in Sessions
        PROVE  AtWork(t)'
    <3>1. CASE t = s
      BY <1>2, <3>1 DEF Disconnect, Goto, TypeOK, SessionsTypeOK, AtWork
    <3>2. CASE t # s
      <4>1. pc'[t] = pc[t] /\ call'[t] = call[t]
        BY <1>2, <3>2 DEF Disconnect, Goto, TypeOK, SessionsTypeOK
      <4> QED BY <4>1 DEF TypeOK, AtWork
    <3> QED BY <3>1, <3>2
  <2> QED BY <1>2, <2>2, <2>3, TablesStay DEF Disconnect, TypeOK
<1> QED BY <1>1, <1>2

(* The bot and the configuration keep the types. *)
LEMMA BotType ==
    ASSUME TypeOK, Bot \/ Reconfigure
    PROVE  TypeOK'
<1>1. CASE UNCHANGED <<lockVars, sessVars, calm>>
  <2>1. SessionsTypeOK' /\ \A t \in Sessions : AtWork(t)'
    BY <1>1 DEF TypeOK, SessionsTypeOK, AtWork, lockVars, sessVars
  <2>2. ASSUME NEW p \in Preparations, NEW f \in Files, Prepare(p, f)
        PROVE  TablesTypeOK'
    <3> DEFINE r == [NoExecution EXCEPT !.state = "prepared", !.file = f]
    <3>1. r \in Executions
      <4>1. MaxScan \in Nat
        BY ConstantsAssumption
      <4>2. NoExecution \in Executions
        BY <4>1 DEF NoExecution, Executions, States
      <4> QED BY <4>2 DEF Executions, States
    <3>2. execution' = [execution EXCEPT ![p] = r]
      BY <2>2 DEF Prepare
    <3> HIDE DEF r
    <3>3. execution' \in [Preparations -> Executions]
      BY <3>1, <3>2, RowType
    <3> QED BY <2>2, <3>3 DEF Prepare, TypeOK, TablesTypeOK, dataVars
  <2>3. ASSUME NEW p \in Preparations, Settle(p)
        PROVE  TablesTypeOK'
    <3> DEFINE r == [execution[p] EXCEPT !.settled = TRUE]
    <3>1. r \in Executions
      BY RowType DEF Executions
    <3>2. execution' = [execution EXCEPT ![p] = r]
      BY <2>3 DEF Settle, TypeOK, TablesTypeOK
    <3> HIDE DEF r
    <3>3. execution' \in [Preparations -> Executions]
      BY <3>1, <3>2, RowType
    <3> QED BY <2>3, <3>3 DEF Settle, TypeOK, TablesTypeOK, dataVars
  <2>4. ASSUME Doubt \/ Withdraw \/ (\E p \in Preparations : Release(p)) \/ Reconfigure
        PROVE  TablesTypeOK'
    <3>1. CASE Doubt \/ Withdraw \/ \E p \in Preparations : Release(p)
      BY <3>1 DEF Doubt, Withdraw, Release, TypeOK, TablesTypeOK, receiptVars, dataVars
    <3>2. CASE Reconfigure
      BY <3>2 DEF Reconfigure, TypeOK, TablesTypeOK, receiptVars, ownerVars
    <3> QED BY <2>4, <3>1, <3>2
  <2> QED BY <2>1, <2>2, <2>3, <2>4 DEF Bot, TypeOK
<1> QED BY <1>1 DEF Bot, Prepare, Doubt, Release, Settle, Withdraw, Reconfigure

(* The tables, locks and calls are well typed at every step. *)
THEOREM TypeCorrect == Spec => []TypeOK
<1>1. TypeOK /\ [Next]_vars => TypeOK'
  <2> SUFFICES ASSUME TypeOK, [Next]_vars PROVE TypeOK'
    OBVIOUS
  <2>1. ASSUME NEW s \in Sessions, Step(s)
        PROVE  TypeOK'
    BY <2>1, ImportStepType, ReportStepType, CommitStageType DEF Step
  <2>2. ASSUME NEW s \in Sessions, Call(s) \/ Fault(s) \/ Disconnect(s)
        PROVE  TypeOK'
    BY <2>2, CallType, FailureType
  <2>3. CASE UNCHANGED vars
    BY <2>3 DEF vars, receiptVars, ownerVars, dataVars, lockVars, sessVars,
                TypeOK, TablesTypeOK, SessionsTypeOK, AtWork
  <2> QED BY <2>1, <2>2, <2>3, BotType DEF Next
<1> QED BY <1>1, InitType, PTL DEF Spec

-----------------------------------------------------------------------------
(* The inductive invariant, with the types it rests on. *)
IInv == TypeOK /\ OutcomeInvariant

SessionStep(s) == Step(s) \/ Call(s) \/ Fault(s) \/ Disconnect(s)

(* What the end of a call, or of its transaction, does to the sessions. *)
Ends(s) ==
    /\ pc'[s] \in {"idle", "finish", "catch"}
    /\ call'[s] \in {call[s], NoCall}
    /\ call'[s].entry = "run" => UNCHANGED runLock
    /\ importLock' = IF importLock = s THEN Nobody ELSE importLock
    /\ \A t \in Sessions \ {s} :
         /\ pc'[t] = pc[t] /\ call'[t] = call[t]
         /\ \A p \in Preparations : runLock[p] = t => runLock'[p] = t
         /\ guard = t => guard' = t

(* A session that leaves ends its call. *)
LEMMA EndsByLeave ==
    ASSUME TypeOK, NEW s \in Sessions, Leave(s)
    PROVE  Ends(s)
<1>1. \A t \in Sessions \ {s} : pc'[t] = pc[t] /\ call'[t] = call[t]
  BY DEF TypeOK, SessionsTypeOK, Leave, Goto
<1>2. pc'[s] = "idle" /\ call'[s] = NoCall /\ call'[s].entry = "none"
  BY DEF TypeOK, SessionsTypeOK, Leave, Goto, NoCall
<1>3. \A t \in Sessions \ {s} :
        /\ \A p \in Preparations : runLock[p] = t => runLock'[p] = t
        /\ guard = t => guard' = t
  BY DEF TypeOK, SessionsTypeOK, Leave
<1> QED BY <1>1, <1>2, <1>3 DEF Leave, EndTransaction, Ends

(* A failed step ends a call or its transaction. *)
LEMMA EndsByThrow ==
    ASSUME TypeOK, NEW s \in Sessions, Throw(s)
    PROVE  Ends(s)
<1>1. CASE call[s].entry = "run" /\ pc[s] # "enter"
  BY <1>1 DEF Throw, Goto, EndTransaction, Ends, TypeOK, SessionsTypeOK
<1>2. CASE ~(call[s].entry = "run" /\ pc[s] # "enter")
  BY <1>2, EndsByLeave DEF Throw
<1> QED BY <1>1, <1>2

(* The end of the reports ends a call or its transaction. *)
LEMMA EndsByDone ==
    ASSUME TypeOK, NEW s \in Sessions, Done(s)
    PROVE  Ends(s)
<1>1. CASE call[s].entry = "run"
  BY <1>1 DEF Done, Goto, EndTransaction, Ends, TypeOK, SessionsTypeOK
<1>2. CASE call[s].entry # "run"
  BY <1>2, EndsByLeave DEF Done
<1> QED BY <1>1, <1>2

(* What a step of s that goes on does to the sessions. *)
Proceeds(s) ==
    /\ pc'[s] \in Steps
    /\ call'[s].entry = call[s].entry /\ call'[s].prep = call[s].prep
    /\ call'[s].file = call[s].file
    /\ \A t \in Sessions \ {s} : pc'[t] = pc[t] /\ call'[t] = call[t]
    /\ UNCHANGED <<runLock, guard>>
    /\ \/ /\ importLock' = importLock
          /\ pc[s] \notin {"phaseA", "write"} /\ pc'[s] \notin {"phaseA", "write"}
       \/ importLock = Nobody /\ importLock' = s /\ pc'[s] \in {"phaseA", "write"}
       \/ EndTransaction(s) /\ pc'[s] \notin {"phaseA", "write"}

(* Every step of a session goes on or ends its call. *)
LEMMA StepEnds ==
    ASSUME TypeOK, NEW s \in Sessions, Step(s)
    PROVE  Ends(s) \/ Proceeds(s)
<1>1. CASE Enter(s) \/ Validate(s) \/ Archive(s) \/ OpenPhaseA(s) \/ CommitPhaseA(s)
  <2>1. CASE Throw(s) \/ Leave(s)
    BY <2>1, EndsByLeave, EndsByThrow
  <2>2. CASE ~(Throw(s) \/ Leave(s))
    <3>1. \/ /\ pc[s] \in {"enter", "validate", "archive"}
             /\ Goto(s, "import") \/ Goto(s, "archive") \/ Goto(s, "open")
             /\ UNCHANGED <<call, lockVars>>
          \/ /\ importLock = Nobody /\ importLock' = s /\ Goto(s, "phaseA")
             /\ UNCHANGED <<call, runLock, guard>>
          \/ EndTransaction(s) /\ Goto(s, "archive") /\ UNCHANGED <<call, runLock, guard>>
      BY <1>1, <2>2 DEF Enter, Validate, Archive, OpenPhaseA, CommitPhaseA
    <3>2. Proceeds(s)
      BY <3>1 DEF Proceeds, Goto, TypeOK, SessionsTypeOK, lockVars, Steps
    <3> QED BY <3>2
  <2> QED BY <2>1, <2>2
<1>2. CASE OpenReports(s)
  <2>1. CASE Throw(s) \/ Done(s)
    BY <2>1, EndsByDone, EndsByThrow
  <2>2. CASE ~(Throw(s) \/ Done(s))
    <3>1. PICK stage : /\ call' = [call EXCEPT ![s].stage = stage]
                       /\ pc[s] = "open" /\ Goto(s, "stage") /\ UNCHANGED lockVars
      BY <1>2, <2>2 DEF OpenReports
    <3>2. Proceeds(s)
      BY <3>1 DEF Proceeds, Goto, TypeOK, SessionsTypeOK, Calls, lockVars, Steps
    <3> QED BY <3>2
  <2> QED BY <2>1, <2>2
<1>3. CASE OpenStage(s)
  <2>1. CASE Throw(s)
    BY <2>1, EndsByThrow
  <2>2. CASE ~Throw(s)
    <3>1. /\ call' = [call EXCEPT ![s].asOf = config] /\ importLock = Nobody
          /\ Goto(s, "write") /\ importLock' = s /\ UNCHANGED <<runLock, guard>>
      BY <1>3, <2>2 DEF OpenStage, Admitted
    <3>2. Proceeds(s)
      BY <3>1 DEF Proceeds, Goto, TypeOK, SessionsTypeOK, Calls, Steps
    <3> QED BY <3>2
  <2> QED BY <2>1, <2>2
<1>4. CASE CommitStage(s)
  <2>1. CASE Throw(s) \/ Done(s)
    BY <2>1, EndsByDone, EndsByThrow
  <2>2. CASE ~(Throw(s) \/ Done(s))
    <3>1. PICK k, b : /\ call' = [call EXCEPT ![s].stage = k, ![s].planned = b, ![s].asOf = 0]
                      /\ Goto(s, "stage") /\ EndTransaction(s) /\ UNCHANGED <<runLock, guard>>
      BY <1>4, <2>2 DEF CommitStage
    <3>2. Proceeds(s)
      BY <3>1 DEF Proceeds, Goto, TypeOK, SessionsTypeOK, Calls, Steps
    <3> QED BY <3>2
  <2> QED BY <2>1, <2>2
<1>5. CASE Finish(s) \/ Catch(s) \/ EndSession(s)
  BY <1>5, EndsByLeave, EndsByThrow DEF Finish, Catch, EndSession
<1> QED BY <1>1, <1>2, <1>3, <1>4, <1>5 DEF Step

(* What a step of s leaves to the other sessions. *)
OthersKeep(s) ==
    \A t \in Sessions \ {s} :
      /\ pc'[t] = pc[t] /\ call'[t] = call[t]
      /\ \A p \in Preparations : runLock[p] = t => runLock'[p] = t
      /\ guard = t => guard' = t
      /\ importLock = t <=> importLock' = t

(* No session touches what another one holds. *)
LEMMA OthersKeepLocks ==
    ASSUME TypeOK, NEW s \in Sessions, SessionStep(s)
    PROVE  OthersKeep(s)
<1> USE ConstantsAssumption
<1>1. CASE Ends(s)
  BY <1>1 DEF Ends, OthersKeep
<1>2. CASE Step(s)
  <2>1. CASE Proceeds(s)
    BY <2>1 DEF Proceeds, EndTransaction, OthersKeep
  <2> QED BY <1>1, <1>2, <2>1, StepEnds
<1>3. CASE Call(s)
  <2>1. PICK e, p, f, l, g, step : Begin(s, e, p, f, l, g, step)
    BY <1>3 DEF Call, CallLegacy, CallRun, CallRecovery
  <2>2. \A t \in Sessions \ {s} : pc'[t] = pc[t] /\ call'[t] = call[t]
    BY <2>1 DEF Begin, Goto, TypeOK, SessionsTypeOK
  <2>3. \A t \in Sessions \ {s} :
          /\ \A q \in Preparations : runLock[q] = t => runLock'[q] = t
          /\ guard = t => guard' = t
    BY <2>1 DEF Begin, TypeOK, SessionsTypeOK
  <2> QED BY <2>1, <2>2, <2>3 DEF Begin, OthersKeep
<1>4. CASE Fault(s)
  BY <1>1, <1>4, EndsByThrow DEF Fault
<1>5. CASE Disconnect(s)
  BY <1>5 DEF Disconnect, Goto, EndTransaction, OthersKeep, TypeOK, SessionsTypeOK
<1> QED BY <1>2, <1>3, <1>4, <1>5 DEF SessionStep

(* A call begins outside every transaction, the wrapper's with its lock. *)
LEMMA Begins ==
    ASSUME TypeOK, NEW s \in Sessions, Call(s)
    PROVE  /\ pc[s] = "idle" /\ pc'[s] \in {"enter", "validate", "import"}
           /\ UNCHANGED importLock
           /\ call'[s].entry = "run" => runLock'[call'[s].prep] = s
<1>1. ASSUME NEW e, NEW p, NEW f, NEW l, NEW g, NEW step, Begin(s, e, p, f, l, g, step)
      PROVE  /\ pc[s] = "idle" /\ pc'[s] = step /\ UNCHANGED importLock
             /\ call'[s].entry = e /\ call'[s].prep = p
             /\ l /\ p \in Preparations => runLock'[p] = s
  <2>1. call'[s] = [NoCall EXCEPT !.entry = e, !.prep = p, !.file = f] /\ pc'[s] = step
    BY <1>1 DEF Begin, Goto, TypeOK, SessionsTypeOK
  <2>2. call'[s].entry = e /\ call'[s].prep = p
    BY <2>1 DEF NoCall
  <2> QED BY <1>1, <2>1, <2>2 DEF Begin, TypeOK, SessionsTypeOK
<1>2. PICK f \in Files :
        \/ CallLegacy(s, f)
        \/ \E p \in Preparations, g \in BOOLEAN :
             CallRun(s, p, f, g) \/ \E l \in BOOLEAN : CallRecovery(s, p, f, l, g)
  BY DEF Call
<1>3. CASE CallLegacy(s, f)
  BY <1>1, <1>3 DEF CallLegacy
<1>4. ASSUME NEW p \in Preparations, NEW g \in BOOLEAN, CallRun(s, p, f, g)
      PROVE  /\ pc[s] = "idle" /\ pc'[s] = "enter" /\ UNCHANGED importLock
             /\ call'[s].prep = p /\ runLock'[p] = s
  BY <1>1, <1>4 DEF CallRun
<1>5. ASSUME NEW p \in Preparations, NEW g \in BOOLEAN, NEW l \in BOOLEAN,
             CallRecovery(s, p, f, l, g)
      PROVE  /\ pc[s] = "idle" /\ pc'[s] = "validate" /\ UNCHANGED importLock
             /\ call'[s].entry = "recover"
  BY <1>1, <1>5 DEF CallRecovery
<1> QED BY <1>2, <1>3, <1>4, <1>5

(* Every step keeps the locks with the sessions that work under them. *)
LEMMA LocksStep ==
    ASSUME IInv, NEW s \in Sessions, SessionStep(s)
    PROVE  LocksAreHeld'
<1> USE ConstantsAssumption DEF IInv, OutcomeInvariant
<1>1. ASSUME NEW t \in Sessions, t # s
      PROVE  /\ pc'[t] \in {"phaseA", "write"} <=> importLock' = t
             /\ call'[t].entry = "run" => runLock'[call'[t].prep] = t
  <2>1. call[t].entry = "run" => call[t].prep \in Preparations
    BY DEF TypeOK, AtWork, NoCall
  <2> QED BY <1>1, <2>1, OthersKeepLocks DEF OthersKeep, LocksAreHeld
<1>2. /\ pc'[s] \in {"phaseA", "write"} <=> importLock' = s
      /\ call'[s].entry = "run" => runLock'[call'[s].prep] = s
  <2>1. CASE Ends(s)
    BY <2>1 DEF Ends, LocksAreHeld, NoCall
  <2>2. CASE Proceeds(s)
    BY <2>2 DEF Proceeds, LocksAreHeld, EndTransaction
  <2>3. CASE Call(s)
    BY <2>3, Begins DEF LocksAreHeld
  <2>4. CASE Fault(s)
    BY <2>1, <2>4, EndsByThrow DEF Fault
  <2>5. CASE Disconnect(s)
    BY <2>5 DEF Disconnect, Goto, EndTransaction, NoCall, TypeOK, SessionsTypeOK
  <2> QED BY <2>1, <2>2, <2>3, <2>4, <2>5, StepEnds DEF SessionStep
<1> QED BY <1>1, <1>2 DEF LocksAreHeld

(* What happens to the tables while another session is inside a transaction *)
(* that holds the import lock: an entry or a caught error at most.          *)
LEMMA UnderImportLock ==
    ASSUME IInv, NEW s \in Sessions, SessionStep(s), importLock \in Sessions, importLock # s
    PROVE  /\ UNCHANGED <<continuation, counter, ownerVars, latest, config, reports, claim>>
           /\ \/ UNCHANGED execution
              \/ Enter(s)
              \/ Catch(s)
<1> USE ConstantsAssumption DEF IInv, OutcomeInvariant
<1>1. pc[s] \notin {"phaseA", "write"} /\ importLock # Nobody
  BY DEF LocksAreHeld
<1>2. CASE Step(s)
  BY <1>1, <1>2 DEF Step, Enter, OpenPhaseA, CommitPhaseA, Validate, Archive, OpenReports,
     OpenStage, CommitStage, Finish, Catch, EndSession, receiptVars, dataVars
<1>3. CASE Call(s) \/ Fault(s) \/ Disconnect(s)
  BY <1>3 DEF Call, CallLegacy, CallRun, CallRecovery, Begin, Fault, Disconnect,
     receiptVars, dataVars
<1> QED BY <1>2, <1>3 DEF SessionStep

(* Other sessions leave what a stage was admitted on. *)
LEMMA AdmissionStays ==
    ASSUME IInv, NEW s \in Sessions, SessionStep(s), NEW t \in Sessions, t # s, pc'[t] = "write"
    PROVE  /\ pc[t] = "write" /\ call'[t] = call[t]
           /\ UNCHANGED <<continuation, latest, config, holder>>
           /\ ~Legacy(t) => /\ execution'[call[t].prep] = execution[call[t].prep]
                            /\ HoldsBothLocks(t, call[t].prep)'
<1> USE ConstantsAssumption DEF IInv, OutcomeInvariant
<1>1. pc[t] = "write" /\ call'[t] = call[t] /\ importLock = t
  BY OthersKeepLocks DEF OthersKeep, LocksAreHeld
<1>2. UNCHANGED <<continuation, latest, config, holder>>
  BY <1>1, UnderImportLock DEF ownerVars
<1>3. ASSUME ~Legacy(t)
      PROVE  /\ execution'[call[t].prep] = execution[call[t].prep]
             /\ HoldsBothLocks(t, call[t].prep)'
  <2> DEFINE p == call[t].prep
             q == call[s].prep
  <2>1. p \in Preparations /\ HoldsBothLocks(t, p) /\ Reportable(p)
    BY <1>1, <1>3 DEF TypeOK, AtWork, Legacy, StageIsAdmitted, StillAdmitted
  <2>2. HoldsBothLocks(t, p)'
    BY <1>1, <2>1, OthersKeepLocks DEF OthersKeep, HoldsBothLocks
  <2>3. CASE Enter(s)
    <3>1. \/ UNCHANGED execution
          \/ execution' = [execution EXCEPT ![q].state = "running"] /\ execution[q].state = "prepared"
      BY <2>3 DEF Enter, Enterable
    <3>2. execution[p].state # "prepared"
      BY <2>1 DEF Reportable
    <3> QED BY <2>1, <2>2, <3>1, <3>2 DEF TypeOK, TablesTypeOK
  <2>4. CASE Catch(s)
    <3>1. call[s].entry = "run" /\ runLock[q] = s
      BY <2>4 DEF Catch, TypeOK, AtWork, LocksAreHeld
    <3>2. p # q
      BY <2>1, <3>1 DEF HoldsBothLocks
    <3> QED BY <2>1, <2>2, <2>4, <3>2 DEF Catch, TypeOK, TablesTypeOK
  <2>5. CASE UNCHANGED execution
    BY <2>2, <2>5
  <2> QED BY <1>1, <2>3, <2>4, <2>5, UnderImportLock
<1> QED BY <1>1, <1>2, <1>3

(* A step of a session leaves every stage at work admitted. *)
LEMMA AdmittedStep ==
    ASSUME IInv, NEW s \in Sessions, SessionStep(s)
    PROVE  StageIsAdmitted'
<1> USE ConstantsAssumption DEF IInv, OutcomeInvariant
<1>1. SUFFICES ASSUME NEW t \in Sessions, pc'[t] = "write"
               PROVE  StillAdmitted(t)'
  BY DEF StageIsAdmitted
<1>2. CASE t # s
  <2>1. /\ pc[t] = "write" /\ call'[t] = call[t] /\ StillAdmitted(t)
        /\ UNCHANGED <<continuation, latest, config, holder>>
        /\ ~Legacy(t) => /\ execution'[call[t].prep] = execution[call[t].prep]
                         /\ HoldsBothLocks(t, call[t].prep)'
    BY <1>1, <1>2, AdmissionStays DEF StageIsAdmitted
  <2>2. call'[t].asOf <= config' /\ \A q \in Preparations : continuation'[q].config <= call'[t].asOf
    BY <2>1 DEF StillAdmitted
  <2>3. CASE Legacy(t)
    BY <2>1, <2>2, <2>3 DEF StillAdmitted, Legacy
  <2>4. CASE ~Legacy(t)
    BY <2>1, <2>2, <2>4 DEF StillAdmitted, Legacy, Reportable, Owned, Current, HoldsBothLocks
  <2> QED BY <2>3, <2>4
<1>3. CASE t = s
  <2>1. OpenStage(s) /\ Admitted(s) /\ ~Throw(s)
    <3>1. ~Ends(s)
      BY <1>1, <1>3 DEF Ends
    <3>2. ~Throw(s) /\ ~Leave(s) /\ ~Done(s)
      BY <3>1, EndsByThrow, EndsByLeave, EndsByDone DEF TypeOK
    <3>3. \A step : Goto(s, step) => step = "write"
      BY <1>1, <1>3 DEF Goto, TypeOK, SessionsTypeOK
    <3>4. ~Call(s)
      BY <3>3 DEF Call, CallLegacy, CallRun, CallRecovery, Begin
    <3>5. ~Fault(s) /\ ~Disconnect(s)
      BY <3>2, <3>3 DEF Fault, Disconnect
    <3>6. Step(s) /\ ~Enter(s) /\ ~OpenPhaseA(s) /\ ~CommitPhaseA(s) /\ ~Archive(s)
      BY <3>2, <3>3, <3>4, <3>5 DEF SessionStep, Enter, OpenPhaseA, CommitPhaseA, Archive
    <3>7. ~Validate(s) /\ ~OpenReports(s) /\ ~CommitStage(s)
      BY <3>2, <3>3 DEF Validate, OpenReports, CommitStage
    <3>8. ~Finish(s) /\ ~Catch(s) /\ ~EndSession(s)
      BY <3>2 DEF Finish, Catch, EndSession
    <3> QED BY <3>2, <3>6, <3>7, <3>8 DEF Step, OpenStage
  <2>2. /\ call' = [call EXCEPT ![s].asOf = config]
        /\ UNCHANGED <<execution, continuation, holder, latest, config, runLock, guard>>
    BY <2>1 DEF OpenStage, receiptVars, ownerVars, dataVars
  <2>3. /\ call'[s].asOf = config /\ call'[s].prep = call[s].prep
        /\ call'[s].file = call[s].file /\ call'[s].entry = call[s].entry
    BY <2>2 DEF TypeOK, SessionsTypeOK, Calls
  <2>4. config \in Nat /\ \A q \in Preparations : continuation[q].config <= config
    BY DEF ReportsAreFresh, TypeOK, TablesTypeOK
  <2>5. ~Legacy(s) => /\ HoldsBothLocks(s, call[s].prep) /\ Current(call[s].prep)
                      /\ execution[call[s].prep].file = call[s].file
                      /\ Reportable(call[s].prep) /\ Owned(call[s].prep)
    BY <2>1 DEF Admitted, Valid
  <2>6. ~Legacy(s)' <=> ~Legacy(s)
    BY <2>3 DEF Legacy
  <2> QED BY <1>3, <2>2, <2>3, <2>4, <2>5, <2>6
          DEF StillAdmitted, HoldsBothLocks, Reportable, Owned, Current
<1> QED BY <1>2, <1>3

-----------------------------------------------------------------------------
(* The four ways a session moves the receipts of its preparation. *)
Enters(p) ==
    /\ execution[p].state = "prepared"
    /\ execution' = [execution EXCEPT ![p].state = "running"]
    /\ UNCHANGED continuation

Commits(p) ==
    /\ execution[p].state = "running" /\ ScanLeft
    /\ CommitReceipt(p, latest + 1)

Delivers(s, p) ==
    /\ pc[s] = "write" /\ ~Legacy(s) /\ call[s].stage \in Stages
    /\ Open(p, call[s].stage)
    /\ Checkpoint(p, call[s].stage, Planned(s))

Catches(p) ==
    /\ execution' = [execution EXCEPT ![p].state = Caught(@)]
    /\ UNCHANGED continuation

(* A session moves receipts in these four ways only, under its execution lock. *)
LEMMA ReceiptMoves ==
    ASSUME IInv, NEW s \in Sessions, SessionStep(s)
    PROVE  \/ UNCHANGED <<execution, continuation>>
           \/ /\ call[s].prep \in Preparations
              /\ runLock[call[s].prep] = s
              /\ \/ Enters(call[s].prep) \/ Commits(call[s].prep)
                 \/ Delivers(s, call[s].prep) \/ Catches(call[s].prep)
<1> USE DEF IInv, OutcomeInvariant
<1>1. CASE Enter(s)
  BY <1>1 DEF Enter, Enterable, Enters, TypeOK, AtWork, LocksAreHeld
<1>2. CASE CommitPhaseA(s)
  <2>1. ~Legacy(s) => call[s].prep \in Preparations /\ runLock[call[s].prep] = s
    BY <1>2 DEF CommitPhaseA, TypeOK, SessionsTypeOK, Calls, AtWork, Legacy, LocksAreHeld
  <2> QED BY <1>2, <2>1 DEF CommitPhaseA, Commits
<1>3. CASE CommitStage(s)
  <2>1. UNCHANGED <<execution, continuation>> \/ Delivers(s, call[s].prep)
    BY <1>3 DEF CommitStage, Delivers, receiptVars, TypeOK, SessionsTypeOK, Calls
  <2>2. ~Legacy(s) => call[s].prep \in Preparations /\ runLock[call[s].prep] = s
    BY <1>3 DEF CommitStage, TypeOK, AtWork, Legacy, StageIsAdmitted, StillAdmitted,
                HoldsBothLocks
  <2> QED BY <2>1, <2>2 DEF Delivers
<1>4. CASE Catch(s)
  BY <1>4 DEF Catch, Catches, TypeOK, AtWork, LocksAreHeld
<1>5. CASE OpenPhaseA(s) \/ Archive(s) \/ Validate(s) \/ OpenReports(s) \/ OpenStage(s)
           \/ Finish(s) \/ EndSession(s)
  BY <1>5 DEF OpenPhaseA, Archive, Validate, OpenReports, OpenStage, Finish, EndSession,
              receiptVars
<1>6. CASE Call(s) \/ Fault(s) \/ Disconnect(s)
  BY <1>6 DEF Call, CallLegacy, CallRun, CallRecovery, Begin, Fault, Disconnect, receiptVars
<1> QED BY <1>1, <1>2, <1>3, <1>4, <1>5, <1>6 DEF SessionStep, Step

(* A step of the bot or of its environment moves receipts by preparing and  *)
(* by settling only.                                                        *)
LEMMA BotMoves ==
    ASSUME Bot \/ Reconfigure \/ UNCHANGED vars
    PROVE  /\ UNCHANGED <<continuation, counter, claim, latest, reports, lockVars, sessVars>>
           /\ \/ UNCHANGED execution
              \/ \E p \in Preparations : Settle(p) \/ \E f \in Files : Prepare(p, f)
  BY DEF Bot, Doubt, Withdraw, Release, Settle, Prepare, Reconfigure, vars, receiptVars,
         ownerVars, dataVars

(* Every step keeps the two receipts of a preparation in agreement. *)
LEMMA ReceiptsStep ==
    ASSUME IInv, [Next]_vars
    PROVE  ReceiptsAgree'
<1> DEFINE Agree(e, c) ==
             /\ e.state \in {"import_committed", "partial", "completed"} <=> c.latest # 0
             /\ e.scan = c.latest
             /\ c.stage # 0 => c.latest # 0
             /\ e.state = "completed" <=> c.stage = 3
             /\ e.state = "completed" <=> e.run # 0
             /\ e.settled => e.state \in {"rolled_back", "partial"}
<1>0. /\ \A p \in Preparations : Agree(execution[p], continuation[p])
      /\ TypeOK
  BY DEF IInv, OutcomeInvariant, ReceiptsAgree
<1>1. SUFFICES \A p \in Preparations : Agree(execution'[p], continuation'[p])
  BY DEF ReceiptsAgree
<1>2. CASE UNCHANGED <<execution, continuation>>
  BY <1>0, <1>2
<1>3. ASSUME NEW p \in Preparations, NEW e, NEW c, Agree(e, c),
             execution' = [execution EXCEPT ![p] = e],
             continuation' = [continuation EXCEPT ![p] = c]
      PROVE  \A q \in Preparations : Agree(execution'[q], continuation'[q])
  <2> HIDE DEF Agree
  <2> QED BY <1>0, <1>3 DEF TypeOK, TablesTypeOK
<1>4. ASSUME NEW p \in Preparations
      PROVE  /\ execution[p] \in Executions /\ continuation[p] \in Continuations
             /\ continuation' = continuation =>
                  continuation' = [continuation EXCEPT ![p] = continuation[p]]
             /\ execution' = execution => execution' = [execution EXCEPT ![p] = execution[p]]
  BY <1>0 DEF TypeOK, TablesTypeOK
<1>5. ASSUME NEW p \in Preparations, Enters(p)
      PROVE  \A q \in Preparations : Agree(execution'[q], continuation'[q])
  <2> DEFINE e == [execution[p] EXCEPT !.state = "running"]
  <2>1. Agree(e, continuation[p])
    BY <1>0, <1>4, <1>5 DEF Enters, Executions
  <2>2. execution' = [execution EXCEPT ![p] = e]
    BY <1>0, <1>5 DEF Enters, TypeOK, TablesTypeOK
  <2> HIDE DEF e, Agree
  <2> QED BY <1>3, <1>4, <1>5, <2>1, <2>2 DEF Enters
<1>6. ASSUME NEW p \in Preparations, Commits(p)
      PROVE  \A q \in Preparations : Agree(execution'[q], continuation'[q])
  <2> DEFINE e == [execution[p] EXCEPT !.state = "import_committed", !.scan = latest + 1]
             c == [NoContinuation EXCEPT !.latest = latest + 1, !.config = config]
  <2>1. latest + 1 # 0
    BY <1>0, ConstantsAssumption DEF TypeOK, TablesTypeOK
  <2>2. Agree(e, c)
    BY <1>0, <1>4, <1>6, <2>1 DEF Commits, Executions, NoContinuation
  <2>3. execution' = [execution EXCEPT ![p] = e] /\ continuation' = [continuation EXCEPT ![p] = c]
    BY <1>0, <1>6 DEF Commits, CommitReceipt, TypeOK, TablesTypeOK
  <2> HIDE DEF e, c, Agree
  <2> QED BY <1>3, <2>2, <2>3
<1>7. ASSUME NEW p \in Preparations, NEW s \in Sessions, Delivers(s, p), call[s].prep = p
      PROVE  \A q \in Preparations : Agree(execution'[q], continuation'[q])
  <2> DEFINE k == call[s].stage
             b == IF k = 0 THEN Planned(s) ELSE continuation[p].planned
             c == [continuation[p] EXCEPT !.stage = k + 1, !.planned = b]
             e == IF k < 2 THEN execution[p]
                  ELSE [execution[p] EXCEPT !.state = "completed", !.run = counter + 1]
  <2>1. /\ k \in {0, 1, 2} /\ counter + 1 # 0 /\ continuation[p].stage = k
        /\ continuation[p].latest # 0
    BY <1>0, <1>7, ConstantsAssumption
       DEF Delivers, Open, Stages, IInv, OutcomeInvariant, StageIsAdmitted, StillAdmitted,
           Current, TypeOK, TablesTypeOK
  <2>2. Agree(e, c)
    <3>1. /\ c.latest = continuation[p].latest /\ c.stage = k + 1
          /\ k = 2 => /\ execution[p].state \in {"import_committed", "partial"}
                      /\ ~execution[p].settled
      BY <1>4, <1>7 DEF Continuations, Delivers, Open
    <3> HIDE DEF c
    <3> QED BY <1>0, <1>4, <2>1, <3>1 DEF Executions
  <2>3. execution' = [execution EXCEPT ![p] = e] /\ continuation' = [continuation EXCEPT ![p] = c]
    BY <1>0, <1>7, <2>1 DEF Delivers, Checkpoint, TypeOK, TablesTypeOK
  <2> HIDE DEF e, c, Agree
  <2> QED BY <1>3, <2>2, <2>3
<1>8. ASSUME NEW p \in Preparations, Catches(p)
      PROVE  \A q \in Preparations : Agree(execution'[q], continuation'[q])
  <2> DEFINE e == [execution[p] EXCEPT !.state = Caught(execution[p].state)]
  <2>1. Agree(e, continuation[p])
    BY <1>0, <1>4, <1>8 DEF Caught, Executions
  <2>2. execution' = [execution EXCEPT ![p] = e]
    BY <1>0, <1>8 DEF Catches, TypeOK, TablesTypeOK
  <2> HIDE DEF e, Agree
  <2> QED BY <1>3, <1>4, <1>8, <2>1, <2>2 DEF Catches
<1>9. ASSUME NEW p \in Preparations, Settle(p) \/ \E f \in Files : Prepare(p, f)
      PROVE  \A q \in Preparations : Agree(execution'[q], continuation'[q])
  <2>1. CASE Settle(p)
    <3> DEFINE e == [execution[p] EXCEPT !.settled = TRUE]
    <3>1. Agree(e, continuation[p])
      BY <1>0, <1>4, <2>1 DEF Settle, Executions
    <3>2. execution' = [execution EXCEPT ![p] = e] /\ continuation' = continuation
      BY <1>0, <2>1 DEF Settle, TypeOK, TablesTypeOK
    <3> HIDE DEF e, Agree
    <3> QED BY <1>3, <1>4, <3>1, <3>2
  <2>2. ASSUME NEW f \in Files, Prepare(p, f)
        PROVE  \A q \in Preparations : Agree(execution'[q], continuation'[q])
    <3> DEFINE e == [NoExecution EXCEPT !.state = "prepared", !.file = f]
    <3>1. Agree(e, continuation[p])
      BY <1>0, <1>4, <2>2 DEF Prepare, Executions, NoExecution
    <3>2. execution' = [execution EXCEPT ![p] = e] /\ continuation' = continuation
      BY <2>2 DEF Prepare
    <3> HIDE DEF e, Agree
    <3> QED BY <1>3, <1>4, <3>1, <3>2
  <2> QED BY <1>9, <2>1, <2>2
<1> HIDE DEF Agree
<1>10. ASSUME NEW s \in Sessions, SessionStep(s)
       PROVE  \A q \in Preparations : Agree(execution'[q], continuation'[q])
  BY <1>2, <1>5, <1>6, <1>7, <1>8, <1>10, ReceiptMoves
<1>11. CASE Bot \/ Reconfigure \/ UNCHANGED vars
  BY <1>2, <1>9, <1>11, BotMoves
<1> QED BY <1>10, <1>11 DEF Next, SessionStep

(* A claim of an archived file stays archived. *)
LEMMA ArchivedStays ==
    ASSUME TypeOK, [Next]_vars, NEW f \in Files, claim[f] = "archived"
    PROVE  claim'[f] = "archived"
<1>1. ASSUME NEW s \in Sessions, SessionStep(s)
      PROVE  claim'[f] = "archived"
  <2>1. CASE CommitPhaseA(s)
    BY <2>1 DEF CommitPhaseA, TypeOK, TablesTypeOK
  <2>2. CASE Archive(s)
    BY <2>2 DEF Archive, TypeOK, TablesTypeOK
  <2>3. CASE SessionStep(s) /\ ~CommitPhaseA(s) /\ ~Archive(s)
    <3>1. UNCHANGED claim
      BY <2>3 DEF SessionStep, Step, Enter, OpenPhaseA, Validate, OpenReports, OpenStage,
         CommitStage, Finish, Catch, EndSession, Call, CallLegacy, CallRun, CallRecovery,
         Begin, Fault, Disconnect, dataVars
    <3> QED BY <3>1
  <2> QED BY <1>1, <2>1, <2>2, <2>3
<1>2. CASE Bot \/ Reconfigure \/ UNCHANGED vars
  BY <1>2, BotMoves
<1> QED BY <1>1, <1>2 DEF Next, SessionStep

(* Every step leaves completed imports on archived files. *)
LEMMA CompletedStep ==
    ASSUME IInv, [Next]_vars
    PROVE  CompletedIsArchived'
<1> USE DEF IInv, OutcomeInvariant
<1>1. SUFFICES ASSUME NEW p \in Preparations, execution'[p].state = "completed"
               PROVE  execution'[p].file \in Files /\ claim'[execution'[p].file] = "archived"
  BY DEF CompletedIsArchived
<1>2. CASE execution[p].state = "completed" /\ execution'[p].file = execution[p].file
  BY <1>2, ArchivedStays DEF CompletedIsArchived
<1>3. ASSUME NEW s \in Sessions, SessionStep(s)
      PROVE  execution'[p].file \in Files /\ claim'[execution'[p].file] = "archived"
  <2> DEFINE q == call[s].prep
  <2>1. CASE UNCHANGED execution
    BY <1>1, <1>2, <2>1
  <2>2. CASE q \in Preparations /\ (Enters(q) \/ Commits(q))
    <3>1. q # p /\ execution'[p] = execution[p]
      BY <1>1, <2>2 DEF Enters, Commits, CommitReceipt, TypeOK, TablesTypeOK, Executions
    <3> QED BY <1>1, <1>2, <3>1
  <2>3. CASE q \in Preparations /\ Catches(q)
    <3>1. execution[p].state = "completed" /\ execution'[p].file = execution[p].file
      BY <1>1, <2>3 DEF Catches, Caught, TypeOK, TablesTypeOK, Executions
    <3> QED BY <1>2, <3>1
  <2>4. CASE q \in Preparations /\ Delivers(s, q)
    <3>1. CASE execution'[p] = execution[p]
      BY <1>1, <1>2, <3>1
    <3>2. CASE execution'[p] # execution[p]
      <4>1. p = q /\ execution'[p].file = execution[p].file
        BY <2>4, <3>2 DEF Delivers, Checkpoint, TypeOK, TablesTypeOK, Executions
      <4>2. /\ execution[p].file = call[s].file /\ call[s].file \in Files
            /\ claim[call[s].file] = "archived"
        BY <2>4, <4>1 DEF Delivers, TypeOK, AtWork, StageIsAdmitted, StillAdmitted, ArchivedFirst
      <4> QED BY <4>1, <4>2, ArchivedStays
    <3> QED BY <3>1, <3>2
  <2> QED BY <1>3, <2>1, <2>2, <2>3, <2>4, ReceiptMoves
<1>4. CASE Bot \/ Reconfigure \/ UNCHANGED vars
  <2>1. \A q \in Preparations : \A f \in Files : Prepare(q, f) => execution'[p] = execution[p]
    BY <1>1 DEF Prepare, NoExecution, TypeOK, TablesTypeOK, Executions
  <2>2. \A q \in Preparations : Settle(q) => /\ execution'[p].state = execution[p].state
                                             /\ execution'[p].file = execution[p].file
    BY DEF Settle, TypeOK, TablesTypeOK, Executions
  <2> QED BY <1>1, <1>2, <1>4, <2>1, <2>2, BotMoves
<1> QED BY <1>3, <1>4 DEF Next, SessionStep

(* Every step leaves the sessions in the reports on archived files. *)
LEMMA ArchivedFirstStep ==
    ASSUME IInv, [Next]_vars
    PROVE  ArchivedFirst'
<1> USE DEF IInv, OutcomeInvariant
<1>1. SUFFICES ASSUME NEW t \in Sessions, pc'[t] \in {"open", "stage", "write"}
               PROVE  claim'[call'[t].file] = "archived"
  BY DEF ArchivedFirst
<1>2. CASE pc[t] \in {"open", "stage", "write"} /\ call'[t].file = call[t].file
  BY <1>2, ArchivedStays DEF ArchivedFirst, TypeOK, AtWork
<1>3. ASSUME NEW s \in Sessions, SessionStep(s)
      PROVE  claim'[call'[t].file] = "archived"
  <2>1. CASE t # s
    BY <1>1, <1>2, <1>3, <2>1, OthersKeepLocks DEF OthersKeep
  <2>2. CASE t = s /\ Archive(s)
    <3>1. ~Throw(s) /\ call' = call
      BY <1>1, <2>2, EndsByThrow DEF Ends, Archive
    <3> QED BY <2>2, <3>1 DEF Archive, TypeOK, TablesTypeOK, AtWork
  <2>3. CASE t = s /\ ~Archive(s)
    <3>1. ~Ends(s) /\ ~Call(s) /\ ~Fault(s) /\ ~Disconnect(s)
      BY <1>1, <2>3, Begins, EndsByThrow
         DEF Ends, Fault, Disconnect, Goto, TypeOK, SessionsTypeOK
    <3>2. Step(s) /\ Proceeds(s)
      BY <1>3, <3>1, StepEnds DEF SessionStep
    <3>3. OpenReports(s) \/ OpenStage(s) \/ CommitStage(s)
      BY <1>1, <2>3, <3>1, <3>2, EndsByThrow, EndsByLeave
         DEF Step, Enter, OpenPhaseA, CommitPhaseA, Validate, Finish, Catch, EndSession, Goto,
             TypeOK, SessionsTypeOK
    <3> QED BY <1>2, <2>3, <3>2, <3>3 DEF OpenReports, OpenStage, CommitStage, Proceeds
  <2> QED BY <2>1, <2>2, <2>3
<1>4. CASE Bot \/ Reconfigure \/ UNCHANGED vars
  BY <1>1, <1>2, <1>4, BotMoves DEF sessVars
<1> QED BY <1>3, <1>4 DEF Next, SessionStep

(* The bot cannot take away what a stage was admitted on. *)
LEMMA AdmittedBot ==
    ASSUME IInv, Bot \/ Reconfigure \/ UNCHANGED vars
    PROVE  StageIsAdmitted' /\ LocksAreHeld'
<1> USE ConstantsAssumption DEF IInv, OutcomeInvariant
<1>1. LocksAreHeld'
  BY BotMoves DEF LocksAreHeld, lockVars, sessVars
<1>2. SUFFICES ASSUME NEW s \in Sessions, pc'[s] = "write"
               PROVE  StillAdmitted(s)'
  BY <1>1 DEF StageIsAdmitted
<1> DEFINE p == call[s].prep
<1>3. /\ pc[s] = "write" /\ StillAdmitted(s)
      /\ UNCHANGED <<call, runLock, guard, continuation, latest>>
  BY <1>2, BotMoves DEF StageIsAdmitted, lockVars, sessVars
<1>4. config' = config \/ (config' = config + 1 /\ Legacy(s))
  BY <1>3 DEF Bot, Doubt, Withdraw, Release, Settle, Prepare, Reconfigure, vars, receiptVars,
              dataVars
<1>5. /\ call'[s].asOf <= config'
      /\ \A q \in Preparations : continuation'[q].config <= call'[s].asOf
  BY <1>3, <1>4 DEF StillAdmitted, TypeOK, TablesTypeOK, SessionsTypeOK, Calls
<1>6. CASE Legacy(s)
  BY <1>3, <1>5, <1>6 DEF StillAdmitted, Legacy
<1>7. CASE ~Legacy(s)
  <2>1. /\ p \in Preparations /\ HoldsBothLocks(s, p) /\ Reportable(p) /\ Current(p)
        /\ execution[p].file = call[s].file /\ call[s].asOf = config
        /\ execution[p].state # "completed" => holder = p
        /\ config' = config /\ guard # Nobody
    BY <1>3, <1>4, <1>7 DEF StillAdmitted, TypeOK, AtWork, Legacy, HoldsBothLocks, Owned
  <2>2. execution'[p] = execution[p]
    <3>1. ASSUME NEW q \in Preparations, NEW f \in Files, Prepare(q, f)
          PROVE  execution'[p] = execution[p]
      BY <2>1, <3>1 DEF Prepare, Reportable, TypeOK, TablesTypeOK
    <3>2. \A q \in Preparations : ~Settle(q)
      BY <2>1 DEF Settle
    <3> QED BY <3>1, <3>2, BotMoves
  <2>3. execution[p].state # "completed" => holder' = p
    <3>1. Bot => holder' = holder \/ execution[p].state = "completed"
      BY <2>1 DEF Bot, Doubt, Withdraw, Release, Settle, Prepare
    <3>2. Reconfigure \/ UNCHANGED vars => holder' = holder
      BY DEF Reconfigure, vars, ownerVars
    <3> QED BY <2>1, <3>1, <3>2
  <2> QED BY <1>3, <1>5, <2>1, <2>2, <2>3
          DEF StillAdmitted, Legacy, HoldsBothLocks, Reportable, Owned, Current
<1> QED BY <1>6, <1>7

(* The report freshness of one preparation, as ReportsAreFresh states it. *)
Fresh(p) ==
    LET c == continuation[p] IN
    /\ c.latest <= latest
    /\ c.config <= config
    /\ c.stage > 0 => (c.planned <=> c.latest >= KvkStart)
    /\ Current(p) =>
         \A k \in Stages : k < c.stage /\ (k = 1 => c.planned) =>
           reports[k] = [scan |-> c.latest, config |-> c.config]

(* What a stage builds belongs to the current import. *)
LEMMA BuildIsCurrent ==
    ASSUME IInv, NEW s \in Sessions, pc[s] = "write", Build(s)
    PROVE  /\ \A k \in Stages : k # call[s].stage => reports'[k] = reports[k]
           /\ \A p \in Preparations : Current(p) =>
                \/ UNCHANGED reports
                \/ reports'[call[s].stage] =
                     [scan |-> continuation[p].latest, config |-> continuation[p].config]
           /\ (call[s].stage = 1 => Planned(s)) =>
                \A p \in Preparations : Current(p) => reports'[call[s].stage] =
                     [scan |-> continuation[p].latest, config |-> continuation[p].config]
<1> USE DEF IInv, OutcomeInvariant
<1>1. /\ StillAdmitted(s) /\ call[s].stage \in Stages /\ call[s].asOf \in Nat /\ config \in Nat
      /\ reports \in [Stages -> [scan : 0..MaxScan, config : Nat]]
  BY DEF StageIsAdmitted, TypeOK, TablesTypeOK, SessionsTypeOK, Calls
<1>2. CASE UNCHANGED reports /\ call[s].stage = 1 /\ ~Planned(s)
  BY <1>2
<1>3. CASE \E c \in call[s].asOf..config :
             reports' = [reports EXCEPT ![call[s].stage] = [scan |-> latest, config |-> c]]
  <2>1. PICK c \in call[s].asOf..config :
          reports' = [reports EXCEPT ![call[s].stage] = [scan |-> latest, config |-> c]]
    BY <1>3
  <2>2. \A p \in Preparations : Current(p) => latest = continuation[p].latest /\ c = continuation[p].config
    BY <1>1, <2>1 DEF StillAdmitted, Current
  <2>3. reports'[call[s].stage] = [scan |-> latest, config |-> c]
    BY <1>1, <2>1
  <2>4. \A k \in Stages : k # call[s].stage => reports'[k] = reports[k]
    BY <1>1, <2>1
  <2> QED BY <2>2, <2>3, <2>4
<1> QED BY <1>2, <1>3 DEF Build

(* A stage that commits leaves fresh reports for every current import. *)
LEMMA FreshStage ==
    ASSUME IInv, NEW s \in Sessions, CommitStage(s), NEW q \in Preparations
    PROVE  Fresh(q)'
<1> USE DEF IInv, OutcomeInvariant
<1> DEFINE p == call[s].prep
           k == call[s].stage
<1>0. /\ pc[s] = "write" /\ k \in {0, 1, 2} /\ UNCHANGED <<latest, config>> /\ Fresh(q)
      /\ continuation[q] \in Continuations
      /\ ~Legacy(s) => p \in Preparations
  BY DEF CommitStage, TypeOK, TablesTypeOK, SessionsTypeOK, AtWork, Legacy, Calls, Stages,
         ReportsAreFresh, Fresh
<1>1. CASE UNCHANGED <<continuation, reports>>
  BY <1>0, <1>1 DEF Fresh, Current
<1>2. CASE Build(s) /\ continuation'[q] = continuation[q]
  <2>1. Current(q)' <=> Current(q)
    BY <1>0, <1>2 DEF Current
  <2>2. ASSUME Current(q), NEW j \in Stages, j < continuation[q].stage,
               j = 1 => continuation[q].planned
        PROVE  reports'[j] = [scan |-> continuation[q].latest, config |-> continuation[q].config]
    BY <1>0, <1>2, <2>2, BuildIsCurrent DEF Fresh
  <2> QED BY <1>0, <1>2, <2>1, <2>2 DEF Fresh
<1>3. CASE ~Legacy(s) /\ Open(p, k) /\ Build(s) /\ Checkpoint(p, k, Planned(s)) /\ q = p
  <2> DEFINE c == continuation[q]
             d == continuation'[q]
  <2>1. /\ c.stage = k /\ d.stage = k + 1 /\ d.latest = c.latest /\ d.config = c.config
        /\ d.planned = IF k = 0 THEN Planned(s) ELSE c.planned
        /\ Current(q) /\ Current(q)'
    BY <1>0, <1>3 DEF Open, Checkpoint, Continuations, TypeOK, TablesTypeOK, StageIsAdmitted,
       StillAdmitted, Current
  <2>2. k = 0 => (Planned(s) <=> c.latest >= KvkStart)
    BY <2>1 DEF Planned, Current
  <2>3. k = 1 => (Planned(s) <=> c.planned)
    BY <1>3 DEF Planned
  <2>4. d.planned <=> c.latest >= KvkStart
    BY <1>0, <2>1, <2>2 DEF Fresh
  <2>5. ASSUME NEW j \in Stages, j < d.stage, j = 1 => d.planned
        PROVE  reports'[j] = [scan |-> c.latest, config |-> c.config]
    <3>1. CASE j = k
      BY <1>0, <1>3, <2>1, <2>3, <2>5, <3>1, BuildIsCurrent
    <3>2. CASE j # k
      <4>1. j < c.stage /\ (j = 1 => c.planned)
        BY <1>0, <2>1, <2>5, <3>2 DEF Stages
      <4> QED BY <1>0, <1>3, <2>1, <3>2, <4>1, BuildIsCurrent DEF Fresh
    <3> QED BY <3>1, <3>2
  <2> HIDE DEF c, d
  <2>6. c.latest <= latest' /\ c.config <= config'
    BY <1>0 DEF Fresh, c
  <2> QED BY <2>1, <2>4, <2>5, <2>6 DEF Fresh, c, d
<1>4. CASE ~Legacy(s) /\ Build(s) /\ Checkpoint(p, k, Planned(s)) /\ q # p
  BY <1>0, <1>2, <1>4 DEF Checkpoint, TypeOK, TablesTypeOK
<1> QED BY <1>1, <1>2, <1>3, <1>4 DEF CommitStage, receiptVars

(* Every step keeps the delivered reports of a current import as they were. *)
LEMMA FreshStep ==
    ASSUME IInv, [Next]_vars
    PROVE  ReportsAreFresh'
<1> USE DEF IInv, OutcomeInvariant
<1>1. SUFFICES ASSUME NEW p \in Preparations
               PROVE  Fresh(p)'
  BY DEF ReportsAreFresh, Fresh
<1>2. /\ Fresh(p) /\ continuation[p] \in Continuations /\ latest \in Nat /\ config \in Nat
  BY ConstantsAssumption DEF ReportsAreFresh, Fresh, TypeOK, TablesTypeOK
<1>3. CASE UNCHANGED <<continuation, latest, reports>> /\ config' \in {config, config + 1}
  BY <1>2, <1>3 DEF Fresh, Current, Continuations
<1>4. ASSUME NEW s \in Sessions, CommitPhaseA(s)
      PROVE  Fresh(p)'
  <2>1. CASE UNCHANGED <<latest, continuation>>
    BY <1>3, <1>4, <2>1 DEF CommitPhaseA
  <2>2. CASE latest' = latest + 1 /\ continuation'[p] = continuation[p]
    BY <1>2, <1>4, <2>2 DEF CommitPhaseA, Fresh, Current, Continuations
  <2>3. CASE /\ latest' = latest + 1 /\ CommitReceipt(p, latest + 1)
    <3>1. continuation'[p] = [NoContinuation EXCEPT !.latest = latest + 1, !.config = config]
      BY <2>3 DEF CommitReceipt, TypeOK, TablesTypeOK
    <3>2. /\ continuation'[p].latest = latest + 1 /\ continuation'[p].config = config
          /\ continuation'[p].stage = 0
      BY <3>1 DEF NoContinuation
    <3> QED BY <1>2, <1>4, <2>3, <3>2 DEF CommitPhaseA, Fresh, Stages
  <2>4. \A q \in Preparations : q # p /\ CommitReceipt(q, latest + 1) => continuation'[p] = continuation[p]
    BY DEF CommitReceipt, TypeOK, TablesTypeOK
  <2> QED BY <1>4, <2>1, <2>2, <2>3, <2>4 DEF CommitPhaseA, TypeOK, AtWork, Legacy
<1>5. ASSUME NEW s \in Sessions, SessionStep(s), ~CommitPhaseA(s), ~CommitStage(s)
      PROVE  Fresh(p)'
  <2>1. UNCHANGED <<continuation, latest, reports, config>>
    BY <1>5 DEF SessionStep, Step, Enter, OpenPhaseA, Validate, OpenReports, OpenStage, Archive,
       Finish, Catch, EndSession, Call, CallLegacy, CallRun, CallRecovery,
       Begin, Fault, Disconnect, dataVars, receiptVars
  <2> QED BY <1>3, <2>1
<1>6. CASE Bot \/ Reconfigure \/ UNCHANGED vars
  <2>1. config' \in {config, config + 1}
    BY <1>6 DEF Bot, Doubt, Withdraw, Release, Settle, Prepare, Reconfigure, vars, dataVars
  <2> QED BY <1>3, <1>6, <2>1, BotMoves
<1> QED BY <1>4, <1>5, <1>6, FreshStage DEF Next, SessionStep

(* The first state satisfies the invariant. *)
LEMMA InitInvariant == Init => OutcomeInvariant
<1> SUFFICES ASSUME Init PROVE OutcomeInvariant
  OBVIOUS
<1> USE ConstantsAssumption
<1>1. ReceiptsAgree /\ CompletedIsArchived
  BY DEF Init, ReceiptsAgree, CompletedIsArchived, NoExecution, NoContinuation
<1>2. LocksAreHeld /\ StageIsAdmitted /\ ArchivedFirst
  BY DEF Init, LocksAreHeld, StageIsAdmitted, ArchivedFirst, NoCall
<1>3. ReportsAreFresh
  BY DEF Init, ReportsAreFresh, NoContinuation, Stages
<1> QED BY <1>1, <1>2, <1>3 DEF OutcomeInvariant

(* Every step keeps the invariant. *)
LEMMA InvariantStep ==
    ASSUME IInv, [Next]_vars
    PROVE  OutcomeInvariant'
<1>1. LocksAreHeld' /\ StageIsAdmitted'
  BY LocksStep, AdmittedStep, AdmittedBot DEF Next, SessionStep
<1> QED BY <1>1, ReceiptsStep, CompletedStep, ArchivedFirstStep, FreshStep DEF OutcomeInvariant

(* At every step, with sessions lost and errors anywhere, the two receipts   *)
(* of a preparation agree, a completed one rests on its archived file, a    *)
(* stage stays admitted until it commits and current reports stay fresh.    *)
THEOREM OutcomeHolds == Spec => []OutcomeInvariant
<1>1. IInv /\ [Next]_vars => OutcomeInvariant'
  BY InvariantStep
<1>2. TypeOK /\ OutcomeInvariant <=> IInv
  BY DEF IInv
<1> QED BY <1>1, <1>2, InitInvariant, TypeCorrect, PTL DEF Spec

(* The execution receipt and the continuation agree, for every number of     *)
(* sessions and failures.                                                   *)
THEOREM ReceiptsHold == Spec => [](ReceiptsAgree /\ CompletedIsArchived)
<1>1. OutcomeInvariant => ReceiptsAgree /\ CompletedIsArchived
  BY DEF OutcomeInvariant
<1> QED BY <1>1, OutcomeHolds, PTL

(* A completed execution names a file whose claim is archived, whichever     *)
(* sessions were lost on the way and by whichever entry it was completed.    *)
THEOREM ArchivedHolds == Spec => []CompletedIsArchived
<1>1. OutcomeInvariant => CompletedIsArchived
  BY DEF OutcomeInvariant
<1> QED BY <1>1, OutcomeHolds, PTL

-----------------------------------------------------------------------------
(* A preparation completes in the commit of its last stage only. *)
LEMMA CompletesByDelivery ==
    ASSUME IInv, [Next]_vars, NEW p \in Preparations, Completes(p)
    PROVE  \E s \in Sessions :
             /\ CommitStage(s) /\ pc[s] = "write" /\ ~Legacy(s) /\ call[s].prep = p
             /\ Open(p, 2) /\ Checkpoint(p, 2, Planned(s)) /\ Build(s)
<1> USE DEF IInv, OutcomeInvariant
<1>1. ASSUME NEW s \in Sessions, SessionStep(s)
      PROVE  /\ CommitStage(s) /\ pc[s] = "write" /\ ~Legacy(s) /\ call[s].prep = p
             /\ Open(p, 2) /\ Checkpoint(p, 2, Planned(s)) /\ Build(s)
  <2> DEFINE q == call[s].prep
  <2>1. ~UNCHANGED execution
    BY DEF Completes
  <2>2. q \in Preparations => ~Enters(q) /\ ~Commits(q) /\ ~Catches(q)
    BY DEF Completes, Enters, Commits, Catches, Caught, CommitReceipt, TypeOK, TablesTypeOK,
           Executions
  <2>3. q \in Preparations /\ Delivers(s, q)
    BY <1>1, <2>1, <2>2, ReceiptMoves
  <2>4. call[s].stage = 2 /\ q = p
    BY <2>3 DEF Completes, Delivers, Checkpoint, Stages, TypeOK, TablesTypeOK, Executions
  <2>5. CommitStage(s)
    <3>1. pc[s] = "write"
      BY <2>3 DEF Delivers
    <3>2. ~UNCHANGED receiptVars
      BY <2>1 DEF receiptVars
    <3> QED BY <1>1, <3>1, <3>2
            DEF SessionStep, Step, Enter, OpenPhaseA, CommitPhaseA, Archive, Validate,
                OpenReports, OpenStage, Finish, Catch, EndSession, Call, CallLegacy, CallRun,
                CallRecovery, Begin, Fault, Disconnect
  <2>6. Build(s)
    BY <2>1, <2>3, <2>4, <2>5 DEF CommitStage, Delivers, receiptVars
  <2> QED BY <2>3, <2>4, <2>5, <2>6 DEF Delivers
<1>2. ASSUME Bot \/ Reconfigure \/ UNCHANGED vars
      PROVE  FALSE
  <2>1. ASSUME NEW q \in Preparations, Settle(q)
        PROVE  execution'[p].state = execution[p].state
    BY <2>1 DEF Settle, TypeOK, TablesTypeOK, Executions
  <2>2. ASSUME NEW q \in Preparations, NEW f \in Files, Prepare(q, f)
        PROVE  execution'[p].state \in {execution[p].state, "prepared"}
    BY <2>2 DEF Prepare, NoExecution, TypeOK, TablesTypeOK
  <2> QED BY <1>2, <2>1, <2>2, BotMoves DEF Completes
<1> QED BY <1>1, <1>2 DEF Next, SessionStep

(* No preparation completes without the ownership of the outputs. *)
THEOREM CompletionOwned == Spec => CompletionIsOwned
<1>1. ASSUME IInv, [Next]_vars
      PROVE  \A p \in Preparations : Completes(p) => holder = p
  <2> SUFFICES ASSUME NEW p \in Preparations, Completes(p)
               PROVE  holder = p
    OBVIOUS
  <2>1. PICK s \in Sessions : pc[s] = "write" /\ ~Legacy(s) /\ call[s].prep = p
    BY <1>1, CompletesByDelivery
  <2> QED BY <1>1, <2>1
          DEF IInv, OutcomeInvariant, StageIsAdmitted, StillAdmitted, Completes, Owned
<1>2. TypeOK /\ OutcomeInvariant <=> IInv
  BY DEF IInv
<1> QED BY <1>1, <1>2, TypeCorrect, OutcomeHolds, PTL DEF Spec, CompletionIsOwned

(* The reports of a preparation that completes are all built from its own    *)
(* import and its own configuration.                                        *)
THEOREM CompletionCoherent == Spec => CompletionIsCoherent
<1> DEFINE Coherent(p) ==
             LET c == continuation[p]
                 own == [scan |-> c.latest, config |-> c.config]
             IN Completes(p) => /\ reports'[0] = own
                                /\ reports'[2] = own
                                /\ c.latest >= KvkStart => reports'[1] = own
<1>1. ASSUME IInv, [Next]_vars
      PROVE  \A p \in Preparations : Coherent(p)
  <2> USE <1>1 DEF IInv, OutcomeInvariant
  <2> SUFFICES ASSUME NEW p \in Preparations, Completes(p)
               PROVE  LET c == continuation[p]
                          own == [scan |-> c.latest, config |-> c.config]
                      IN  /\ reports'[0] = own
                          /\ reports'[2] = own
                          /\ c.latest >= KvkStart => reports'[1] = own
    OBVIOUS
  <2>1. PICK s \in Sessions :
          /\ CommitStage(s) /\ pc[s] = "write" /\ ~Legacy(s) /\ call[s].prep = p
          /\ Checkpoint(p, 2, Planned(s))
    BY CompletesByDelivery
  <2>2. Current(p) /\ UNCHANGED <<latest, config>>
    BY <2>1 DEF StageIsAdmitted, StillAdmitted, CommitStage
  <2>3. /\ continuation'[p].latest = continuation[p].latest
        /\ continuation'[p].config = continuation[p].config
        /\ continuation'[p].stage = 3
    BY <2>1 DEF Checkpoint, Continuations, TypeOK, TablesTypeOK
  <2>4. Fresh(p)' /\ Current(p)'
    BY <2>1, <2>2, <2>3, FreshStage DEF Current
  <2> QED BY <2>3, <2>4 DEF Fresh, Stages
<1>2. TypeOK /\ OutcomeInvariant <=> IInv
  BY DEF IInv
<1> QED BY <1>1, <1>2, TypeCorrect, OutcomeHolds, PTL DEF Spec, CompletionIsCoherent

(* Receipts move under the execution lock, between their preparation and     *)
(* their settlement.                                                        *)
THEOREM MovesUnderLock == Spec => ReceiptsMoveUnderLock
<1> DEFINE Moved(p) ==
             \/ <<execution[p], continuation[p]>>' = <<execution[p], continuation[p]>>
             \/ execution[p].state = "none"
             \/ execution'[p] = [execution[p] EXCEPT !.settled = TRUE]
             \/ runLock[p] # Nobody
<1>1. ASSUME IInv, [Next]_vars
      PROVE  \A p \in Preparations : Moved(p)
  <2> USE <1>1, ConstantsAssumption DEF IInv, OutcomeInvariant
  <2> SUFFICES ASSUME NEW p \in Preparations
               PROVE  Moved(p)
    OBVIOUS
  <2>1. ASSUME NEW s \in Sessions, SessionStep(s)
        PROVE  Moved(p)
    <3> DEFINE q == call[s].prep
    <3>1. CASE UNCHANGED <<execution, continuation>>
      BY <3>1
    <3>2. CASE q = p /\ runLock[p] = s
      BY <3>2
    <3>3. CASE /\ q \in Preparations /\ q # p
               /\ Enters(q) \/ Commits(q) \/ Delivers(s, q) \/ Catches(q)
      <4>1. execution'[p] = execution[p] /\ continuation'[p] = continuation[p]
        BY <3>3 DEF Enters, Commits, Delivers, Catches, CommitReceipt, Checkpoint,
           TypeOK, TablesTypeOK
      <4> QED BY <4>1
    <3> QED BY <2>1, <3>1, <3>2, <3>3, ReceiptMoves
  <2>2. CASE Bot \/ Reconfigure \/ UNCHANGED vars
    <3>1. ASSUME NEW q \in Preparations, NEW f \in Files, Prepare(q, f)
          PROVE  execution'[p] = execution[p] \/ execution[p].state = "none"
      BY <3>1 DEF Prepare, TypeOK, TablesTypeOK
    <3>2. ASSUME NEW q \in Preparations, Settle(q)
          PROVE  \/ execution'[p] = execution[p]
                 \/ execution'[p] = [execution[p] EXCEPT !.settled = TRUE]
      BY <3>2 DEF Settle, TypeOK, TablesTypeOK
    <3> QED BY <2>2, <3>1, <3>2, BotMoves
  <2> QED BY <2>1, <2>2 DEF Next, SessionStep
<1>2. TypeOK /\ OutcomeInvariant <=> IInv
  BY DEF IInv
<1> QED BY <1>1, <1>2, TypeCorrect, OutcomeHolds, PTL DEF Spec, ReceiptsMoveUnderLock

-----------------------------------------------------------------------------
(* Every step is a step of OutcomeLedger or leaves it alone, from its first *)
(* state on.                                                                *)
LEMMA InitOutcomes == Init => Outcomes!Init
  BY DEF Init, Outcomes!Init, Phase, NoExecution, NoContinuation

PhaseOf(state) ==
    CASE state = "none" -> "absent"
      [] state = "prepared" -> "ready"
      [] state = "rolled_back" -> "failed"
      [] state \in {"import_committed", "partial"} -> "committed"
      [] OTHER -> state

Scans == [p \in Preparations |-> execution[p].scan]
Deliveries == [p \in Preparations |-> continuation[p].stage]
Settlements == [p \in Preparations |-> execution[p].settled]

(* The rows as the ledger sees them. *)
LEMMA RowsSeen ==
    ASSUME TypeOK
    PROVE  /\ \A p \in Preparations :
                /\ execution[p] \in Executions /\ continuation[p] \in Continuations
                /\ Phase[p] = PhaseOf(execution[p].state)
                /\ Scans[p] = execution[p].scan
                /\ Deliveries[p] = continuation[p].stage
                /\ Settlements[p] = execution[p].settled
           /\ Phase = [p \in Preparations |-> Phase[p]]
           /\ Scans = [p \in Preparations |-> Scans[p]]
           /\ Deliveries = [p \in Preparations |-> Deliveries[p]]
           /\ Settlements = [p \in Preparations |-> Settlements[p]]
  BY DEF TypeOK, TablesTypeOK, Phase, PhaseOf, Scans, Deliveries, Settlements

(* A row that is replaced by itself changes nothing. *)
LEMMA SameRow ==
    ASSUME NEW S, NEW f, f = [q \in S |-> f[q]], NEW p \in S, NEW v, v = f[p]
    PROVE  [f EXCEPT ![p] = v] = f
  OBVIOUS

(* A changed row is a changed row of the ledger. *)
Maps(p, e, c) ==
    /\ Phase' = [Phase EXCEPT ![p] = PhaseOf(e.state)]
    /\ Scans' = [Scans EXCEPT ![p] = e.scan]
    /\ Deliveries' = [Deliveries EXCEPT ![p] = c.stage]
    /\ Settlements' = [Settlements EXCEPT ![p] = e.settled]
    /\ PhaseOf(e.state) = Phase[p] => UNCHANGED Phase
    /\ e.scan = Scans[p] => UNCHANGED Scans
    /\ c.stage = Deliveries[p] => UNCHANGED Deliveries
    /\ e.settled = Settlements[p] => UNCHANGED Settlements

(* A change of one preparation is a change of one row of the ledger. *)
LEMMA RowMaps ==
    ASSUME TypeOK, NEW p \in Preparations, NEW e, NEW c,
           execution' = [execution EXCEPT ![p] = e],
           continuation' = [continuation EXCEPT ![p] = c]
    PROVE  Maps(p, e, c)
<1>1. /\ execution'[p] = e /\ continuation'[p] = c
      /\ \A q \in Preparations : q # p => execution'[q] = execution[q] /\ continuation'[q] = continuation[q]
  BY DEF TypeOK, TablesTypeOK
<1>2. Phase' = [Phase EXCEPT ![p] = PhaseOf(e.state)]
  <2>1. /\ Phase = [q \in Preparations |-> PhaseOf(execution[q].state)]
        /\ Phase' = [q \in Preparations |-> PhaseOf(execution'[q].state)]
    BY DEF Phase, PhaseOf
  <2> QED BY <1>1, <2>1
<1>3. Scans' = [Scans EXCEPT ![p] = e.scan]
  <2>1. /\ Scans = [q \in Preparations |-> execution[q].scan]
        /\ Scans' = [q \in Preparations |-> execution'[q].scan]
    BY DEF Scans
  <2> QED BY <1>1, <2>1
<1>4. Deliveries' = [Deliveries EXCEPT ![p] = c.stage]
  <2>1. /\ Deliveries = [q \in Preparations |-> continuation[q].stage]
        /\ Deliveries' = [q \in Preparations |-> continuation'[q].stage]
    BY DEF Deliveries
  <2> QED BY <1>1, <2>1
<1>5. Settlements' = [Settlements EXCEPT ![p] = e.settled]
  <2>1. /\ Settlements = [q \in Preparations |-> execution[q].settled]
        /\ Settlements' = [q \in Preparations |-> execution'[q].settled]
    BY DEF Settlements
  <2> QED BY <1>1, <2>1
<1>6. PhaseOf(e.state) = Phase[p] => UNCHANGED Phase
  BY <1>2, RowsSeen, SameRow
<1>7. e.scan = Scans[p] => UNCHANGED Scans
  BY <1>3, RowsSeen, SameRow
<1>8. c.stage = Deliveries[p] => UNCHANGED Deliveries
  BY <1>4, RowsSeen, SameRow
<1>9. e.settled = Settlements[p] => UNCHANGED Settlements
  BY <1>5, RowsSeen, SameRow
<1> QED BY <1>2, <1>3, <1>4, <1>5, <1>6, <1>7, <1>8, <1>9 DEF Maps

(* A step of a session is a step of the ledger or leaves it alone. *)
LEMMA SessionOutcomes ==
    ASSUME IInv, NEW s \in Sessions, SessionStep(s)
    PROVE  Outcomes!Next \/ UNCHANGED <<Phase, Scans, Deliveries, Settlements>>
<1> USE DEF IInv, OutcomeInvariant
<1> DEFINE Goal == Outcomes!Next \/ UNCHANGED <<Phase, Scans, Deliveries, Settlements>>
<1>1. CASE UNCHANGED <<execution, continuation>>
  BY <1>1 DEF Phase, Scans, Deliveries, Settlements
<1>2. ASSUME NEW p \in Preparations, Enters(p)
      PROVE  Goal
  <2> DEFINE e == [execution[p] EXCEPT !.state = "running"]
  <2>1. /\ execution' = [execution EXCEPT ![p] = e]
        /\ continuation' = [continuation EXCEPT ![p] = continuation[p]]
    BY <1>2 DEF Enters, TypeOK, TablesTypeOK
  <2>2. /\ e.state = "running" /\ e.scan = execution[p].scan
        /\ e.settled = execution[p].settled /\ execution[p].state = "prepared"
    BY <1>2, RowsSeen DEF Enters, Executions
  <2> HIDE DEF e
  <2>0. Maps(p, e, continuation[p])
    BY <1>2, <2>1, RowMaps
  <2>3. Phase[p] = "ready" /\ Phase' = [Phase EXCEPT ![p] = "running"]
    BY <1>2, <2>0, <2>1, <2>2, RowsSeen DEF Maps, PhaseOf
  <2>4. UNCHANGED <<Scans, Deliveries, Settlements>>
    BY <1>2, <2>0, <2>1, <2>2, RowsSeen DEF Maps
  <2>5. Outcomes!Enter(p)
    BY <2>3, <2>4 DEF Outcomes!Enter, Outcomes!Advance, Scans, Deliveries, Settlements
  <2> QED BY <2>5 DEF Outcomes!Next
<1>3. ASSUME NEW p \in Preparations, Commits(p)
      PROVE  Goal
  <2> DEFINE n == latest + 1
             e == [execution[p] EXCEPT !.state = "import_committed", !.scan = n]
             c == [NoContinuation EXCEPT !.latest = n, !.config = config]
  <2>1. execution' = [execution EXCEPT ![p] = e] /\ continuation' = [continuation EXCEPT ![p] = c]
    BY <1>3 DEF Commits, CommitReceipt, TypeOK, TablesTypeOK
  <2>2. /\ e.state = "import_committed" /\ e.scan = n
        /\ e.settled = execution[p].settled /\ execution[p].state = "running" /\ c.stage = 0
    BY <1>3, RowsSeen DEF Commits, Executions, NoContinuation
  <2> HIDE DEF e, c
  <2>0. Maps(p, e, c)
    BY <1>3, <2>1, RowMaps
  <2>3. Phase[p] = "running" /\ Phase' = [Phase EXCEPT ![p] = "committed"]
    BY <1>3, <2>0, <2>1, <2>2, RowsSeen DEF Maps, PhaseOf
  <2>4. /\ n \in (FirstScan + 1)..MaxScan
        /\ \A q \in Preparations : Scans[q] < n
    <3>1. \A q \in Preparations : execution[q].scan = continuation[q].latest
                                   /\ continuation[q].latest <= latest
      BY DEF ReceiptsAgree, ReportsAreFresh
    <3> QED BY <1>3, <3>1, RowsSeen, ConstantsAssumption
            DEF Commits, ScanLeft, TypeOK, TablesTypeOK, Executions
  <2>5. Scans' = [Scans EXCEPT ![p] = n]
    BY <1>3, <2>0, <2>1, <2>2 DEF Maps
  <2>6. UNCHANGED <<Deliveries, Settlements>>
    <3>1. continuation[p].stage = 0
      BY <1>3 DEF Commits, ReceiptsAgree
    <3> QED BY <1>3, <2>0, <2>1, <2>2, <3>1, RowsSeen DEF Maps
  <2> HIDE DEF n
  <2>7. Outcomes!Commit(p)
    <3>1. Outcomes!Advance(p, "running", "committed")
      BY <2>3 DEF Outcomes!Advance
    <3>2. \E m \in (FirstScan + 1)..MaxScan :
            /\ \A q \in Preparations : Scans[q] < m
            /\ Scans' = [Scans EXCEPT ![p] = m]
      BY <2>4, <2>5
    <3> QED BY <2>6, <3>1, <3>2 DEF Outcomes!Commit, Scans, Deliveries, Settlements
  <2> QED BY <2>7 DEF Outcomes!Next
<1>4. ASSUME NEW p \in Preparations, p = call[s].prep, Delivers(s, p)
      PROVE  Goal
  <2> DEFINE k == call[s].stage
             b == IF k = 0 THEN Planned(s) ELSE continuation[p].planned
             c == [continuation[p] EXCEPT !.stage = k + 1, !.planned = b]
             e == IF k < 2 THEN execution[p]
                  ELSE [execution[p] EXCEPT !.state = "completed", !.run = counter + 1]
  <2>1. /\ k \in {0, 1, 2} /\ continuation[p].stage = k /\ ~execution[p].settled
        /\ execution[p].state \in {"import_committed", "partial"}
    BY <1>4 DEF Delivers, Open, Stages, StageIsAdmitted, StillAdmitted, Reportable
  <2>2. execution' = [execution EXCEPT ![p] = e] /\ continuation' = [continuation EXCEPT ![p] = c]
    BY <1>4, <2>1 DEF Delivers, Checkpoint, TypeOK, TablesTypeOK
  <2>3. /\ e.state = IF k = 2 THEN "completed" ELSE execution[p].state
        /\ e.scan = execution[p].scan /\ e.settled = execution[p].settled
    BY <1>4, <2>1, RowsSeen DEF Executions
  <2>4. c.stage = k + 1
    BY <1>4, RowsSeen DEF Continuations
  <2> HIDE DEF e, c
  <2>0. Maps(p, e, c)
    BY <1>4, <2>2, RowMaps
  <2>5. /\ Phase[p] = "committed" /\ Deliveries[p] = k /\ ~Settlements[p]
        /\ Phase' = [Phase EXCEPT ![p] = IF k = 2 THEN "completed" ELSE Phase[p]]
        /\ Deliveries' = [Deliveries EXCEPT ![p] = k + 1]
    BY <1>4, <2>0, <2>1, <2>2, <2>3, <2>4, RowsSeen DEF Maps, PhaseOf
  <2>6. UNCHANGED <<Scans, Settlements>>
    BY <1>4, <2>0, <2>2, <2>3, RowsSeen DEF Maps
  <2> HIDE DEF k
  <2>7. Outcomes!Deliver(p)
    <3>1. Deliveries'[p] = k + 1 /\ Deliveries' = [Deliveries EXCEPT ![p] = Deliveries[p] + 1]
      BY <1>4, <2>5, RowsSeen
    <3>2. Phase' = [Phase EXCEPT ![p] = IF Deliveries'[p] = 3 THEN "completed" ELSE Phase[p]]
      <4>1. Deliveries'[p] = 3 <=> k = 2
        BY <2>1, <3>1
      <4> QED BY <2>5, <4>1
    <3>3. Phase[p] = "committed" /\ ~Settlements[p] /\ Deliveries[p] < 3
      BY <2>1, <2>5
    <3> QED BY <2>6, <3>1, <3>2, <3>3
            DEF Outcomes!Deliver, Scans, Deliveries, Settlements
  <2> QED BY <2>7 DEF Outcomes!Next
<1>5. ASSUME NEW p \in Preparations, Catches(p)
      PROVE  Goal
  <2> DEFINE e == [execution[p] EXCEPT !.state = Caught(execution[p].state)]
  <2>1. /\ execution' = [execution EXCEPT ![p] = e]
        /\ continuation' = [continuation EXCEPT ![p] = continuation[p]]
    BY <1>5 DEF Catches, TypeOK, TablesTypeOK
  <2>2. /\ e.state = Caught(execution[p].state) /\ e.scan = execution[p].scan
        /\ e.settled = execution[p].settled
    BY <1>5, RowsSeen DEF Executions
  <2> HIDE DEF e
  <2>0. Maps(p, e, continuation[p])
    BY <1>5, <2>1, RowMaps
  <2>3. UNCHANGED <<Scans, Deliveries, Settlements>>
    BY <1>5, <2>0, <2>1, <2>2, RowsSeen DEF Maps
  <2>4. CASE execution[p].state = "running"
    <3>1. Phase[p] = "running" /\ Phase' = [Phase EXCEPT ![p] = "failed"]
      BY <1>5, <2>0, <2>1, <2>2, <2>4, RowsSeen DEF Maps, PhaseOf, Caught
    <3>2. Outcomes!Fail(p)
      BY <2>3, <3>1 DEF Outcomes!Fail, Outcomes!Advance, Scans, Deliveries, Settlements
    <3> QED BY <3>2 DEF Outcomes!Next
  <2>5. CASE execution[p].state # "running"
    <3>1. PhaseOf(e.state) = PhaseOf(execution[p].state)
      BY <2>2, <2>5 DEF PhaseOf, Caught
    <3>2. UNCHANGED Phase
      BY <1>5, <2>0, <3>1, RowsSeen DEF Maps
    <3> QED BY <2>3, <3>2
  <2> QED BY <2>4, <2>5
<1> QED BY <1>1, <1>2, <1>3, <1>4, <1>5, ReceiptMoves

(* A step of the bot is a step of the ledger or leaves it alone. *)
LEMMA BotOutcomes ==
    ASSUME IInv, Bot \/ Reconfigure \/ UNCHANGED vars
    PROVE  Outcomes!Next \/ UNCHANGED <<Phase, Scans, Deliveries, Settlements>>
<1> USE DEF IInv, OutcomeInvariant
<1>1. CASE UNCHANGED <<execution, continuation>>
  BY <1>1 DEF Phase, Scans, Deliveries, Settlements
<1>2. ASSUME NEW p \in Preparations, Settle(p)
      PROVE  Outcomes!Settle(p)
  <2> DEFINE e == [execution[p] EXCEPT !.settled = TRUE]
  <2>1. /\ execution' = [execution EXCEPT ![p] = e]
        /\ continuation' = [continuation EXCEPT ![p] = continuation[p]]
    BY <1>2 DEF Settle, TypeOK, TablesTypeOK
  <2>2. /\ e.state = execution[p].state /\ e.scan = execution[p].scan /\ e.settled = TRUE
        /\ execution[p].state \in {"rolled_back", "partial"} /\ ~execution[p].settled
    BY <1>2, RowsSeen DEF Settle, Executions
  <2> HIDE DEF e
  <2>0. Maps(p, e, continuation[p])
    BY <1>2, <2>1, RowMaps
  <2>3. UNCHANGED <<Phase, Scans, Deliveries>>
    BY <2>0, <2>1, <2>2, RowsSeen DEF Maps
  <2>4. /\ Phase[p] \in {"failed", "committed"} /\ ~Settlements[p]
        /\ Settlements' = [Settlements EXCEPT ![p] = TRUE]
    BY <2>0, <2>1, <2>2, RowsSeen DEF Maps, PhaseOf
  <2> QED BY <2>3, <2>4 DEF Outcomes!Settle, Scans, Deliveries, Settlements
<1>3. ASSUME NEW p \in Preparations, NEW f \in Files, Prepare(p, f)
      PROVE  Outcomes!Prepare(p)
  <2> DEFINE e == [NoExecution EXCEPT !.state = "prepared", !.file = f]
  <2>1. /\ execution' = [execution EXCEPT ![p] = e]
        /\ continuation' = [continuation EXCEPT ![p] = continuation[p]]
    BY <1>3 DEF Prepare, receiptVars, TypeOK, TablesTypeOK
  <2>2. e.state = "prepared" /\ e.scan = 0 /\ e.settled = FALSE /\ execution[p].state = "none"
    BY <1>3 DEF Prepare, NoExecution
  <2>3. execution[p].scan = 0 /\ execution[p].settled = FALSE
    BY <2>2, RowsSeen DEF ReceiptsAgree, Executions
  <2> HIDE DEF e
  <2>0. Maps(p, e, continuation[p])
    BY <1>3, <2>1, RowMaps
  <2>4. Phase[p] = "absent" /\ Phase' = [Phase EXCEPT ![p] = "ready"]
    BY <2>0, <2>1, <2>2, RowsSeen DEF Maps, PhaseOf
  <2>5. UNCHANGED <<Scans, Deliveries, Settlements>>
    BY <2>0, <2>1, <2>0, <2>2, <2>3, RowsSeen DEF Maps
  <2> QED BY <2>4, <2>5 DEF Outcomes!Prepare, Outcomes!Advance, Scans, Deliveries, Settlements
<1> QED BY <1>1, <1>2, <1>3, BotMoves DEF Outcomes!Next

(* The coordinated import implements the ledger of outcomes: whatever fails, *)
(* a preparation is executed and committed at most once, under a new scan   *)
(* order, and its reports are delivered once each and in order.             *)
THEOREM ImplementsTheOutcomes == Spec => ImplementsOutcomes
<1>1. Init => Outcomes!Init
  BY InitOutcomes
<1>2. IInv /\ [Next]_vars => [Outcomes!Next]_(Outcomes!outcomeVars)
  <2>1. ASSUME IInv, [Next]_vars
        PROVE  Outcomes!Next \/ UNCHANGED <<Phase, Scans, Deliveries, Settlements>>
    BY <2>1, SessionOutcomes, BotOutcomes DEF Next, SessionStep
  <2>2. UNCHANGED <<Phase, Scans, Deliveries, Settlements>> => UNCHANGED Outcomes!outcomeVars
    BY DEF Scans, Deliveries, Settlements, Outcomes!outcomeVars
  <2> QED BY <2>1, <2>2
<1>3. TypeOK /\ OutcomeInvariant <=> IInv
  BY DEF IInv
<1> QED BY <1>1, <1>2, <1>3, TypeCorrect, OutcomeHolds, PTL
        DEF Spec, ImplementsOutcomes, Outcomes!Spec
=============================================================================
