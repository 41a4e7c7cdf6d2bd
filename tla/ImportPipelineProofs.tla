------------------------ MODULE ImportPipelineProofs ------------------------
(***************************************************************************)
(* Theorems about ImportPipeline for every set of sessions, files and      *)
(* contents, every scan range and every history, with or without the       *)
(* producer and the operators keeping the rules.                           *)
(***************************************************************************)
EXTENDS ImportPipeline, TLAPS

(* How a step ends keeps the session variables well typed. *)
LEMMA ReturnType ==
    ASSUME TypeOK, NEW s \in Sessions, Return(s), calm' = calm
    PROVE  SessionTypeOK' /\ \A t \in Sessions : AtWork(t)'
  BY DEF TypeOK, SessionTypeOK, AtWork, Return, Forget, Goto, Unlock, Steps

(* A failed step keeps the sessions well typed. *)
LEMMA ThrowType ==
    ASSUME TypeOK, NEW s \in Sessions, Throw(s), calm' = calm, pc[s] # "idle"
    PROVE  SessionTypeOK' /\ \A t \in Sessions : AtWork(t)'
<1>1. CASE pc[s] \in ClaimSteps
  BY <1>1 DEF TypeOK, SessionTypeOK, AtWork, Throw, Forget, Goto, Unlock, Steps
<1>2. CASE pc[s] \notin ClaimSteps
  BY <1>2, ReturnType DEF Throw
<1> QED BY <1>1, <1>2

(* A step that goes on keeps the sessions well typed. *)
LEMMA GotoType ==
    ASSUME TypeOK, NEW s \in Sessions, NEW step \in Steps, Goto(s, step), pc[s] # "idle",
           file' = file, calm' = calm, entry' \in [Sessions -> Entries \cup {"none"}],
           saw' \in [Sessions -> SUBSET {"ready", "claimed"}],
           digest' \in [Sessions -> Bytes \cup {NoBytes}],
           staged' \in [Sessions -> Bytes \cup {NoBytes}],
           lock' \in Sessions \cup {Nobody},
           \A t \in Sessions : t # s => digest'[t] = digest[t],
           step \in {"bind", "load", "rehash", "commit", "archiveMove", "archiveVerify"}
             => digest'[s] \in Bytes
    PROVE  SessionTypeOK' /\ \A t \in Sessions : AtWork(t)'
  BY DEF TypeOK, SessionTypeOK, AtWork, Goto


(* A step that goes on without touching the locals of the session. *)
LEMMA StayType ==
    ASSUME TypeOK, NEW s \in Sessions, NEW step \in Steps, Goto(s, step), pc[s] # "idle",
           UNCHANGED <<file, entry, saw, digest, staged, lock, calm>>,
           step \in {"bind", "load", "rehash", "commit", "archiveMove", "archiveVerify"}
             => digest[s] \in Bytes
    PROVE  SessionTypeOK' /\ \A t \in Sessions : AtWork(t)'
  BY GotoType DEF TypeOK, SessionTypeOK

(* A content of a file that is there is a member of Bytes. *)
LEMMA ContentType ==
    ASSUME TypeOK, NEW f \in Files
    PROVE  /\ claimed[f] # NoBytes => claimed[f] \in Bytes
           /\ claim[f].digest # NoBytes => claim[f].digest \in Bytes
           /\ claim[f].status \in Statuses
  BY DEF TypeOK, DatabaseTypeOK, DiskTypeOK

(* The steps of a claim keep the types. *)
LEMMA ClaimStepType ==
    ASSUME TypeOK, NEW s \in Sessions, ClaimStep(s)
    PROVE  TypeOK'
<1> DEFINE f == file[s]
<1> USE DEF Steps
<1>0. /\ pc[s] # "idle" => f \in Files
      /\ pc[s] = "bind" => digest[s] \in Bytes
  BY DEF TypeOK, AtWork
<1>1. CASE ClaimOpen(s)
  <2>1. DatabaseTypeOK' /\ DiskTypeOK'
    BY <1>0, <1>1 DEF ClaimOpen, TypeOK, DatabaseTypeOK, DiskTypeOK, diskVars, Statuses
  <2>2. SessionTypeOK' /\ \A t \in Sessions : AtWork(t)'
    <3>1. CASE Goto(s, "probeReady") /\ UNCHANGED <<file, entry, saw, digest, staged, lock>>
      BY <1>1, <3>1, StayType DEF ClaimOpen, ClaimSteps
    <3>2. CASE /\ Goto(s, "archiveOpen") /\ entry' = [entry EXCEPT ![s] = "none"]
               /\ UNCHANGED <<file, saw, digest, staged, lock>>
      BY <1>1, <3>2, GotoType DEF ClaimOpen, TypeOK, SessionTypeOK, WaitingSteps
    <3>3. CASE Return(s)
      BY <1>1, <3>3, ReturnType DEF ClaimOpen
    <3> QED BY <1>1, <3>1, <3>2, <3>3 DEF ClaimOpen
  <2> QED BY <2>1, <2>2 DEF TypeOK
<1>2. CASE ProbeReady(s) \/ ProbeClaimed(s)
  <2>1. DatabaseTypeOK' /\ DiskTypeOK'
    BY <1>2 DEF ProbeReady, ProbeClaimed, Probe, TypeOK, DatabaseTypeOK, DiskTypeOK,
                dbVars, diskVars
  <2>2. saw' \in [Sessions -> SUBSET {"ready", "claimed"}]
    BY <1>2 DEF ProbeReady, ProbeClaimed, Probe, TypeOK, SessionTypeOK
  <2>3. SessionTypeOK' /\ \A t \in Sessions : AtWork(t)'
    BY <1>2, <2>2, GotoType
       DEF ProbeReady, ProbeClaimed, Probe, TypeOK, SessionTypeOK, ClaimSteps
  <2> QED BY <2>1, <2>3 DEF TypeOK
<1>3. CASE ProbeArchive(s)
  <2>1. DatabaseTypeOK' /\ DiskTypeOK'
    BY <1>3 DEF ProbeArchive, TypeOK, DatabaseTypeOK, DiskTypeOK, dbVars, diskVars
  <2>2. SessionTypeOK' /\ \A t \in Sessions : AtWork(t)'
    <3>1. CASE Throw(s)
      BY <1>3, <3>1, ThrowType DEF ProbeArchive
    <3>2. CASE ~Throw(s)
      <4> DEFINE next == IF saw[s] = {"ready"} THEN "move" ELSE "harden"
      <4>1. /\ Goto(s, next) /\ saw' = [saw EXCEPT ![s] = {}]
            /\ UNCHANGED <<file, entry, digest, staged, lock, calm>>
        BY <1>3, <3>2 DEF ProbeArchive
      <4>2. next \in ClaimSteps /\ next \notin {"bind"}
        BY DEF ClaimSteps
      <4>3. saw' \in [Sessions -> SUBSET {"ready", "claimed"}]
        BY <4>1 DEF TypeOK, SessionTypeOK
      <4> HIDE DEF next
      <4> QED BY <1>3, <4>1, <4>2, <4>3, GotoType
              DEF ProbeArchive, TypeOK, SessionTypeOK, ClaimSteps
    <3> QED BY <3>1, <3>2
  <2> QED BY <2>1, <2>2 DEF TypeOK
<1>4. CASE Move(s)
  <2>1. DatabaseTypeOK' /\ DiskTypeOK'
    BY <1>0, <1>4 DEF Move, TypeOK, DatabaseTypeOK, DiskTypeOK, dbVars
  <2>2. SessionTypeOK' /\ \A t \in Sessions : AtWork(t)'
    BY <1>4, ThrowType, StayType DEF Move, ClaimSteps
  <2> QED BY <2>1, <2>2 DEF TypeOK
<1>5. CASE Verify(s)
  <2>1. DatabaseTypeOK' /\ DiskTypeOK'
    BY <1>5 DEF Verify, TypeOK, DatabaseTypeOK, DiskTypeOK, dbVars, diskVars
  <2>2. SessionTypeOK' /\ \A t \in Sessions : AtWork(t)'
    BY <1>5, ThrowType, StayType DEF Verify, ClaimSteps
  <2> QED BY <2>1, <2>2 DEF TypeOK
<1>6. CASE Harden(s)
  <2>1. DatabaseTypeOK' /\ DiskTypeOK'
    BY <1>0, <1>6 DEF Harden, TypeOK, DatabaseTypeOK, DiskTypeOK, dbVars
  <2>2. SessionTypeOK' /\ \A t \in Sessions : AtWork(t)'
    BY <1>6, ThrowType, StayType DEF Harden, ClaimSteps
  <2> QED BY <2>1, <2>2 DEF TypeOK
<1>7. CASE Hash(s)
  <2>1. DatabaseTypeOK' /\ DiskTypeOK'
    BY <1>7 DEF Hash, TypeOK, DatabaseTypeOK, DiskTypeOK, dbVars, diskVars
  <2>2. SessionTypeOK' /\ \A t \in Sessions : AtWork(t)'
    <3>1. CASE claimed[f] # NoBytes
      <4>1. claimed[f] \in Bytes
        BY <1>0, <1>7, <3>1, ContentType DEF Hash
      <4> QED BY <1>7, <3>1, <4>1, GotoType
              DEF Hash, TypeOK, SessionTypeOK, ClaimSteps
    <3>2. CASE claimed[f] = NoBytes
      BY <1>7, <3>2, ThrowType DEF Hash
    <3> QED BY <3>1, <3>2
  <2> QED BY <2>1, <2>2 DEF TypeOK
<1>8. CASE Bind(s)
  <2> DEFINE duplicate == receipt[digest[s]].scan # 0
             next == IF duplicate THEN "archiveOpen" ELSE "importOpen"
  <2>1. DatabaseTypeOK' /\ DiskTypeOK'
    <3> DEFINE status == IF duplicate THEN "duplicate" ELSE "claimed"
    <3>1. CASE claim' = [claim EXCEPT ![f] = [status |-> status, digest |-> digest[s]]]
      <4>1. status \in Statuses /\ f \in Files /\ digest[s] \in Bytes
        BY <1>0, <1>8 DEF Bind, Statuses
      <4> HIDE DEF status, f
      <4> QED BY <1>8, <3>1, <4>1
              DEF Bind, TypeOK, DatabaseTypeOK, DiskTypeOK, diskVars
    <3>2. CASE UNCHANGED claim
      BY <1>8, <3>2 DEF Bind, TypeOK, DatabaseTypeOK, DiskTypeOK, diskVars
    <3> QED BY <1>8, <3>1, <3>2 DEF Bind
  <2>2. SessionTypeOK' /\ \A t \in Sessions : AtWork(t)'
    <3>1. CASE Throw(s)
      BY <1>8, <3>1, ThrowType DEF Bind
    <3>2. CASE ~Throw(s)
      <4>1. /\ Goto(s, next)
            /\ digest' = [digest EXCEPT ![s] = NoBytes]
            /\ entry' = [entry EXCEPT ![s] = IF duplicate THEN "none" ELSE @]
            /\ UNCHANGED <<file, saw, staged, lock, calm>>
        BY <1>8, <3>2 DEF Bind
      <4>2. next \in {"archiveOpen", "importOpen"}
        OBVIOUS
      <4>3. entry' \in [Sessions -> Entries \cup {"none"}]
        BY <4>1 DEF TypeOK, SessionTypeOK
      <4> HIDE DEF next, duplicate
      <4> QED BY <1>8, <4>1, <4>2, <4>3, GotoType
              DEF Bind, TypeOK, SessionTypeOK, WaitingSteps
    <3> QED BY <3>1, <3>2
  <2> QED BY <2>1, <2>2 DEF TypeOK
<1>9. CASE ClaimCatch(s)
  <2>1. DatabaseTypeOK' /\ DiskTypeOK'
    BY <1>0, <1>9 DEF Failed, ClaimCatch, TypeOK, DatabaseTypeOK, DiskTypeOK, diskVars, Statuses
  <2>2. SessionTypeOK' /\ \A t \in Sessions : AtWork(t)'
    BY <1>9, ReturnType DEF ClaimCatch
  <2> QED BY <2>1, <2>2 DEF TypeOK
<1> QED BY <1>1, <1>2, <1>3, <1>4, <1>5, <1>6, <1>7, <1>8, <1>9 DEF ClaimStep

(* The steps of an import keep the types. *)
LEMMA ImportStepType ==
    ASSUME TypeOK, NEW s \in Sessions, ImportStep(s)
    PROVE  TypeOK'
<1> DEFINE f == file[s]
<1> USE DEF Steps
<1>0. /\ pc[s] # "idle" => f \in Files
      /\ pc[s] \in {"load", "rehash", "commit"} => digest[s] \in Bytes
  BY DEF TypeOK, AtWork
<1>1. CASE ImportOpen(s)
  <2>1. DatabaseTypeOK' /\ DiskTypeOK'
    BY <1>1 DEF ImportOpen, TypeOK, DatabaseTypeOK, DiskTypeOK, dbVars, diskVars
  <2>2. SessionTypeOK' /\ \A t \in Sessions : AtWork(t)'
    <3>1. CASE Throw(s)
      BY <1>1, <3>1, ThrowType DEF ImportOpen, Importable, HoldsClaimedBytes
    <3>2. CASE ~Throw(s)
      <4>1. claim[f].digest \in Bytes
        BY <1>0, <1>1, <3>2, ContentType DEF ImportOpen, Importable, HoldsClaimedBytes
      <4> QED BY <1>1, <3>2, <4>1, GotoType
              DEF ImportOpen, TypeOK, SessionTypeOK, LockedSteps
    <3> QED BY <3>1, <3>2
  <2> QED BY <2>1, <2>2 DEF TypeOK
<1>2. CASE Load(s)
  <2>1. DatabaseTypeOK' /\ DiskTypeOK'
    BY <1>2 DEF Load, TypeOK, DatabaseTypeOK, DiskTypeOK, dbVars, diskVars
  <2>2. claimed[f] \in Bytes \cup {NoBytes}
    BY <1>0, <1>2 DEF Load, TypeOK, DiskTypeOK
  <2>3. SessionTypeOK' /\ \A t \in Sessions : AtWork(t)'
    BY <1>0, <1>2, <2>2, GotoType DEF Load, TypeOK, SessionTypeOK, LockedSteps
  <2> QED BY <2>1, <2>3 DEF TypeOK
<1>3. CASE Rehash(s)
  <2>1. DatabaseTypeOK' /\ DiskTypeOK'
    BY <1>3 DEF Rehash, TypeOK, DatabaseTypeOK, DiskTypeOK, dbVars, diskVars
  <2>2. SessionTypeOK' /\ \A t \in Sessions : AtWork(t)'
    BY <1>0, <1>3, ThrowType, StayType DEF Rehash, LockedSteps
  <2> QED BY <2>1, <2>2 DEF TypeOK
<1>4. CASE Commit(s)
  <2>1. DatabaseTypeOK'
    <3>1. CASE UNCHANGED dbVars
      BY <3>1 DEF TypeOK, DatabaseTypeOK, dbVars
    <3>2. CASE \E n \in Scans : NextScan(n) /\ CommitScan(s, n)
      <4>1. PICK n \in Scans : CommitScan(s, n)
        BY <3>2
      <4>2. f \in Files /\ digest[s] \in Bytes
        BY <1>0, <1>4 DEF Commit
      <4>3. n \in 0..MaxScan
        BY <4>1 DEF Scans
      <4>4. receipt' \in [Bytes -> [scan : 0..MaxScan, source : Files \cup {NoFile},
                                   archived : BOOLEAN]]
        BY <4>1, <4>2, <4>3 DEF CommitScan, TypeOK, DatabaseTypeOK
      <4>5. claim' \in [Files -> [status : Statuses, digest : Bytes \cup {NoBytes}]]
        BY <4>1, <4>2 DEF CommitScan, TypeOK, DatabaseTypeOK, Statuses
      <4>6. staged[s] \in Bytes \cup {NoBytes}
        BY DEF TypeOK, SessionTypeOK
      <4>7. /\ ks4' \in [Scans -> Bytes \cup {NoBytes, OldBytes}]
            /\ ks5' \in [Scans -> Bytes \cup {NoBytes, OldBytes}]
        BY <4>1, <4>6 DEF CommitScan, TypeOK, DatabaseTypeOK
      <4> QED BY <4>4, <4>5, <4>7 DEF DatabaseTypeOK
    <3> QED BY <1>4, <3>1, <3>2 DEF Commit
  <2>2. DiskTypeOK'
    BY <1>4 DEF Commit, TypeOK, DiskTypeOK, diskVars
  <2>3. SessionTypeOK' /\ \A t \in Sessions : AtWork(t)'
    <3>1. CASE Throw(s)
      BY <1>4, <3>1, ThrowType DEF Commit
    <3>2. CASE ~Throw(s)
      BY <1>4, <3>2, GotoType DEF Commit, Forget, TypeOK, SessionTypeOK, WaitingSteps
    <3> QED BY <3>1, <3>2
  <2> QED BY <2>1, <2>2, <2>3 DEF TypeOK
<1> QED BY <1>1, <1>2, <1>3, <1>4 DEF ImportStep

(* The final statuses are typed, whichever of the two archive paths sets them. *)
LEMMA SetArchivedType ==
    ASSUME TypeOK, NEW f \in Files, SetArchived(f), UNCHANGED <<ks4, ks5>>
    PROVE  DatabaseTypeOK'
<1>1. receipt' \in [Bytes -> [scan : 0..MaxScan, source : Files \cup {NoFile},
                             archived : BOOLEAN]]
  BY DEF SetArchived, TypeOK, DatabaseTypeOK
<1>2. claim' \in [Files -> [status : Statuses, digest : Bytes \cup {NoBytes}]]
  BY DEF SetArchived, TypeOK, DatabaseTypeOK, Statuses
<1> QED BY <1>1, <1>2 DEF TypeOK, DatabaseTypeOK

(* The steps of an archive keep the types. *)
LEMMA ArchiveStepType ==
    ASSUME TypeOK, NEW s \in Sessions, ArchiveStep(s)
    PROVE  TypeOK'
<1> DEFINE f == file[s]
<1> USE DEF Steps
<1>0. /\ pc[s] # "idle" => f \in Files
      /\ pc[s] \in {"archiveMove", "archiveVerify"} => digest[s] \in Bytes
  BY DEF TypeOK, AtWork
<1>1. CASE ArchiveOpen(s)
  <2>1. DatabaseTypeOK' /\ DiskTypeOK'
    <3>1. CASE SetArchived(f)
      BY <1>0, <1>1, <3>1, SetArchivedType DEF ArchiveOpen, TypeOK, DiskTypeOK, diskVars
    <3>2. CASE UNCHANGED <<claim, receipt>>
      BY <1>1, <3>2 DEF ArchiveOpen, TypeOK, DatabaseTypeOK, DiskTypeOK, diskVars
    <3> QED BY <1>1, <3>1, <3>2 DEF ArchiveOpen
  <2>2. SessionTypeOK' /\ \A t \in Sessions : AtWork(t)'
    <3>1. CASE Throw(s) \/ Return(s)
      BY <1>1, <3>1, ThrowType, ReturnType DEF ArchiveOpen
    <3>2. CASE ~(Throw(s) \/ Return(s))
      <4>1. claim[f].digest \in Bytes
        BY <1>0, <1>1, <3>2, ContentType DEF ArchiveOpen, Reconcilable, Movable, Archivable
      <4> QED BY <1>1, <3>2, <4>1, GotoType
              DEF ArchiveOpen, TypeOK, SessionTypeOK, LockedSteps
    <3> QED BY <3>1, <3>2
  <2> QED BY <2>1, <2>2 DEF TypeOK
<1>2. CASE ArchiveMove(s)
  <2>1. DatabaseTypeOK' /\ DiskTypeOK'
    BY <1>0, <1>2 DEF ArchiveMove, TypeOK, DatabaseTypeOK, DiskTypeOK, dbVars
  <2>2. SessionTypeOK' /\ \A t \in Sessions : AtWork(t)'
    BY <1>0, <1>2, StayType DEF ArchiveMove, LockedSteps
  <2> QED BY <2>1, <2>2 DEF TypeOK
<1>3. CASE ArchiveVerify(s)
  <2>1. DatabaseTypeOK' /\ DiskTypeOK'
    <3>1. CASE SetArchived(f)
      BY <1>0, <1>3, <3>1, SetArchivedType DEF ArchiveVerify, TypeOK, DiskTypeOK, diskVars
    <3>2. CASE UNCHANGED <<claim, receipt>>
      BY <1>3, <3>2 DEF ArchiveVerify, TypeOK, DatabaseTypeOK, DiskTypeOK, diskVars
    <3> QED BY <1>3, <3>1, <3>2 DEF ArchiveVerify
  <2>2. SessionTypeOK' /\ \A t \in Sessions : AtWork(t)'
    BY <1>3, ThrowType, ReturnType DEF ArchiveVerify
  <2> QED BY <2>1, <2>2 DEF TypeOK
<1> QED BY <1>1, <1>2, <1>3 DEF ArchiveStep

(* A call by the bot keeps the types. *)
LEMMA CallType ==
    ASSUME TypeOK, NEW s \in Sessions, NEW f \in Files,
           CallArchive(s, f) \/ \E e \in Entries : Call(s, f, e)
    PROVE  TypeOK'
<1>1. DatabaseTypeOK' /\ DiskTypeOK'
  BY DEF CallArchive, Call, TypeOK, DatabaseTypeOK, DiskTypeOK, dbVars, diskVars
<1>2. SessionTypeOK' /\ \A t \in Sessions : AtWork(t)'
  BY DEF CallArchive, Call, TypeOK, SessionTypeOK, AtWork, Goto, Steps, ClaimSteps,
         WaitingSteps
<1> QED BY <1>1, <1>2 DEF TypeOK

(* The producer and the operators keep the types. *)
LEMMA EnvironmentType ==
    ASSUME TypeOK, NEW f \in Files, NEW b \in Bytes, Publish(f, b) \/ Rewrite(f, b)
    PROVE  TypeOK'
<1>1. DatabaseTypeOK' /\ DiskTypeOK'
  BY DEF Publish, Rewrite, TypeOK, DatabaseTypeOK, DiskTypeOK, dbVars
<1>2. SessionTypeOK' /\ \A t \in Sessions : AtWork(t)'
  BY DEF Publish, Rewrite, TypeOK, SessionTypeOK, AtWork, sessVars
<1> QED BY <1>1, <1>2 DEF TypeOK

(* A failure keeps the types. *)
LEMMA FailureType ==
    ASSUME TypeOK, NEW s \in Sessions, Disconnect(s) \/ Fault(s)
    PROVE  TypeOK'
<1>1. DatabaseTypeOK' /\ DiskTypeOK'
  BY DEF Disconnect, Fault, TypeOK, DatabaseTypeOK, DiskTypeOK, dbVars, diskVars
<1>2. SessionTypeOK' /\ \A t \in Sessions : AtWork(t)'
  BY ThrowType, ReturnType DEF Disconnect, Fault
<1> QED BY <1>1, <1>2 DEF TypeOK

(* The first state is well typed. *)
LEMMA InitType == Init => TypeOK
<1> SUFFICES ASSUME Init PROVE TypeOK
  OBVIOUS
<1>1. DatabaseTypeOK
  BY ConstantsAssumption DEF Init, DatabaseTypeOK, Past, NoReceipt, Statuses
<1>2. DiskTypeOK
  BY DEF Init, DiskTypeOK
<1>3. SessionTypeOK /\ \A s \in Sessions : AtWork(s)
  BY DEF Init, SessionTypeOK, AtWork, Steps
<1> QED BY <1>1, <1>2, <1>3 DEF TypeOK

(* Every step keeps the types. *)
LEMMA NextType == TypeOK /\ [Next]_vars => TypeOK'
<1> SUFFICES ASSUME TypeOK, [Next]_vars PROVE TypeOK'
  OBVIOUS
<1>1. CASE \E s \in Sessions : Step(s)
  BY <1>1, ClaimStepType, ImportStepType, ArchiveStepType DEF Step
<1>2. CASE \E s \in Sessions, f \in Files :
             CallArchive(s, f) \/ \E e \in Entries : Call(s, f, e)
  BY <1>2, CallType
<1>3. CASE \E s \in Sessions : Disconnect(s) \/ Fault(s)
  BY <1>3, FailureType
<1>4. CASE \E f \in Files, b \in Bytes : Publish(f, b) \/ Rewrite(f, b)
  BY <1>4, EnvironmentType
<1>5. CASE UNCHANGED vars
  BY <1>5 DEF vars, dbVars, diskVars, sessVars, TypeOK, DatabaseTypeOK, DiskTypeOK,
              SessionTypeOK, AtWork
<1> QED BY <1>1, <1>2, <1>3, <1>4, <1>5 DEF Next

(* Type correctness: every table, directory and session stays in its type,  *)
(* and a session always has the file and the digest its step uses.          *)
THEOREM TypeCorrect == Spec => []TypeOK
<1>1. TypeOK /\ [Next]_vars => TypeOK'
  BY NextType
<1> QED BY InitType, <1>1, PTL DEF Spec

-----------------------------------------------------------------------------
(* The inductive invariant. *)

(* A step that leaves claims, receipts and scans alone and changes no other *)
(* session keeps the invariant, if the session does not enter a locked step *)
(* with the mutex elsewhere.                                                *)
LEMMA QuietStep ==
    ASSUME PipelineInvariant, NEW s \in Sessions, UNCHANGED dbVars,
           \A t \in Sessions : t # s =>
             pc'[t] = pc[t] /\ file'[t] = file[t] /\ digest'[t] = digest[t],
           \A t \in Sessions : t # s => (lock' = t <=> lock = t),
           pc'[s] \in LockedSteps <=> lock' = s,
           pc'[s] \in {"load", "rehash", "commit"} => receipt[digest'[s]].scan = 0,
           pc'[s] \in {"archiveMove", "archiveVerify"} => Archivable(file'[s])
    PROVE  PipelineInvariant'
<1>1. MutexHeld' /\ FoundUnderMutex'
  BY DEF PipelineInvariant, MutexHeld, FoundUnderMutex, Archivable, dbVars
<1>2. ReceiptsAreOwned' /\ ClaimsAreBacked' /\ ScansAreUsedOnce'
  BY DEF PipelineInvariant, ReceiptsAreOwned, ClaimsAreBacked, ScansAreUsedOnce,
         Archivable, InUse, dbVars
<1> QED BY <1>1, <1>2 DEF PipelineInvariant

(* The mutex is released and the session holds no locked step.              *)
LEMMA QuietEnd ==
    ASSUME TypeOK, PipelineInvariant, NEW s \in Sessions, UNCHANGED dbVars,
           Return(s) \/ Throw(s)
    PROVE  PipelineInvariant'
<1>1. pc'[s] \notin LockedSteps /\ \A t \in Sessions : t # s => pc'[t] = pc[t]
  BY DEF Return, Throw, Goto, TypeOK, SessionTypeOK, LockedSteps
<1>2. lock' # s /\ \A t \in Sessions : t # s => (lock' = t <=> lock = t)
  BY ConstantsAssumption DEF Return, Throw, Unlock
<1>3. \A t \in Sessions : t # s => file'[t] = file[t] /\ digest'[t] = digest[t]
  BY DEF Return, Throw, Forget, TypeOK, SessionTypeOK
<1> QED BY <1>1, <1>2, <1>3, QuietStep DEF LockedSteps

(* After a step that leaves the mutex free, nothing is claimed under it.    *)
LEMMA FreeMutex ==
    ASSUME TypeOK, PipelineInvariant, NEW s \in Sessions, lock \in {s, Nobody},
           lock' = Nobody, pc'[s] \notin LockedSteps,
           \A t \in Sessions : t # s => pc'[t] = pc[t]
    PROVE  MutexHeld' /\ FoundUnderMutex'
<1>1. \A t \in Sessions : pc'[t] \notin LockedSteps
  BY ConstantsAssumption DEF PipelineInvariant, MutexHeld
<1> QED BY <1>1, ConstantsAssumption DEF MutexHeld, FoundUnderMutex, LockedSteps

(* A claim that no receipt names takes on a status no receipt speaks of,    *)
(* or becomes a duplicate of a content that has a receipt.                  *)
LEMMA UnownedClaim ==
    ASSUME TypeOK, PipelineInvariant, NEW f \in Files, NEW new,
           claim' = [claim EXCEPT ![f] = new],
           UNCHANGED <<receipt, ks4, ks5>>,
           claim[f].status \notin {"imported", "archived"},
           \/ new.status \in {"none", "claiming", "claimed", "failed"}
           \/ /\ new.status \in {"duplicate", "duplicate_archived"}
              /\ new.digest # NoBytes
              /\ receipt[new.digest].scan # 0
    PROVE  ReceiptsAreOwned' /\ ClaimsAreBacked' /\ ScansAreUsedOnce'
<1>0. claim'[f] = new /\ \A g \in Files : g # f => claim'[g] = claim[g]
  BY DEF TypeOK, DatabaseTypeOK
<1>1. ReceiptsAreOwned'
  <2> SUFFICES ASSUME NEW b \in Bytes, receipt[b] # NoReceipt
               PROVE  /\ receipt[b].scan # 0
                      /\ receipt[b].source \in Files
                      /\ claim'[receipt[b].source].digest = b
                      /\ claim'[receipt[b].source].status
                           = IF receipt[b].archived THEN "archived" ELSE "imported"
    BY DEF ReceiptsAreOwned
  <2>1. /\ receipt[b].scan # 0
        /\ receipt[b].source \in Files
        /\ claim[receipt[b].source].digest = b
        /\ claim[receipt[b].source].status
             = IF receipt[b].archived THEN "archived" ELSE "imported"
    BY DEF PipelineInvariant, ReceiptsAreOwned
  <2>2. receipt[b].source # f
    BY <2>1
  <2> QED BY <1>0, <2>1, <2>2
<1>2. ClaimsAreBacked'
  <2> SUFFICES ASSUME NEW g \in Files,
                      claim'[g].status \in {"imported", "archived", "duplicate",
                                            "duplicate_archived"}
               PROVE  Archivable(g)'
    BY DEF ClaimsAreBacked
  <2>1. CASE g = f
    BY <2>1, <1>0 DEF Archivable
  <2>2. CASE g # f
    BY <2>2, <1>0 DEF Archivable, PipelineInvariant, ClaimsAreBacked
  <2> QED BY <2>1, <2>2
<1>3. ScansAreUsedOnce'
  BY DEF PipelineInvariant, ScansAreUsedOnce, InUse
<1> QED BY <1>1, <1>2, <1>3

(* The steps of a claim keep the invariant. *)
LEMMA ClaimStepInvariant ==
    ASSUME TypeOK, PipelineInvariant, NEW s \in Sessions, ClaimStep(s)
    PROVE  PipelineInvariant'
<1> DEFINE f == file[s]
<1>0. /\ pc[s] # "idle" => f \in Files
      /\ pc[s] = "bind" => digest[s] \in Bytes
  BY DEF TypeOK, AtWork
<1>1. CASE ClaimOpen(s)
  <2>0. f \in Files /\ lock = Nobody /\ pc[s] \notin LockedSteps
    BY <1>1, <1>0 DEF ClaimOpen, LockedSteps
  <2>1. CASE claim[f].status = "none"
    <3>1. /\ claim' = [claim EXCEPT ![f] = [status |-> "claiming", digest |-> NoBytes]]
          /\ Goto(s, "probeReady") /\ lock' = lock /\ UNCHANGED <<receipt, ks4, ks5>>
      BY <1>1, <2>1 DEF ClaimOpen
    <3>2. ReceiptsAreOwned' /\ ClaimsAreBacked' /\ ScansAreUsedOnce'
      BY <2>0, <2>1, <3>1, UnownedClaim
    <3>3. MutexHeld' /\ FoundUnderMutex'
      BY <2>0, <3>1, FreeMutex DEF Goto, TypeOK, SessionTypeOK, LockedSteps
    <3> QED BY <3>2, <3>3 DEF PipelineInvariant
  <2>2. CASE claim[f].status # "none"
    <3>1. UNCHANGED dbVars
      BY <1>1, <2>2 DEF ClaimOpen, dbVars
    <3>2. \/ Goto(s, "probeReady") /\ lock' = lock /\ UNCHANGED <<file, digest>>
          \/ Goto(s, "archiveOpen") /\ lock' = lock /\ UNCHANGED <<file, digest>>
          \/ Return(s)
      BY <1>1, <2>2 DEF ClaimOpen
    <3>3. CASE Return(s)
      BY <3>1, <3>3, QuietEnd
    <3>4. CASE /\ Goto(s, "probeReady") \/ Goto(s, "archiveOpen")
               /\ lock' = lock /\ UNCHANGED <<file, digest>>
      BY <2>0, <3>1, <3>4, QuietStep, ConstantsAssumption
         DEF Goto, TypeOK, SessionTypeOK, LockedSteps
    <3> QED BY <3>2, <3>3, <3>4
  <2> QED BY <2>1, <2>2
<1>2. CASE \/ ProbeReady(s) \/ ProbeClaimed(s) \/ ProbeArchive(s)
           \/ Move(s) \/ Verify(s) \/ Harden(s) \/ Hash(s)
  <2>1. UNCHANGED dbVars /\ pc[s] \in ClaimSteps
    BY <1>2 DEF ProbeReady, ProbeClaimed, Probe, ProbeArchive, Move, Verify, Harden,
                Hash, ClaimSteps
  <2>2. CASE Throw(s)
    BY <2>1, <2>2, QuietEnd
  <2>3. CASE ~Throw(s)
    <3>1. /\ lock' = lock /\ file' = file
          /\ \A t \in Sessions : t # s => digest'[t] = digest[t]
          /\ \E step \in ClaimSteps : Goto(s, step)
      BY <1>2, <2>3 DEF ProbeReady, ProbeClaimed, Probe, ProbeArchive, Move, Verify,
                Harden, Hash, ClaimSteps, TypeOK, SessionTypeOK
    <3>2. pc[s] \notin LockedSteps /\ pc'[s] \notin LockedSteps
      BY <2>1, <3>1 DEF ClaimSteps, LockedSteps, Goto, TypeOK, SessionTypeOK
    <3>3. \A t \in Sessions : t # s => pc'[t] = pc[t]
      BY <3>1 DEF Goto, TypeOK, SessionTypeOK
    <3>4. lock # s
      BY <3>2 DEF PipelineInvariant, MutexHeld
    <3> QED BY <2>1, <3>1, <3>2, <3>3, <3>4, QuietStep DEF LockedSteps
  <2> QED BY <2>2, <2>3
<1>3. CASE Bind(s)
  <2>0. f \in Files /\ lock = Nobody /\ digest[s] \in Bytes
    BY <1>3, <1>0 DEF Bind
  <2>1. CASE claim[f].status \in {"claiming", "claimed", "failed", "duplicate"}
    <3> DEFINE new == [status |-> IF receipt[digest[s]].scan # 0
                                  THEN "duplicate" ELSE "claimed",
                       digest |-> digest[s]]
    <3>1. /\ claim' = [claim EXCEPT ![f] = new]
          /\ Goto(s, "archiveOpen") \/ Goto(s, "importOpen")
          /\ lock' = lock /\ UNCHANGED <<receipt, ks4, ks5>>
      BY <1>3, <2>1 DEF Bind, Bindable
    <3>2. \/ new.status = "claimed"
          \/ /\ new.status = "duplicate" /\ new.digest # NoBytes
             /\ receipt[new.digest].scan # 0
      BY <2>0, ConstantsAssumption
    <3> HIDE DEF new
    <3>3. ReceiptsAreOwned' /\ ClaimsAreBacked' /\ ScansAreUsedOnce'
      BY <2>0, <2>1, <3>1, <3>2, UnownedClaim
    <3>4. MutexHeld' /\ FoundUnderMutex'
      BY <2>0, <3>1, FreeMutex DEF Goto, TypeOK, SessionTypeOK, LockedSteps
    <3> QED BY <3>3, <3>4 DEF PipelineInvariant
  <2>2. CASE claim[f].status \notin {"claiming", "claimed", "failed", "duplicate"}
    BY <1>3, <2>2, QuietEnd DEF Bind, Bindable, dbVars
  <2> QED BY <2>1, <2>2
<1>4. CASE ClaimCatch(s)
  <2> DEFINE new == Failed(claim[f])
  <2>0. f \in Files /\ pc[s] \notin LockedSteps
    BY <1>4, <1>0 DEF ClaimCatch, LockedSteps
  <2>1. claim' = [claim EXCEPT ![f] = new] /\ UNCHANGED <<receipt, ks4, ks5>> /\ Return(s)
    BY <1>4 DEF ClaimCatch
  <2>2. CASE claim[f].status \in {"claiming", "failed"}
    <3>1. new.status = "failed"
      BY <2>2, <2>0 DEF Failed, TypeOK, DatabaseTypeOK
    <3> HIDE DEF new
    <3>2. ReceiptsAreOwned' /\ ClaimsAreBacked' /\ ScansAreUsedOnce'
      BY <2>0, <2>1, <2>2, <3>1, UnownedClaim
    <3>3. pc'[s] = "idle" /\ \A t \in Sessions : t # s =>
            pc'[t] = pc[t] /\ file'[t] = file[t] /\ digest'[t] = digest[t]
      BY <2>1 DEF Return, Goto, Forget, TypeOK, SessionTypeOK
    <3>4. lock' = lock /\ lock # s
      BY <2>0, <2>1 DEF Return, Unlock, PipelineInvariant, MutexHeld
    <3>5. MutexHeld'
      BY <3>3, <3>4 DEF PipelineInvariant, MutexHeld, LockedSteps
    <3>6. \A g \in Files : g # f => claim'[g] = claim[g]
      BY <2>1 DEF TypeOK, DatabaseTypeOK
    <3>7. \A t \in Sessions : pc[t] \in LockedSteps => file[t] \in Files /\ file[t] # f
      BY <1>4 DEF ClaimCatch, PipelineInvariant, MutexHeld, TypeOK, AtWork, LockedSteps
    <3>8. FoundUnderMutex'
      BY <2>1, <3>3, <3>6, <3>7
         DEF PipelineInvariant, FoundUnderMutex, LockedSteps, Archivable
    <3> QED BY <3>2, <3>5, <3>8 DEF PipelineInvariant
  <2>3. CASE claim[f].status \notin {"claiming", "failed"}
    <3>1. claim' = claim
      BY <2>0, <2>1, <2>3 DEF Failed, TypeOK, DatabaseTypeOK
    <3> QED BY <2>1, <3>1, QuietEnd DEF dbVars
  <2> QED BY <2>2, <2>3
<1> QED BY <1>1, <1>2, <1>3, <1>4 DEF ClaimStep

(* The allocated scan order is new in all three tables; the content had no  *)
(* receipt, so neither a receipt nor a duplicate claim speaks of it.        *)
LEMMA CommitInvariant ==
    ASSUME TypeOK, PipelineInvariant, NEW s \in Sessions, NEW n \in Scans,
           pc[s] = "commit", NextScan(n), CommitScan(s, n),
           claim[file[s]] = [status |-> "claimed", digest |-> digest[s]]
    PROVE  ReceiptsAreOwned' /\ ClaimsAreBacked' /\ ScansAreUsedOnce'
<1> DEFINE f == file[s]
           d == digest[s]
           r == [scan |-> n, source |-> f, archived |-> FALSE]
<1>0. f \in Files /\ d \in Bytes /\ receipt[d].scan = 0 /\ d # NoBytes
  BY ConstantsAssumption DEF TypeOK, AtWork, PipelineInvariant, FoundUnderMutex
<1>1. /\ claim' = [claim EXCEPT ![f] = [status |-> "imported", digest |-> d]]
      /\ receipt' = [receipt EXCEPT ![d] = r]
  <2>1. [claim[f] EXCEPT !.status = "imported"] = [status |-> "imported", digest |-> d]
    OBVIOUS
  <2>2. claim' = [claim EXCEPT ![f] = [claim[f] EXCEPT !.status = "imported"]]
    BY DEF CommitScan
  <2> QED BY <2>1, <2>2 DEF CommitScan
<1>2. /\ claim'[f] = [status |-> "imported", digest |-> d]
      /\ \A g \in Files : g # f => claim'[g] = claim[g]
      /\ receipt'[d] = r
      /\ \A b \in Bytes : b # d => receipt'[b] = receipt[b]
  BY <1>0, <1>1 DEF TypeOK, DatabaseTypeOK
<1>3. n # 0 /\ \A b \in Bytes : receipt[b].scan # n
  <2>1. \A m \in ReceiptScans : m < n
    BY DEF NextScan
  <2>2. n \in Nat /\ n # 0
    BY ConstantsAssumption DEF Scans
  <2>3. \A b \in Bytes : receipt[b].scan \in Nat
    BY ConstantsAssumption DEF TypeOK, DatabaseTypeOK
  <2>4. ASSUME NEW b \in Bytes, receipt[b].scan = n PROVE FALSE
    <3>1. n \in ReceiptScans
      BY <2>2, <2>4 DEF ReceiptScans
    <3> QED BY <2>1, <2>2, <3>1
  <2> QED BY <2>2, <2>4
<1>4. ReceiptsAreOwned'
  <2> SUFFICES ASSUME NEW b \in Bytes, receipt'[b] # NoReceipt
               PROVE  /\ receipt'[b].scan # 0
                      /\ receipt'[b].source \in Files
                      /\ claim'[receipt'[b].source].digest = b
                      /\ claim'[receipt'[b].source].status
                           = IF receipt'[b].archived THEN "archived" ELSE "imported"
    BY DEF ReceiptsAreOwned
  <2>1. CASE b = d
    BY <2>1, <1>0, <1>2, <1>3
  <2>2. CASE b # d
    <3>1. /\ receipt[b].scan # 0
          /\ receipt[b].source \in Files
          /\ claim[receipt[b].source].digest = b
          /\ claim[receipt[b].source].status
               = IF receipt[b].archived THEN "archived" ELSE "imported"
      BY <2>2, <1>2 DEF PipelineInvariant, ReceiptsAreOwned
    <3>2. receipt[b].source # f
      BY <3>1
    <3> QED BY <2>2, <1>2, <3>1, <3>2
  <2> QED BY <2>1, <2>2
<1>5. ClaimsAreBacked'
  <2> SUFFICES ASSUME NEW g \in Files,
                      claim'[g].status \in {"imported", "archived", "duplicate",
                                            "duplicate_archived"}
               PROVE  Archivable(g)'
    BY DEF ClaimsAreBacked
  <2>1. CASE g = f
    BY <2>1, <1>0, <1>2, <1>3 DEF Archivable
  <2>2. CASE g # f
    <3>1. Archivable(g) /\ claim'[g] = claim[g]
      BY <2>2, <1>2 DEF PipelineInvariant, ClaimsAreBacked
    <3>2. claim[g].digest \in Bytes /\ claim[g].digest # d
      BY <3>1, <1>0 DEF Archivable, TypeOK, DatabaseTypeOK
    <3> QED BY <3>1, <3>2, <1>2 DEF Archivable
  <2> QED BY <2>1, <2>2
<1>6. ScansAreUsedOnce'
  <2>1. n \notin InUse(ks4) \cup InUse(ks5)
    BY ConstantsAssumption DEF NextScan, Scans
  <2>2. History4 \subseteq InUse(ks4')
    <3>1. \A m \in Scans : m # n => ks4'[m] = ks4[m]
      BY DEF CommitScan, TypeOK, DatabaseTypeOK
    <3> QED BY <2>1, <3>1, ConstantsAssumption
            DEF InUse, PipelineInvariant, ScansAreUsedOnce
  <2>3. History5 \subseteq InUse(ks5')
    <3>1. \A m \in Scans : m # n => ks5'[m] = ks5[m]
      BY DEF CommitScan, TypeOK, DatabaseTypeOK
    <3> QED BY <2>1, <3>1, ConstantsAssumption
            DEF InUse, PipelineInvariant, ScansAreUsedOnce
  <2>4. \A b, c \in Bytes :
          receipt'[b].scan # 0 /\ receipt'[b].scan = receipt'[c].scan => b = c
    BY <1>2, <1>3 DEF PipelineInvariant, ScansAreUsedOnce
  <2> QED BY <2>2, <2>3, <2>4 DEF ScansAreUsedOnce, InUse
<1> QED BY <1>4, <1>5, <1>6

(* The steps of an import keep the invariant. *)
LEMMA ImportStepInvariant ==
    ASSUME TypeOK, PipelineInvariant, NEW s \in Sessions, ImportStep(s)
    PROVE  PipelineInvariant'
<1>1. CASE ImportOpen(s)
  <2>1. CASE Throw(s)
    BY <1>1, <2>1, QuietEnd DEF ImportOpen, Importable, HoldsClaimedBytes
  <2>2. CASE ~Throw(s)
    <3>1. /\ lock' = s /\ lock = Nobody /\ Goto(s, "load")
          /\ digest' = [digest EXCEPT ![s] = claim[file[s]].digest]
          /\ receipt[claim[file[s]].digest].scan = 0
          /\ file' = file /\ UNCHANGED dbVars
      BY <1>1, <2>2 DEF ImportOpen, Importable, HoldsClaimedBytes
    <3> QED BY <3>1, QuietStep, ConstantsAssumption
            DEF Goto, TypeOK, SessionTypeOK, LockedSteps
  <2> QED BY <2>1, <2>2
<1>2. CASE Load(s) \/ Rehash(s)
  <2>1. CASE Throw(s)
    BY <1>2, <2>1, QuietEnd DEF Load, Rehash, dbVars
  <2>2. CASE ~Throw(s)
    <3>1. /\ UNCHANGED <<dbVars, lock, file, digest>>
          /\ Goto(s, "rehash") \/ Goto(s, "commit")
          /\ pc[s] \in {"load", "rehash"}
      BY <1>2, <2>2 DEF Load, Rehash
    <3>2. lock = s /\ receipt[digest[s]].scan = 0
      BY <3>1 DEF PipelineInvariant, MutexHeld, FoundUnderMutex, LockedSteps
    <3> QED BY <3>1, <3>2, QuietStep DEF Goto, TypeOK, SessionTypeOK, LockedSteps
  <2> QED BY <2>1, <2>2
<1>3. CASE Commit(s)
  <2>1. CASE Throw(s) /\ UNCHANGED dbVars
    BY <2>1, QuietEnd
  <2>2. CASE ~(Throw(s) /\ UNCHANGED dbVars)
    <3>1. PICK n \in Scans : NextScan(n) /\ CommitScan(s, n)
      BY <1>3, <2>2 DEF Commit
    <3>2. /\ claim[file[s]] = [status |-> "claimed", digest |-> digest[s]]
          /\ pc[s] = "commit" /\ lock' = Nobody /\ Goto(s, "archiveOpen")
      BY <1>3, <2>2 DEF Commit
    <3>3. lock = s
      BY <3>2 DEF PipelineInvariant, MutexHeld, LockedSteps
    <3>4. MutexHeld' /\ FoundUnderMutex'
      BY <3>2, <3>3, FreeMutex DEF Goto, TypeOK, SessionTypeOK, LockedSteps
    <3> QED BY <3>1, <3>2, <3>4, CommitInvariant DEF PipelineInvariant
  <2> QED BY <2>1, <2>2
<1> QED BY <1>1, <1>2, <1>3 DEF ImportStep

(* The archive state of a claim and of the receipt it owns advance at once. *)
LEMMA SetArchivedInvariant ==
    ASSUME TypeOK, PipelineInvariant, NEW f \in Files, Archivable(f), SetArchived(f),
           UNCHANGED <<ks4, ks5>>
    PROVE  ReceiptsAreOwned' /\ ClaimsAreBacked' /\ ScansAreUsedOnce'
<1> DEFINE d == claim[f].digest
<1>0. d \in Bytes /\ receipt[d].scan # 0
  BY ContentType DEF Archivable
<1>1. CASE claim[f].status \in {"duplicate", "duplicate_archived"}
  <2> DEFINE new == [claim[f] EXCEPT !.status = "duplicate_archived"]
  <2>1. claim' = [claim EXCEPT ![f] = new] /\ receipt' = receipt
    BY <1>1 DEF SetArchived
  <2>2. new.status = "duplicate_archived" /\ new.digest = d
    BY DEF TypeOK, DatabaseTypeOK
  <2>3. new.digest # NoBytes /\ receipt[new.digest].scan # 0
    BY <1>0, <2>2, ConstantsAssumption
  <2> HIDE DEF new
  <2> QED BY <1>1, <2>1, <2>2, <2>3, UnownedClaim
<1>2. CASE claim[f].status \notin {"duplicate", "duplicate_archived"}
  <2>1. claim' = [claim EXCEPT ![f] = [claim[f] EXCEPT !.status = "archived"]]
    BY <1>2 DEF SetArchived
  <2>2. receipt' = [receipt EXCEPT ![d] = [receipt[d] EXCEPT !.archived = TRUE]]
    BY <1>2 DEF SetArchived
  <2>3. /\ claim'[f].status = "archived" /\ claim'[f].digest = d
        /\ \A g \in Files : g # f => claim'[g] = claim[g]
    BY <2>1 DEF TypeOK, DatabaseTypeOK
  <2>4. /\ receipt'[d].scan = receipt[d].scan /\ receipt'[d].source = receipt[d].source
        /\ receipt'[d].archived = TRUE
        /\ \A b \in Bytes : b # d => receipt'[b] = receipt[b]
    BY <1>0, <2>2 DEF TypeOK, DatabaseTypeOK
  <2>5. receipt[d].source = f
    BY <1>2 DEF Archivable
  <2>6. ReceiptsAreOwned'
    <3> SUFFICES ASSUME NEW b \in Bytes, receipt'[b] # NoReceipt
                 PROVE  /\ receipt'[b].scan # 0
                        /\ receipt'[b].source \in Files
                        /\ claim'[receipt'[b].source].digest = b
                        /\ claim'[receipt'[b].source].status
                             = IF receipt'[b].archived THEN "archived" ELSE "imported"
      BY DEF ReceiptsAreOwned
    <3>1. CASE b = d
      BY <3>1, <1>0, <2>3, <2>4, <2>5
    <3>2. CASE b # d
      <4>1. /\ receipt[b].scan # 0
            /\ receipt[b].source \in Files
            /\ claim[receipt[b].source].digest = b
            /\ claim[receipt[b].source].status
                 = IF receipt[b].archived THEN "archived" ELSE "imported"
        BY <3>2, <2>4 DEF PipelineInvariant, ReceiptsAreOwned
      <4>2. receipt[b].source # f
        BY <3>2, <4>1
      <4> QED BY <3>2, <2>3, <2>4, <4>1, <4>2
    <3> QED BY <3>1, <3>2
  <2>7. ClaimsAreBacked'
    <3> SUFFICES ASSUME NEW g \in Files,
                        claim'[g].status \in {"imported", "archived", "duplicate",
                                              "duplicate_archived"}
                 PROVE  Archivable(g)'
      BY DEF ClaimsAreBacked
    <3>1. CASE g = f
      BY <3>1, <1>0, <2>3, <2>4, <2>5, ConstantsAssumption DEF Archivable
    <3>2. CASE g # f
      <4>1. Archivable(g) /\ claim'[g] = claim[g]
        BY <3>2, <2>3 DEF PipelineInvariant, ClaimsAreBacked
      <4>2. claim[g].digest \in Bytes
        BY <4>1, ContentType DEF Archivable
      <4> QED BY <4>1, <4>2, <2>4 DEF Archivable
    <3> QED BY <3>1, <3>2
  <2>8. ScansAreUsedOnce'
    BY <2>4, <1>0 DEF PipelineInvariant, ScansAreUsedOnce, InUse
  <2> QED BY <2>6, <2>7, <2>8
<1> QED BY <1>1, <1>2

(* The steps of an archive keep the invariant. *)
LEMMA ArchiveStepInvariant ==
    ASSUME TypeOK, PipelineInvariant, NEW s \in Sessions, ArchiveStep(s)
    PROVE  PipelineInvariant'
<1> DEFINE f == file[s]
<1>0. pc[s] # "idle" => f \in Files
  BY DEF TypeOK, AtWork
<1>1. ASSUME lock \in {s, Nobody}, f \in Files, Archivable(f), SetArchived(f),
             Return(s), UNCHANGED <<ks4, ks5>>
      PROVE  PipelineInvariant'
  <2>1. lock' = Nobody /\ pc'[s] \notin LockedSteps
        /\ \A t \in Sessions : t # s => pc'[t] = pc[t]
    BY <1>1 DEF Return, Goto, Unlock, TypeOK, SessionTypeOK, LockedSteps
  <2>2. MutexHeld' /\ FoundUnderMutex'
    BY <1>1, <2>1, FreeMutex
  <2> QED BY <1>1, <2>2, SetArchivedInvariant DEF PipelineInvariant
<1>2. CASE ArchiveOpen(s)
  <2>1. CASE Throw(s) /\ UNCHANGED <<claim, receipt>>
    BY <1>2, <2>1, QuietEnd DEF ArchiveOpen, dbVars
  <2>2. CASE Archivable(f) /\ SetArchived(f) /\ Return(s)
    BY <1>0, <1>1, <1>2, <2>2 DEF ArchiveOpen, Reconcilable, Movable
  <2>3. CASE /\ Archivable(f) /\ lock' = s /\ Goto(s, "archiveMove")
             /\ digest' = [digest EXCEPT ![s] = claim[f].digest]
             /\ UNCHANGED <<claim, receipt, file>>
    BY <1>2, <2>3, QuietStep, ConstantsAssumption
       DEF ArchiveOpen, Reconcilable, Movable, Goto, TypeOK, SessionTypeOK, LockedSteps, dbVars
  <2> QED BY <1>2, <2>1, <2>2, <2>3 DEF ArchiveOpen, Reconcilable, Movable
<1>3. CASE ArchiveMove(s)
  <2>1. /\ UNCHANGED <<dbVars, lock, file, digest>> /\ Goto(s, "archiveVerify")
        /\ pc[s] = "archiveMove"
    BY <1>3 DEF ArchiveMove
  <2>2. lock = s /\ Archivable(f)
    BY <2>1 DEF PipelineInvariant, MutexHeld, FoundUnderMutex, LockedSteps
  <2> QED BY <2>1, <2>2, QuietStep DEF Goto, TypeOK, SessionTypeOK, LockedSteps
<1>4. CASE ArchiveVerify(s)
  <2>1. CASE Throw(s) /\ UNCHANGED <<claim, receipt>>
    BY <1>4, <2>1, QuietEnd DEF ArchiveVerify, dbVars
  <2>2. CASE SetArchived(f) /\ Return(s)
    <3>1. lock = s /\ Archivable(f)
      BY <1>4 DEF ArchiveVerify, PipelineInvariant, MutexHeld, FoundUnderMutex, LockedSteps
    <3> QED BY <1>0, <1>1, <1>4, <2>2, <3>1 DEF ArchiveVerify
  <2> QED BY <1>4, <2>1, <2>2 DEF ArchiveVerify
<1> QED BY <1>2, <1>3, <1>4 DEF ArchiveStep

(* The calls, the failures, the producer and the operators touch no table. *)
LEMMA OutsideInvariant ==
    ASSUME TypeOK, PipelineInvariant,
           \/ \E s \in Sessions : \/ Disconnect(s) \/ Fault(s)
                                  \/ \E f \in Files : \/ CallArchive(s, f)
                                                      \/ \E e \in Entries : Call(s, f, e)
           \/ \E f \in Files, b \in Bytes : Publish(f, b) \/ Rewrite(f, b)
           \/ UNCHANGED vars
    PROVE  PipelineInvariant'
<1>1. ASSUME NEW s \in Sessions, Disconnect(s) \/ Fault(s)
      PROVE  PipelineInvariant'
  BY <1>1, QuietEnd DEF Disconnect, Fault
<1>2. ASSUME NEW s \in Sessions, NEW f \in Files,
             CallArchive(s, f) \/ \E e \in Entries : Call(s, f, e)
      PROVE  PipelineInvariant'
  <2>1. /\ UNCHANGED <<dbVars, lock, digest>> /\ pc[s] = "idle"
        /\ Goto(s, "archiveOpen") \/ Goto(s, "claimOpen")
        /\ file' = [file EXCEPT ![s] = f]
    BY <1>2 DEF CallArchive, Call
  <2>2. lock # s
    BY <2>1 DEF PipelineInvariant, MutexHeld, LockedSteps
  <2> QED BY <2>1, <2>2, QuietStep DEF Goto, TypeOK, SessionTypeOK, LockedSteps
<1>3. ASSUME UNCHANGED <<dbVars, lock, sessVars>>
      PROVE  PipelineInvariant'
  BY <1>3 DEF PipelineInvariant, MutexHeld, FoundUnderMutex, ReceiptsAreOwned,
              ClaimsAreBacked, ScansAreUsedOnce, Archivable, InUse, dbVars, sessVars
<1> QED BY <1>1, <1>2, <1>3 DEF Publish, Rewrite, vars

(* The first state satisfies the invariant. *)
LEMMA InitInvariant == Init => PipelineInvariant
<1> SUFFICES ASSUME Init PROVE PipelineInvariant
  OBVIOUS
<1>1. MutexHeld /\ FoundUnderMutex
  BY ConstantsAssumption DEF Init, MutexHeld, FoundUnderMutex, LockedSteps
<1>2. ReceiptsAreOwned /\ ClaimsAreBacked
  BY DEF Init, ReceiptsAreOwned, ClaimsAreBacked
<1>3. History4 \subseteq InUse(ks4) /\ History5 \subseteq InUse(ks5)
  BY ConstantsAssumption DEF Init, Past, InUse
<1>4. \A b \in Bytes : receipt[b].scan = 0
  BY DEF Init, NoReceipt
<1> QED BY <1>1, <1>2, <1>3, <1>4 DEF PipelineInvariant, ScansAreUsedOnce

(* Every step keeps the invariant. *)
LEMMA NextInvariant ==
    ASSUME TypeOK, PipelineInvariant, [Next]_vars
    PROVE  PipelineInvariant'
  BY ClaimStepInvariant, ImportStepInvariant, ArchiveStepInvariant, OutsideInvariant
     DEF Next, Step

(* The mutex protects what was read under it, every receipt belongs to one  *)
(* claim that says the same, every committed or duplicate claim has its     *)
(* receipt and no scan order is given out twice, in every execution.        *)
THEOREM InvariantHolds == Spec => []PipelineInvariant
<1>1. Init => PipelineInvariant
  BY InitInvariant
<1>2. TypeOK /\ PipelineInvariant /\ [Next]_vars => PipelineInvariant'
  BY NextInvariant
<1> QED BY <1>1, <1>2, TypeCorrect, PTL DEF Spec

(* An archived claim and the receipt it owns always say the same, and a     *)
(* closed duplicate points at another name's receipt.                       *)
THEOREM EvidenceHolds == Spec => []ArchivedIsEvidence
<1>1. ASSUME TypeOK, PipelineInvariant
      PROVE  ArchivedIsEvidence
  <2>0. ASSUME NEW b \in Bytes, receipt[b] # NoReceipt
        PROVE  /\ receipt[b].scan # 0
               /\ receipt[b].source \in Files
               /\ claim[receipt[b].source].digest = b
               /\ claim[receipt[b].source].status
                    = IF receipt[b].archived THEN "archived" ELSE "imported"
    BY <1>1, <2>0 DEF PipelineInvariant, ReceiptsAreOwned
  <2>1. ASSUME NEW f \in Files, claim[f].status \in {"archived", "duplicate_archived"}
        PROVE  LET r == receipt[claim[f].digest] IN
               /\ claim[f].status = "archived" => r.source = f /\ r.archived
               /\ claim[f].status = "duplicate_archived" => r.scan # 0 /\ r.source # f
    <3>1. Archivable(f)
      BY <1>1, <2>1 DEF PipelineInvariant, ClaimsAreBacked
    <3>2. claim[f].digest \in Bytes /\ receipt[claim[f].digest].scan # 0
      BY <1>1, <3>1, ContentType DEF Archivable
    <3>3. receipt[claim[f].digest] # NoReceipt
      BY <3>2 DEF NoReceipt
    <3> QED BY <2>0, <2>1, <3>1, <3>2, <3>3 DEF Archivable
  <2>2. ASSUME NEW b \in Bytes, receipt[b].archived
        PROVE  claim[receipt[b].source] = [status |-> "archived", digest |-> b]
    <3>1. /\ receipt[b].source \in Files
          /\ claim[receipt[b].source].digest = b
          /\ claim[receipt[b].source].status = "archived"
      BY <2>0, <2>2 DEF NoReceipt
    <3> QED BY <1>1, <3>1 DEF TypeOK, DatabaseTypeOK
  <2> QED BY <2>1, <2>2 DEF ArchivedIsEvidence
<1> QED BY <1>1, TypeCorrect, InvariantHolds, PTL

(* A step that changes no receipt and takes no claim over the line between  *)
(* open, accepted and rejected is invisible in the ledger.                  *)
LEMMA LedgerStutter ==
    ASSUME receipt' = receipt \/ (ScanOf' = ScanOf /\ AcceptedAs' = AcceptedAs),
           claim' = claim \/ Outcome' = Outcome
    PROVE  UNCHANGED Ledger!ledgerVars
  BY DEF Ledger!ledgerVars, ScanOf, AcceptedAs, Outcome

(* The status of one claim moves within the open ones. *)
LEMMA StaysOpen ==
    ASSUME TypeOK, NEW f \in Files, NEW new, claim' = [claim EXCEPT ![f] = new],
           Outcome[f] = "open",
           new.status \notin {"imported", "archived", "duplicate_archived"}
    PROVE  Outcome' = Outcome
<1>1. claim'[f] = new /\ \A g \in Files : g # f => claim'[g] = claim[g]
  BY DEF TypeOK, DatabaseTypeOK
<1> QED BY <1>1 DEF Outcome

(* An open name has no outcome in the ledger yet. *)
LEMMA OpenOutcome ==
    ASSUME NEW f \in Files
    PROVE  Outcome[f] = "open" <=>
             claim[f].status \notin {"imported", "archived", "duplicate_archived"}
  BY DEF Outcome

(* The steps of a claim leave the ledger alone. *)
LEMMA ClaimStepLedger ==
    ASSUME TypeOK, NEW s \in Sessions, ClaimStep(s)
    PROVE  UNCHANGED Ledger!ledgerVars
<1> DEFINE f == file[s]
<1>0. f \in Files
  BY DEF TypeOK, AtWork, ClaimStep, ClaimOpen, ProbeReady, ProbeClaimed, Probe,
         ProbeArchive, Move, Verify, Harden, Hash, Bind, ClaimCatch
<1>1. receipt' = receipt
  BY DEF ClaimStep, ClaimOpen, ProbeReady, ProbeClaimed, Probe, ProbeArchive, Move,
         Verify, Harden, Hash, Bind, ClaimCatch, dbVars
<1>2. claim' = claim \/ Outcome' = Outcome
  <2>1. CASE ClaimOpen(s)
    <3>1. \/ claim' = claim
          \/ /\ claim[f].status = "none"
             /\ claim' = [claim EXCEPT ![f] = [status |-> "claiming", digest |-> NoBytes]]
      BY <2>1 DEF ClaimOpen
    <3> QED BY <1>0, <3>1, StaysOpen, OpenOutcome
  <2>2. CASE Bind(s)
    <3> DEFINE new == [status |-> IF receipt[digest[s]].scan # 0
                                  THEN "duplicate" ELSE "claimed",
                       digest |-> digest[s]]
    <3>1. \/ claim' = claim
          \/ /\ claim[f].status \in {"claiming", "claimed", "failed", "duplicate"}
             /\ claim' = [claim EXCEPT ![f] = new]
      BY <2>2 DEF Bind, Bindable
    <3>2. new.status \in {"claimed", "duplicate"}
      OBVIOUS
    <3> HIDE DEF new
    <3> QED BY <1>0, <3>1, <3>2, StaysOpen, OpenOutcome
  <2>3. CASE ClaimCatch(s)
    <3> DEFINE new == Failed(claim[f])
    <3>1. claim' = [claim EXCEPT ![f] = new]
      BY <2>3 DEF ClaimCatch
    <3>2. CASE claim[f].status \in {"claiming", "failed"}
      <4>1. new.status = "failed"
        BY <1>0, <3>2 DEF Failed, TypeOK, DatabaseTypeOK
      <4> HIDE DEF new
      <4> QED BY <1>0, <3>1, <3>2, <4>1, StaysOpen, OpenOutcome
    <3>3. CASE claim[f].status \notin {"claiming", "failed"}
      BY <1>0, <3>1, <3>3 DEF Failed, TypeOK, DatabaseTypeOK
    <3> QED BY <3>2, <3>3
  <2>4. CASE ~(ClaimOpen(s) \/ Bind(s) \/ ClaimCatch(s))
    BY <2>4 DEF ClaimStep, ProbeReady, ProbeClaimed, Probe, ProbeArchive, Move,
                Verify, Harden, Hash, dbVars
  <2> QED BY <2>1, <2>2, <2>3, <2>4
<1> QED BY <1>1, <1>2, LedgerStutter

(* The commit of Phase A is the acceptance of the staged content. *)
LEMMA CommitAccepts ==
    ASSUME TypeOK, PipelineInvariant, NEW s \in Sessions, NEW n \in Scans,
           pc[s] = "commit", NextScan(n), CommitScan(s, n),
           claim[file[s]] = [status |-> "claimed", digest |-> digest[s]]
    PROVE  Ledger!Next
<1> DEFINE f == file[s]
           d == digest[s]
           r == [scan |-> n, source |-> f, archived |-> FALSE]
<1>0. f \in Files /\ d \in Bytes /\ receipt[d].scan = 0
  BY DEF TypeOK, AtWork, PipelineInvariant, FoundUnderMutex
<1>1. /\ claim'[f].status = "imported"
      /\ \A g \in Files : g # f => claim'[g] = claim[g]
      /\ receipt' = [receipt EXCEPT ![d] = r]
  BY <1>0 DEF CommitScan, TypeOK, DatabaseTypeOK
<1>2. Outcome[f] = "open" /\ ScanOf[d] = 0
  BY <1>0, OpenOutcome DEF ScanOf
<1>3. \A m \in History4 \cup History5 : m < n
  BY DEF PipelineInvariant, ScansAreUsedOnce, NextScan
<1>4. \A c \in Bytes : ScanOf[c] < n
  <2> SUFFICES ASSUME NEW c \in Bytes PROVE receipt[c].scan < n
    BY DEF ScanOf
  <2>1. CASE receipt[c].scan = 0
    BY <2>1, ConstantsAssumption DEF Scans
  <2>2. CASE receipt[c].scan # 0
    BY <2>2 DEF NextScan, ReceiptScans
  <2> QED BY <2>1, <2>2
<1>5. ScanOf' = [ScanOf EXCEPT ![d] = n] /\ AcceptedAs' = [AcceptedAs EXCEPT ![d] = f]
  <2>1. /\ receipt'[d].scan = n /\ receipt'[d].source = f
        /\ \A b \in Bytes : b # d => receipt'[b] = receipt[b]
    BY <1>0, <1>1 DEF TypeOK, DatabaseTypeOK
  <2>2. ScanOf' = [ScanOf EXCEPT ![d] = n]
    BY <1>0, <2>1 DEF ScanOf
  <2>3. AcceptedAs' = [AcceptedAs EXCEPT ![d] = f]
    BY <1>0, <2>1 DEF AcceptedAs
  <2> QED BY <2>2, <2>3
<1>6. Outcome' = [Outcome EXCEPT ![f] = "accepted"]
  BY <1>0, <1>1 DEF Outcome
<1>7. n \in 1..MaxScan
  BY DEF Scans
<1>8. Ledger!Accept(f, d)
  BY <1>2, <1>3, <1>4, <1>5, <1>6, <1>7 DEF Ledger!Accept
<1> QED BY <1>0, <1>8 DEF Ledger!Next

(* Only the archive of a duplicate shows: the name is closed. *)
LEMMA SetArchivedLedger ==
    ASSUME TypeOK, PipelineInvariant, NEW f \in Files, Archivable(f), SetArchived(f)
    PROVE  Ledger!Next \/ UNCHANGED Ledger!ledgerVars
<1> DEFINE d == claim[f].digest
<1>0. d \in Bytes /\ receipt[d].scan # 0
  BY ContentType DEF Archivable
<1>1. CASE claim[f].status \in {"duplicate", "duplicate_archived"}
  <2>1. /\ claim'[f].status = "duplicate_archived"
        /\ \A g \in Files : g # f => claim'[g] = claim[g]
        /\ receipt' = receipt
    BY <1>1 DEF SetArchived, TypeOK, DatabaseTypeOK
  <2>2. Outcome' = [Outcome EXCEPT ![f] = "rejected"]
    BY <2>1 DEF Outcome
  <2>3. CASE claim[f].status = "duplicate_archived"
    <3>1. Outcome' = Outcome
      BY <2>1, <2>3 DEF Outcome
    <3> QED BY <2>1, <3>1, LedgerStutter
  <2>4. CASE claim[f].status = "duplicate"
    <3>1. Outcome[f] = "open"
      BY <2>4, OpenOutcome
    <3>2. receipt[d] # NoReceipt
      BY <1>0 DEF NoReceipt
    <3>3. receipt[d].source # f
      BY <1>0, <2>4, <3>2 DEF PipelineInvariant, ReceiptsAreOwned
    <3>4. ScanOf[d] # 0 /\ AcceptedAs[d] # f /\ UNCHANGED <<ScanOf, AcceptedAs>>
      BY <1>0, <2>1, <3>3 DEF ScanOf, AcceptedAs
    <3>5. Ledger!Reject(f, d)
      BY <2>2, <3>1, <3>4 DEF Ledger!Reject
    <3> QED BY <1>0, <3>5 DEF Ledger!Next
  <2> QED BY <1>1, <2>3, <2>4
<1>2. CASE claim[f].status \notin {"duplicate", "duplicate_archived"}
  <2>1. /\ claim[f].status \in {"imported", "archived"}
        /\ claim'[f].status = "archived"
        /\ \A g \in Files : g # f => claim'[g] = claim[g]
    BY <1>2 DEF Archivable, SetArchived, TypeOK, DatabaseTypeOK
  <2>2. \A b \in Bytes : receipt'[b].scan = receipt[b].scan
                         /\ receipt'[b].source = receipt[b].source
    BY <1>2, <1>0 DEF SetArchived, TypeOK, DatabaseTypeOK
  <2>3. Outcome' = Outcome
    BY <2>1 DEF Outcome
  <2>4. ScanOf' = ScanOf /\ AcceptedAs' = AcceptedAs
    BY <2>2 DEF ScanOf, AcceptedAs
  <2> QED BY <2>3, <2>4, LedgerStutter
<1> QED BY <1>1, <1>2

(* The first state is a first state of the ledger. *)
LEMMA InitLedger == Init => Ledger!Init
<1> SUFFICES ASSUME Init PROVE Ledger!Init
  OBVIOUS
<1>1. ScanOf = [b \in Bytes |-> 0] /\ AcceptedAs = [b \in Bytes |-> NoFile]
  BY DEF Init, NoReceipt, ScanOf, AcceptedAs
<1>2. Outcome = [f \in Files |-> "open"]
  BY DEF Init, Outcome
<1> QED BY <1>1, <1>2 DEF Ledger!Init

(* Every step is a step of the ledger or leaves it alone. *)
LEMMA NextLedger ==
    ASSUME TypeOK, PipelineInvariant, [Next]_vars
    PROVE  Ledger!Next \/ UNCHANGED Ledger!ledgerVars
<1>1. ASSUME NEW s \in Sessions, ImportStep(s)
      PROVE  Ledger!Next \/ UNCHANGED Ledger!ledgerVars
  <2>1. CASE UNCHANGED dbVars
    BY <2>1, LedgerStutter DEF dbVars
  <2>2. CASE ~UNCHANGED dbVars
    <3>1. Commit(s)
      BY <1>1, <2>2 DEF ImportStep, ImportOpen, Load, Rehash
    <3>2. PICK n \in Scans : NextScan(n) /\ CommitScan(s, n)
      BY <2>2, <3>1 DEF Commit
    <3>3. /\ claim[file[s]] = [status |-> "claimed", digest |-> digest[s]]
          /\ pc[s] = "commit"
      BY <2>2, <3>1 DEF Commit
    <3> QED BY <3>2, <3>3, CommitAccepts
  <2> QED BY <2>1, <2>2
<1>2. ASSUME NEW s \in Sessions, ArchiveStep(s)
      PROVE  Ledger!Next \/ UNCHANGED Ledger!ledgerVars
  <2>1. CASE claim' = claim /\ receipt' = receipt
    BY <2>1, LedgerStutter
  <2>2. CASE ~(claim' = claim /\ receipt' = receipt)
    <3>1. SetArchived(file[s]) /\ (ArchiveOpen(s) \/ ArchiveVerify(s))
      BY <1>2, <2>2 DEF ArchiveStep, ArchiveOpen, ArchiveMove, ArchiveVerify, dbVars
    <3>2. file[s] \in Files
      BY <3>1 DEF ArchiveOpen, ArchiveVerify, TypeOK, AtWork
    <3>3. Archivable(file[s])
      BY <2>2, <3>1 DEF ArchiveOpen, Reconcilable, Movable, ArchiveVerify, PipelineInvariant, FoundUnderMutex
    <3> QED BY <3>1, <3>2, <3>3, SetArchivedLedger
  <2> QED BY <2>1, <2>2
<1>3. ASSUME UNCHANGED dbVars
      PROVE  UNCHANGED Ledger!ledgerVars
  BY <1>3, LedgerStutter DEF dbVars
<1>4. ASSUME NEW s \in Sessions, Disconnect(s) \/ Fault(s)
                \/ \E f \in Files : CallArchive(s, f) \/ \E e \in Entries : Call(s, f, e)
      PROVE  UNCHANGED dbVars
  BY <1>4 DEF Disconnect, Fault, CallArchive, Call
<1>5. ASSUME \/ \E f \in Files, b \in Bytes : Publish(f, b) \/ Rewrite(f, b)
             \/ UNCHANGED vars
      PROVE  UNCHANGED dbVars
  BY <1>5 DEF Publish, Rewrite, vars
<1> QED BY <1>1, <1>2, <1>3, <1>4, <1>5, ClaimStepLedger DEF Next, Step

(* The import pipeline implements the ledger: whoever breaks the rules of   *)
(* the file protocol, a content is accepted at most once, with a scan order *)
(* above all earlier ones, and a name is closed at most once.               *)
THEOREM Implements == Spec => ImplementsLedger
<1>1. Init => Ledger!Init
  BY InitLedger
<1>2. TypeOK /\ PipelineInvariant /\ [Next]_vars => [Ledger!Next]_(Ledger!ledgerVars)
  BY NextLedger
<1> QED BY <1>1, <1>2, TypeCorrect, InvariantHolds, PTL
        DEF Spec, ImplementsLedger, Ledger!Spec

=============================================================================
