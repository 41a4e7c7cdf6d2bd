--------------------------- MODULE ImportRulesProofs ---------------------------
(***************************************************************************)
(* What the file protocol guarantees when its rules are kept: theorems     *)
(* about ImportPipeline for every set of sessions, files and contents, in  *)
(* which the producer never reuses a name it published and nobody rewrites *)
(* a hardened file (RulesKept).  Everything else may still go wrong:       *)
(* sessions are lost between any two file commands, commands fail, locks   *)
(* time out, and any number of sessions works on the same name.            *)
(***************************************************************************)
EXTENDS ImportPipelineProofs

-----------------------------------------------------------------------------
(* What one step does to the directories, to a claim and to a session. *)

(* The four places of a file before and after a step. *)
DiskMoves(f) ==
    \/ UNCHANGED <<ready[f], claimed[f], archive[f], sealed[f]>>
    \/ /\ ready[f] = NoBytes /\ claimed[f] = NoBytes /\ archive[f] = NoBytes
       /\ UNCHANGED <<claimed[f], archive[f], sealed[f]>>
    \/ /\ ready[f] # NoBytes /\ ready'[f] = NoBytes
       /\ claimed'[f] = ready[f] /\ sealed'[f] = FALSE /\ archive'[f] = archive[f]
    \/ /\ claimed[f] # NoBytes /\ sealed'[f] = TRUE
       /\ UNCHANGED <<ready[f], claimed[f], archive[f]>>
    \/ /\ archive'[f] = claimed[f] /\ claimed'[f] = NoBytes
       /\ UNCHANGED <<ready[f], sealed[f]>>
       /\ \E s \in Sessions :
            pc[s] = "archiveMove" /\ file[s] = f /\ pc'[s] = "archiveVerify"
    \/ /\ ~sealed[f] /\ claimed[f] # NoBytes /\ claimed'[f] # NoBytes
       /\ UNCHANGED <<ready[f], archive[f], sealed[f]>>

(* A claim before and after a step. *)
ClaimMoves(f) ==
    \/ claim'[f] = claim[f]
    \/ claim[f].status = "none" /\ claim'[f] = [status |-> "claiming", digest |-> NoBytes]
    \/ /\ claim[f].status \in {"claiming", "failed"}
       /\ claim'[f].status = "failed" /\ claim'[f].digest = claim[f].digest
    \/ \E s \in Sessions :
         /\ pc[s] = "bind" /\ file[s] = f /\ claim[f].status \in Bindable
         /\ claim'[f].digest = digest[s]
         /\ claim'[f].status = IF receipt[digest[s]].scan # 0
                               THEN "duplicate" ELSE "claimed"
    \/ /\ claim[f].status = "claimed" /\ claim'[f].status = "imported"
       /\ claim'[f].digest = claim[f].digest
    \/ /\ Archivable(f) /\ claim'[f].digest = claim[f].digest
       /\ claim'[f].status = IF claim[f].status \in {"duplicate", "duplicate_archived"}
                             THEN "duplicate_archived" ELSE "archived"

(* A session that a step leaves where it is. *)
Still(s) == /\ pc'[s] = pc[s] /\ file'[s] = file[s]
            /\ digest'[s] = digest[s] /\ staged'[s] = staged[s]

(* The steps at which a session knows something of its file. *)
Knowing == {"hash", "bind", "load", "rehash", "commit", "archiveMove"}

(* A session before and after a step: it stays, it knows nothing, or it has *)
(* just looked.                                                             *)
SessionMoves(s) ==
    LET f == file[s] IN
    \/ Still(s)
    \/ pc'[s] \notin Knowing
    \/ /\ file'[s] = f /\ f \in Files
       /\ \/ pc'[s] = "hash" /\ sealed'[f] = TRUE
          \/ /\ pc[s] = "hash" /\ pc'[s] = "bind" /\ UNCHANGED diskVars
             /\ claimed[f] # NoBytes /\ digest'[s] = claimed[f]
          \/ /\ pc'[s] = "load" /\ HoldsClaimedBytes(f) /\ digest'[s] = claim[f].digest
             /\ UNCHANGED <<dbVars, diskVars>>
          \/ /\ pc[s] = "load" /\ pc'[s] = "rehash" /\ UNCHANGED <<dbVars, diskVars>>
             /\ digest'[s] = digest[s] /\ staged'[s] = claimed[f]
          \/ /\ pc[s] = "rehash" /\ pc'[s] = "commit" /\ UNCHANGED <<dbVars, diskVars>>
             /\ digest'[s] = digest[s] /\ staged'[s] = staged[s]
          \/ pc'[s] = "archiveMove" /\ claimed[f] # NoBytes /\ UNCHANGED diskVars

(* Every file moves in one of those ways. *)
LEMMA DiskStep ==
    ASSUME TypeOK, RulesKept, [Next]_vars, NEW f \in Files
    PROVE  DiskMoves(f)
<1>1. ASSUME UNCHANGED diskVars PROVE DiskMoves(f)
  BY <1>1 DEF diskVars, DiskMoves
<1>2. ASSUME NEW s \in Sessions, Step(s) PROVE DiskMoves(f)
  <2>1. CASE Move(s)
    BY <2>1 DEF Move, DiskMoves, TypeOK, DiskTypeOK
  <2>2. CASE Harden(s)
    BY <2>2 DEF Harden, DiskMoves, TypeOK, DiskTypeOK
  <2>3. CASE ArchiveMove(s)
    BY <2>3 DEF ArchiveMove, Goto, DiskMoves, TypeOK, DiskTypeOK, SessionTypeOK
  <2>4. CASE ~(Move(s) \/ Harden(s) \/ ArchiveMove(s))
    <3>1. UNCHANGED diskVars
      BY <1>2, <2>4
         DEF Step, ClaimStep, ImportStep, ArchiveStep, ClaimOpen, ProbeReady, ProbeClaimed,
             Probe, ProbeArchive, Verify, Hash, Bind, ClaimCatch, ImportOpen, Load, Rehash,
             Commit, ArchiveOpen, ArchiveVerify
    <3> QED BY <1>1, <3>1
  <2> QED BY <2>1, <2>2, <2>3, <2>4
<1>3. ASSUME NEW s \in Sessions, Disconnect(s) \/ Fault(s)
                \/ \E g \in Files : CallArchive(s, g) \/ \E e \in Entries : Call(s, g, e)
      PROVE  DiskMoves(f)
  BY <1>1, <1>3 DEF Disconnect, Fault, CallArchive, Call
<1>4. ASSUME NEW g \in Files, NEW b \in Bytes, Publish(g, b)
      PROVE  DiskMoves(f)
  BY <1>4 DEF Publish, RulesKept, DiskMoves, TypeOK, DiskTypeOK
<1>5. ASSUME NEW g \in Files, NEW b \in Bytes, Rewrite(g, b)
      PROVE  DiskMoves(f)
  BY <1>5, ConstantsAssumption DEF Rewrite, RulesKept, DiskMoves, TypeOK, DiskTypeOK
<1>6. CASE UNCHANGED vars
  BY <1>1, <1>6 DEF vars
<1> QED BY <1>2, <1>3, <1>4, <1>5, <1>6 DEF Next

(* Every claim moves in one of those ways. *)
LEMMA ClaimMove ==
    ASSUME TypeOK, PipelineInvariant, [Next]_vars, NEW f \in Files
    PROVE  ClaimMoves(f)
<1>1. ASSUME claim' = claim PROVE ClaimMoves(f)
  BY <1>1 DEF ClaimMoves
<1>2. ASSUME NEW s \in Sessions, Archivable(file[s]), SetArchived(file[s]), file[s] \in Files
      PROVE  ClaimMoves(f)
  BY <1>2 DEF SetArchived, ClaimMoves, TypeOK, DatabaseTypeOK
<1>3. ASSUME NEW s \in Sessions, Step(s) PROVE ClaimMoves(f)
  <2>0. file[s] \in Files
    BY <1>3 DEF TypeOK, AtWork, Step, ClaimStep, ImportStep, ArchiveStep, ClaimOpen,
                ProbeReady, ProbeClaimed, Probe, ProbeArchive, Move, Verify, Harden, Hash,
                Bind, ClaimCatch, ImportOpen, Load, Rehash, Commit, ArchiveOpen, ArchiveMove,
                ArchiveVerify
  <2>1. CASE ClaimOpen(s)
    BY <2>0, <2>1 DEF ClaimOpen, ClaimMoves, TypeOK, DatabaseTypeOK
  <2>2. CASE Bind(s)
    <3> DEFINE new == [status |-> IF receipt[digest[s]].scan # 0
                                  THEN "duplicate" ELSE "claimed",
                       digest |-> digest[s]]
    <3>1. \/ claim' = claim
          \/ /\ claim' = [claim EXCEPT ![file[s]] = new]
             /\ claim[file[s]].status \in Bindable
      BY <2>2 DEF Bind
    <3>2. /\ new.digest = digest[s]
          /\ new.status = IF receipt[digest[s]].scan # 0 THEN "duplicate" ELSE "claimed"
      OBVIOUS
    <3>3. pc[s] = "bind"
      BY <2>2 DEF Bind
    <3> HIDE DEF new
    <3> QED BY <2>0, <3>1, <3>2, <3>3 DEF ClaimMoves, TypeOK, DatabaseTypeOK
  <2>3. CASE ClaimCatch(s)
    BY <2>0, <2>3 DEF ClaimCatch, Failed, ClaimMoves, TypeOK, DatabaseTypeOK
  <2>4. CASE Commit(s)
    <3>1. CASE claim' = claim
      BY <1>1, <3>1
    <3>2. CASE claim' # claim
      <4>1. /\ claim[file[s]] = [status |-> "claimed", digest |-> digest[s]]
            /\ claim' = [claim EXCEPT ![file[s]].status = "imported"]
        BY <2>4, <3>2 DEF Commit, CommitScan, dbVars
      <4> QED BY <2>0, <4>1 DEF ClaimMoves, TypeOK, DatabaseTypeOK
    <3> QED BY <3>1, <3>2
  <2>5. CASE ArchiveOpen(s)
    BY <1>1, <1>2, <2>0, <2>5 DEF ArchiveOpen, Reconcilable, Movable
  <2>6. CASE ArchiveVerify(s)
    <3>1. Archivable(file[s])
      BY <2>6 DEF ArchiveVerify, PipelineInvariant, FoundUnderMutex
    <3> QED BY <1>1, <1>2, <2>0, <2>6, <3>1 DEF ArchiveVerify
  <2>7. CASE ~(ClaimOpen(s) \/ Bind(s) \/ ClaimCatch(s) \/ Commit(s)
               \/ ArchiveOpen(s) \/ ArchiveVerify(s))
    <3>1. claim' = claim
      BY <1>3, <2>7
         DEF Step, ClaimStep, ImportStep, ArchiveStep, ProbeReady, ProbeClaimed, Probe,
             ProbeArchive, Move, Verify, Harden, Hash, ImportOpen, Load, Rehash,
             ArchiveMove, dbVars
    <3> QED BY <1>1, <3>1
  <2> QED BY <2>1, <2>2, <2>3, <2>4, <2>5, <2>6, <2>7
<1>4. ASSUME NEW s \in Sessions, Disconnect(s) \/ Fault(s)
                \/ \E g \in Files : CallArchive(s, g) \/ \E e \in Entries : Call(s, g, e)
      PROVE  ClaimMoves(f)
  BY <1>1, <1>4 DEF Disconnect, Fault, CallArchive, Call, dbVars
<1>5. ASSUME \/ \E g \in Files, b \in Bytes : Publish(g, b) \/ Rewrite(g, b)
             \/ UNCHANGED vars
      PROVE  ClaimMoves(f)
  BY <1>1, <1>5 DEF Publish, Rewrite, vars, dbVars
<1> QED BY <1>3, <1>4, <1>5 DEF Next

(* A claim does not move under a session that holds the mutex and stays     *)
(* within its locked steps.                                                 *)
LEMMA ClaimUnderMutex ==
    ASSUME TypeOK, PipelineInvariant, [Next]_vars, NEW t \in Sessions,
           pc[t] \in LockedSteps, pc'[t] \in LockedSteps
    PROVE  claim'[file[t]] = claim[file[t]]
<1>0. /\ file[t] \in Files /\ lock = t /\ lock # Nobody
      /\ \A s \in Sessions : pc[s] \in LockedSteps => s = t
  BY ConstantsAssumption
     DEF TypeOK, AtWork, PipelineInvariant, MutexHeld, LockedSteps
<1>1. ASSUME NEW s \in Sessions, Step(s), claim' # claim
      PROVE  claim'[file[t]] = claim[file[t]]
  <2>1. CASE ClaimCatch(s)
    BY <1>0, <2>1 DEF ClaimCatch, TypeOK, DatabaseTypeOK
  <2>2. CASE Commit(s) \/ ArchiveVerify(s)
    <3>1. s = t
      BY <1>0, <2>2 DEF Commit, ArchiveVerify, LockedSteps
    <3>2. pc'[s] \notin LockedSteps
      BY <1>1, <2>2 DEF Commit, ArchiveVerify, Return, Goto, LockedSteps, TypeOK,
                        SessionTypeOK, dbVars
    <3> QED BY <3>1, <3>2
  <2>3. CASE ~(ClaimCatch(s) \/ Commit(s) \/ ArchiveVerify(s))
    BY <1>0, <1>1, <2>3
       DEF Step, ClaimStep, ImportStep, ArchiveStep, ClaimOpen, ProbeReady, ProbeClaimed,
           Probe, ProbeArchive, Move, Verify, Harden, Hash, Bind, ImportOpen, Load, Rehash,
           ArchiveOpen, ArchiveMove, dbVars
  <2> QED BY <2>1, <2>2, <2>3
<1>2. ASSUME NEW s \in Sessions, Disconnect(s) \/ Fault(s)
                \/ \E g \in Files : CallArchive(s, g) \/ \E e \in Entries : Call(s, g, e)
      PROVE  claim' = claim
  BY <1>2 DEF Disconnect, Fault, CallArchive, Call, dbVars
<1>3. ASSUME \/ \E g \in Files, b \in Bytes : Publish(g, b) \/ Rewrite(g, b)
             \/ UNCHANGED vars
      PROVE  claim' = claim
  BY <1>3 DEF Publish, Rewrite, vars, dbVars
<1> QED BY <1>1, <1>2, <1>3 DEF Next

(* A session that fails or returns knows nothing, and no other one moves.   *)
LEMMA EndMoves ==
    ASSUME TypeOK, NEW s \in Sessions, Return(s) \/ Throw(s), NEW t \in Sessions
    PROVE  SessionMoves(t)
<1>1. pc'[s] \notin Knowing
  BY DEF Return, Throw, Goto, Knowing, TypeOK, SessionTypeOK
<1>2. t # s => Still(t)
  BY DEF Return, Throw, Goto, Forget, Still, TypeOK, SessionTypeOK
<1> QED BY <1>1, <1>2 DEF SessionMoves

(* Every session moves in one of those ways. *)
LEMMA SessionMove ==
    ASSUME TypeOK, [Next]_vars, NEW t \in Sessions
    PROVE  SessionMoves(t)
<1>1. ASSUME NEW s \in Sessions, Step(s), ~(Return(s) \/ Throw(s))
      PROVE  SessionMoves(t)
  <2>0. file[s] \in Files
    BY <1>1 DEF TypeOK, AtWork, Step, ClaimStep, ImportStep, ArchiveStep, ClaimOpen,
                ProbeReady, ProbeClaimed, Probe, ProbeArchive, Move, Verify, Harden, Hash,
                Bind, ClaimCatch, ImportOpen, Load, Rehash, Commit, ArchiveOpen, ArchiveMove,
                ArchiveVerify
  <2>1. CASE t # s
    <3>1. /\ \E step \in Steps : Goto(s, step)
          /\ file' = file
          /\ digest'[t] = digest[t] /\ staged'[t] = staged[t]
      <4>1. CASE ClaimStep(s)
        BY <1>1, <2>1, <4>1
           DEF ClaimStep, ClaimOpen, ProbeReady, ProbeClaimed, Probe, ProbeArchive, Move,
               Verify, Harden, Hash, Bind, ClaimCatch, Steps, ClaimSteps, WaitingSteps,
               TypeOK, SessionTypeOK
      <4>2. CASE ImportStep(s)
        BY <1>1, <2>1, <4>2
           DEF ImportStep, ImportOpen, Load, Rehash, Commit, Forget, Steps, LockedSteps,
               WaitingSteps, TypeOK, SessionTypeOK
      <4>3. CASE ArchiveStep(s)
        BY <1>1, <2>1, <4>3
           DEF ArchiveStep, ArchiveOpen, ArchiveMove, ArchiveVerify, Steps, LockedSteps,
               TypeOK, SessionTypeOK
      <4> QED BY <1>1, <4>1, <4>2, <4>3 DEF Step
    <3> QED BY <2>1, <3>1 DEF SessionMoves, Still, Goto, TypeOK, SessionTypeOK
  <2>2. CASE t = s
    <3>1. CASE Harden(s)
      BY <1>1, <2>0, <2>2, <3>1
         DEF Harden, SessionMoves, Goto, TypeOK, SessionTypeOK, DiskTypeOK
    <3>2. CASE Hash(s)
      BY <1>1, <2>0, <2>2, <3>2 DEF Hash, SessionMoves, Goto, TypeOK, SessionTypeOK
    <3>3. CASE ImportOpen(s)
      BY <1>1, <2>0, <2>2, <3>3
         DEF ImportOpen, Importable, SessionMoves, Goto, TypeOK, SessionTypeOK
    <3>4. CASE Load(s) \/ Rehash(s)
      BY <1>1, <2>0, <2>2, <3>4
         DEF Load, Rehash, SessionMoves, Goto, TypeOK, SessionTypeOK
    <3>5. CASE ArchiveOpen(s)
      BY <1>1, <2>0, <2>2, <3>5
         DEF ArchiveOpen, Movable, Archivable, SessionMoves, Goto, TypeOK, SessionTypeOK
    <3>6. CASE ~(Harden(s) \/ Hash(s) \/ ImportOpen(s) \/ Load(s) \/ Rehash(s)
                 \/ ArchiveOpen(s))
      <4>1. pc'[s] \notin Knowing
        BY <1>1, <3>6
           DEF Step, ClaimStep, ImportStep, ArchiveStep, ClaimOpen, ProbeReady,
               ProbeClaimed, Probe, ProbeArchive, Move, Verify, Bind, ClaimCatch, Commit,
               ArchiveMove, ArchiveVerify, Goto, Knowing, TypeOK, SessionTypeOK
      <4> QED BY <2>2, <4>1 DEF SessionMoves
    <3> QED BY <3>1, <3>2, <3>3, <3>4, <3>5, <3>6
  <2> QED BY <2>1, <2>2
<1>2. ASSUME NEW s \in Sessions, Disconnect(s) \/ Fault(s)
      PROVE  SessionMoves(t)
  BY <1>2, EndMoves DEF Disconnect, Fault
<1>3. ASSUME NEW s \in Sessions,
             \E g \in Files : CallArchive(s, g) \/ \E e \in Entries : Call(s, g, e)
      PROVE  SessionMoves(t)
  BY <1>3 DEF CallArchive, Call, SessionMoves, Still, Knowing, Goto, TypeOK, SessionTypeOK
<1>4. ASSUME \/ \E g \in Files, b \in Bytes : Publish(g, b) \/ Rewrite(g, b)
             \/ UNCHANGED vars
      PROVE  SessionMoves(t)
  BY <1>4 DEF Publish, Rewrite, vars, sessVars, SessionMoves, Still
<1> QED BY <1>1, <1>2, <1>3, <1>4, EndMoves DEF Next

-----------------------------------------------------------------------------
(* The inductive invariant of the rules, conjunct by conjunct. *)

(* A file stays in one directory and a sealed one stays in SQL's. *)
LEMMA PlacesKept ==
    ASSUME TypeOK, RulesKept, RulesInvariant, [Next]_vars
    PROVE  OnePlace' /\ SealedIsKept'
<1> SUFFICES ASSUME NEW f \in Files
             PROVE  /\ ready'[f] # NoBytes => claimed'[f] = NoBytes /\ archive'[f] = NoBytes
                    /\ claimed'[f] # NoBytes => archive'[f] = NoBytes
                    /\ sealed'[f] => claimed'[f] # NoBytes \/ archive'[f] # NoBytes
  BY DEF OnePlace, SealedIsKept
<1>1. /\ ready[f] # NoBytes => claimed[f] = NoBytes /\ archive[f] = NoBytes
      /\ claimed[f] # NoBytes => archive[f] = NoBytes
      /\ sealed[f] => claimed[f] # NoBytes \/ archive[f] # NoBytes
  BY DEF RulesInvariant, OnePlace, SealedIsKept
<1>2. \A s \in Sessions : pc[s] = "archiveMove" => claimed[file[s]] # NoBytes
  BY DEF RulesInvariant, KnownBySession
<1>3. DiskMoves(f)
  BY DiskStep
<1> QED BY <1>1, <1>2, <1>3 DEF DiskMoves

(* What SQL holds of a sealed file it keeps, wherever the file is moved.    *)
LEMMA HoldsKept ==
    ASSUME TypeOK, RulesKept, RulesInvariant, [Next]_vars, NEW f \in Files
    PROVE  /\ sealed[f] => sealed'[f]
           /\ \A b \in Bytes : Holds(f, b) => Holds(f, b)'
<1>1. /\ ready[f] # NoBytes => claimed[f] = NoBytes /\ archive[f] = NoBytes
      /\ claimed[f] # NoBytes => archive[f] = NoBytes
      /\ sealed[f] => claimed[f] # NoBytes \/ archive[f] # NoBytes
  BY DEF RulesInvariant, OnePlace, SealedIsKept
<1>2. \A s \in Sessions : pc[s] = "archiveMove" => claimed[file[s]] # NoBytes
  BY DEF RulesInvariant, KnownBySession
<1>3. DiskMoves(f)
  BY DiskStep
<1>4. sealed[f] => sealed'[f]
  BY <1>1, <1>3 DEF DiskMoves
<1>5. ASSUME NEW b \in Bytes, Holds(f, b) PROVE Holds(f, b)'
  <2>1. sealed[f] /\ b # NoBytes
    BY <1>5, ConstantsAssumption DEF Holds
  <2> QED BY <1>1, <1>2, <1>3, <1>4, <1>5, <2>1 DEF DiskMoves, Holds
<1> QED BY <1>4, <1>5

(* A digest is bound to the file that SQL holds, and stays with it.         *)
LEMMA HeldStep ==
    ASSUME TypeOK, PipelineInvariant, RulesKept, RulesInvariant, [Next]_vars
    PROVE  ClaimsAreHeld'
<1> SUFFICES ASSUME NEW f \in Files
             PROVE  IF claim'[f].status \in {"none", "claiming", "failed"}
                    THEN claim'[f].digest = NoBytes
                    ELSE claim'[f].digest \in Bytes /\ Holds(f, claim[f].digest)'
  BY DEF ClaimsAreHeld
<1>1. IF claim[f].status \in {"none", "claiming", "failed"}
      THEN claim[f].digest = NoBytes
      ELSE claim[f].digest \in Bytes /\ Holds(f, claim[f].digest)
  BY DEF RulesInvariant, ClaimsAreHeld
<1>2. ClaimMoves(f)
  BY ClaimMove
<1>3. \A s \in Sessions : pc[s] = "bind" /\ file[s] = f =>
        digest[s] \in Bytes /\ Holds(f, digest[s])
  BY DEF RulesInvariant, KnownBySession, TypeOK, AtWork
<1>4. \A b \in Bytes : Holds(f, b) => Holds(f, b)'
  BY HoldsKept
<1>5. Archivable(f) => claim[f].status \in {"imported", "archived", "duplicate",
                                            "duplicate_archived"}
  BY DEF Archivable
<1> QED BY <1>1, <1>2, <1>3, <1>4, <1>5 DEF ClaimMoves, Bindable, Holds

(* While a session loads, no one moves or rewrites the file it loads from.  *)
LEMMA LoadedFileStays ==
    ASSUME TypeOK, PipelineInvariant, RulesKept, RulesInvariant, [Next]_vars,
           NEW t \in Sessions, pc[t] \in {"load", "rehash", "commit"}
    PROVE  claimed'[file[t]] = claimed[file[t]]
<1> DEFINE f == file[t]
<1>0. /\ claim[f] = [status |-> "claimed", digest |-> digest[t]]
      /\ claimed[f] = digest[t]
  BY DEF RulesInvariant, KnownBySession
<1>1. /\ f \in Files /\ claimed[f] = claim[f].digest
      /\ claim[f].status = "claimed"
  BY <1>0 DEF TypeOK, AtWork
<1>2. claimed[f] # NoBytes /\ sealed[f]
  BY <1>1, ConstantsAssumption DEF RulesInvariant, ClaimsAreHeld, Holds
<1>3. ready[f] = NoBytes
  BY <1>1, <1>2 DEF RulesInvariant, OnePlace
<1>4. \A s \in Sessions : pc[s] # "archiveMove"
  BY DEF PipelineInvariant, MutexHeld, LockedSteps
<1> QED BY <1>1, <1>2, <1>3, <1>4, DiskStep DEF DiskMoves

(* What a session knows stays so until it acts on it.                       *)
LEMMA KnownStep ==
    ASSUME TypeOK, PipelineInvariant, RulesKept, RulesInvariant, [Next]_vars,
           NEW t \in Sessions
    PROVE  KnownBySession(t)'
<1> DEFINE f == file[t]
<1>0. /\ pc[t] # "idle" => f \in Files
      /\ pc[t] = "bind" => digest[t] \in Bytes
      /\ KnownBySession(t)
  BY DEF TypeOK, AtWork, RulesInvariant
<1>1. CASE Still(t) /\ pc[t] \in Knowing
  <2>0. pc'[t] = pc[t] /\ file'[t] = f /\ f \in Files
        /\ digest'[t] = digest[t] /\ staged'[t] = staged[t]
    BY <1>0, <1>1 DEF Still, Knowing
  <2>1. pc[t] = "hash" => sealed'[f]
    BY <1>0, <2>0, HoldsKept DEF KnownBySession
  <2>2. pc[t] = "bind" => Holds(f, digest[t])'
    <3>1. pc[t] = "bind" => digest[t] \in Bytes /\ Holds(f, digest[t])
      BY <1>0 DEF KnownBySession
    <3> QED BY <2>0, <3>1, HoldsKept DEF Holds
  <2>3. pc[t] \in {"load", "rehash", "commit"} =>
          /\ claim'[f] = [status |-> "claimed", digest |-> digest[t]]
          /\ claimed'[f] = digest[t]
    BY <1>0, <2>0, ClaimUnderMutex, LoadedFileStays DEF KnownBySession, LockedSteps
  <2>4. pc[t] = "archiveMove" => claimed'[f] # NoBytes
    <3> SUFFICES ASSUME pc[t] = "archiveMove" PROVE claimed'[f] # NoBytes
      OBVIOUS
    <3>1. claimed[f] # NoBytes
      BY <1>0 DEF KnownBySession
    <3>2. \A s \in Sessions : pc[s] = "archiveMove" => s = t
      BY DEF PipelineInvariant, MutexHeld, LockedSteps
    <3> QED BY <2>0, <3>1, <3>2, DiskStep DEF DiskMoves
  <2> QED BY <1>0, <2>0, <2>1, <2>2, <2>3, <2>4 DEF KnownBySession, Holds
<1>2. CASE pc'[t] \notin Knowing
  BY <1>2 DEF Knowing, KnownBySession
<1>3. CASE pc'[t] \in Knowing /\ ~Still(t)
  <2>0. file'[t] = f /\ f \in Files
    BY <1>3, SessionMove DEF SessionMoves
  <2>1. CASE pc'[t] = "hash"
    BY <1>3, <2>0, <2>1, SessionMove DEF SessionMoves, KnownBySession
  <2>2. CASE pc'[t] = "bind"
    <3>1. /\ pc[t] = "hash" /\ claimed[f] # NoBytes /\ digest'[t] = claimed[f]
          /\ UNCHANGED <<sealed, claimed, archive>>
      BY <1>3, <2>2, SessionMove DEF SessionMoves, diskVars
    <3>2. sealed[f] /\ archive[f] = NoBytes
      BY <1>0, <2>0, <3>1 DEF KnownBySession, RulesInvariant, OnePlace
    <3> QED BY <2>0, <2>2, <3>1, <3>2 DEF KnownBySession, Holds
  <2>3. CASE pc'[t] = "load"
    <3>1. /\ HoldsClaimedBytes(f) /\ digest'[t] = claim[f].digest
          /\ UNCHANGED <<claim, claimed>>
      BY <1>3, <2>3, SessionMove DEF SessionMoves, diskVars, dbVars
    <3>2. claim[f] = [status |-> "claimed", digest |-> claim[f].digest]
      BY <2>0, <3>1 DEF HoldsClaimedBytes, TypeOK, DatabaseTypeOK
    <3> QED BY <2>0, <2>3, <3>1, <3>2 DEF KnownBySession, HoldsClaimedBytes
  <2>4. CASE pc'[t] \in {"rehash", "commit"}
    <3>1. /\ pc[t] \in {"load", "rehash"} /\ digest'[t] = digest[t]
          /\ staged'[t] = IF pc[t] = "load" THEN claimed[f] ELSE staged[t]
          /\ UNCHANGED <<claim, claimed>>
      BY <1>3, <2>4, SessionMove DEF SessionMoves, diskVars, dbVars
    <3> QED BY <1>0, <2>0, <2>4, <3>1 DEF KnownBySession
  <2>5. CASE pc'[t] = "archiveMove"
    <3>1. claimed[f] # NoBytes /\ claimed' = claimed
      BY <1>3, <2>5, SessionMove DEF SessionMoves, diskVars
    <3> QED BY <2>0, <2>5, <3>1 DEF KnownBySession
  <2> QED BY <1>3, <2>1, <2>2, <2>3, <2>4, <2>5 DEF Knowing
<1> QED BY <1>1, <1>2, <1>3, SessionMove DEF SessionMoves, Still

(* Only the commit of Phase A writes a scan table or gives out a scan order. *)
ScanCommitted(s, n) ==
    /\ pc[s] = "commit" /\ NextScan(n) /\ receipt[digest[s]].scan = 0
    /\ CommitScan(s, n)

LEMMA ScanMoves ==
    ASSUME TypeOK, PipelineInvariant, [Next]_vars
    PROVE  \/ /\ UNCHANGED <<ks4, ks5>>
              /\ \A b \in Bytes : receipt'[b].scan = receipt[b].scan
           \/ \E s \in Sessions, n \in Scans : ScanCommitted(s, n)
<1>1. ASSUME NEW s \in Sessions, Step(s), ~UNCHANGED <<receipt, ks4, ks5>>
      PROVE  \/ /\ UNCHANGED <<ks4, ks5>>
                /\ \A b \in Bytes : receipt'[b].scan = receipt[b].scan
             \/ \E n \in Scans : ScanCommitted(s, n)
  <2>1. CASE Commit(s)
    BY <1>1, <2>1 DEF Commit, Unused, ScanCommitted, dbVars
  <2>2. CASE ArchiveOpen(s) \/ ArchiveVerify(s)
    <3>1. /\ SetArchived(file[s]) \/ receipt' = receipt
          /\ UNCHANGED <<ks4, ks5>>
      BY <2>2 DEF ArchiveOpen, ArchiveVerify
    <3> QED BY <3>1 DEF SetArchived, TypeOK, DatabaseTypeOK
  <2>3. CASE ~(Commit(s) \/ ArchiveOpen(s) \/ ArchiveVerify(s))
    BY <1>1, <2>3
       DEF Step, ClaimStep, ImportStep, ArchiveStep, ClaimOpen, ProbeReady, ProbeClaimed,
           Probe, ProbeArchive, Move, Verify, Harden, Hash, Bind, ClaimCatch, ImportOpen,
           Load, Rehash, ArchiveMove, dbVars
  <2> QED BY <2>1, <2>2, <2>3
<1>2. ASSUME NEW s \in Sessions, Disconnect(s) \/ Fault(s)
                \/ \E g \in Files : CallArchive(s, g) \/ \E e \in Entries : Call(s, g, e)
      PROVE  UNCHANGED <<receipt, ks4, ks5>>
  BY <1>2 DEF Disconnect, Fault, CallArchive, Call, dbVars
<1>3. ASSUME \/ \E g \in Files, b \in Bytes : Publish(g, b) \/ Rewrite(g, b)
             \/ UNCHANGED vars
      PROVE  UNCHANGED <<receipt, ks4, ks5>>
  BY <1>3 DEF Publish, Rewrite, vars, dbVars
<1> QED BY <1>1, <1>2, <1>3 DEF Next

(* A new scan order is in no table, whichever entry asked for it.           *)
LEMMA NewScanIsFree ==
    ASSUME TypeOK, NEW n \in Scans, NextScan(n)
    PROVE  /\ n \in Nat /\ n # 0
           /\ ks4[n] = NoBytes /\ ks5[n] = NoBytes
<1>1. n \in Nat /\ n # 0
  BY ConstantsAssumption DEF Scans
<1>2. n \notin InUse(ks4) /\ n \notin InUse(ks5)
  BY <1>1 DEF NextScan
<1> QED BY <1>1, <1>2 DEF InUse

(* The commit writes the bytes that were hashed, under the scan order that  *)
(* their receipt names.                                                     *)
LEMMA ScansStep ==
    ASSUME TypeOK, PipelineInvariant, RulesInvariant, [Next]_vars
    PROVE  ScansHaveReceipts'
<1> SUFFICES ASSUME NEW m \in Scans, ks5'[m] \in Bytes
             PROVE  receipt'[ks5'[m]].scan = m
  BY DEF ScansHaveReceipts
<1>0. ks5[m] \in Bytes => receipt[ks5[m]].scan = m
  BY DEF RulesInvariant, ScansHaveReceipts
<1>1. CASE ks5' = ks5 /\ \A b \in Bytes : receipt'[b].scan = receipt[b].scan
  BY <1>0, <1>1
<1>2. ASSUME NEW s \in Sessions, NEW n \in Scans, ScanCommitted(s, n)
      PROVE  receipt'[ks5'[m]].scan = m
  <2> DEFINE d == digest[s]
  <2>1. d \in Bytes /\ staged[s] = d /\ receipt[d].scan = 0
    BY <1>2 DEF ScanCommitted, TypeOK, AtWork, RulesInvariant, KnownBySession
  <2>2. n \in Nat /\ n # 0 /\ ks5[n] = NoBytes
    BY <1>2, NewScanIsFree DEF ScanCommitted
  <2>3. /\ receipt'[d].scan = n
        /\ \A b \in Bytes : b # d => receipt'[b] = receipt[b]
    BY <1>2, <2>1 DEF ScanCommitted, CommitScan, TypeOK, DatabaseTypeOK
  <2>4. /\ ks5'[n] = ks5[n] \/ ks5'[n] = d
        /\ m # n => ks5'[m] = ks5[m]
    BY <1>2, <2>1 DEF ScanCommitted, CommitScan, TypeOK, DatabaseTypeOK
  <2>5. CASE m = n
    BY <2>2, <2>3, <2>4, <2>5, ConstantsAssumption
  <2>6. CASE m # n
    <3>1. ks5[m] \in Bytes /\ m # 0 /\ ks5'[m] = ks5[m]
      BY <2>4, <2>6, ConstantsAssumption DEF Scans
    <3>2. receipt[ks5[m]].scan = m /\ ks5[m] # d
      BY <1>0, <2>1, <3>1
    <3> QED BY <2>3, <3>1, <3>2
  <2> QED BY <2>5, <2>6
<1> QED BY <1>1, <1>2, ScanMoves

-----------------------------------------------------------------------------
(* Theorems. *)

(* As long as names are not reused and hardened files not rewritten, a file *)
(* is in one place, what SQL hashed is what it holds, and what a session    *)
(* found of its file is still so when it acts on it.                        *)
THEOREM RulesHold ==
    ASSUME RulesKept
    PROVE  Spec => []RulesInvariant
<1>1. Init => RulesInvariant
  <2> SUFFICES ASSUME Init PROVE RulesInvariant
    OBVIOUS
  <2>1. OnePlace /\ SealedIsKept /\ ClaimsAreHeld
    BY DEF Init, OnePlace, SealedIsKept, ClaimsAreHeld
  <2>2. \A s \in Sessions : KnownBySession(s)
    BY DEF Init, KnownBySession
  <2>3. ScansHaveReceipts
    BY ConstantsAssumption DEF Init, Past, ScansHaveReceipts
  <2> QED BY <2>1, <2>2, <2>3 DEF RulesInvariant
<1>2. TypeOK /\ PipelineInvariant /\ RulesInvariant /\ [Next]_vars => RulesInvariant'
  <2> SUFFICES ASSUME TypeOK, PipelineInvariant, RulesInvariant, [Next]_vars
               PROVE  RulesInvariant'
    OBVIOUS
  <2>1. OnePlace' /\ SealedIsKept'
    BY PlacesKept
  <2>2. ClaimsAreHeld' /\ ScansHaveReceipts'
    BY HeldStep, ScansStep
  <2>3. (\A s \in Sessions : KnownBySession(s))'
    BY KnownStep
  <2> QED BY <2>1, <2>2, <2>3 DEF RulesInvariant
<1> QED BY <1>1, <1>2, TypeCorrect, InvariantHolds, PTL DEF Spec

(* From its binding on, a file is in exactly one of the two directories SQL *)
(* owns, with the bytes that were bound, out of the producer's reach.       *)
THEOREM BytesStay ==
    ASSUME RulesKept
    PROVE  Spec => []BoundBytesStay
<1>1. RulesInvariant => BoundBytesStay
  <2> SUFFICES ASSUME RulesInvariant, NEW f \in Files,
                      claim[f].status \notin {"none", "claiming", "failed"}
               PROVE  /\ {claimed[f], archive[f]} = {claim[f].digest, NoBytes}
                      /\ sealed[f]
    BY DEF BoundBytesStay
  <2>1. Holds(f, claim[f].digest)
    BY DEF RulesInvariant, ClaimsAreHeld
  <2> QED BY <2>1 DEF Holds
<1> QED BY <1>1, RulesHold, PTL

(* No two contents share a scan order, and a scan holds the very bytes      *)
(* whose receipt names it.                                                  *)
THEOREM ScansAreContents ==
    ASSUME RulesKept
    PROVE  Spec => []OneScanPerContent
<1>1. PipelineInvariant /\ RulesInvariant => OneScanPerContent
  BY DEF PipelineInvariant, ScansAreUsedOnce, RulesInvariant, ScansHaveReceipts,
         OneScanPerContent
<1> QED BY <1>1, InvariantHolds, RulesHold, PTL

(* A step that binds finds the digest that is bound already, and with it    *)
(* the receipt of a duplicate.                                              *)
LEMMA BoundAgain ==
    ASSUME TypeOK, PipelineInvariant, RulesInvariant, NEW s \in Sessions,
           pc[s] = "bind", claim[file[s]].status \notin {"none", "claiming", "failed"}
    PROVE  /\ digest[s] = claim[file[s]].digest
           /\ claim[file[s]].status = "duplicate" => receipt[digest[s]].scan # 0
<1> DEFINE f == file[s]
           d == claim[f].digest
<1>1. f \in Files /\ digest[s] \in Bytes /\ Holds(f, digest[s])
  BY DEF TypeOK, AtWork, RulesInvariant, KnownBySession
<1>2. d \in Bytes /\ Holds(f, d)
  BY <1>1 DEF RulesInvariant, ClaimsAreHeld
<1>3. digest[s] = d
  BY <1>1, <1>2, ConstantsAssumption DEF Holds
<1>4. claim[f].status = "duplicate" => receipt[d].scan # 0
  BY <1>1 DEF PipelineInvariant, ClaimsAreBacked, Archivable
<1> QED BY <1>3, <1>4

(* What was committed, found to be a duplicate or archived is never taken   *)
(* back by a slower session or its CATCH block.                             *)
THEOREM ClaimsAdvance ==
    ASSUME RulesKept
    PROVE  Spec => ClaimAdvances
<1>1. ASSUME TypeOK, PipelineInvariant, RulesInvariant, [Next]_vars, NEW f \in Files
      PROVE  LET old == claim[f].status
                 new == claim'[f].status
             IN
             /\ old = "claimed" => new \in {"claimed", "imported", "duplicate"}
             /\ old = "imported" => new \in {"imported", "archived"}
             /\ old = "duplicate" => new \in {"duplicate", "duplicate_archived"}
             /\ old \in {"archived", "duplicate_archived"} => new = old
  <2>1. ClaimMoves(f)
    BY <1>1, ClaimMove
  <2>2. \A s \in Sessions : pc[s] = "bind" /\ file[s] = f /\ claim[f].status = "duplicate"
          => receipt[digest[s]].scan # 0
    BY <1>1, BoundAgain
  <2>3. Archivable(f) => claim[f].status \in {"imported", "archived", "duplicate",
                                              "duplicate_archived"}
    BY DEF Archivable
  <2> QED BY <2>1, <2>2, <2>3 DEF ClaimMoves, Bindable
<1>2. TypeOK /\ PipelineInvariant /\ RulesInvariant /\ [Next]_vars =>
        [\A f \in Files :
           LET old == claim[f].status
               new == claim'[f].status
           IN
           /\ old = "claimed" => new \in {"claimed", "imported", "duplicate"}
           /\ old = "imported" => new \in {"imported", "archived"}
           /\ old = "duplicate" => new \in {"duplicate", "duplicate_archived"}
           /\ old \in {"archived", "duplicate_archived"} => new = old]_vars
  BY <1>1
<1> QED BY <1>2, TypeCorrect, InvariantHolds, RulesHold, PTL DEF Spec, ClaimAdvances

(* A claim keeps the digest it was bound to, also when a later session      *)
(* hashes the file again and binds it a second time.                        *)
THEOREM DigestsStay ==
    ASSUME RulesKept
    PROVE  Spec => DigestIsBoundOnce
<1>1. ASSUME TypeOK, PipelineInvariant, RulesInvariant, [Next]_vars, NEW f \in Files,
             claim[f].digest # NoBytes
      PROVE  claim'[f].digest = claim[f].digest
  <2>1. claim[f].status \notin {"none", "claiming", "failed"}
    BY <1>1 DEF RulesInvariant, ClaimsAreHeld
  <2>2. \A s \in Sessions : pc[s] = "bind" /\ file[s] = f =>
          digest[s] = claim[f].digest
    BY <1>1, <2>1, BoundAgain
  <2> QED BY <1>1, <2>1, <2>2, ClaimMove DEF ClaimMoves
<1>2. TypeOK /\ PipelineInvariant /\ RulesInvariant /\ [Next]_vars =>
        [\A f \in Files : claim[f].digest # NoBytes =>
           claim'[f].digest = claim[f].digest]_vars
  BY <1>1
<1> QED BY <1>2, TypeCorrect, InvariantHolds, RulesHold, PTL DEF Spec, DigestIsBoundOnce

(* Whoever breaks the file rules: once KingdomScanData4 has a scan, every   *)
(* scan Phase A adds to KingdomScanData5 is promoted into it.               *)
THEOREM PromotionHolds ==
    ASSUME History4 # {}
    PROVE  Spec => []EveryScanPromoted
<1>1. Init => EveryScanPromoted
  BY ConstantsAssumption DEF Init, Past, EveryScanPromoted
<1>2. ASSUME TypeOK, PipelineInvariant, EveryScanPromoted, [Next]_vars
      PROVE  EveryScanPromoted'
  <2> SUFFICES ASSUME NEW m \in Scans, ks5'[m] \in Bytes
               PROVE  ks4'[m] = ks5'[m]
    BY DEF EveryScanPromoted
  <2>0. ks5[m] \in Bytes => ks4[m] = ks5[m]
    BY <1>2 DEF EveryScanPromoted
  <2>1. ASSUME NEW s \in Sessions, NEW n \in Scans, ScanCommitted(s, n)
        PROVE  ks4'[m] = ks5'[m]
    <3>1. n \in Nat /\ n # 0 /\ ks5[n] = NoBytes
      BY <1>2, <2>1, NewScanIsFree DEF ScanCommitted
    <3>2. InUse(ks4) # {}
      BY <1>2 DEF PipelineInvariant, ScansAreUsedOnce
    <3>3. \A k \in InUse(ks4) : k < n
      BY <2>1 DEF ScanCommitted, NextScan
    <3>4. Promoted(entry[s], n) <=> entry[s] \in {"UPDATE_ALL2", "UPDATE_ALL"}
      BY <3>2, <3>3 DEF Promoted
    <3>5. m # n => ks4'[m] = ks4[m] /\ ks5'[m] = ks5[m]
      BY <1>2, <2>1 DEF ScanCommitted, CommitScan, TypeOK, DatabaseTypeOK
    <3>6. \/ ks4'[n] = staged[s] /\ ks5'[n] = staged[s]
          \/ ks5'[n] = ks5[n]
      BY <1>2, <2>1, <3>4 DEF ScanCommitted, CommitScan, TypeOK, DatabaseTypeOK
    <3> QED BY <2>0, <3>1, <3>5, <3>6, ConstantsAssumption
  <2> QED BY <1>2, <2>0, <2>1, ScanMoves
<1> QED BY <1>1, <1>2, TypeCorrect, InvariantHolds, PTL DEF Spec

=============================================================================
