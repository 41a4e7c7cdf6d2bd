--------------------------- MODULE RehearsalProofs ---------------------------
(* Theorems about Rehearsal: the runner keeps what it promises while a program *)
(* alters its objects, installs them by another way, gives its attempts to     *)
(* another profile, occupies its lock, makes it throw and kills it; and what   *)
(* a program was told stays so. They hold for every script, runner and call.   *)
EXTENDS Rehearsal, ReleaseRunnerProofs, SequenceTheorems

Script == Programs[program]
Undos == UNION {{Programs[n][k].undo :
    k \in {j \in 1..Len(Programs[n]) : Programs[n][j].do = "guard"}} : n \in DOMAIN Programs}

\* Where a program stands, and which process it waits for.
ScriptStands ==
    /\ program \in DOMAIN Programs
    /\ step \in Nat \ {0}
    /\ verdict = "running" => step <= Len(Script)
    /\ awaited \in {NoOne, "outer"}
    /\ verdict = "running" /\ pc["outer"] \in Busy => awaited = "outer"
    /\ verdict = "running" => pc["outer"] # "killed"
    /\ awaited = "outer" =>
          Now.do = "run" /\ job["outer"] = [op |-> Now.op, call |-> Now.call]
    /\ DOMAIN fault = Runners
    /\ finally \in Seq(Undos)

\* Only Apply opens a transaction, and none is left by a process that returned.
ApplyOnly == \A r \in Runners :
    /\ InFlight(r) => job[r].op = "Apply"
    /\ pc[r] \in {"idle", "exited"} => server[r] = "idle"

\* Until its attempts are given to another profile, a migration has no receipt
\* and no transaction of it comes as far as its change.
Unstained == verdict = "running" =>
    \A k \in step..Len(Script) : Script[k].do = "rebind" =>
        /\ receipt[Script[k].migration] = NoRow
        /\ \A r \in Runners : job[r].op = "Apply" /\ Mig(r) = Script[k].migration =>
              r = "outer" /\ fault[r] = "throw_in_change" /\ server[r] \in {"idle", "open"}

\* What every step of a rehearsal preserves.
RehearsalInvariant ==
    /\ ReleaseInvariant
    /\ ScriptStands /\ ApplyOnly /\ Unstained /\ Attested

-----------------------------------------------------------------------------
\* What a program does to the database beside its runners.
Altered ==
    /\ image' \in [Migrations -> [Items -> Images]]
    /\ UNCHANGED <<receipt, attempt, lock, client, conn, server, denied>>

Rebound(m, c) ==
    /\ attempt' = [a \in Attempts |-> IF a \in Rows(m)
          THEN [attempt[a] EXCEPT !.call = c] ELSE attempt[a]]
    /\ UNCHANGED <<image, receipt, lock, client, conn, server, denied>>

Occupied ==
    /\ \/ lock = NoOne /\ lock' = "fixture"
       \/ lock = "fixture" /\ lock' = NoOne
    /\ UNCHANGED <<db, client, conn, server, denied>>

(* The step of a script that is not yet at its end is one of its steps.         *)
LEMMA NowFits ==
    ASSUME ScriptStands, verdict = "running"
    PROVE  step \in 1..Len(Script) /\ Now = Script[step] /\ Fits(Now)
<1>1. Len(Script) \in Nat \ {0} /\ \A k \in 1..Len(Script) : Fits(Script[k])
  BY ScriptsAssumption DEF ScriptStands, Script
<1> QED BY <1>1 DEF ScriptStands, Script, Now

(* Where a migration whose attempts are given away stands at that moment.       *)
LEMMA RebindFacts ==
    ASSUME RehearsalInvariant, At("rebind")
    PROVE  /\ Now.call \in Calls /\ Now.call.migration = Now.migration
           /\ Now.migration \in Migrations
           /\ receipt[Now.migration] = NoRow
           /\ \A r \in Runners : InFlight(r) => Mig(r) # Now.migration
<1>1. /\ ScriptStands /\ verdict = "running" /\ awaited = NoOne
      /\ Now.do = "rebind"
  BY DEF RehearsalInvariant, At
<1>2. step \in 1..Len(Script) /\ Now = Script[step] /\ Fits(Now)
  BY <1>1, NowFits
<1>3. Now.call \in Calls /\ Now.call.migration = Now.migration
  BY <1>1, <1>2 DEF Fits
<1>4. /\ receipt[Now.migration] = NoRow
      /\ \A r \in Runners : job[r].op = "Apply" /\ Mig(r) = Now.migration => r = "outer"
  <2>1. step \in step..Len(Script)
    BY <1>1, <1>2 DEF ScriptStands
  <2> QED BY <1>1, <1>2, <2>1 DEF RehearsalInvariant, Unstained
<1>5. ASSUME NEW r \in Runners, InFlight(r), Mig(r) = Now.migration
      PROVE  FALSE
  <2>1. r = "outer"
    BY <1>4, <1>5 DEF RehearsalInvariant, ApplyOnly
  <2>2. NoOne # "outer"
    BY ProcessesAssumption, NamesAssumption
  <2>3. pc[r] \notin Busy /\ pc[r] # "killed"
    BY <1>1, <2>1, <2>2 DEF ScriptStands
  <2>4. pc[r] \in {"idle", "exited"}
    BY <2>3 DEF RehearsalInvariant, ReleaseInvariant, ReleaseTypeOK, Busy, Steps
  <2> QED BY <1>5, <2>4 DEF RehearsalInvariant, ApplyOnly, InFlight
<1> QED BY <1>3, <1>4, <1>5 DEF Migrations

(* Altering an object touches no row of the runner's two tables.                *)
LEMMA AlteredKeeps ==
    ASSUME ReleaseInvariant, Altered
    PROVE  ReleaseInvariant'
<1>1. ReleaseTypeOK'
  BY DEF ReleaseInvariant, ReleaseTypeOK, Altered, client
<1>2. UNCHANGED <<receipt, attempt, lock, pc, job, conn, server, reading, mine, code, denied>>
  BY DEF Altered, client
<1> QED BY <1>1, <1>2 DEF ReleaseInvariant, LockHeld, ServerAgrees,
     AttemptInFlight, InFlight, CallKnown, NoReceiptYet, Mig, ReceiptsLinked,
     DeniedFinal, ReadingStands, ReceiptIsMine, ZeroIsMine

(* The lock is occupied only while no runner owns it.                           *)
LEMMA OccupiedKeeps ==
    ASSUME ReleaseInvariant, Occupied
    PROVE  ReleaseInvariant'
<1>1. UNCHANGED <<image, receipt, attempt, pc, job, conn, server, reading, mine, code, denied>>
  BY DEF Occupied, db, client
<1>2. \A r \in Runners : lock # r /\ lock' # r
  BY ProcessesAssumption, NamesAssumption DEF Occupied
<1>3. LockHeld'
  BY <1>1, <1>2 DEF ReleaseInvariant, LockHeld
<1>4. ReleaseTypeOK'
  BY <1>1 DEF ReleaseInvariant, ReleaseTypeOK, Occupied
<1> QED BY <1>1, <1>3, <1>4 DEF ReleaseInvariant, ServerAgrees,
     AttemptInFlight, InFlight, CallKnown, NoReceiptYet, Mig, ReceiptsLinked,
     DeniedFinal, ReadingStands, ReceiptIsMine, ZeroIsMine

(* The rows that are given to another profile are of no receipt and of no       *)
(* transaction, so that nobody was told or will write anything about them.      *)
LEMMA ReboundKeeps ==
    ASSUME ReleaseInvariant, NEW c \in Calls, NEW m \in Migrations,
           c.migration = m, receipt[m] = NoRow,
           \A r \in Runners : InFlight(r) => Mig(r) # m,
           Rebound(m, c)
    PROVE  /\ ReleaseInvariant'
           /\ \A a \in Attempts : attempt[a].status = "Succeeded" => attempt'[a] = attempt[a]
           /\ \A a \in Attempts : attempt'[a].status = attempt[a].status
<1>1. UNCHANGED <<image, receipt, lock, pc, job, conn, server, reading, mine, code, denied>>
  BY DEF Rebound, client
<1>2. \A a \in Attempts : a \notin Rows(m) => attempt'[a] = attempt[a]
  BY DEF Rebound
<1>3. \A a \in Rows(m) :
         /\ a \in Attempts /\ attempt[a].status # "none" /\ attempt[a].call.migration = m
         /\ attempt'[a].status = attempt[a].status
  BY DEF Rebound, Rows, ReleaseInvariant, ReleaseTypeOK, NoAttempt
<1>4. \A a \in Attempts : attempt'[a].status = attempt[a].status
  BY <1>2, <1>3
<1>5. \A a \in Rows(m) : attempt[a].status # "Succeeded"
  <2>1. receipt[m].attempt = NoOne
    BY DEF NoRow
  <2> QED BY <1>3, <2>1, NamesAssumption DEF ReleaseInvariant, ReceiptsLinked
<1>6. \A a \in Attempts : attempt[a].status = "Succeeded" => attempt'[a] = attempt[a]
  BY <1>2, <1>5
<1>7. ReleaseTypeOK'
  <2>1. attempt' \in [Attempts -> {NoAttempt} \cup
           [status : {"Started", "Failed", "Succeeded"}, call : Calls]]
    BY DEF Rebound, Rows, ReleaseInvariant, ReleaseTypeOK, NoAttempt
  <2> QED BY <1>1, <2>1 DEF ReleaseInvariant, ReleaseTypeOK
<1>8. AttemptInFlight'
  <2>1. \A r \in Runners : InFlight(r) => mine[r] \in Attempts /\ mine[r] \notin Rows(m)
    <3> SUFFICES ASSUME NEW r \in Runners, InFlight(r)
                 PROVE  mine[r] \in Attempts /\ mine[r] \notin Rows(m)
      OBVIOUS
    <3>1. /\ mine[r] \in Attempts
          /\ attempt[mine[r]] = [status |-> "Started", call |-> job[r].call]
      BY DEF ReleaseInvariant, AttemptInFlight
    <3>2. attempt[mine[r]].call = job[r].call
      BY <3>1
    <3> QED BY <1>3, <3>1, <3>2 DEF Mig
  <2>2. \A r \in Runners : InFlight(r) => attempt'[mine[r]] = attempt[mine[r]]
    BY <1>2, <2>1
  <2>3. \A r \in Runners : InFlight(r) =>
           attempt[mine[r]] = [status |-> "Started", call |-> job[r].call] /\ mine[r] \notin denied
    BY DEF ReleaseInvariant, AttemptInFlight
  <2>4. \A r \in Runners : InFlight(r)' <=> InFlight(r)
    BY <1>1 DEF InFlight
  <2> QED BY <1>1, <2>1, <2>2, <2>3, <2>4 DEF AttemptInFlight
<1>9. ReceiptsLinked'
  <2>1. \A k \in Migrations : receipt[k] # NoRow => receipt[k].attempt \in Attempts
    BY DEF ReleaseInvariant, ReleaseTypeOK
  <2> QED BY <1>1, <1>4, <1>6, <2>1 DEF ReleaseInvariant, ReceiptsLinked
<1>10. \A d \in Calls : ReceiptIsMine(d) => ReceiptIsMine(d)'
  BY <1>1, <1>6, ReceiptStands
<1>11. \A r \in Runners : code[r] # "none" \/ pc[r] # "idle" => job[r].call \in Calls
  BY DEF ReleaseInvariant, CallKnown
<1>12. ReadingStands' /\ ZeroIsMine'
  BY <1>1, <1>10, <1>11 DEF ReleaseInvariant, ReadingStands, ZeroIsMine
<1>13. DeniedFinal'
  BY <1>1, <1>4 DEF ReleaseInvariant, ReleaseTypeOK, DeniedFinal
<1> QED BY <1>1, <1>4, <1>6, <1>7, <1>8, <1>9, <1>12, <1>13 DEF ReleaseInvariant,
     LockHeld, ServerAgrees, CallKnown, NoReceiptYet, Mig
-----------------------------------------------------------------------------
(* What one step of a runner, or of the server for it, does: it keeps the call, *)
(* and other runners are left alone.                                            *)
LEMMA RunnerMoves ==
    ASSUME ReleaseInvariant, NEW r \in Runners, RunnerRuns(r) \/ ServerRuns(r)
    PROVE  /\ ReleaseNext
           /\ job' = job
           /\ \A t \in Runners : t # r =>
                 pc'[t] = pc[t] /\ server'[t] = server[t]
           /\ pc' = pc \/ (pc[r] \in Busy /\ pc'[r] \in Busy \cup {"exited"})
<1>1. ReleaseNext
  BY DEF RunnerRuns, ServerRuns, ReleaseNext
<1>2. CASE ServerRuns(r)
  BY <1>1, <1>2 DEF ServerRuns, ServerCommit, Reap, client, ReleaseInvariant,
       ReleaseTypeOK
<1>3. CASE Advance(r) \/ Throw(r) \/ LoseConnection(r)
  <2>1. job' = job
    BY <1>3 DEF Advance, TakeLock, ReadHistory, ReadImages, Finish,
         InsertAttempt, Begin, Change, WriteReceipt, RequestCommit,
         Acknowledge, MarkFailed, Throw, LoseConnection, Rollback, Goto, Exit
  <2>2. /\ pc[r] \in Busy
        /\ \E p \in Busy \cup {"exited"} : pc' = [pc EXCEPT ![r] = p]
    BY <1>3 DEF Advance, TakeLock, ReadHistory, ReadImages, Finish,
         InsertAttempt, Begin, Change, WriteReceipt, RequestCommit,
         Acknowledge, MarkFailed, Throw, LoseConnection, Rollback, Goto, Exit,
         Busy, Steps
  <2>3. server' = server \/ \E v : server' = [server EXCEPT ![r] = v]
    BY <1>3 DEF Advance, TakeLock, ReadHistory, ReadImages, Finish,
         InsertAttempt, Begin, Change, WriteReceipt, RequestCommit,
         Acknowledge, MarkFailed, Throw, LoseConnection, Rollback, Goto, Exit
  <2> QED BY <1>1, <2>1, <2>2, <2>3 DEF ReleaseInvariant, ReleaseTypeOK
<1> QED BY <1>2, <1>3 DEF RunnerRuns

(* Which transaction it opens, moves on or ends.                                *)
LEMMA RunnerWrites ==
    ASSUME ReleaseInvariant, ApplyOnly, NEW r \in Runners,
           RunnerRuns(r) \/ ServerRuns(r)
    PROVE  /\ InFlight(r)' => job[r].op = "Apply"
           /\ pc'[r] \in {"idle", "exited"} => server'[r] = "idle"
           /\ fault[r] = "throw_in_change" /\ server[r] \in {"idle", "open"} =>
                 server'[r] \in {"idle", "open"} /\ receipt' = receipt
           /\ \A m \in Migrations : receipt'[m] # receipt[m] =>
                 m = Mig(r) /\ InFlight(r)
<1>1. CASE ServerCommit(r)
  BY <1>1 DEF ServerCommit, client, ApplyOnly, InFlight, ReleaseInvariant,
       ReleaseTypeOK
<1>2. CASE Reap(r)
  BY <1>2 DEF Reap, client, db, ApplyOnly, InFlight, ReleaseInvariant,
       ReleaseTypeOK
<1>3. CASE TakeLock(r) \/ ReadHistory(r) \/ ReadImages(r) \/ Finish(r)
           \/ Acknowledge(r) \/ MarkFailed(r)
  <2>1. receipt' = receipt /\ server' = server /\ server[r] = "idle"
    BY <1>3 DEF TakeLock, ReadHistory, ReadImages, Finish, Acknowledge,
         MarkFailed, db, ReleaseInvariant, LockHeld, ServerAgrees, Busy, Steps
  <2>2. pc'[r] \notin {"started", "unmarked"}
    BY <1>3 DEF TakeLock, ReadHistory, ReadImages, Finish, Acknowledge,
         MarkFailed, Goto, Exit, ReleaseInvariant, ReleaseTypeOK
  <2> QED BY <2>1, <2>2 DEF InFlight
<1>4. CASE LoseConnection(r) /\ LostReply(r)
  <2>1. server[r] = "idle" /\ server' = server /\ receipt' = receipt
    BY <1>4 DEF LostReply, LoseConnection, db, ReleaseInvariant, LockHeld,
         ServerAgrees, Busy, Steps
  <2>2. pc'[r] = "exited"
    BY <1>4 DEF LoseConnection, Exit, ReleaseInvariant, ReleaseTypeOK
  <2> QED BY <2>1, <2>2 DEF InFlight
<1>5. CASE InsertAttempt(r)
  BY <1>5 DEF InsertAttempt, Goto, InFlight, ReleaseInvariant, ReleaseTypeOK,
       LockHeld, ServerAgrees, Busy, Steps
<1>6. CASE Throw(r) \/ Begin(r)
  <2>1. receipt' = receipt /\ server'[r] \in {"idle", "open"} /\ InFlight(r)
        /\ pc'[r] \in {"begun", "unmarked"}
    BY <1>6 DEF Throw, Begin, Rollback, Goto, db, InFlight, ReleaseInvariant,
         ReleaseTypeOK, LockHeld, ServerAgrees, Busy, Steps
  <2> QED BY <2>1 DEF ApplyOnly
<1>7. CASE (Change(r) \/ WriteReceipt(r) \/ RequestCommit(r)) /\ ~Injected(r)
  <2>1. /\ receipt' = receipt /\ InFlight(r)
        /\ pc'[r] \in {"changed", "receipted", "committing", "unmarked"}
    BY <1>7 DEF Change, WriteReceipt, RequestCommit, Rollback, Goto, db,
         InFlight, ReleaseInvariant, ReleaseTypeOK, LockHeld, ServerAgrees,
         Busy, Steps
  <2>2. fault[r] = "throw_in_change" => server[r] \notin {"idle", "open"}
    BY <1>7 DEF Change, WriteReceipt, RequestCommit, Injected,
         ReleaseInvariant, LockHeld, ServerAgrees, Busy, Steps
  <2> QED BY <2>1, <2>2 DEF ApplyOnly
<1> QED BY <1>1, <1>2, <1>3, <1>4, <1>5, <1>6, <1>7 DEF RunnerRuns, ServerRuns,
     Advance

(* What was said of a release by its receipt stays so in every step of runners. *)
LEMMA ReceiptsStand ==
    ASSUME ReleaseInvariant, [ReleaseNext]_vars, NEW c \in Calls, ReceiptIsMine(c)
    PROVE  ReceiptIsMine(c)'
<1>1. ASSUME NEW m \in Migrations, receipt[m] # NoRow
      PROVE  receipt'[m] = receipt[m]
  <2>1. ASSUME NEW r \in Runners, ServerCommit(r)
        PROVE  receipt'[m] = receipt[m]
    BY <1>1, <2>1, CommitFacts DEF ReleaseInvariant, ReleaseTypeOK
  <2> QED BY <2>1, ReceiptSteps
<1>2. ASSUME NEW a \in Attempts, attempt[a].status = "Succeeded"
      PROVE  attempt'[a] = attempt[a]
  <2>1. ASSUME NEW r \in Runners, ServerCommit(r)
        PROVE  attempt'[a] = attempt[a]
    <3>1. /\ mine[r] \in Attempts
          /\ attempt[mine[r]] = [status |-> "Started", call |-> job[r].call]
          /\ \E row : attempt' = [attempt EXCEPT ![mine[r]] = row]
      BY <2>1, CommitFacts
    <3>2. attempt[mine[r]].status = "Started"
      BY <3>1
    <3> QED BY <1>2, <3>1, <3>2 DEF ReleaseInvariant, ReleaseTypeOK
  <2>2. ASSUME NEW r \in Runners, InsertAttempt(r)
        PROVE  attempt'[a] = attempt[a]
    BY <1>2, <2>2 DEF InsertAttempt, NoAttempt, ReleaseInvariant, ReleaseTypeOK
  <2>3. ASSUME NEW r \in Runners, MarkFailed(r)
        PROVE  attempt'[a] = attempt[a]
    <3>1. CASE attempt' = attempt
      BY <3>1
    <3>2. CASE attempt[mine[r]].status = "Started"
      BY <1>2, <2>3, <3>2 DEF MarkFailed, WithStatus, ReleaseInvariant,
           ReleaseTypeOK
    <3> QED BY <2>3, <3>1, <3>2 DEF MarkFailed
  <2>4. \/ attempt' = attempt
        \/ \E r \in Runners : InsertAttempt(r) \/ ServerCommit(r) \/ MarkFailed(r)
    BY DEF ReleaseNext, Advance, Launch, TakeLock, Unready, ReadHistory,
         ReadImages, Finish, Begin, Change, WriteReceipt, Throw,
         RequestCommit, Acknowledge, LoseConnection, Kill, Reap, Drift,
         Rollback, Goto, Exit, db, client, vars
  <2> QED BY <2>1, <2>2, <2>3, <2>4
<1> QED BY <1>1, <1>2, ReceiptStands

(* What the program was told stays so when it goes on.                          *)
LEMMA AttestedKeeps ==
    ASSUME ScriptStands, Attested, UNCHANGED choice,
           \A c \in Calls : ReceiptIsMine(c) => ReceiptIsMine(c)',
           step' = step \/ (step' = step + 1 /\ verdict = "running"),
           \/ step' = step
           \/ Now.do # "run" \/ Now.op = "Preflight" \/ Now.code # "0"
           \/ ReceiptIsMine(Now.call)
    PROVE  Attested'
<1>1. program' = program
  BY DEF choice
<1>2. \A k \in 1..Len(Script) : Fits(Script[k])
  BY ScriptsAssumption DEF ScriptStands, Script
<1>3. ASSUME NEW k \in 1..Len(Script), k < step', Script[k].do = "run",
             Script[k].op # "Preflight", Script[k].code = "0"
      PROVE  ReceiptIsMine(Script[k].call)'
  <2>1. Script[k].call \in Calls
    BY <1>2, <1>3 DEF Fits
  <2>2. k < step \/ (k = step /\ step' # step)
    BY <1>3 DEF ScriptStands
  <2>3. ReceiptIsMine(Script[k].call)
    <3>1. CASE k < step
      BY <1>3, <3>1 DEF Attested, Script
    <3>2. CASE k = step /\ step' # step
      <4>1. Now = Script[k]
        BY <3>2 DEF Now, Script
      <4> QED BY <1>3, <3>2, <4>1
    <3> QED BY <2>2, <3>1, <3>2
  <2>4. ReceiptIsMine(Script[k].call) => ReceiptIsMine(Script[k].call)'
    BY <2>1, <2>3, <1>1 DEF Script
  <2> QED BY <2>3, <2>4
<1> QED BY <1>1, <1>3 DEF Attested, Script

(* A step that starts no process and writes no receipt stains no migration.     *)
LEMMA UnstainedKeeps ==
    ASSUME ScriptStands, Unstained, UNCHANGED <<choice, fault, job, receipt>>,
           step' = step \/ step' = step + 1,
           verdict' = "running" => verdict = "running",
           \A r \in Runners : server'[r] \in {server[r], "idle"}
    PROVE  Unstained'
<1>1. program' = program
  BY DEF choice
<1>2. \A k \in step'..Len(Script) : k \in step..Len(Script)
  BY DEF ScriptStands
<1> QED BY <1>1, <1>2 DEF Unstained, Script, Mig
-----------------------------------------------------------------------------
\* What a step of a program does that neither starts a runner nor compares what
\* one returned.
Aside ==
    /\ UNCHANGED <<choice, fault>>
    /\ \/ UNCHANGED vars
       \/ Altered
       \/ At("rebind") /\ Rebound(Now.migration, Now.call)
       \/ Occupied
       \/ Kill("child")
       \/ Kill("outer") /\ verdict' = "FAIL"
    /\ \/ step' = step /\ verdict' \in {verdict, "FAIL"}
       \/ Pass /\ verdict = "running" /\ awaited = NoOne /\ Now.do # "run"
    /\ awaited' = awaited \/ (awaited' = NoOne /\ verdict' = "FAIL")
    /\ finally' \in Seq(Undos)

LEMMA UndosFit ==
    ASSUME NEW u \in Undos, u.do = "edit"
    PROVE  EditFits(u)
<1>1. PICK n \in DOMAIN Programs :
         \E k \in 1..Len(Programs[n]) : Programs[n][k].do = "guard" /\ u = Programs[n][k].undo
  BY DEF Undos
<1>2. PICK k \in 1..Len(Programs[n]) : Programs[n][k].do = "guard" /\ u = Programs[n][k].undo
  BY <1>1
<1>3. Fits(Programs[n][k])
  BY ScriptsAssumption
<1> QED BY <1>2, <1>3 DEF Fits

LEMMA SetItemAlters ==
    ASSUME ReleaseInvariant, NEW e, EditFits(e),
           SetItem(e.migration, e.item, e.to), Beside, UNCHANGED <<receipt, attempt>>
    PROVE  Altered
  BY DEF EditFits, SetItem, Beside, Altered, ReleaseInvariant, ReleaseTypeOK

LEMMA JudgeMoves ==
    ASSUME NEW ok, Judge(ok)
    PROVE  Pass \/ (step' = step /\ verdict' = "FAIL")
  BY DEF Judge, Fail

LEMMA AlterSteps ==
    ASSUME RehearsalInvariant, UNCHANGED choice, AlterDatabase
    PROVE  Aside
<1>0. /\ ReleaseInvariant /\ ScriptStands /\ verdict = "running" /\ awaited = NoOne
      /\ finally' = finally /\ finally \in Seq(Undos)
      /\ UNCHANGED <<choice, fault, awaited>> /\ Beside /\ receipt' = receipt
  BY DEF RehearsalInvariant, ScriptStands, AlterDatabase, At
<1>1. Fits(Now)
  BY <1>0, NowFits
<1>2. CASE /\ At("edit") /\ SetItem(Now.migration, Now.item, Now.to)
           /\ Pass /\ attempt' = attempt
  <2>1. EditFits(Now)
    BY <1>1, <1>2 DEF Fits, At
  <2>2. Altered
    BY <1>0, <1>2, <2>1, SetItemAlters
  <2> QED BY <1>0, <1>2, <2>2 DEF Aside, At
<1>3. CASE At("rebind") /\ Pass /\ image' = image /\
             attempt' = [a \in Attempts |-> IF a \in Rows(Now.migration)
                THEN [attempt[a] EXCEPT !.call = Now.call] ELSE attempt[a]]
  BY <1>0, <1>3 DEF Aside, At, Rebound, Beside
<1>4. CASE /\ At("legacy") /\ attempt' = attempt
           /\ Judge(LegacyAccepts(Now.migration, Now.how) = Now.accepted)
           /\ image' = IF LegacyAccepts(Now.migration, Now.how)
                 THEN [image EXCEPT ![Now.migration] = [i \in Items |-> "after"]]
                 ELSE image
  <2>1. Altered
    BY <1>0, <1>4 DEF Altered, Beside, Images, ReleaseInvariant, ReleaseTypeOK
  <2>2. Pass \/ (step' = step /\ verdict' = "FAIL")
    BY <1>4, JudgeMoves
  <2> QED BY <1>0, <1>4, <2>1, <2>2 DEF Aside, At
<1>5. CASE (At("mend") \/ At("switch")) /\ Pass /\ UNCHANGED <<image, attempt>>
  <2>1. UNCHANGED vars
    BY <1>0, <1>5 DEF vars, Beside, client
  <2> QED BY <1>0, <1>5, <2>1 DEF Aside, At
<1> QED BY <1>2, <1>3, <1>4, <1>5 DEF AlterDatabase

LEMMA FinallySteps ==
    ASSUME RehearsalInvariant, UNCHANGED choice, RunFinally
    PROVE  Aside
<1>0. /\ ReleaseInvariant /\ ScriptStands /\ finally \in Seq(Undos) /\ finally # <<>>
      /\ UNCHANGED <<choice, fault, awaited>>
  BY DEF RehearsalInvariant, ScriptStands, RunFinally
<1>1. Head(finally) \in Undos /\ finally' \in Seq(Undos)
  BY <1>0 DEF RunFinally
<1>2. UNCHANGED vars \/ Altered \/ Kill("child")
  <2>1. CASE Head(finally).do = "edit"
    <3>1. EditFits(Head(finally))
      BY <1>1, <2>1, UndosFit
    <3>2. /\ SetItem(Head(finally).migration, Head(finally).item, Head(finally).to)
          /\ Beside /\ UNCHANGED <<receipt, attempt>>
      BY <2>1 DEF RunFinally, Undo
    <3> QED BY <1>0, <3>1, <3>2, SetItemAlters
  <2>2. CASE Head(finally).do # "edit"
    BY <2>2 DEF RunFinally, Undo
  <2> QED BY <2>1, <2>2
<1>3. \/ step' = step /\ verdict' = verdict
      \/ Pass /\ verdict = "running" /\ awaited = NoOne /\ Now.do # "run"
  BY DEF RunFinally, At
<1> QED BY <1>0, <1>1, <1>2, <1>3 DEF Aside

LEMMA AsideSteps ==
    ASSUME RehearsalInvariant, UNCHANGED choice,
           \/ AwaitMarker \/ AlterDatabase \/ OccupyLock \/ Inspect
           \/ PushFinally \/ RunFinally \/ Leave \/ TimeOut
    PROVE  Aside
<1>0. ReleaseInvariant /\ ScriptStands /\ finally \in Seq(Undos)
  BY DEF RehearsalInvariant, ScriptStands
<1>1. CASE AwaitMarker
  <2>1. Pass \/ (step' = step /\ verdict' = "FAIL")
    BY <1>1, JudgeMoves DEF AwaitMarker
  <2> QED BY <1>0, <1>1, <2>1 DEF AwaitMarker, Aside, At
<1>2. CASE Inspect
  <2>1. Pass \/ (step' = step /\ verdict' = "FAIL")
    BY <1>2, JudgeMoves DEF Inspect, Observed
  <2>2. verdict = "running" /\ awaited = NoOne /\ Now.do # "run"
    BY <1>2 DEF Inspect, Observed, At
  <2> QED BY <1>0, <1>2, <2>1, <2>2 DEF Inspect, Aside
<1>3. CASE OccupyLock
  <2>1. Pass \/ (step' = step /\ verdict' = "FAIL")
    BY <1>3, JudgeMoves DEF OccupyLock
  <2>2. verdict = "running" /\ awaited = NoOne /\ Now.do # "run"
    BY <1>3 DEF OccupyLock, At
  <2>3. UNCHANGED vars \/ Occupied
    BY <1>3 DEF OccupyLock, Occupied, vars, db, client
  <2> QED BY <1>0, <1>3, <2>1, <2>2, <2>3 DEF OccupyLock, Aside
<1>4. CASE PushFinally
  <2>1. verdict = "running" /\ awaited = NoOne /\ Now.do = "guard"
    BY <1>4 DEF PushFinally, At
  <2>2. step \in 1..Len(Script) /\ Now = Script[step]
    BY <1>0, <2>1, NowFits
  <2>3. Now.undo \in Undos
    BY <1>0, <2>1, <2>2 DEF Undos, Script, ScriptStands
  <2>4. finally' \in Seq(Undos)
    BY <1>0, <1>4, <2>3 DEF PushFinally
  <2> QED BY <1>0, <1>4, <2>1, <2>4 DEF PushFinally, Aside
<1>5. CASE Leave
  <2>1. Occupied
    BY <1>5 DEF Leave, Occupied
  <2> QED BY <1>0, <1>5, <2>1 DEF Leave, Aside
<1>6. CASE TimeOut
  BY <1>0, <1>6 DEF TimeOut, Fail, Aside
<1> QED BY <1>1, <1>2, <1>3, <1>4, <1>5, <1>6, AlterSteps, FinallySteps
(* None of those steps disturbs what holds of the runner or what a program was  *)
(* told.                                                                        *)
LEMMA AsideKeepsRunner ==
    ASSUME RehearsalInvariant, Aside
    PROVE  /\ ReleaseInvariant'
           /\ \A c \in Calls : ReceiptIsMine(c) => ReceiptIsMine(c)'
           /\ receipt' = receipt /\ job' = job
           /\ \A r \in Runners : server'[r] = server[r]
           /\ \/ UNCHANGED <<pc, server>>
              \/ \E r \in {"outer", "child"} :
                    /\ pc' = [pc EXCEPT ![r] = "killed"] /\ UNCHANGED server
                    /\ r = "outer" => verdict' = "FAIL"
<1>0. ReleaseInvariant
  BY DEF RehearsalInvariant
<1>1. CASE UNCHANGED vars
  <2>1. ReleaseInvariant'
    BY <1>0, <1>1, StepKeeps
  <2>2. \A c \in Calls : ReceiptIsMine(c) => ReceiptIsMine(c)'
    BY <1>1 DEF vars, ReceiptIsMine
  <2> QED BY <1>1, <2>1, <2>2 DEF vars
<1>2. CASE Altered
  <2>1. \A c \in Calls : ReceiptIsMine(c) => ReceiptIsMine(c)'
    BY <1>2 DEF Altered, ReceiptIsMine
  <2> QED BY <1>0, <1>2, <2>1, AlteredKeeps DEF Altered, client
<1>3. CASE At("rebind") /\ Rebound(Now.migration, Now.call)
  <2>1. /\ Now.call \in Calls /\ Now.call.migration = Now.migration
        /\ Now.migration \in Migrations
        /\ receipt[Now.migration] = NoRow
        /\ \A r \in Runners : InFlight(r) => Mig(r) # Now.migration
    BY <1>3, RebindFacts
  <2>2. /\ ReleaseInvariant'
        /\ \A a \in Attempts : attempt[a].status = "Succeeded" => attempt'[a] = attempt[a]
    BY <1>0, <1>3, <2>1, ReboundKeeps
  <2>3. UNCHANGED <<receipt, job, server, pc>>
    BY <1>3 DEF Rebound, client
  <2>4. \A c \in Calls : ReceiptIsMine(c) => ReceiptIsMine(c)'
    BY <2>2, <2>3, ReceiptStands
  <2> QED BY <2>2, <2>3, <2>4
<1>4. CASE Occupied
  <2>1. \A c \in Calls : ReceiptIsMine(c) => ReceiptIsMine(c)'
    BY <1>4 DEF Occupied, db, ReceiptIsMine
  <2> QED BY <1>0, <1>4, <2>1, OccupiedKeeps DEF Occupied, client, db
<1>5. ASSUME NEW r \in {"outer", "child"}, Kill(r), r = "outer" => verdict' = "FAIL"
      PROVE  /\ ReleaseInvariant'
             /\ \A c \in Calls : ReceiptIsMine(c) => ReceiptIsMine(c)'
             /\ UNCHANGED <<receipt, job, server>>
             /\ pc' = [pc EXCEPT ![r] = "killed"]
  <2>1. r \in Runners
    BY ProcessesAssumption
  <2>2. ReleaseInvariant'
    BY <1>0, <1>5, <2>1, KillKeeps
  <2>3. UNCHANGED <<receipt, attempt, job, server>> /\ pc' = [pc EXCEPT ![r] = "killed"]
    BY <1>5 DEF Kill, db
  <2>4. \A c \in Calls : ReceiptIsMine(c) => ReceiptIsMine(c)'
    BY <2>3 DEF ReceiptIsMine
  <2> QED BY <2>2, <2>3, <2>4
<1>6. CASE Kill("child")
  BY <1>5, <1>6
<1>7. CASE Kill("outer") /\ verdict' = "FAIL"
  BY <1>5, <1>7
<1> QED BY <1>1, <1>2, <1>3, <1>4, <1>6, <1>7 DEF Aside

(* The harness goes on with whatever it was doing.                              *)
LEMMA AsideKeeps ==
    ASSUME RehearsalInvariant, Aside
    PROVE  RehearsalInvariant'
<1>0. /\ ReleaseInvariant /\ ScriptStands /\ ApplyOnly /\ Unstained /\ Attested
  BY DEF RehearsalInvariant
<1>1. /\ ReleaseInvariant' /\ receipt' = receipt /\ job' = job
      /\ \A c \in Calls : ReceiptIsMine(c) => ReceiptIsMine(c)'
      /\ \A r \in Runners : server'[r] = server[r]
  BY AsideKeepsRunner
<1>2. /\ UNCHANGED <<choice, fault>> /\ program' = program
      /\ \/ step' = step /\ verdict' \in {verdict, "FAIL"}
         \/ Pass /\ verdict = "running" /\ awaited = NoOne /\ Now.do # "run"
      /\ awaited' = awaited \/ (awaited' = NoOne /\ verdict' = "FAIL")
      /\ finally' \in Seq(Undos)
  BY DEF Aside, choice
<1>3. \/ pc' = pc
      \/ pc' = [pc EXCEPT !["outer"] = "killed"] /\ verdict' = "FAIL"
      \/ pc' = [pc EXCEPT !["child"] = "killed"]
  BY AsideKeepsRunner
<1>4. verdict' = "running" => verdict = "running" /\ pc'["outer"] = pc["outer"]
                            /\ step' <= Len(Script)
  <2>1. verdict' = "running" => verdict = "running"
    BY <1>2
  <2>2. verdict' = "running" => step' <= Len(Script)
    <3>1. Len(Script) \in Nat
      BY <1>0, ScriptsAssumption DEF ScriptStands, Script
    <3> QED BY <1>0, <1>2, <3>1 DEF ScriptStands, Script, Pass
  <2>3. verdict' = "running" => pc'["outer"] = pc["outer"]
    BY <1>0, <1>3, ProcessesAssumption DEF ReleaseInvariant, ReleaseTypeOK
  <2> QED BY <2>1, <2>2, <2>3
<1>5. ScriptStands'
  <2>1. step' \in Nat \ {0}
    BY <1>0, <1>2 DEF ScriptStands, Pass
  <2>2. awaited' \in {NoOne, "outer"} /\ finally' \in Seq(Undos)
    BY <1>0, <1>2 DEF ScriptStands
  <2>3. verdict' = "running" /\ pc'["outer"] \in Busy => awaited' = "outer"
    BY <1>0, <1>2, <1>4 DEF ScriptStands
  <2>4. verdict' = "running" => pc'["outer"] # "killed"
    BY <1>0, <1>4 DEF ScriptStands
  <2>5. awaited' = "outer" => awaited = "outer" /\ step' = step
    BY <1>2, NamesAssumption, ProcessesAssumption
  <2>6. awaited' = "outer" => (Now' = Now)
    BY <1>2, <2>5 DEF Now
  <2>7. awaited' = "outer" => /\ Now'.do = "run"
                              /\ job'["outer"] = [op |-> Now'.op, call |-> Now'.call]
    BY <1>0, <1>1, <2>5, <2>6 DEF ScriptStands
  <2>8. Len(Script') = Len(Script) /\ DOMAIN fault' = Runners
    BY <1>0, <1>2 DEF ScriptStands, Script
  <2>9. program' \in DOMAIN Programs
    BY <1>0, <1>2 DEF ScriptStands
  <2> QED BY <1>4, <2>1, <2>2, <2>3, <2>4, <2>7, <2>8, <2>9 DEF ScriptStands
<1>6. ApplyOnly'
  <2>1. \A r \in Runners : pc'[r] = pc[r] \/ pc'[r] = "killed"
    BY <1>0, <1>3 DEF ReleaseInvariant, ReleaseTypeOK
  <2> QED BY <1>0, <1>1, <2>1 DEF ApplyOnly, InFlight
<1>7. Unstained'
  BY <1>0, <1>1, <1>2, <1>4, UnstainedKeeps DEF Pass
<1>8. Attested'
  <2>1. step' = step \/ (step' = step + 1 /\ verdict = "running" /\ Now.do # "run")
    BY <1>2 DEF Pass
  <2> QED BY <1>0, <1>1, <1>2, <2>1, AttestedKeeps
<1> QED BY <1>1, <1>5, <1>6, <1>7, <1>8 DEF RehearsalInvariant
(* A process is started: by the step the script is at, and not to commit a      *)
(* migration whose attempts will be given away.                                 *)
LEMMA StartKeeps ==
    ASSUME RehearsalInvariant, UNCHANGED choice, Outer \/ SpawnChild
    PROVE  RehearsalInvariant'
<1>0. /\ ReleaseInvariant /\ ScriptStands /\ ApplyOnly /\ Unstained /\ Attested
      /\ verdict = "running" /\ awaited = NoOne /\ program' = program
      /\ finally' = finally
  BY DEF RehearsalInvariant, Outer, SpawnChild, At, choice
<1>1. PICK r \in {"outer", "child"} :
         /\ Launch(r, Now.op, Now.call)
         /\ fault' = [fault EXCEPT ![r] = Now.fault]
         /\ \/ /\ r = "outer" /\ Now.do = "run" /\ awaited' = "outer"
               /\ UNCHANGED <<step, verdict>>
            \/ r = "child" /\ Now.do = "spawn" /\ awaited' = awaited /\ Pass
  BY DEF Outer, SpawnChild, Start, At
<1>2. step \in 1..Len(Script) /\ Now = Script[step] /\ Fits(Now)
  BY <1>0, NowFits
<1>3. r \in Runners /\ Now.op \in Operations /\ Now.call \in Calls
  BY <1>1, <1>2, ProcessesAssumption DEF Fits
<1>4. ReleaseInvariant'
  BY <1>0, <1>1, <1>3, LaunchKeeps
<1>5. /\ server[r] = "idle" /\ UNCHANGED <<receipt, attempt, server>>
      /\ pc' = [pc EXCEPT ![r] = "opened"]
      /\ job' = [job EXCEPT ![r] = [op |-> Now.op, call |-> Now.call]]
  BY <1>0, <1>1, <1>3 DEF Launch, db, ReleaseInvariant, LockHeld
<1>6. /\ \A t \in Runners : t # r => pc'[t] = pc[t] /\ job'[t] = job[t] /\ fault'[t] = fault[t]
      /\ pc'[r] = "opened" /\ job'[r] = [op |-> Now.op, call |-> Now.call]
      /\ fault'[r] = Now.fault /\ DOMAIN fault' = Runners
  BY <1>0, <1>1, <1>3, <1>5 DEF ReleaseInvariant, ReleaseTypeOK, ScriptStands
<1>7. ScriptStands'
  <2>1. CASE r = "outer"
    <3>1. Now' = Now /\ Now.do = "run" /\ awaited' = "outer" /\ UNCHANGED <<step, verdict>>
      BY <1>0, <1>1, <2>1 DEF Now
    <3> QED BY <1>0, <1>6, <2>1, <3>1 DEF ScriptStands, Script
  <2>2. CASE r = "child"
    <3>1. awaited' = NoOne /\ Pass /\ NoOne # "outer" /\ "outer" \in Runners
      BY <1>0, <1>1, <2>2, NamesAssumption, ProcessesAssumption
    <3>2. pc'["outer"] = pc["outer"]
      BY <1>6, <2>2, <3>1
    <3>3. step' \in Nat \ {0} /\ (verdict' = "running" => step' <= Len(Script))
      BY <1>2, <3>1 DEF Pass, Script
    <3> QED BY <1>0, <1>6, <3>1, <3>2, <3>3 DEF ScriptStands, Script
  <2> QED BY <2>1, <2>2
<1>8. ApplyOnly'
  BY <1>0, <1>5, <1>6 DEF ApplyOnly, InFlight
<1>9. Unstained'
  <2>1. SUFFICES ASSUME NEW k \in step'..Len(Script), Script[k].do = "rebind", NEW t \in Runners
                 PROVE  /\ receipt'[Script[k].migration] = NoRow
                        /\ job'[t].op = "Apply" /\ Mig(t)' = Script[k].migration =>
                              t = "outer" /\ fault'[t] = "throw_in_change"
                              /\ server'[t] \in {"idle", "open"}
    BY <1>0, ProcessesAssumption DEF Unstained, Script
  <2>2. k \in 1..Len(Script) /\ step <= k /\ step < k /\ k \in step..Len(Script)
        /\ step \in 1..(k - 1)
    BY <1>1, <1>2, <2>1 DEF Pass
  <2>3. /\ receipt[Script[k].migration] = NoRow
        /\ job[t].op = "Apply" /\ Mig(t) = Script[k].migration =>
              t = "outer" /\ fault[t] = "throw_in_change" /\ server[t] \in {"idle", "open"}
    BY <1>0, <2>1, <2>2 DEF Unstained
  <2>4. MayApply(Now, Script[k].migration) => Now.do = "run" /\ Now.fault = "throw_in_change"
    BY <1>0, <1>2, <2>1, <2>2, RebindAssumption DEF ScriptStands, Script
  <2>5. CASE t = r
    BY <1>1, <1>5, <1>6, <2>3, <2>4, <2>5 DEF MayApply, Mig
  <2>6. CASE t # r
    BY <1>5, <1>6, <2>3, <2>6 DEF Mig
  <2> QED BY <2>5, <2>6
<1>10. Attested'
  <2>1. \A c \in Calls : ReceiptIsMine(c) => ReceiptIsMine(c)'
    BY <1>5 DEF ReceiptIsMine
  <2>2. step' = step \/ (step' = step + 1 /\ verdict = "running" /\ Now.do # "run")
    BY <1>0, <1>1 DEF Pass
  <2> QED BY <1>0, <2>1, <2>2, AttestedKeeps
<1> QED BY <1>4, <1>7, <1>8, <1>9, <1>10 DEF RehearsalInvariant

(* The program compares what the process it awaited has returned: exit code 0   *)
(* was said of the receipt of the call it had made.                             *)
LEMMA CompareKeeps ==
    ASSUME RehearsalInvariant, UNCHANGED choice, Compare
    PROVE  RehearsalInvariant'
<1>0. /\ ReleaseInvariant /\ ScriptStands /\ ApplyOnly /\ Unstained /\ Attested
      /\ verdict = "running" /\ awaited = "outer" /\ program' = program
      /\ UNCHANGED <<vars, choice, fault, finally>> /\ pc["outer"] = "exited"
      /\ awaited' = NoOne /\ "outer" \in Runners /\ NoOne # "outer"
  BY NamesAssumption, ProcessesAssumption DEF RehearsalInvariant, Compare, choice
<1>1. ReleaseInvariant'
  BY <1>0, StepKeeps
<1>2. step \in 1..Len(Script) /\ Now = Script[step]
  BY <1>0, NowFits
<1>3. \/ step' = step /\ verdict' = "FAIL"
      \/ Pass /\ code["outer"] = Now.code
  BY DEF Compare, Judge, Fail
<1>4. /\ UNCHANGED <<receipt, attempt, pc, job, server>>
      /\ \A c : ReceiptIsMine(c)' <=> ReceiptIsMine(c)
  BY <1>0 DEF vars, ReceiptIsMine
<1>5. ScriptStands'
  <2>1. step' \in Nat \ {0} /\ (verdict' = "running" => step' <= Len(Script))
    BY <1>2, <1>3 DEF Pass, Script
  <2> QED BY <1>0, <1>4, <2>1 DEF ScriptStands, Script, Busy
<1>6. ApplyOnly'
  BY <1>0, <1>4 DEF ApplyOnly, InFlight
<1>7. Unstained'
  BY <1>0, <1>3, <1>4, UnstainedKeeps DEF Pass
<1>8. Attested'
  <2>1. \/ step' = step
        \/ step' = step + 1 /\ code["outer"] = Now.code
    BY <1>3 DEF Pass
  <2>2. job["outer"].op = Now.op /\ job["outer"].call = Now.call
    BY <1>0 DEF ScriptStands
  <2>3. \/ step' = step
        \/ Now.do # "run" \/ Now.op = "Preflight" \/ Now.code # "0"
        \/ ReceiptIsMine(Now.call)
    BY <1>0, <2>1, <2>2 DEF ReleaseInvariant, ZeroIsMine
  <2> QED BY <1>0, <1>4, <2>1, <2>3, AttestedKeeps
<1> QED BY <1>1, <1>5, <1>6, <1>7, <1>8 DEF RehearsalInvariant

(* A runner goes on, throws where its copy is made to, or the server acts for   *)
(* it.                                                                          *)
LEMMA RunnerKeeps ==
    ASSUME RehearsalInvariant, UNCHANGED choice, NEW r \in Runners,
           RunnerRuns(r) \/ ServerRuns(r)
    PROVE  RehearsalInvariant'
<1>0. /\ ReleaseInvariant /\ ScriptStands /\ ApplyOnly /\ Unstained /\ Attested
      /\ UNCHANGED <<program, step, awaited, verdict, fault, finally>>
  BY DEF RehearsalInvariant, RunnerRuns, ServerRuns, choice
<1>1. /\ ReleaseNext
      /\ job' = job
      /\ \A t \in Runners : t # r => pc'[t] = pc[t] /\ server'[t] = server[t]
      /\ pc' = pc \/ (pc[r] \in Busy /\ pc'[r] \in Busy \cup {"exited"})
  BY <1>0, RunnerMoves
<1>2. /\ InFlight(r)' => job[r].op = "Apply"
      /\ pc'[r] \in {"idle", "exited"} => server'[r] = "idle"
      /\ fault[r] = "throw_in_change" /\ server[r] \in {"idle", "open"} =>
            server'[r] \in {"idle", "open"} /\ receipt' = receipt
      /\ \A m \in Migrations : receipt'[m] # receipt[m] => m = Mig(r) /\ InFlight(r)
  BY <1>0, RunnerWrites
<1>3. ReleaseInvariant'
  BY <1>0, <1>1, StepKeeps
<1>4. ScriptStands'
  <2>1. Now' = Now /\ "outer" \in Runners
    BY <1>0, ProcessesAssumption DEF Now
  <2>2. pc'["outer"] = pc["outer"] \/ (pc["outer"] \in Busy /\ pc'["outer"] # "killed")
    BY <1>1, <2>1 DEF Busy, Steps
  <2> QED BY <1>0, <1>1, <2>1, <2>2 DEF ScriptStands, Script
<1>5. ApplyOnly'
  BY <1>0, <1>1, <1>2 DEF ApplyOnly, InFlight
<1>6. Unstained'
  <2>1. SUFFICES ASSUME verdict = "running", NEW k \in step..Len(Script),
                        Script[k].do = "rebind", NEW t \in Runners
                 PROVE  /\ receipt'[Script[k].migration] = NoRow
                        /\ job[t].op = "Apply" /\ Mig(t) = Script[k].migration =>
                              t = "outer" /\ fault[t] = "throw_in_change"
                              /\ server'[t] \in {"idle", "open"}
    BY <1>0, <1>1, ProcessesAssumption DEF Unstained, Script, Mig
  <2>2. /\ receipt[Script[k].migration] = NoRow
        /\ \A x \in Runners : job[x].op = "Apply" /\ Mig(x) = Script[k].migration =>
              x = "outer" /\ fault[x] = "throw_in_change" /\ server[x] \in {"idle", "open"}
    BY <1>0, <2>1 DEF Unstained
  <2>3. Script[k].migration \in Migrations
    <3>1. k \in 1..Len(Script) /\ Fits(Script[k])
      BY <1>0, <2>1, ScriptsAssumption DEF ScriptStands, Script
    <3> QED BY <2>1, <3>1 DEF Fits, Migrations
  <2>4. receipt'[Script[k].migration] = receipt[Script[k].migration]
    BY <1>0, <1>2, <2>2, <2>3 DEF ApplyOnly
  <2> QED BY <1>1, <1>2, <2>2, <2>4
<1>7. Attested'
  BY <1>0, <1>1, ReceiptsStand, AttestedKeeps
<1> QED BY <1>3, <1>4, <1>5, <1>6, <1>7 DEF RehearsalInvariant
(* A program begins with an empty history and its first step.                   *)
LEMMA RehearsalInitHolds ==
    ASSUME RehearsalInit
    PROVE  RehearsalInvariant
<1>1. ReleaseInvariant
  BY InitHolds DEF RehearsalInit
<1>2. program \in DOMAIN Programs /\ Len(Script) \in Nat \ {0}
  BY ScriptsAssumption DEF RehearsalInit, Script
<1>3. \A r \in Runners : pc[r] = "idle" /\ server[r] = "idle" /\ job[r] = NoJob
  BY DEF RehearsalInit, ReleaseInit
<1>4. ScriptStands
  BY <1>2, <1>3, NamesAssumption, ProcessesAssumption DEF RehearsalInit,
       ScriptStands, Busy
<1>5. ApplyOnly
  BY <1>3 DEF ApplyOnly, InFlight
<1>6. Unstained
  <2>1. \A k \in 1..Len(Script) : Script[k].do = "rebind" => Script[k].migration \in Migrations
    BY <1>2, ScriptsAssumption DEF Script, Fits, Migrations
  <2>2. \A r \in Runners : job[r].op # "Apply"
    BY <1>3 DEF NoJob
  <2> QED BY <1>2, <2>1, <2>2 DEF Unstained, RehearsalInit, ReleaseInit
<1>7. Attested
  BY <1>2 DEF Attested, RehearsalInit, Script
<1> QED BY <1>1, <1>4, <1>5, <1>6, <1>7 DEF RehearsalInvariant

(* What a rehearsal can do next: a runner moves, a process is started or        *)
(* compared, or the program does something beside them.                         *)
LEMMA RehearsalMoves ==
    ASSUME RehearsalInvariant, [RehearsalNext]_rehearsalVars
    PROVE  /\ UNCHANGED choice
           /\ \/ \E r \in Runners : RunnerRuns(r) \/ ServerRuns(r)
              \/ Outer \/ SpawnChild \/ Compare \/ Aside
<1>1. CASE UNCHANGED rehearsalVars
  <2>1. finally \in Seq(Undos)
    BY DEF RehearsalInvariant, ScriptStands
  <2> QED BY <1>1, <2>1 DEF rehearsalVars, harness, choice, Aside
<1>2. CASE RehearsalNext
  BY <1>2, AsideSteps DEF RehearsalNext, HarnessStep
<1> QED BY <1>1, <1>2

(* The invariant of the runner, and where the program stands beside it, hold in *)
(* every rehearsal.                                                             *)
THEOREM RehearsalInvariantHolds == RehearsalSpec => []RehearsalInvariant
<1>1. RehearsalInit => RehearsalInvariant
  BY RehearsalInitHolds
<1>2. RehearsalInvariant /\ [RehearsalNext]_rehearsalVars => RehearsalInvariant'
  <2> SUFFICES ASSUME RehearsalInvariant, [RehearsalNext]_rehearsalVars
               PROVE  RehearsalInvariant'
    OBVIOUS
  <2>1. /\ UNCHANGED choice
        /\ \/ \E r \in Runners : RunnerRuns(r) \/ ServerRuns(r)
           \/ Outer \/ SpawnChild \/ Compare \/ Aside
    BY RehearsalMoves
  <2> QED BY <2>1, RunnerKeeps, StartKeeps, CompareKeeps, AsideKeeps
<1> QED BY <1>1, <1>2, PTL DEF RehearsalSpec

(* What a program was told with exit code 0 is so to its end: the part of every *)
(* evidence file that names a receipt follows from the exit codes compared.     *)
THEOREM AttestedHolds == RehearsalSpec => []Attested
<1>1. RehearsalInvariant => Attested
  BY DEF RehearsalInvariant
<1> QED BY <1>1, RehearsalInvariantHolds, PTL

(* No rehearsal makes two runners write at the same time, also when it kills    *)
(* one, occupies the lock or starts a second beside a paused child.             *)
THEOREM RehearsedOneWriter == RehearsalSpec => []OneWriter
<1>1. RehearsalInvariant => OneWriter
  BY DEF RehearsalInvariant, ReleaseInvariant, LockHeld, OneWriter
<1> QED BY <1>1, RehearsalInvariantHolds, PTL

(* Receipts and successes name each other also after a program has given        *)
(* attempts to another profile.                                                 *)
THEOREM RehearsedReceiptsLinked == RehearsalSpec => []ReceiptsLinked
<1>1. RehearsalInvariant => ReceiptsLinked
  BY DEF RehearsalInvariant, ReleaseInvariant
<1> QED BY <1>1, RehearsalInvariantHolds, PTL

(* An attempt a program was told is rolled back does not succeed later, also    *)
(* when the process that made it was killed.                                    *)
THEOREM RehearsedRolledBack == RehearsalSpec => []RolledBackIsFinal
<1>1. RehearsalInvariant => RolledBackIsFinal
  BY DEF RehearsalInvariant, ReleaseInvariant, DeniedFinal, AttemptInFlight,
       InFlight, RolledBackIsFinal
<1> QED BY <1>1, RehearsalInvariantHolds, PTL

(* Exit 0 means the caller's own release also inside a rehearsal: what a program *)
(* alters, and the attempts it gives to another profile, make no answer of an    *)
(* earlier runner wrong.                                                         *)
THEOREM RehearsedZeroIsMine == RehearsalSpec => []ZeroIsMine
<1>1. RehearsalInvariant => ZeroIsMine
  BY DEF RehearsalInvariant, ReleaseInvariant
<1> QED BY <1>1, RehearsalInvariantHolds, PTL

(* A receipt survives whatever a program does after it.                         *)
THEOREM RehearsedAppliedOnce == RehearsalSpec => AppliedOnce
<1>1. ASSUME RehearsalInvariant, [RehearsalNext]_rehearsalVars, NEW m \in Migrations,
             receipt[m] # NoRow
      PROVE  receipt'[m] = receipt[m]
  <2>1. ReleaseInvariant
    BY <1>1 DEF RehearsalInvariant
  <2>2. CASE receipt' = receipt
    BY <2>2
  <2>3. ASSUME NEW r \in Runners, ServerCommit(r)
        PROVE  receipt'[m] = receipt[m]
    BY <1>1, <2>1, <2>3, CommitFacts DEF ReleaseInvariant, ReleaseTypeOK
  <2>4. receipt' = receipt \/ \E r \in Runners : ServerCommit(r)
    <3>1. ASSUME NEW r \in Runners, RunnerRuns(r) \/ ServerRuns(r)
          PROVE  [ReleaseNext]_vars
      BY <2>1, <3>1, RunnerMoves
    <3>2. CASE Outer \/ SpawnChild \/ Compare
      BY <3>2 DEF Outer, SpawnChild, Start, Launch, Compare, vars, db
    <3>3. CASE Aside
      BY <1>1, <3>3, AsideKeepsRunner
    <3> QED BY <1>1, <3>1, <3>2, <3>3, RehearsalMoves, ReceiptSteps
  <2> QED BY <2>2, <2>3, <2>4
<1>2. RehearsalInvariant /\ [RehearsalNext]_rehearsalVars =>
        [\A m \in Migrations : receipt[m] # NoRow => receipt'[m] = receipt[m]]_vars
  BY <1>1
<1> QED BY <1>2, RehearsalInvariantHolds, PTL DEF RehearsalSpec, AppliedOnce

(* Beside its runners a program makes no attempt and reports none.              *)
LEMMA AsideLedger ==
    ASSUME RehearsalInvariant, Aside
    PROVE  UNCHANGED Ledger!ledgerVars
<1>1. receipt' = receipt /\ denied' = denied
  BY DEF Aside, vars, Altered, Rebound, Occupied, Kill, db
<1>2. \A a \in Attempts : attempt'[a].status = attempt[a].status
  <2>1. CASE At("rebind") /\ Rebound(Now.migration, Now.call)
    BY <2>1, RebindFacts, ReboundKeeps DEF RehearsalInvariant
  <2> QED BY <2>1 DEF Aside, vars, Altered, Occupied, Kill, db
<1> QED BY <1>1, <1>2 DEF Ledger!ledgerVars

(* Every rehearsal is a behaviour of the ledger the runner promises.            *)
THEOREM RehearsedLedger == RehearsalSpec => LedgerSpec
<1>1. RehearsalInit => Ledger!LedgerInit
  BY DEF RehearsalInit, ReleaseInit, Ledger!LedgerInit, NoRow, NoAttempt
<1>2. ASSUME RehearsalInvariant, [RehearsalNext]_rehearsalVars
      PROVE  [Ledger!LedgerNext]_(Ledger!ledgerVars)
  <2>0. ReleaseInvariant
    BY <1>2 DEF RehearsalInvariant
  <2>1. ASSUME NEW r \in Runners, RunnerRuns(r) \/ ServerRuns(r)
        PROVE  [Ledger!LedgerNext]_(Ledger!ledgerVars)
    BY <2>0, <2>1, RunnerMoves, LedgerStep
  <2>2. CASE Outer \/ SpawnChild \/ Compare
    <3>1. UNCHANGED <<receipt, attempt, denied>>
      BY <2>2 DEF Outer, SpawnChild, Start, Launch, Compare, vars, db
    <3> QED BY <3>1 DEF Ledger!ledgerVars
  <2>3. CASE Aside
    BY <1>2, <2>3, AsideLedger
  <2> QED BY <1>2, <2>1, <2>2, <2>3, RehearsalMoves
<1>3. RehearsalInvariant /\ [RehearsalNext]_rehearsalVars =>
        [Ledger!LedgerNext]_(Ledger!ledgerVars)
  BY <1>2
<1> QED BY <1>1, <1>3, RehearsalInvariantHolds, PTL DEF RehearsalSpec,
     LedgerSpec, Ledger!LedgerSpec

-----------------------------------------------------------------------------
\* The program is about to enter the block whose finally undoes its last step.
DueNow == verdict = "running" /\ awaited = NoOne /\ Now.do = "guard"

\* Only the two processes run, and the first only while it is waited for.
Quiet ==
    /\ \A r \in Runners \ {"outer", "child"} : pc[r] = "idle"
    /\ verdict # "running" => awaited = NoOne /\ pc["outer"] \notin Busy

\* What is still to be undone: an entered block, or the one it is about to enter.
Owed(do) ==
    \/ \E j \in 1..Len(finally) : finally[j].do = do
    \/ DueNow /\ Now.undo.do = do

Guarded == (pc["child"] \in Busy => Owed("kill")) /\ (tracking => Owed("switch"))

\* The tracking of a table ends before that of its database.
Tracked(m) == image[m]["tracked"] = "other"
Unmarked == (\A k \in 1..(step - 1) : ~Tracks(Script[k])) =>
    \A m \in Migrations : ~Tracked(m)
InnerFirst == \A j \in 1..Len(finally) : finally[j].do = "switch" =>
    \A m \in Migrations : Tracked(m) =>
        \/ \E i \in 1..(j - 1) : Untracks(finally[i], m)
        \/ DueNow /\ Untracks(Now.undo, m)

\* What every step of a program leaves to its finally blocks.
FinallyInvariant == Quiet /\ Guarded /\ Unmarked /\ InnerFirst

(* What a finally block can do.                                                 *)
LEMMA UndosGuard ==
    ASSUME NEW u \in Undos
    PROVE  /\ u.do \in {"kill", "edit", "switch"} /\ ~Tracks(u)
           /\ u.do = "switch" => ~u.to
<1>1. PICK n \in DOMAIN Programs :
         \E k \in 1..Len(Programs[n]) : Programs[n][k].do = "guard" /\ u = Programs[n][k].undo
  BY DEF Undos
<1>2. PICK k \in 1..Len(Programs[n]) : Programs[n][k].do = "guard" /\ u = Programs[n][k].undo
  BY <1>1
<1> QED BY <1>2, GuardsAssumption

(* A step that starts and switches on nothing that has to be undone.            *)
LEMMA PlainKeeps ==
    ASSUME RehearsalInvariant, FinallyInvariant, UNCHANGED choice,
           finally' = finally, tracking' => tracking,
           \A m \in Migrations : Tracked(m)' => Tracked(m),
           \A r \in Runners : pc'[r] \in Busy => pc[r] \in Busy \/ r = "outer",
           \A r \in Runners \ {"outer", "child"} : pc'[r] = pc[r],
           verdict' # "running" => awaited' = NoOne /\ pc'["outer"] \notin Busy,
           step' \in {step, step + 1},
           ~DueNow \/ (UNCHANGED <<step, verdict, awaited>>)
    PROVE  FinallyInvariant'
<1>1. program' = program /\ step \in Nat \ {0}
  BY DEF choice, RehearsalInvariant, ScriptStands
<1>2. DueNow => DueNow' /\ Now' = Now
  BY <1>1 DEF DueNow, Now
<1>3. Quiet'
  BY DEF FinallyInvariant, Quiet
<1>4. \A do : Owed(do) => Owed(do)'
  BY <1>2 DEF Owed
<1>5. Guarded'
  BY <1>4, ProcessesAssumption DEF FinallyInvariant, Guarded
<1>6. Unmarked'
  <2>1. \A k \in 1..(step - 1) : k \in 1..(step' - 1)
    BY <1>1
  <2>2. Script' = Script
    BY <1>1 DEF Script
  <2> QED BY <2>1, <2>2 DEF FinallyInvariant, Unmarked
<1>7. InnerFirst'
  BY <1>2 DEF FinallyInvariant, InnerFirst
<1> QED BY <1>3, <1>5, <1>6, <1>7 DEF FinallyInvariant

(* Where the first step after a start or a switch stands.                       *)
LEMMA NextGuards ==
    ASSUME ScriptStands, verdict = "running", awaited = NoOne, UNCHANGED choice,
           Now.do = "spawn" \/ (Now.do = "switch" /\ Now.to) \/ Tracks(Now),
           Pass, awaited' = awaited
    PROVE  /\ DueNow' /\ Undoes(Now'.undo, Now)
           /\ verdict' = "running" /\ step' = step + 1
<1>1. step \in 1..Len(Script) /\ Now = Script[step] /\ program' = program
  BY NowFits DEF choice
<1>2. /\ step + 1 \in 1..Len(Script)
      /\ Script[step + 1].do = "guard" /\ Undoes(Script[step + 1].undo, Now)
  BY <1>1, GuardsAssumption DEF ScriptStands, Script
<1>3. verdict' = "running" /\ step' = step + 1
  BY <1>1, <1>2 DEF Pass, Script
<1>4. Now' = Script[step + 1]
  BY <1>1, <1>3 DEF Now, Script
<1> QED BY <1>2, <1>3, <1>4 DEF DueNow

(* A child that is started is to be killed.                                     *)
LEMMA SpawnGuards ==
    ASSUME RehearsalInvariant, FinallyInvariant, UNCHANGED choice, SpawnChild
    PROVE  FinallyInvariant'
<1>0. /\ ScriptStands /\ ReleaseInvariant /\ verdict = "running" /\ awaited = NoOne
      /\ Now.do = "spawn" /\ Pass /\ Launch("child", Now.op, Now.call)
      /\ UNCHANGED <<awaited, finally, tracking, choice>> /\ step \in Nat
      /\ ~DueNow
  BY DEF RehearsalInvariant, ScriptStands, SpawnChild, Start, At, DueNow
<1>1. DueNow' /\ Now'.undo.do = "kill" /\ verdict' = "running" /\ step' = step + 1
  BY <1>0, NextGuards DEF Undoes, Tracks
<1>2. pc' = [pc EXCEPT !["child"] = "opened"] /\ image' = image /\ program' = program
  BY <1>0 DEF Launch, db, choice
<1>3. Quiet'
  BY <1>0, <1>1, <1>2, ProcessesAssumption DEF FinallyInvariant, Quiet,
       ReleaseInvariant, ReleaseTypeOK
<1>4. Guarded'
  BY <1>0, <1>1 DEF FinallyInvariant, Guarded, Owed
<1>5. Unmarked'
  <2>1. \A k \in 1..(step - 1) : k \in 1..(step' - 1)
    BY <1>0, <1>1
  <2>2. Script' = Script
    BY <1>2 DEF Script
  <2> QED BY <1>2, <2>1, <2>2 DEF FinallyInvariant, Unmarked, Tracked
<1>6. InnerFirst'
  BY <1>0, <1>2 DEF FinallyInvariant, InnerFirst, Tracked
<1> QED BY <1>3, <1>4, <1>5, <1>6 DEF FinallyInvariant

(* The setting that is switched on is to be switched off.                       *)
LEMMA SwitchGuards ==
    ASSUME RehearsalInvariant, FinallyInvariant, UNCHANGED choice,
           AlterDatabase, At("switch"), Now.to
    PROVE  FinallyInvariant'
<1>0. /\ ScriptStands /\ verdict = "running" /\ awaited = NoOne
      /\ Now.do = "switch" /\ Pass
      /\ UNCHANGED <<awaited, finally, image, pc, choice>> /\ step \in Nat
      /\ ~DueNow
  BY DEF RehearsalInvariant, ScriptStands, AlterDatabase, At, DueNow, Beside, client
<1>1. DueNow' /\ Now'.undo.do = "switch" /\ verdict' = "running" /\ step' = step + 1
  BY <1>0, NextGuards DEF Undoes, Tracks
<1>2. program' = program
  BY <1>0 DEF choice
<1>3. Quiet'
  BY <1>0, <1>1 DEF FinallyInvariant, Quiet
<1>4. Guarded'
  BY <1>0, <1>1 DEF FinallyInvariant, Guarded, Owed
<1>5. Unmarked'
  <2>1. \A k \in 1..(step - 1) : k \in 1..(step' - 1)
    BY <1>0, <1>1
  <2>2. Script' = Script
    BY <1>2 DEF Script
  <2> QED BY <1>0, <2>1, <2>2 DEF FinallyInvariant, Unmarked, Tracked
<1>6. InnerFirst'
  BY <1>0 DEF FinallyInvariant, InnerFirst, Tracked
<1> QED BY <1>3, <1>4, <1>5, <1>6 DEF FinallyInvariant

(* So is a table that is tracked, and before the database.                      *)
LEMMA TrackGuards ==
    ASSUME RehearsalInvariant, FinallyInvariant, UNCHANGED choice,
           AlterDatabase, At("edit"), Tracks(Now)
    PROVE  FinallyInvariant'
<1>0. /\ ScriptStands /\ ReleaseInvariant /\ verdict = "running" /\ awaited = NoOne
      /\ Now.do = "edit" /\ Pass /\ SetItem(Now.migration, Now.item, Now.to)
      /\ UNCHANGED <<awaited, finally, tracking, pc, choice>> /\ step \in Nat \ {0}
      /\ ~DueNow
  BY DEF RehearsalInvariant, ScriptStands, AlterDatabase, At, DueNow, Beside, client
<1>1. /\ DueNow' /\ Untracks(Now'.undo, Now.migration)
      /\ verdict' = "running" /\ step' = step + 1
  BY <1>0, NextGuards DEF Undoes
<1>2. program' = program
  BY <1>0 DEF choice
<1>3. \A m \in Migrations : Tracked(m)' => Tracked(m) \/ m = Now.migration
  BY <1>0 DEF SetItem, Tracked, ReleaseInvariant, ReleaseTypeOK
<1>4. Quiet'
  BY <1>0, <1>1 DEF FinallyInvariant, Quiet
<1>5. Guarded'
  BY <1>0 DEF FinallyInvariant, Guarded, Owed
<1>6. Unmarked'
  <2>1. step \in 1..Len(Script) /\ Now = Script[step]
    BY <1>0, NowFits
  <2>2. step \in 1..(step' - 1) /\ Script' = Script
    BY <1>0, <1>1, <1>2 DEF Script
  <2> QED BY <2>1, <2>2 DEF Unmarked
<1>7. InnerFirst'
  BY <1>0, <1>1, <1>3 DEF FinallyInvariant, InnerFirst
<1> QED BY <1>4, <1>5, <1>6, <1>7 DEF FinallyInvariant
(* The block is entered: what it owes is owed first.                            *)
LEMMA PushGuards ==
    ASSUME RehearsalInvariant, FinallyInvariant, UNCHANGED choice, PushFinally
    PROVE  FinallyInvariant'
<1>0. /\ ScriptStands /\ verdict = "running" /\ awaited = NoOne /\ DueNow
      /\ Now.do = "guard" /\ Pass /\ finally \in Seq(Undos)
      /\ UNCHANGED <<image, pc, awaited, tracking, choice>> /\ step \in Nat \ {0}
      /\ program' = program /\ finally' = <<Now.undo>> \o finally
  BY DEF RehearsalInvariant, ScriptStands, PushFinally, At, DueNow, vars, choice
<1>1. step \in 1..Len(Script) /\ Now = Script[step] /\ step' = step + 1
  BY <1>0, NowFits DEF Pass
<1>2. Now.undo \in Undos
  BY <1>0, <1>1 DEF Undos, Script, ScriptStands
<1>3. /\ Len(finally) \in Nat /\ Len(finally') = Len(finally) + 1
      /\ finally'[1] = Now.undo
      /\ \A j \in 2..Len(finally') : finally'[j] = finally[j - 1]
  <2>1. <<Now.undo>> \in Seq(Undos) /\ Len(<<Now.undo>>) = 1 /\ <<Now.undo>>[1] = Now.undo
    BY <1>2
  <2> QED BY <1>0, <2>1, ConcatProperties, LenProperties
<1>4. \A j \in 1..Len(finally) : j + 1 \in 1..Len(finally') /\ finally'[j + 1] = finally[j]
  BY <1>3
<1>5. Quiet'
  <2>1. pc["outer"] \notin Busy
    BY <1>0, NamesAssumption, ProcessesAssumption DEF ScriptStands
  <2> QED BY <1>0, <2>1 DEF FinallyInvariant, Quiet
<1>6. Owed("kill") => Owed("kill")'
  BY <1>0, <1>3, <1>4 DEF Owed
<1>7. Owed("switch") => Owed("switch")'
  BY <1>0, <1>3, <1>4 DEF Owed
<1>8. Guarded'
  BY <1>0, <1>6, <1>7 DEF FinallyInvariant, Guarded
<1>9. Unmarked'
  <2>1. \A k \in 1..(step - 1) : k \in 1..(step' - 1)
    BY <1>0, <1>1
  <2>2. Script' = Script
    BY <1>0 DEF Script
  <2> QED BY <1>0, <2>1, <2>2 DEF FinallyInvariant, Unmarked, Tracked
<1>10. InnerFirst'
  <2> SUFFICES ASSUME NEW j \in 1..Len(finally'), finally'[j].do = "switch",
                      NEW m \in Migrations, Tracked(m)
               PROVE  \E i \in 1..(j - 1) : Untracks(finally'[i], m)
    BY <1>0 DEF InnerFirst, Tracked
  <2>1. CASE j = 1
    <3>1. Now.undo.do = "switch"
      BY <1>3, <2>1
    <3>2. \A k \in 1..(step - 1) : ~Tracks(Script[k])
      BY <1>0, <1>1, <3>1, GuardsAssumption DEF ScriptStands, Script
    <3> QED BY <3>2 DEF FinallyInvariant, Unmarked
  <2>2. CASE j # 1
    <3>1. j - 1 \in 1..Len(finally) /\ finally[j - 1].do = "switch"
      BY <1>3, <2>2
    <3>2. CASE \E i \in 1..(j - 2) : Untracks(finally[i], m)
      <4>1. PICK i \in 1..(j - 2) : Untracks(finally[i], m)
        BY <3>2
      <4>2. i + 1 \in 1..(j - 1) /\ finally'[i + 1] = finally[i]
        BY <1>3, <1>4, <4>1
      <4> QED BY <4>1, <4>2
    <3>3. CASE Untracks(Now.undo, m)
      BY <1>3, <2>2, <3>3
    <3> QED BY <3>1, <3>2, <3>3 DEF FinallyInvariant, InnerFirst
  <2> QED BY <2>1, <2>2
<1> QED BY <1>5, <1>8, <1>9, <1>10 DEF FinallyInvariant

(* A finally block has run: the child it names is dead, the setting it ends is  *)
(* off, because by then no table is tracked.                                    *)
LEMMA FinallyGuards ==
    ASSUME RehearsalInvariant, FinallyInvariant, UNCHANGED choice, RunFinally
    PROVE  FinallyInvariant'
<1> DEFINE u == Head(finally)
<1>0. /\ ScriptStands /\ ReleaseInvariant /\ finally \in Seq(Undos) /\ finally # <<>>
      /\ Undo(u) /\ finally' = Tail(finally) /\ awaited = NoOne /\ awaited' = awaited
      /\ step \in Nat \ {0} /\ program' = program /\ ~DueNow
  BY DEF RehearsalInvariant, ScriptStands, RunFinally, At, DueNow, choice
<1>1. /\ Len(finally) \in Nat \ {0} /\ Len(finally') = Len(finally) - 1
      /\ u = finally[1] /\ u \in Undos
      /\ \A j \in 1..Len(finally') : finally'[j] = finally[j + 1]
  <2>1. Len(finally) \in Nat /\ (Len(finally) = 0 <=> finally = <<>>)
    BY <1>0
  <2>2. u = finally[1]
    BY <1>0
  <2> QED BY <1>0, <2>1, <2>2, HeadTailProperties
<1>2. /\ u.do \in {"kill", "edit", "switch"} /\ ~Tracks(u)
      /\ u.do = "switch" => ~u.to
      /\ u.do = "edit" => EditFits(u)
  BY <1>1, UndosGuard, UndosFit
<1> HIDE DEF u
<1>3. \A j \in 2..Len(finally) : j - 1 \in 1..Len(finally') /\ finally'[j - 1] = finally[j]
  BY <1>1
<1>4. /\ pc' = pc \/ (u.do = "kill" /\ pc' = [pc EXCEPT !["child"] = "killed"])
      /\ u.do = "kill" => pc'["child"] \notin Busy
  BY <1>0, ProcessesAssumption DEF Undo, Kill, vars, Beside, client, Busy,
       ReleaseInvariant, ReleaseTypeOK
<1>5. /\ \A m \in Migrations : Tracked(m)' => Tracked(m)
      /\ u.do = "edit" => \A m \in Migrations : Untracks(u, m) => ~Tracked(m)'
  <2>1. CASE u.do = "edit"
    <3>1. image' = [image EXCEPT ![u.migration][u.item] = u.to]
      BY <1>0, <2>1 DEF Undo, SetItem
    <3> QED BY <1>0, <1>2, <2>1, <3>1, GuardsAssumption DEF EditFits, Tracks,
         Untracks, Tracked, ReleaseInvariant, ReleaseTypeOK
  <2>2. CASE u.do # "edit"
    <3>1. image' = image
      BY <1>0, <2>2 DEF Undo, Kill, vars, db
    <3> QED BY <2>2, <3>1 DEF Tracked
  <2> QED BY <2>1, <2>2
<1>6. u.do # "switch" => UNCHANGED tracking
  BY <1>0 DEF Undo
<1>7. u.do = "switch" => ~tracking'
  <2>1. u.do = "switch" => \A m \in Migrations : ~Tracked(m)
    BY <1>0, <1>1 DEF FinallyInvariant, InnerFirst
  <2> QED BY <1>0, <1>2, <2>1 DEF Undo, Tracked
<1>8. Quiet'
  <2>1. /\ verdict' # "running" => verdict # "running" \/ pc["outer"] \notin Busy
        /\ awaited' = NoOne
    BY <1>0, NamesAssumption, ProcessesAssumption DEF ScriptStands
  <2>2. /\ pc'["outer"] = pc["outer"]
        /\ \A r \in Runners \ {"outer", "child"} : pc'[r] = pc[r]
    BY <1>0, <1>4, ProcessesAssumption DEF ReleaseInvariant, ReleaseTypeOK
  <2> QED BY <2>1, <2>2 DEF FinallyInvariant, Quiet
<1>9. Guarded'
  <2>1. pc'["child"] \in Busy => u.do # "kill" /\ pc["child"] \in Busy
    BY <1>4
  <2>2. pc'["child"] \in Busy => Owed("kill")'
    BY <1>0, <1>1, <1>3, <2>1 DEF FinallyInvariant, Guarded, Owed
  <2>3. tracking' => u.do # "switch" /\ tracking
    BY <1>6, <1>7
  <2>4. u.do # "switch" /\ Owed("switch") => Owed("switch")'
    BY <1>0, <1>1, <1>3 DEF Owed
  <2>5. tracking' => Owed("switch")'
    BY <2>3, <2>4 DEF FinallyInvariant, Guarded
  <2> QED BY <2>2, <2>5 DEF Guarded
<1>10. Unmarked'
  <2>0. step' = step \/ step' = step + 1
    BY DEF RunFinally, Pass
  <2>1. \A k \in 1..(step - 1) : k \in 1..(step' - 1)
    BY <1>0, <2>0
  <2>2. Script' = Script
    BY <1>0 DEF Script
  <2> QED BY <1>5, <2>1, <2>2 DEF FinallyInvariant, Unmarked
<1>11. InnerFirst'
  <2> SUFFICES ASSUME NEW j \in 1..Len(finally'), finally'[j].do = "switch",
                      NEW m \in Migrations, Tracked(m)'
               PROVE  \E i \in 1..(j - 1) : Untracks(finally'[i], m)
    BY DEF InnerFirst
  <2>1. j + 1 \in 1..Len(finally) /\ finally[j + 1].do = "switch" /\ Tracked(m)
    BY <1>1, <1>5
  <2>2. PICK i \in 1..j : Untracks(finally[i], m)
    BY <1>0, <2>1 DEF FinallyInvariant, InnerFirst
  <2>3. i # 1
    BY <1>1, <1>5, <2>2 DEF Untracks
  <2>4. i - 1 \in 1..(j - 1) /\ finally'[i - 1] = finally[i]
    BY <1>1, <1>3, <2>2, <2>3
  <2> QED BY <2>2, <2>4
<1> QED BY <1>8, <1>9, <1>10, <1>11 DEF FinallyInvariant
(* Every other step of a rehearsal starts and switches on nothing.              *)
LEMMA OthersGuard ==
    ASSUME RehearsalInvariant, FinallyInvariant, UNCHANGED choice,
           \/ \E r \in Runners : RunnerRuns(r) \/ ServerRuns(r)
           \/ Outer \/ Compare \/ AwaitMarker \/ OccupyLock \/ Inspect
           \/ Leave \/ TimeOut
    PROVE  FinallyInvariant'
<1>0. /\ ScriptStands /\ ReleaseInvariant /\ step \in Nat /\ "outer" \in Runners
      /\ NoOne # "outer" /\ "child" \in Runners
  BY NamesAssumption, ProcessesAssumption DEF RehearsalInvariant, ScriptStands
<1>1. ASSUME NEW r \in Runners, RunnerRuns(r) \/ ServerRuns(r)
      PROVE  FinallyInvariant'
  <2>1. /\ \A t \in Runners : t # r => pc'[t] = pc[t]
        /\ pc' = pc \/ (pc[r] \in Busy /\ pc'[r] \in Busy \cup {"exited"})
    BY <1>0, <1>1, RunnerMoves
  <2>2. UNCHANGED <<step, awaited, verdict, finally, tracking>>
    BY <1>1 DEF RunnerRuns, ServerRuns
  <2>3. \A m \in Migrations : Tracked(m)' => Tracked(m)
    <3>1. CASE image' = image
      BY <3>1 DEF Tracked
    <3>2. CASE ServerCommit(r)
      BY <1>0, <3>2, GuardsAssumption DEF ServerCommit, Tracked,
           ReleaseInvariant, ReleaseTypeOK
    <3>3. image' = image \/ ServerCommit(r)
      BY <1>1 DEF RunnerRuns, ServerRuns, Advance, TakeLock, ReadHistory,
           ReadImages, Finish, InsertAttempt, Begin, Change, WriteReceipt,
           RequestCommit, Acknowledge, MarkFailed, Throw, LoseConnection,
           Reap, db
    <3> QED BY <3>1, <3>2, <3>3
  <2>4. /\ \A t \in Runners : pc'[t] \in Busy => pc[t] \in Busy
        /\ \A t \in Runners \ {"outer", "child"} : pc'[t] = pc[t]
    BY <2>1 DEF FinallyInvariant, Quiet, Busy
  <2>5. verdict' # "running" => awaited' = NoOne /\ pc'["outer"] \notin Busy
    BY <1>0, <2>2, <2>4 DEF FinallyInvariant, Quiet
  <2> QED BY <1>0, <2>2, <2>3, <2>4, <2>5, PlainKeeps
<1>2. CASE Outer
  <2>1. /\ ~DueNow /\ UNCHANGED <<step, verdict, finally, tracking>>
        /\ verdict = "running" /\ Launch("outer", Now.op, Now.call)
    BY <1>2 DEF Outer, Start, At, DueNow
  <2>2. /\ pc' = [pc EXCEPT !["outer"] = "opened"] /\ image' = image
    BY <2>1 DEF Launch, db
  <2>3. \A r \in Runners : r # "outer" => pc'[r] = pc[r]
    BY <1>0, <2>2 DEF ReleaseInvariant, ReleaseTypeOK
  <2>4. \A m \in Migrations : Tracked(m)' => Tracked(m)
    BY <2>2 DEF Tracked
  <2> QED BY <1>0, <2>1, <2>3, <2>4, PlainKeeps
<1>3. CASE Compare
  <2>1. /\ ~DueNow /\ UNCHANGED <<vars, finally, tracking>> /\ awaited' = NoOne
        /\ step' \in {step, step + 1} /\ pc["outer"] = "exited"
    BY <1>0, <1>3 DEF Compare, DueNow, Judge, Pass, Fail
  <2>2. pc' = pc /\ \A m \in Migrations : Tracked(m)' => Tracked(m)
    BY <2>1 DEF vars, Tracked
  <2> QED BY <2>1, <2>2, PlainKeeps DEF Busy
<1>4. CASE AwaitMarker \/ OccupyLock \/ Inspect \/ Leave
  <2>1. /\ ~DueNow /\ UNCHANGED <<image, pc, awaited, finally, tracking>>
        /\ step' \in {step, step + 1} /\ (awaited = NoOne \/ verdict' = verdict)
    BY <1>4 DEF AwaitMarker, OccupyLock, Inspect, Observed, Leave, At, DueNow,
         Judge, Pass, Fail, vars, db, client
  <2>2. verdict' # "running" => awaited' = NoOne /\ pc'["outer"] \notin Busy
    BY <1>0, <2>1 DEF FinallyInvariant, Quiet, ScriptStands
  <2>3. \A m \in Migrations : Tracked(m)' => Tracked(m)
    BY <2>1 DEF Tracked
  <2>4. /\ \A r \in Runners : pc'[r] \in Busy => pc[r] \in Busy \/ r = "outer"
        /\ \A r \in Runners \ {"outer", "child"} : pc'[r] = pc[r]
        /\ finally' = finally /\ (tracking' => tracking)
    BY <2>1
  <2> QED BY <2>1, <2>2, <2>3, <2>4, PlainKeeps
<1>5. CASE TimeOut
  <2>1. /\ ~DueNow /\ UNCHANGED <<finally, tracking, step>> /\ awaited' = NoOne
        /\ image' = image /\ verdict = "running"
        /\ \/ pc' = [pc EXCEPT !["outer"] = "killed"]
           \/ pc' = pc /\ awaited = NoOne
    BY <1>0, <1>5 DEF TimeOut, Fail, Kill, At, DueNow, vars, db
  <2>2. /\ \A r \in Runners : r # "outer" => pc'[r] = pc[r]
        /\ pc'["outer"] \notin Busy
    BY <1>0, <2>1 DEF ScriptStands, Busy, ReleaseInvariant, ReleaseTypeOK
  <2>3. \A m \in Migrations : Tracked(m)' => Tracked(m)
    BY <2>1 DEF Tracked
  <2> QED BY <2>1, <2>2, <2>3, PlainKeeps
<1> QED BY <1>1, <1>2, <1>3, <1>4, <1>5

(* What the program alters beside its runners.                                  *)
LEMMA AlterGuards ==
    ASSUME RehearsalInvariant, FinallyInvariant, UNCHANGED choice, AlterDatabase
    PROVE  FinallyInvariant'
<1>0. /\ ScriptStands /\ ReleaseInvariant /\ verdict = "running" /\ awaited = NoOne
      /\ ~DueNow /\ UNCHANGED <<pc, awaited, finally>> /\ pc["outer"] \notin Busy
      /\ NoOne # "outer"
  BY NamesAssumption, ProcessesAssumption DEF RehearsalInvariant, ScriptStands,
       AlterDatabase, At, DueNow, Beside, client
<1>1. CASE At("switch") /\ Now.to
  BY <1>1, SwitchGuards
<1>2. CASE At("edit") /\ Tracks(Now)
  BY <1>2, TrackGuards
<1>3. CASE ~(At("switch") /\ Now.to) /\ ~(At("edit") /\ Tracks(Now))
  <2>1. Fits(Now)
    BY <1>0, NowFits
  <2>2. \A m \in Migrations : Tracked(m)' => Tracked(m)
    <3>1. CASE image' = image
      BY <3>1 DEF Tracked
    <3>2. CASE At("edit") /\ SetItem(Now.migration, Now.item, Now.to)
      BY <1>0, <1>3, <2>1, <3>2 DEF At, SetItem, Fits, EditFits, Tracks,
           Tracked, ReleaseInvariant, ReleaseTypeOK
    <3>3. CASE image' = [image EXCEPT ![Now.migration] = [i \in Items |-> "after"]]
      BY <1>0, <3>3, GuardsAssumption DEF Tracked, ReleaseInvariant, ReleaseTypeOK
    <3> QED BY <3>1, <3>2, <3>3 DEF AlterDatabase
  <2>3. step' \in {step, step + 1}
    BY DEF AlterDatabase, Judge, Pass, Fail
  <2>4. tracking' => tracking
    BY <1>3 DEF AlterDatabase
  <2> QED BY <1>0, <2>2, <2>3, <2>4, PlainKeeps
<1> QED BY <1>1, <1>2, <1>3

(* However a program ends, it leaves no process and no setting behind it.       *)
THEOREM EndsCleanHolds == RehearsalSpec => []EndsClean
<1>1. RehearsalInit => FinallyInvariant
  <2> SUFFICES ASSUME RehearsalInit
               PROVE  FinallyInvariant
    OBVIOUS
  <2>1. /\ verdict = "running" /\ finally = <<>> /\ tracking = FALSE
        /\ \A r \in Runners : pc[r] = "idle"
        /\ \A m \in Migrations : \A i \in Items : image[m][i] = "before"
    BY DEF RehearsalInit, ReleaseInit
  <2>2. Quiet /\ Guarded
    BY <2>1, ProcessesAssumption DEF Quiet, Guarded, Busy
  <2>3. Unmarked /\ InnerFirst
    BY <2>1, GuardsAssumption DEF Unmarked, InnerFirst, Tracked
  <2> QED BY <2>2, <2>3 DEF FinallyInvariant
<1>2. RehearsalInvariant /\ FinallyInvariant /\ [RehearsalNext]_rehearsalVars => FinallyInvariant'
  <2> SUFFICES ASSUME RehearsalInvariant, FinallyInvariant,
                      [RehearsalNext]_rehearsalVars
               PROVE  FinallyInvariant'
    OBVIOUS
  <2>1. CASE UNCHANGED rehearsalVars
    BY <2>1 DEF rehearsalVars, harness, choice, vars, FinallyInvariant, Quiet,
         Guarded, Owed, DueNow, Now, Unmarked, Script, Tracked, InnerFirst
  <2>2. CASE RehearsalNext
    BY <2>2, OthersGuard, SpawnGuards, AlterGuards, PushGuards, FinallyGuards DEF
         RehearsalNext, HarnessStep
  <2> QED BY <2>1, <2>2
<1>3. RehearsalInvariant /\ FinallyInvariant => EndsClean
  <2> SUFFICES ASSUME RehearsalInvariant, FinallyInvariant, verdict # "running",
                      finally = <<>>
               PROVE  /\ \A r \in Runners :
                            /\ pc[r] \notin Busy
                            /\ server[r] # "idle" \/ lock = r => conn[r] = "lost"
                      /\ ~tracking
    BY DEF EndsClean
  <2>1. ~Owed("kill") /\ ~Owed("switch")
    BY DEF Owed, DueNow
  <2>2. ~tracking /\ pc["child"] \notin Busy /\ pc["outer"] \notin Busy
    BY <2>1 DEF FinallyInvariant, Guarded, Quiet
  <2>3. \A r \in Runners : pc[r] \notin Busy
    BY <2>2 DEF FinallyInvariant, Quiet, Busy
  <2>4. \A r \in Runners : server[r] # "idle" \/ lock = r => conn[r] = "lost"
    BY <2>3 DEF RehearsalInvariant, ReleaseInvariant, ReleaseTypeOK, LockHeld
  <2> QED BY <2>2, <2>3, <2>4
<1> QED BY <1>1, <1>2, <1>3, RehearsalInvariantHolds, PTL DEF RehearsalSpec
=============================================================================
