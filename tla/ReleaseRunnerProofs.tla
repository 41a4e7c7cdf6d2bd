------------------------- MODULE ReleaseRunnerProofs -------------------------
(* Theorems about ReleaseRunner for every set of runners, calls and attempts. *)
EXTENDS ReleaseRunner, TLAPS

(* What one release was told of its receipt stays so as long as rows of receipts *)
(* and of attempts that have succeeded are not touched.                         *)
LEMMA ReceiptStands ==
    ASSUME \A m \in Migrations : receipt[m] # NoRow => receipt'[m] = receipt[m],
           \A a \in Attempts : attempt[a].status = "Succeeded" => attempt'[a] = attempt[a],
           NEW c \in Calls, ReceiptIsMine(c)
    PROVE  ReceiptIsMine(c)'
  BY DEF ReceiptIsMine, NoRow, Migrations

(* The attempts a verdict rolled_back covers have not succeeded.                *)
LEMMA RolledBackRows ==
    ASSUME ReleaseInvariant, NEW r \in Runners, ReadImages(r),
           reading[r] = "rolled_back"
    PROVE  \A a \in Rows(Mig(r)) : attempt[a].status \in {"Started", "Failed"}
<1>1. receipt[Mig(r)] = NoRow
  BY DEF ReleaseInvariant, NoReceiptYet, ReadImages
<1> QED BY <1>1, NamesAssumption DEF ReleaseInvariant, ReleaseTypeOK,
     ReceiptsLinked, Rows, NoRow, NoAttempt

(* What holds of a transaction whose commit the server has received, and what   *)
(* the commit does to the two tables.                                           *)
LEMMA CommitFacts ==
    ASSUME ReleaseInvariant, NEW r \in Runners, ServerCommit(r)
    PROVE  /\ mine[r] \in Attempts /\ job[r].call \in Calls
           /\ attempt[mine[r]] = [status |-> "Started", call |-> job[r].call]
           /\ mine[r] \notin denied /\ receipt[Mig(r)] = NoRow
           /\ Mig(r) \in Migrations /\ lock = r
           /\ attempt' = [attempt EXCEPT ![mine[r]] = [status |-> "Succeeded", call |-> job[r].call]]
           /\ receipt' = [receipt EXCEPT ![Mig(r)] =
                 [status |-> "Applied", pin |-> job[r].call.pin, attempt |-> mine[r]]]
<1>1. server[r] # "idle" /\ server[r] \in {"receipted", "commitSent"}
  BY DEF ServerCommit
<1>2. lock = r /\ conn[r] # "none"
  BY <1>1 DEF ReleaseInvariant, LockHeld
<1>3. job[r].call \in Calls
  BY <1>2 DEF ReleaseInvariant, CallKnown
<1>4. /\ mine[r] \in Attempts /\ mine[r] \notin denied
      /\ attempt[mine[r]] = [status |-> "Started", call |-> job[r].call]
  BY <1>1 DEF ReleaseInvariant, AttemptInFlight, InFlight
<1>5. receipt[Mig(r)] = NoRow /\ Mig(r) \in Migrations
  BY <1>1, <1>3 DEF ReleaseInvariant, NoReceiptYet, Migrations, Mig
<1>6. attempt[mine[r]].call = job[r].call
  BY <1>4
<1>7. attempt' = [attempt EXCEPT ![mine[r]] = [status |-> "Succeeded", call |-> job[r].call]]
  BY <1>6 DEF ServerCommit, WithStatus
<1>8. receipt' = [receipt EXCEPT ![Mig(r)] =
         [status |-> "Applied", pin |-> job[r].call.pin, attempt |-> mine[r]]]
  BY DEF ServerCommit
<1> QED BY <1>2, <1>3, <1>4, <1>5, <1>7, <1>8

(* A process starts and opens its connection: nothing is in flight for it,   *)
(* because the server has noticed the end of its last one.                   *)
LEMMA LaunchKeeps ==
    ASSUME ReleaseInvariant, NEW r \in Runners, NEW op \in Operations, NEW c \in Calls, Launch(r, op, c)
    PROVE  ReleaseInvariant'
<1>1. ReleaseTypeOK'
  BY DEF ReleaseInvariant, ReleaseTypeOK, Steps, Verdicts, LockHeld,
       AttemptInFlight, InFlight, CallKnown, AtLock, Busy, Rows, Launch, db
<1>2. LockHeld'
  BY DEF ReleaseInvariant, ReleaseTypeOK, LockHeld, AtLock, Busy, Steps,
       Launch, db
<1>3. ServerAgrees'
  BY DEF ReleaseInvariant, ReleaseTypeOK, LockHeld, ServerAgrees, AtLock,
       Busy, Steps, Launch, db
<1>4. AttemptInFlight'
  BY DEF ReleaseInvariant, ReleaseTypeOK, LockHeld, ServerAgrees,
       AttemptInFlight, InFlight, AtLock, Busy, Steps, Launch, db
<1>5. CallKnown'
  BY DEF ReleaseInvariant, ReleaseTypeOK, CallKnown, LockHeld, Busy,
       Steps, Launch, db
<1>6. NoReceiptYet'
  BY DEF ReleaseInvariant, ReleaseTypeOK, NoReceiptYet, LockHeld,
       ServerAgrees, AtLock, Busy, Steps, Mig, Launch, db
<1>7. ReceiptsLinked'
  BY DEF ReleaseInvariant, ReleaseTypeOK, ReceiptsLinked, Launch, db
<1>8. DeniedFinal'
  BY DEF ReleaseInvariant, ReleaseTypeOK, DeniedFinal, Launch, db
<1>9. ReadingStands'
  BY DEF ReleaseInvariant, ReleaseTypeOK, ReadingStands, ReceiptIsMine,
       Verdicts, Launch, db
<1>10. ZeroIsMine'
  BY DEF ReleaseInvariant, ReleaseTypeOK, ZeroIsMine, ReadingStands,
       ReceiptIsMine, Launch, db
<1> QED BY <1>1, <1>2, <1>3, <1>4, <1>5, <1>6, <1>7, <1>8, <1>9, <1>10 DEF
     ReleaseInvariant

(* sp_getapplock gives the lock to one owner; a refused one leaves with 20.  *)
LEMMA TakeLockKeeps ==
    ASSUME ReleaseInvariant, NEW r \in Runners, TakeLock(r)
    PROVE  ReleaseInvariant'
<1>1. ReleaseTypeOK'
  <2>1. image' \in [Migrations -> [Items -> Images]]
    BY DEF ReleaseInvariant, ReleaseTypeOK, Steps, Busy, TakeLock, Exit,
         Goto, db
  <2>2. receipt' \in [Migrations -> {NoRow} \cup
        [status : {"Applied"}, pin : {c.pin : c \in Calls}, attempt : Attempts]]
    BY DEF ReleaseInvariant, ReleaseTypeOK, Steps, Busy, TakeLock, Exit,
         Goto, db
  <2>3. attempt' \in [Attempts -> {NoAttempt} \cup
        [status : {"Started", "Failed", "Succeeded"}, call : Calls]]
    BY DEF ReleaseInvariant, ReleaseTypeOK, Steps, Busy, TakeLock, Exit,
         Goto, db
  <2>4. lock' \in Runners \cup {NoOne, "fixture"} /\ pc' \in [Runners -> Steps]
    BY DEF ReleaseInvariant, ReleaseTypeOK, Steps, Busy, TakeLock, Exit,
         Goto, db
  <2>5. job' \in [Runners -> {NoJob} \cup [op : Operations, call : Calls]]
    BY DEF ReleaseInvariant, ReleaseTypeOK, Steps, Busy, TakeLock, Exit,
         Goto, db
  <2>6. conn' \in [Runners -> {"none", "open", "lost"}]
    BY DEF ReleaseInvariant, ReleaseTypeOK, Steps, Busy, TakeLock, Exit,
         Goto, db
  <2>7. server' \in [Runners ->
        {"idle", "open", "changed", "receipted", "commitSent"}]
    BY DEF ReleaseInvariant, ReleaseTypeOK, Steps, Busy, TakeLock, Exit,
         Goto, db
  <2>8. reading' \in [Runners -> {"none"} \cup Verdicts]
    BY DEF ReleaseInvariant, ReleaseTypeOK, Steps, Busy, TakeLock, Exit,
         Goto, db
  <2>9. mine' \in [Runners -> Attempts \cup {NoOne}]
    BY DEF ReleaseInvariant, ReleaseTypeOK, Steps, Busy, TakeLock, Exit,
         Goto, db
  <2>10. code' \in [Runners -> {"none", "0", "10", "11", "20"}]
    BY DEF ReleaseInvariant, ReleaseTypeOK, Steps, Busy, TakeLock, Exit,
         Goto, db
  <2>11. denied' \subseteq Attempts
    BY DEF ReleaseInvariant, ReleaseTypeOK, Steps, Busy, TakeLock, Exit,
         Goto, db
  <2> QED BY <2>1, <2>2, <2>3, <2>4, <2>5, <2>6, <2>7, <2>8, <2>9, <2>10,
       <2>11 DEF ReleaseTypeOK
<1>2. LockHeld'
  <2>1. CASE lock = NoOne
    BY <2>1, NamesAssumption DEF ReleaseInvariant, ReleaseTypeOK,
         LockHeld, AtLock, Busy, Steps, TakeLock, Exit, Goto, db
  <2>2. CASE ~(lock = NoOne)
    BY <2>2, NamesAssumption DEF ReleaseInvariant, ReleaseTypeOK,
         LockHeld, AtLock, Busy, Steps, TakeLock, Exit, Goto, db
  <2> QED BY <2>1, <2>2
<1>3. ServerAgrees'
  BY DEF ReleaseInvariant, ReleaseTypeOK, LockHeld, ServerAgrees, AtLock,
       Busy, Steps, TakeLock, Exit, Goto, db
<1>4. AttemptInFlight'
  BY DEF ReleaseInvariant, ReleaseTypeOK, LockHeld, ServerAgrees,
       AttemptInFlight, InFlight, AtLock, Busy, Steps, TakeLock, Exit, Goto, db
<1>5. CallKnown'
  BY DEF ReleaseInvariant, ReleaseTypeOK, CallKnown, LockHeld, Busy,
       Steps, TakeLock, Exit, Goto, db
<1>6. NoReceiptYet'
  BY DEF ReleaseInvariant, ReleaseTypeOK, NoReceiptYet, LockHeld,
       ServerAgrees, AtLock, Busy, Steps, Mig, TakeLock, Exit, Goto, db
<1>7. ReceiptsLinked'
  BY DEF ReleaseInvariant, ReleaseTypeOK, ReceiptsLinked, TakeLock, Exit,
       Goto, db
<1>8. DeniedFinal'
  BY DEF ReleaseInvariant, ReleaseTypeOK, DeniedFinal, TakeLock, Exit, Goto, db
<1>9. ReadingStands'
  BY DEF ReleaseInvariant, ReleaseTypeOK, ReadingStands, ReceiptIsMine,
       Verdicts, TakeLock, Exit, Goto, db
<1>10. ZeroIsMine'
  BY DEF ReleaseInvariant, ReleaseTypeOK, ZeroIsMine, ReadingStands,
       ReceiptIsMine, TakeLock, Exit, Goto, db
<1> QED BY <1>1, <1>2, <1>3, <1>4, <1>5, <1>6, <1>7, <1>8, <1>9, <1>10 DEF
     ReleaseInvariant

(* A profile whose environment, predecessors or backups are missing ends     *)
(* without writing.                                                          *)
LEMMA UnreadyKeeps ==
    ASSUME ReleaseInvariant, NEW r \in Runners, Unready(r)
    PROVE  ReleaseInvariant'
<1>1. ReleaseTypeOK'
  BY DEF ReleaseInvariant, ReleaseTypeOK, Steps, Verdicts, LockHeld,
       AttemptInFlight, InFlight, CallKnown, AtLock, Busy, Rows, Unready, Exit,
       db
<1>2. LockHeld'
  BY DEF ReleaseInvariant, ReleaseTypeOK, LockHeld, AtLock, Busy, Steps,
       Unready, Exit, db
<1>3. ServerAgrees'
  BY DEF ReleaseInvariant, ReleaseTypeOK, LockHeld, ServerAgrees, AtLock,
       Busy, Steps, Unready, Exit, db
<1>4. AttemptInFlight'
  BY DEF ReleaseInvariant, ReleaseTypeOK, LockHeld, ServerAgrees,
       AttemptInFlight, InFlight, AtLock, Busy, Steps, Unready, Exit, db
<1>5. CallKnown'
  BY DEF ReleaseInvariant, ReleaseTypeOK, CallKnown, LockHeld, Busy,
       Steps, Unready, Exit, db
<1>6. NoReceiptYet'
  BY DEF ReleaseInvariant, ReleaseTypeOK, NoReceiptYet, LockHeld,
       ServerAgrees, AtLock, Busy, Steps, Mig, Unready, Exit, db
<1>7. ReceiptsLinked'
  BY DEF ReleaseInvariant, ReleaseTypeOK, ReceiptsLinked, Unready, Exit, db
<1>8. DeniedFinal'
  BY DEF ReleaseInvariant, ReleaseTypeOK, DeniedFinal, Unready, Exit, db
<1>9. ReadingStands'
  BY DEF ReleaseInvariant, ReleaseTypeOK, ReadingStands, ReceiptIsMine,
       Verdicts, Unready, Exit, db
<1>10. ZeroIsMine'
  BY DEF ReleaseInvariant, ReleaseTypeOK, ZeroIsMine, ReadingStands,
       ReceiptIsMine, Unready, Exit, db
<1> QED BY <1>1, <1>2, <1>3, <1>4, <1>5, <1>6, <1>7, <1>8, <1>9, <1>10 DEF
     ReleaseInvariant

(* The verdict read from the two tables is true of them while the lock is    *)
(* held.                                                                     *)
LEMMA ReadHistoryKeeps ==
    ASSUME ReleaseInvariant, NEW r \in Runners, ReadHistory(r)
    PROVE  ReleaseInvariant'
<1>1. ReleaseTypeOK'
  <2>1. image' \in [Migrations -> [Items -> Images]]
    BY DEF ReleaseInvariant, ReleaseTypeOK, Steps, Busy, ReadHistory,
         Verdicts, Exit, Goto, db
  <2>2. receipt' \in [Migrations -> {NoRow} \cup
        [status : {"Applied"}, pin : {c.pin : c \in Calls}, attempt : Attempts]]
    BY DEF ReleaseInvariant, ReleaseTypeOK, Steps, Busy, ReadHistory,
         Verdicts, Exit, Goto, db
  <2>3. attempt' \in [Attempts -> {NoAttempt} \cup
        [status : {"Started", "Failed", "Succeeded"}, call : Calls]]
    BY DEF ReleaseInvariant, ReleaseTypeOK, Steps, Busy, ReadHistory,
         Verdicts, Exit, Goto, db
  <2>4. lock' \in Runners \cup {NoOne, "fixture"} /\ pc' \in [Runners -> Steps]
    BY DEF ReleaseInvariant, ReleaseTypeOK, Steps, Busy, ReadHistory,
         Verdicts, Exit, Goto, db
  <2>5. job' \in [Runners -> {NoJob} \cup [op : Operations, call : Calls]]
    BY DEF ReleaseInvariant, ReleaseTypeOK, Steps, Busy, ReadHistory,
         Verdicts, Exit, Goto, db
  <2>6. conn' \in [Runners -> {"none", "open", "lost"}]
    BY DEF ReleaseInvariant, ReleaseTypeOK, Steps, Busy, ReadHistory,
         Verdicts, Exit, Goto, db
  <2>7. server' \in [Runners ->
        {"idle", "open", "changed", "receipted", "commitSent"}]
    BY DEF ReleaseInvariant, ReleaseTypeOK, Steps, Busy, ReadHistory,
         Verdicts, Exit, Goto, db
  <2>8. reading' \in [Runners -> {"none"} \cup Verdicts]
    BY DEF ReleaseInvariant, ReleaseTypeOK, Steps, Busy, ReadHistory,
         Verdicts, Exit, Goto, db
  <2>9. mine' \in [Runners -> Attempts \cup {NoOne}]
    BY DEF ReleaseInvariant, ReleaseTypeOK, Steps, Busy, ReadHistory,
         Verdicts, Exit, Goto, db
  <2>10. code' \in [Runners -> {"none", "0", "10", "11", "20"}]
    BY DEF ReleaseInvariant, ReleaseTypeOK, Steps, Busy, ReadHistory,
         Verdicts, Exit, Goto, db
  <2>11. denied' \subseteq Attempts
    BY DEF ReleaseInvariant, ReleaseTypeOK, Steps, Busy, ReadHistory,
         Verdicts, Exit, Goto, db
  <2> QED BY <2>1, <2>2, <2>3, <2>4, <2>5, <2>6, <2>7, <2>8, <2>9, <2>10,
       <2>11 DEF ReleaseTypeOK
<1>2. LockHeld'
  BY DEF ReleaseInvariant, ReleaseTypeOK, LockHeld, AtLock, Busy, Steps,
       ReadHistory, Exit, Goto, db
<1>3. ServerAgrees'
  BY DEF ReleaseInvariant, ReleaseTypeOK, LockHeld, ServerAgrees, AtLock,
       Busy, Steps, ReadHistory, Exit, Goto, db
<1>4. AttemptInFlight'
  BY DEF ReleaseInvariant, ReleaseTypeOK, LockHeld, ServerAgrees,
       AttemptInFlight, InFlight, AtLock, Busy, Steps, ReadHistory, Exit, Goto,
       db
<1>5. CallKnown'
  BY DEF ReleaseInvariant, ReleaseTypeOK, CallKnown, LockHeld, Busy,
       Steps, ReadHistory, Exit, Goto, db
<1>6. NoReceiptYet'
  <2>1. receipt[Mig(r)].status = "none" => receipt[Mig(r)] = NoRow
    BY DEF ReleaseInvariant, ReleaseTypeOK, CallKnown, Migrations, Mig,
         ReadHistory, NoRow
  <2>2. pc'[r] = "history" /\ reading'[r] # "committed" => receipt[Mig(r)].status = "none"
    BY DEF ReleaseInvariant, ReleaseTypeOK, ReadHistory, Mig, Goto, Exit,
         Steps, Busy
  <2>3. ASSUME NEW t \in Runners, t # r
        PROVE  pc'[t] = pc[t] /\ reading'[t] = reading[t]
    BY <2>3 DEF ReleaseInvariant, ReleaseTypeOK, ReadHistory, Goto, Exit
  <2>4. server' = server /\ job' = job /\ receipt' = receipt
    BY DEF ReadHistory, Goto, Exit, db
  <2> QED BY <2>1, <2>2, <2>3, <2>4 DEF ReleaseInvariant, NoReceiptYet, Mig
<1>7. ReceiptsLinked'
  BY DEF ReleaseInvariant, ReleaseTypeOK, ReceiptsLinked, ReadHistory,
       Exit, Goto, db
<1>8. DeniedFinal'
  BY DEF ReleaseInvariant, ReleaseTypeOK, DeniedFinal, ReadHistory, Exit,
       Goto, db
<1>9. ReadingStands'
  BY DEF ReleaseInvariant, ReleaseTypeOK, ReadingStands, ReceiptIsMine,
       Verdicts, ReadHistory, Exit, Goto, db
<1>10. ZeroIsMine'
  BY DEF ReleaseInvariant, ReleaseTypeOK, ZeroIsMine, ReadingStands,
       ReceiptIsMine, ReadHistory, Exit, Goto, db
<1> QED BY <1>1, <1>2, <1>3, <1>4, <1>5, <1>6, <1>7, <1>8, <1>9, <1>10 DEF
     ReleaseInvariant

(* A verdict rolled_back covers attempts that can no longer succeed.         *)
LEMMA ReadImagesKeeps ==
    ASSUME ReleaseInvariant, NEW r \in Runners, ReadImages(r)
    PROVE  ReleaseInvariant'
<1>1. ReleaseTypeOK'
  <2>1. image' \in [Migrations -> [Items -> Images]]
    BY DEF ReleaseInvariant, ReleaseTypeOK, Steps, Busy, ReadImages, Rows,
         Exit, Goto, db
  <2>2. receipt' \in [Migrations -> {NoRow} \cup
        [status : {"Applied"}, pin : {c.pin : c \in Calls}, attempt : Attempts]]
    BY DEF ReleaseInvariant, ReleaseTypeOK, Steps, Busy, ReadImages, Rows,
         Exit, Goto, db
  <2>3. attempt' \in [Attempts -> {NoAttempt} \cup
        [status : {"Started", "Failed", "Succeeded"}, call : Calls]]
    BY DEF ReleaseInvariant, ReleaseTypeOK, Steps, Busy, ReadImages, Rows,
         Exit, Goto, db
  <2>4. lock' \in Runners \cup {NoOne, "fixture"} /\ pc' \in [Runners -> Steps]
    BY DEF ReleaseInvariant, ReleaseTypeOK, Steps, Busy, ReadImages, Rows,
         Exit, Goto, db
  <2>5. job' \in [Runners -> {NoJob} \cup [op : Operations, call : Calls]]
    BY DEF ReleaseInvariant, ReleaseTypeOK, Steps, Busy, ReadImages, Rows,
         Exit, Goto, db
  <2>6. conn' \in [Runners -> {"none", "open", "lost"}]
    BY DEF ReleaseInvariant, ReleaseTypeOK, Steps, Busy, ReadImages, Rows,
         Exit, Goto, db
  <2>7. server' \in [Runners ->
        {"idle", "open", "changed", "receipted", "commitSent"}]
    BY DEF ReleaseInvariant, ReleaseTypeOK, Steps, Busy, ReadImages, Rows,
         Exit, Goto, db
  <2>8. reading' \in [Runners -> {"none"} \cup Verdicts]
    BY DEF ReleaseInvariant, ReleaseTypeOK, Steps, Busy, ReadImages, Rows,
         Exit, Goto, db
  <2>9. mine' \in [Runners -> Attempts \cup {NoOne}]
    BY DEF ReleaseInvariant, ReleaseTypeOK, Steps, Busy, ReadImages, Rows,
         Exit, Goto, db
  <2>10. code' \in [Runners -> {"none", "0", "10", "11", "20"}]
    BY DEF ReleaseInvariant, ReleaseTypeOK, Steps, Busy, ReadImages, Rows,
         Exit, Goto, db
  <2>11. denied' \subseteq Attempts
    BY DEF ReleaseInvariant, ReleaseTypeOK, Steps, Busy, ReadImages, Rows,
         Exit, Goto, db
  <2> QED BY <2>1, <2>2, <2>3, <2>4, <2>5, <2>6, <2>7, <2>8, <2>9, <2>10,
       <2>11 DEF ReleaseTypeOK
<1>2. LockHeld'
  BY DEF ReleaseInvariant, ReleaseTypeOK, LockHeld, AtLock, Busy, Steps,
       ReadImages, Exit, Goto, db
<1>3. ServerAgrees'
  BY DEF ReleaseInvariant, ReleaseTypeOK, LockHeld, ServerAgrees, AtLock,
       Busy, Steps, ReadImages, Exit, Goto, db
<1>4. AttemptInFlight'
  BY DEF ReleaseInvariant, ReleaseTypeOK, LockHeld, ServerAgrees,
       AttemptInFlight, InFlight, AtLock, Busy, Steps, ReadImages, Exit, Goto,
       db
<1>5. CallKnown'
  BY DEF ReleaseInvariant, ReleaseTypeOK, CallKnown, LockHeld, Busy,
       Steps, ReadImages, Exit, Goto, db
<1>6. NoReceiptYet'
  BY DEF ReleaseInvariant, ReleaseTypeOK, NoReceiptYet, LockHeld,
       ServerAgrees, AtLock, Busy, Steps, Mig, ReadImages, Exit, Goto, db
<1>7. ReceiptsLinked'
  BY DEF ReleaseInvariant, ReleaseTypeOK, ReceiptsLinked, ReadImages,
       Exit, Goto, db
<1>8. DeniedFinal'
  <2>1. CASE reading[r] = "rolled_back"
    <3>1. \A a \in Rows(Mig(r)) : attempt[a].status \in {"Started", "Failed"}
      BY <2>1, RolledBackRows
    <3> QED BY <2>1, <3>1 DEF ReleaseInvariant, DeniedFinal, ReadImages, db
  <2>2. CASE reading[r] # "rolled_back"
    BY <2>2 DEF ReleaseInvariant, DeniedFinal, ReadImages, db
  <2> QED BY <2>1, <2>2
<1>9. ReadingStands'
  BY DEF ReleaseInvariant, ReleaseTypeOK, ReadingStands, ReceiptIsMine,
       Verdicts, ReadImages, Exit, Goto, db
<1>10. ZeroIsMine'
  BY DEF ReleaseInvariant, ReleaseTypeOK, ZeroIsMine, ReadingStands,
       ReceiptIsMine, ReadImages, Exit, Goto, db
<1> QED BY <1>1, <1>2, <1>3, <1>4, <1>5, <1>6, <1>7, <1>8, <1>9, <1>10 DEF
     ReleaseInvariant

(* Exit 0 follows a verdict committed, which still stands.                   *)
LEMMA FinishKeeps ==
    ASSUME ReleaseInvariant, NEW r \in Runners, Finish(r)
    PROVE  ReleaseInvariant'
<1>1. ReleaseTypeOK'
  <2>1. image' \in [Migrations -> [Items -> Images]]
    BY DEF ReleaseInvariant, ReleaseTypeOK, Steps, Busy, ReadingStands,
         Verdicts, Finish, ExitCode, Exit, db
  <2>2. receipt' \in [Migrations -> {NoRow} \cup
        [status : {"Applied"}, pin : {c.pin : c \in Calls}, attempt : Attempts]]
    BY DEF ReleaseInvariant, ReleaseTypeOK, Steps, Busy, ReadingStands,
         Verdicts, Finish, ExitCode, Exit, db
  <2>3. attempt' \in [Attempts -> {NoAttempt} \cup
        [status : {"Started", "Failed", "Succeeded"}, call : Calls]]
    BY DEF ReleaseInvariant, ReleaseTypeOK, Steps, Busy, ReadingStands,
         Verdicts, Finish, ExitCode, Exit, db
  <2>4. lock' \in Runners \cup {NoOne, "fixture"} /\ pc' \in [Runners -> Steps]
    BY DEF ReleaseInvariant, ReleaseTypeOK, Steps, Busy, ReadingStands,
         Verdicts, Finish, ExitCode, Exit, db
  <2>5. job' \in [Runners -> {NoJob} \cup [op : Operations, call : Calls]]
    BY DEF ReleaseInvariant, ReleaseTypeOK, Steps, Busy, ReadingStands,
         Verdicts, Finish, ExitCode, Exit, db
  <2>6. conn' \in [Runners -> {"none", "open", "lost"}]
    BY DEF ReleaseInvariant, ReleaseTypeOK, Steps, Busy, ReadingStands,
         Verdicts, Finish, ExitCode, Exit, db
  <2>7. server' \in [Runners ->
        {"idle", "open", "changed", "receipted", "commitSent"}]
    BY DEF ReleaseInvariant, ReleaseTypeOK, Steps, Busy, ReadingStands,
         Verdicts, Finish, ExitCode, Exit, db
  <2>8. reading' \in [Runners -> {"none"} \cup Verdicts]
    BY DEF ReleaseInvariant, ReleaseTypeOK, Steps, Busy, ReadingStands,
         Verdicts, Finish, ExitCode, Exit, db
  <2>9. mine' \in [Runners -> Attempts \cup {NoOne}]
    BY DEF ReleaseInvariant, ReleaseTypeOK, Steps, Busy, ReadingStands,
         Verdicts, Finish, ExitCode, Exit, db
  <2>10. code' \in [Runners -> {"none", "0", "10", "11", "20"}]
    BY DEF ReleaseInvariant, ReleaseTypeOK, Steps, Busy, ReadingStands,
         Verdicts, Finish, ExitCode, Exit, db
  <2>11. denied' \subseteq Attempts
    BY DEF ReleaseInvariant, ReleaseTypeOK, Steps, Busy, ReadingStands,
         Verdicts, Finish, ExitCode, Exit, db
  <2> QED BY <2>1, <2>2, <2>3, <2>4, <2>5, <2>6, <2>7, <2>8, <2>9, <2>10,
       <2>11 DEF ReleaseTypeOK
<1>2. LockHeld'
  BY DEF ReleaseInvariant, ReleaseTypeOK, LockHeld, AtLock, Busy, Steps,
       Finish, Exit, ExitCode, db
<1>3. ServerAgrees'
  BY DEF ReleaseInvariant, ReleaseTypeOK, LockHeld, ServerAgrees, AtLock,
       Busy, Steps, Finish, Exit, ExitCode, db
<1>4. AttemptInFlight'
  BY DEF ReleaseInvariant, ReleaseTypeOK, LockHeld, ServerAgrees,
       AttemptInFlight, InFlight, AtLock, Busy, Steps, Finish, Exit, ExitCode,
       db
<1>5. CallKnown'
  BY DEF ReleaseInvariant, ReleaseTypeOK, CallKnown, LockHeld, Busy,
       Steps, Finish, Exit, ExitCode, db
<1>6. NoReceiptYet'
  BY DEF ReleaseInvariant, ReleaseTypeOK, NoReceiptYet, LockHeld,
       ServerAgrees, AtLock, Busy, Steps, Mig, Finish, Exit, ExitCode, db
<1>7. ReceiptsLinked'
  BY DEF ReleaseInvariant, ReleaseTypeOK, ReceiptsLinked, Finish, Exit,
       ExitCode, db
<1>8. DeniedFinal'
  BY DEF ReleaseInvariant, ReleaseTypeOK, DeniedFinal, Finish, Exit,
       ExitCode, db
<1>9. ReadingStands'
  BY DEF ReleaseInvariant, ReleaseTypeOK, ReadingStands, ReceiptIsMine,
       Verdicts, Finish, Exit, ExitCode, db
<1>10. ZeroIsMine'
  <2>3. /\ r \in DOMAIN code /\ r \in DOMAIN job
        /\ \A t \in Runners : t # r => code'[t] = code[t]
        /\ job' = job /\ pc[r] = "decided"
        /\ code'[r] = IF job[r].op = "Preflight" THEN "0" ELSE ExitCode(reading[r])
    BY DEF ReleaseInvariant, ReleaseTypeOK, Finish, Exit
  <2>2. ASSUME NEW t \in Runners, code'[t] = "0", job'[t].op # "Preflight"
        PROVE  ReceiptIsMine(job[t].call)'
    <3>1. CASE t = r
      <4>1. reading[r] \in Verdicts /\ job[r].op # "Preflight"
        BY <2>2, <2>3, <3>1 DEF ReleaseInvariant, ReadingStands
      <4>2. ExitCode(reading[r]) = "0"
        BY <2>2, <2>3, <3>1, <4>1
      <4>3. reading[r] = "committed"
        BY <4>1, <4>2 DEF Verdicts, ExitCode
      <4>4. job[r].call \in Calls /\ ReceiptIsMine(job[r].call)
        BY <2>3, <4>3 DEF ReleaseInvariant, ReadingStands, CallKnown
      <4>5. ReceiptIsMine(job[r].call)'
        BY <4>4, <2>3 DEF ReceiptIsMine, Finish, db
      <4> QED BY <3>1, <4>5
    <3>2. CASE t # r
      <4>1. code[t] = "0" /\ job[t].op # "Preflight"
        BY <2>2, <2>3, <3>2
      <4>2. job[t].call \in Calls /\ ReceiptIsMine(job[t].call)
        BY <4>1 DEF ReleaseInvariant, ZeroIsMine, CallKnown
      <4>3. ReceiptIsMine(job[t].call)'
        BY <4>2, <2>3 DEF ReceiptIsMine, Finish, db
      <4> QED BY <4>3
    <3> QED BY <3>1, <3>2
  <2> QED BY <2>2 DEF ZeroIsMine
<1> QED BY <1>1, <1>2, <1>3, <1>4, <1>5, <1>6, <1>7, <1>8, <1>9, <1>10 DEF
     ReleaseInvariant

(* The attempt takes a DeploymentId nobody has used.                         *)
LEMMA InsertAttemptKeeps ==
    ASSUME ReleaseInvariant, NEW r \in Runners, InsertAttempt(r)
    PROVE  ReleaseInvariant'
<1>1. ReleaseTypeOK'
  BY DEF ReleaseInvariant, ReleaseTypeOK, Steps, Verdicts, LockHeld,
       AttemptInFlight, InFlight, CallKnown, AtLock, Busy, Rows, InsertAttempt,
       Goto
<1>2. LockHeld'
  BY DEF ReleaseInvariant, ReleaseTypeOK, LockHeld, AtLock, Busy, Steps,
       InsertAttempt, Goto
<1>3. ServerAgrees'
  BY DEF ReleaseInvariant, ReleaseTypeOK, LockHeld, ServerAgrees, AtLock,
       Busy, Steps, InsertAttempt, Goto
<1>4. AttemptInFlight'
  <2>1. PICK a \in Attempts : /\ attempt[a] = NoAttempt
                              /\ attempt' = [attempt EXCEPT ![a] =
                                    [status |-> "Started", call |-> job[r].call]]
                              /\ mine' = [mine EXCEPT ![r] = a]
    BY DEF InsertAttempt
  <2>2. a \notin denied
    BY <2>1 DEF ReleaseInvariant, DeniedFinal, NoAttempt
  <2>3. ASSUME NEW t \in Runners, InFlight(t)'
        PROVE  /\ mine'[t] \in Attempts
               /\ attempt'[mine'[t]] = [status |-> "Started", call |-> job'[t].call]
               /\ mine'[t] \notin denied'
    <3>1. CASE t = r
      BY <2>1, <2>2, <3>1 DEF ReleaseInvariant, ReleaseTypeOK,
           InsertAttempt, Goto
    <3>2. CASE t # r
      BY <2>1, <2>3, <3>2 DEF ReleaseInvariant, ReleaseTypeOK,
           AttemptInFlight, InFlight, NoAttempt, InsertAttempt, Goto
    <3> QED BY <3>1, <3>2
  <2> QED BY <2>3 DEF AttemptInFlight
<1>5. CallKnown'
  BY DEF ReleaseInvariant, ReleaseTypeOK, CallKnown, LockHeld, Busy,
       Steps, InsertAttempt, Goto
<1>6. NoReceiptYet'
  BY DEF ReleaseInvariant, ReleaseTypeOK, NoReceiptYet, LockHeld,
       ServerAgrees, AtLock, Busy, Steps, Mig, InsertAttempt, Goto
<1>7. ReceiptsLinked'
  <2>1. PICK a \in Attempts : /\ attempt[a] = NoAttempt
                              /\ attempt' = [attempt EXCEPT ![a] =
                                    [status |-> "Started", call |-> job[r].call]]
    BY DEF InsertAttempt
  <2>2. \A m \in Migrations : receipt[m] # NoRow => receipt[m].attempt # a /\ receipt[m].attempt \in Attempts
    BY <2>1 DEF ReleaseInvariant, ReleaseTypeOK, ReceiptsLinked, NoAttempt
  <2> QED BY <2>1, <2>2 DEF ReleaseInvariant, ReleaseTypeOK,
       ReceiptsLinked, InsertAttempt
<1>8. DeniedFinal'
  <2>1. PICK a \in Attempts : /\ attempt[a] = NoAttempt
                              /\ attempt' = [attempt EXCEPT ![a] =
                                    [status |-> "Started", call |-> job[r].call]]
    BY DEF InsertAttempt
  <2> QED BY <2>1 DEF ReleaseInvariant, ReleaseTypeOK, DeniedFinal,
       NoAttempt, InsertAttempt
<1>9. ReadingStands'
  <2>1. ASSUME NEW c \in Calls, ReceiptIsMine(c)
        PROVE  ReceiptIsMine(c)'
    <3>1. \A m \in Migrations : receipt[m] # NoRow => receipt'[m] = receipt[m]
      BY DEF ReleaseInvariant, ReleaseTypeOK, NoReceiptYet, Mig, LockHeld,
           CallKnown, Migrations, InsertAttempt, Goto
    <3>2. \A a \in Attempts : attempt[a].status = "Succeeded" => attempt'[a] = attempt[a]
      BY DEF ReleaseInvariant, ReleaseTypeOK, AttemptInFlight, InFlight,
           NoAttempt, InsertAttempt, Goto
    <3> QED BY <2>1, <3>1, <3>2, ReceiptStands
  <2> QED BY <2>1 DEF ReleaseInvariant, ReleaseTypeOK, ReadingStands,
       CallKnown, Verdicts, InsertAttempt, Goto
<1>10. ZeroIsMine'
  <2>1. ASSUME NEW c \in Calls, ReceiptIsMine(c)
        PROVE  ReceiptIsMine(c)'
    <3>1. \A m \in Migrations : receipt[m] # NoRow => receipt'[m] = receipt[m]
      BY DEF ReleaseInvariant, ReleaseTypeOK, NoReceiptYet, Mig, LockHeld,
           CallKnown, Migrations, InsertAttempt, Goto
    <3>2. \A a \in Attempts : attempt[a].status = "Succeeded" => attempt'[a] = attempt[a]
      BY DEF ReleaseInvariant, ReleaseTypeOK, AttemptInFlight, InFlight,
           NoAttempt, InsertAttempt, Goto
    <3> QED BY <2>1, <3>1, <3>2, ReceiptStands
  <2> QED BY <2>1 DEF ReleaseInvariant, ReleaseTypeOK, ZeroIsMine,
       CallKnown, InsertAttempt, Goto
<1> QED BY <1>1, <1>2, <1>3, <1>4, <1>5, <1>6, <1>7, <1>8, <1>9, <1>10 DEF
     ReleaseInvariant

(* The transaction opens on the reviewed preimage or is rolled back.         *)
LEMMA BeginKeeps ==
    ASSUME ReleaseInvariant, NEW r \in Runners, Begin(r)
    PROVE  ReleaseInvariant'
<1>1. ReleaseTypeOK'
  BY DEF ReleaseInvariant, ReleaseTypeOK, Steps, Verdicts, LockHeld,
       AttemptInFlight, InFlight, CallKnown, AtLock, Busy, Rows, Begin,
       Rollback, Goto, db
<1>2. LockHeld'
  BY DEF ReleaseInvariant, ReleaseTypeOK, LockHeld, AtLock, Busy, Steps,
       Begin, Rollback, Goto, db
<1>3. ServerAgrees'
  BY DEF ReleaseInvariant, ReleaseTypeOK, LockHeld, ServerAgrees, AtLock,
       Busy, Steps, Begin, Rollback, Goto, db
<1>4. AttemptInFlight'
  BY DEF ReleaseInvariant, ReleaseTypeOK, LockHeld, ServerAgrees,
       AttemptInFlight, InFlight, AtLock, Busy, Steps, Begin, Rollback, Goto,
       db
<1>5. CallKnown'
  BY DEF ReleaseInvariant, ReleaseTypeOK, CallKnown, LockHeld, Busy,
       Steps, Begin, Rollback, Goto, db
<1>6. NoReceiptYet'
  BY DEF ReleaseInvariant, ReleaseTypeOK, NoReceiptYet, LockHeld,
       ServerAgrees, AtLock, Busy, Steps, Mig, Begin, Rollback, Goto, db
<1>7. ReceiptsLinked'
  BY DEF ReleaseInvariant, ReleaseTypeOK, ReceiptsLinked, Begin, Rollback,
       Goto, db
<1>8. DeniedFinal'
  BY DEF ReleaseInvariant, ReleaseTypeOK, DeniedFinal, Begin, Rollback, Goto, db
<1>9. ReadingStands'
  BY DEF ReleaseInvariant, ReleaseTypeOK, ReadingStands, ReceiptIsMine,
       Verdicts, Begin, Rollback, Goto, db
<1>10. ZeroIsMine'
  BY DEF ReleaseInvariant, ReleaseTypeOK, ZeroIsMine, ReadingStands,
       ReceiptIsMine, Begin, Rollback, Goto, db
<1> QED BY <1>1, <1>2, <1>3, <1>4, <1>5, <1>6, <1>7, <1>8, <1>9, <1>10 DEF
     ReleaseInvariant

(* The statements of the release run in the open transaction.                *)
LEMMA ChangeKeeps ==
    ASSUME ReleaseInvariant, NEW r \in Runners, Change(r)
    PROVE  ReleaseInvariant'
<1>1. ReleaseTypeOK'
  BY DEF ReleaseInvariant, ReleaseTypeOK, Steps, Verdicts, LockHeld,
       AttemptInFlight, InFlight, CallKnown, AtLock, Busy, Rows, Change,
       Rollback, Goto, db
<1>2. LockHeld'
  BY DEF ReleaseInvariant, ReleaseTypeOK, LockHeld, AtLock, Busy, Steps,
       Change, Rollback, Goto, db
<1>3. ServerAgrees'
  BY DEF ReleaseInvariant, ReleaseTypeOK, LockHeld, ServerAgrees, AtLock,
       Busy, Steps, Change, Rollback, Goto, db
<1>4. AttemptInFlight'
  BY DEF ReleaseInvariant, ReleaseTypeOK, LockHeld, ServerAgrees,
       AttemptInFlight, InFlight, AtLock, Busy, Steps, Change, Rollback, Goto,
       db
<1>5. CallKnown'
  BY DEF ReleaseInvariant, ReleaseTypeOK, CallKnown, LockHeld, Busy,
       Steps, Change, Rollback, Goto, db
<1>6. NoReceiptYet'
  BY DEF ReleaseInvariant, ReleaseTypeOK, NoReceiptYet, LockHeld,
       ServerAgrees, AtLock, Busy, Steps, Mig, Change, Rollback, Goto, db
<1>7. ReceiptsLinked'
  BY DEF ReleaseInvariant, ReleaseTypeOK, ReceiptsLinked, Change,
       Rollback, Goto, db
<1>8. DeniedFinal'
  BY DEF ReleaseInvariant, ReleaseTypeOK, DeniedFinal, Change, Rollback,
       Goto, db
<1>9. ReadingStands'
  BY DEF ReleaseInvariant, ReleaseTypeOK, ReadingStands, ReceiptIsMine,
       Verdicts, Change, Rollback, Goto, db
<1>10. ZeroIsMine'
  BY DEF ReleaseInvariant, ReleaseTypeOK, ZeroIsMine, ReadingStands,
       ReceiptIsMine, Change, Rollback, Goto, db
<1> QED BY <1>1, <1>2, <1>3, <1>4, <1>5, <1>6, <1>7, <1>8, <1>9, <1>10 DEF
     ReleaseInvariant

(* The receipt is written where there is none.                               *)
LEMMA WriteReceiptKeeps ==
    ASSUME ReleaseInvariant, NEW r \in Runners, WriteReceipt(r)
    PROVE  ReleaseInvariant'
<1>1. ReleaseTypeOK'
  BY DEF ReleaseInvariant, ReleaseTypeOK, Steps, Verdicts, LockHeld,
       AttemptInFlight, InFlight, CallKnown, AtLock, Busy, Rows, WriteReceipt,
       Rollback, Goto, db
<1>2. LockHeld'
  BY DEF ReleaseInvariant, ReleaseTypeOK, LockHeld, AtLock, Busy, Steps,
       WriteReceipt, Rollback, Goto, db
<1>3. ServerAgrees'
  BY DEF ReleaseInvariant, ReleaseTypeOK, LockHeld, ServerAgrees, AtLock,
       Busy, Steps, WriteReceipt, Rollback, Goto, db
<1>4. AttemptInFlight'
  BY DEF ReleaseInvariant, ReleaseTypeOK, LockHeld, ServerAgrees,
       AttemptInFlight, InFlight, AtLock, Busy, Steps, WriteReceipt, Rollback,
       Goto, db
<1>5. CallKnown'
  BY DEF ReleaseInvariant, ReleaseTypeOK, CallKnown, LockHeld, Busy,
       Steps, WriteReceipt, Rollback, Goto, db
<1>6. NoReceiptYet'
  BY DEF ReleaseInvariant, ReleaseTypeOK, NoReceiptYet, LockHeld,
       ServerAgrees, AtLock, Busy, Steps, Mig, WriteReceipt, Rollback, Goto, db
<1>7. ReceiptsLinked'
  BY DEF ReleaseInvariant, ReleaseTypeOK, ReceiptsLinked, WriteReceipt,
       Rollback, Goto, db
<1>8. DeniedFinal'
  BY DEF ReleaseInvariant, ReleaseTypeOK, DeniedFinal, WriteReceipt,
       Rollback, Goto, db
<1>9. ReadingStands'
  BY DEF ReleaseInvariant, ReleaseTypeOK, ReadingStands, ReceiptIsMine,
       Verdicts, WriteReceipt, Rollback, Goto, db
<1>10. ZeroIsMine'
  BY DEF ReleaseInvariant, ReleaseTypeOK, ZeroIsMine, ReadingStands,
       ReceiptIsMine, WriteReceipt, Rollback, Goto, db
<1> QED BY <1>1, <1>2, <1>3, <1>4, <1>5, <1>6, <1>7, <1>8, <1>9, <1>10 DEF
     ReleaseInvariant

(* A statement that throws undoes the transaction.                           *)
LEMMA ThrowKeeps ==
    ASSUME ReleaseInvariant, NEW r \in Runners, Throw(r)
    PROVE  ReleaseInvariant'
<1>1. ReleaseTypeOK'
  BY DEF ReleaseInvariant, ReleaseTypeOK, Steps, Verdicts, LockHeld,
       AttemptInFlight, InFlight, CallKnown, AtLock, Busy, Rows, Throw,
       Rollback, Goto, db
<1>2. LockHeld'
  BY DEF ReleaseInvariant, ReleaseTypeOK, LockHeld, AtLock, Busy, Steps,
       Throw, Rollback, Goto, db
<1>3. ServerAgrees'
  BY DEF ReleaseInvariant, ReleaseTypeOK, LockHeld, ServerAgrees, AtLock,
       Busy, Steps, Throw, Rollback, Goto, db
<1>4. AttemptInFlight'
  BY DEF ReleaseInvariant, ReleaseTypeOK, LockHeld, ServerAgrees,
       AttemptInFlight, InFlight, AtLock, Busy, Steps, Throw, Rollback, Goto,
       db
<1>5. CallKnown'
  BY DEF ReleaseInvariant, ReleaseTypeOK, CallKnown, LockHeld, Busy,
       Steps, Throw, Rollback, Goto, db
<1>6. NoReceiptYet'
  BY DEF ReleaseInvariant, ReleaseTypeOK, NoReceiptYet, LockHeld,
       ServerAgrees, AtLock, Busy, Steps, Mig, Throw, Rollback, Goto, db
<1>7. ReceiptsLinked'
  BY DEF ReleaseInvariant, ReleaseTypeOK, ReceiptsLinked, Throw, Rollback,
       Goto, db
<1>8. DeniedFinal'
  BY DEF ReleaseInvariant, ReleaseTypeOK, DeniedFinal, Throw, Rollback, Goto, db
<1>9. ReadingStands'
  BY DEF ReleaseInvariant, ReleaseTypeOK, ReadingStands, ReceiptIsMine,
       Verdicts, Throw, Rollback, Goto, db
<1>10. ZeroIsMine'
  BY DEF ReleaseInvariant, ReleaseTypeOK, ZeroIsMine, ReadingStands,
       ReceiptIsMine, Throw, Rollback, Goto, db
<1> QED BY <1>1, <1>2, <1>3, <1>4, <1>5, <1>6, <1>7, <1>8, <1>9, <1>10 DEF
     ReleaseInvariant

(* The commit is on its way to the server.                                   *)
LEMMA RequestCommitKeeps ==
    ASSUME ReleaseInvariant, NEW r \in Runners, RequestCommit(r)
    PROVE  ReleaseInvariant'
<1>1. ReleaseTypeOK'
  BY DEF ReleaseInvariant, ReleaseTypeOK, Steps, Verdicts, LockHeld,
       AttemptInFlight, InFlight, CallKnown, AtLock, Busy, Rows, RequestCommit,
       Goto, db
<1>2. LockHeld'
  BY DEF ReleaseInvariant, ReleaseTypeOK, LockHeld, AtLock, Busy, Steps,
       RequestCommit, Goto, db
<1>3. ServerAgrees'
  BY DEF ReleaseInvariant, ReleaseTypeOK, LockHeld, ServerAgrees, AtLock,
       Busy, Steps, RequestCommit, Goto, db
<1>4. AttemptInFlight'
  BY DEF ReleaseInvariant, ReleaseTypeOK, LockHeld, ServerAgrees,
       AttemptInFlight, InFlight, AtLock, Busy, Steps, RequestCommit, Goto, db
<1>5. CallKnown'
  BY DEF ReleaseInvariant, ReleaseTypeOK, CallKnown, LockHeld, Busy,
       Steps, RequestCommit, Goto, db
<1>6. NoReceiptYet'
  BY DEF ReleaseInvariant, ReleaseTypeOK, NoReceiptYet, LockHeld,
       ServerAgrees, AtLock, Busy, Steps, Mig, RequestCommit, Goto, db
<1>7. ReceiptsLinked'
  BY DEF ReleaseInvariant, ReleaseTypeOK, ReceiptsLinked, RequestCommit,
       Goto, db
<1>8. DeniedFinal'
  BY DEF ReleaseInvariant, ReleaseTypeOK, DeniedFinal, RequestCommit, Goto, db
<1>9. ReadingStands'
  BY DEF ReleaseInvariant, ReleaseTypeOK, ReadingStands, ReceiptIsMine,
       Verdicts, RequestCommit, Goto, db
<1>10. ZeroIsMine'
  BY DEF ReleaseInvariant, ReleaseTypeOK, ZeroIsMine, ReadingStands,
       ReceiptIsMine, RequestCommit, Goto, db
<1> QED BY <1>1, <1>2, <1>3, <1>4, <1>5, <1>6, <1>7, <1>8, <1>9, <1>10 DEF
     ReleaseInvariant

(* The commit makes one receipt and one success of the same attempt, and     *)
(* disturbs no other row.                                                    *)
LEMMA ServerCommitKeeps ==
    ASSUME ReleaseInvariant, NEW r \in Runners, ServerCommit(r)
    PROVE  ReleaseInvariant'
<1>1. ReleaseTypeOK'
  <2>1. /\ mine[r] \in Attempts /\ job[r].call \in Calls
        /\ attempt[mine[r]] = [status |-> "Started", call |-> job[r].call]
        /\ mine[r] \notin denied /\ receipt[Mig(r)] = NoRow
        /\ Mig(r) \in Migrations /\ lock = r
    BY CommitFacts
  <2>2. /\ attempt' = [attempt EXCEPT ![mine[r]] = [status |-> "Succeeded", call |-> job[r].call]]
        /\ receipt' = [receipt EXCEPT ![Mig(r)] =
              [status |-> "Applied", pin |-> job[r].call.pin, attempt |-> mine[r]]]
    BY CommitFacts
  <2>3. image' \in [Migrations -> [Items -> Images]]
    BY <2>1, <2>2 DEF ReleaseInvariant, ReleaseTypeOK, Steps, Busy,
         LockHeld, CallKnown, AttemptInFlight, InFlight, Migrations, Mig,
         Images, ServerCommit, client
  <2>4. receipt' \in [Migrations -> {NoRow} \cup
        [status : {"Applied"}, pin : {c.pin : c \in Calls}, attempt : Attempts]]
    BY <2>1, <2>2 DEF ReleaseInvariant, ReleaseTypeOK, Steps, Busy,
         LockHeld, CallKnown, AttemptInFlight, InFlight, Migrations, Mig,
         Images, ServerCommit, client
  <2>5. attempt' \in [Attempts -> {NoAttempt} \cup
        [status : {"Started", "Failed", "Succeeded"}, call : Calls]]
    BY <2>1, <2>2 DEF ReleaseInvariant, ReleaseTypeOK, Steps, Busy,
         LockHeld, CallKnown, AttemptInFlight, InFlight, Migrations, Mig,
         Images, ServerCommit, client
  <2>6. lock' \in Runners \cup {NoOne, "fixture"} /\ pc' \in [Runners -> Steps]
    BY <2>1, <2>2 DEF ReleaseInvariant, ReleaseTypeOK, Steps, Busy,
         LockHeld, CallKnown, AttemptInFlight, InFlight, Migrations, Mig,
         Images, ServerCommit, client
  <2>7. job' \in [Runners -> {NoJob} \cup [op : Operations, call : Calls]]
    BY <2>1, <2>2 DEF ReleaseInvariant, ReleaseTypeOK, Steps, Busy,
         LockHeld, CallKnown, AttemptInFlight, InFlight, Migrations, Mig,
         Images, ServerCommit, client
  <2>8. conn' \in [Runners -> {"none", "open", "lost"}]
    BY <2>1, <2>2 DEF ReleaseInvariant, ReleaseTypeOK, Steps, Busy,
         LockHeld, CallKnown, AttemptInFlight, InFlight, Migrations, Mig,
         Images, ServerCommit, client
  <2>9. server' \in [Runners ->
        {"idle", "open", "changed", "receipted", "commitSent"}]
    BY <2>1, <2>2 DEF ReleaseInvariant, ReleaseTypeOK, Steps, Busy,
         LockHeld, CallKnown, AttemptInFlight, InFlight, Migrations, Mig,
         Images, ServerCommit, client
  <2>10. reading' \in [Runners -> {"none"} \cup Verdicts]
    BY <2>1, <2>2 DEF ReleaseInvariant, ReleaseTypeOK, Steps, Busy,
         LockHeld, CallKnown, AttemptInFlight, InFlight, Migrations, Mig,
         Images, ServerCommit, client
  <2>11. mine' \in [Runners -> Attempts \cup {NoOne}]
    BY <2>1, <2>2 DEF ReleaseInvariant, ReleaseTypeOK, Steps, Busy,
         LockHeld, CallKnown, AttemptInFlight, InFlight, Migrations, Mig,
         Images, ServerCommit, client
  <2>12. code' \in [Runners -> {"none", "0", "10", "11", "20"}]
    BY <2>1, <2>2 DEF ReleaseInvariant, ReleaseTypeOK, Steps, Busy,
         LockHeld, CallKnown, AttemptInFlight, InFlight, Migrations, Mig,
         Images, ServerCommit, client
  <2>13. denied' \subseteq Attempts
    BY <2>1, <2>2 DEF ReleaseInvariant, ReleaseTypeOK, Steps, Busy,
         LockHeld, CallKnown, AttemptInFlight, InFlight, Migrations, Mig,
         Images, ServerCommit, client
  <2> QED BY <2>3, <2>4, <2>5, <2>6, <2>7, <2>8, <2>9, <2>10, <2>11,
       <2>12, <2>13 DEF ReleaseTypeOK
<1>2. LockHeld'
  BY DEF ReleaseInvariant, ReleaseTypeOK, LockHeld, AtLock, Busy, Steps,
       ServerCommit, WithStatus, client
<1>3. ServerAgrees'
  BY DEF ReleaseInvariant, ReleaseTypeOK, LockHeld, ServerAgrees, AtLock,
       Busy, Steps, ServerCommit, WithStatus, client
<1>4. AttemptInFlight'
  BY DEF ReleaseInvariant, ReleaseTypeOK, LockHeld, ServerAgrees,
       AttemptInFlight, InFlight, AtLock, Busy, Steps, ServerCommit,
       WithStatus, client
<1>5. CallKnown'
  BY DEF ReleaseInvariant, ReleaseTypeOK, CallKnown, LockHeld, Busy,
       Steps, ServerCommit, WithStatus, client
<1>6. NoReceiptYet'
  <2>1. /\ mine[r] \in Attempts /\ job[r].call \in Calls
        /\ attempt[mine[r]] = [status |-> "Started", call |-> job[r].call]
        /\ mine[r] \notin denied /\ receipt[Mig(r)] = NoRow
        /\ Mig(r) \in Migrations /\ lock = r
    BY CommitFacts
  <2>2. /\ attempt' = [attempt EXCEPT ![mine[r]] = [status |-> "Succeeded", call |-> job[r].call]]
        /\ receipt' = [receipt EXCEPT ![Mig(r)] =
              [status |-> "Applied", pin |-> job[r].call.pin, attempt |-> mine[r]]]
    BY CommitFacts
  <2>3. \A t \in Runners : t # r => server[t] = "idle" /\ pc[t] # "history"
    BY <2>1 DEF ReleaseInvariant, LockHeld, AtLock, Busy, Steps
  <2>4. server'[r] = "idle" /\ pc[r] # "history" /\ \A t \in Runners : t # r => server'[t] = server[t]
    BY DEF ReleaseInvariant, ReleaseTypeOK, LockHeld, ServerAgrees,
         AtLock, Busy, Steps, ServerCommit
  <2> QED BY <2>3, <2>4 DEF NoReceiptYet, ServerCommit, client
<1>7. ReceiptsLinked'
  <2>1. /\ mine[r] \in Attempts /\ job[r].call \in Calls
        /\ attempt[mine[r]] = [status |-> "Started", call |-> job[r].call]
        /\ mine[r] \notin denied /\ receipt[Mig(r)] = NoRow
        /\ Mig(r) \in Migrations /\ lock = r
    BY CommitFacts
  <2>2. /\ attempt' = [attempt EXCEPT ![mine[r]] = [status |-> "Succeeded", call |-> job[r].call]]
        /\ receipt' = [receipt EXCEPT ![Mig(r)] =
              [status |-> "Applied", pin |-> job[r].call.pin, attempt |-> mine[r]]]
    BY CommitFacts
  <2>3. \A m \in Migrations : receipt[m] # NoRow => receipt[m].attempt # mine[r] /\ receipt[m].attempt \in Attempts
    BY <2>1 DEF ReleaseInvariant, ReleaseTypeOK, ReceiptsLinked
  <2>4. \A a \in Attempts : attempt[a].status = "Succeeded" => attempt[a].call.migration # Mig(r)
    BY <2>1, NamesAssumption DEF ReleaseInvariant, ReceiptsLinked, NoRow
  <2>5. receipt \in [Migrations -> {NoRow} \cup
        [status : {"Applied"}, pin : {c.pin : c \in Calls}, attempt : Attempts]]
        /\ DOMAIN attempt = Attempts
    BY DEF ReleaseInvariant, ReleaseTypeOK
  <2>6. ASSUME NEW m \in Migrations, receipt'[m] # NoRow
        PROVE  /\ attempt'[receipt'[m].attempt].status = "Succeeded"
               /\ attempt'[receipt'[m].attempt].call.migration = m
               /\ attempt'[receipt'[m].attempt].call.pin = receipt'[m].pin
    <3>1. CASE m = Mig(r)
      BY <2>1, <2>2, <2>5, <3>1 DEF Mig
    <3>2. CASE m # Mig(r)
      BY <2>2, <2>3, <2>5, <2>6, <3>2 DEF ReleaseInvariant, ReceiptsLinked
    <3> QED BY <3>1, <3>2
  <2>7. ASSUME NEW a \in Attempts, attempt'[a].status = "Succeeded"
        PROVE  receipt'[attempt'[a].call.migration].attempt = a
    <3>1. CASE a = mine[r]
      BY <2>1, <2>2, <2>5, <3>1 DEF Mig
    <3>2. CASE a # mine[r]
      BY <2>2, <2>4, <2>5, <2>7, <3>2 DEF ReleaseInvariant, ReceiptsLinked
    <3> QED BY <3>1, <3>2
  <2> QED BY <2>6, <2>7 DEF ReceiptsLinked
<1>8. DeniedFinal'
  <2>1. /\ mine[r] \in Attempts /\ job[r].call \in Calls
        /\ attempt[mine[r]] = [status |-> "Started", call |-> job[r].call]
        /\ mine[r] \notin denied /\ receipt[Mig(r)] = NoRow
        /\ Mig(r) \in Migrations /\ lock = r
    BY CommitFacts
  <2>2. /\ attempt' = [attempt EXCEPT ![mine[r]] = [status |-> "Succeeded", call |-> job[r].call]]
        /\ receipt' = [receipt EXCEPT ![Mig(r)] =
              [status |-> "Applied", pin |-> job[r].call.pin, attempt |-> mine[r]]]
    BY CommitFacts
  <2> QED BY <2>1, <2>2 DEF ReleaseInvariant, ReleaseTypeOK, DeniedFinal,
       ServerCommit
<1>9. ReadingStands'
  <2>1. ASSUME NEW c \in Calls, ReceiptIsMine(c)
        PROVE  ReceiptIsMine(c)'
    <3>1. \A m \in Migrations : receipt[m] # NoRow => receipt'[m] = receipt[m]
      BY DEF ReleaseInvariant, ReleaseTypeOK, NoReceiptYet, Mig, LockHeld,
           CallKnown, Migrations, ServerCommit, WithStatus, client
    <3>2. \A a \in Attempts : attempt[a].status = "Succeeded" => attempt'[a] = attempt[a]
      BY DEF ReleaseInvariant, ReleaseTypeOK, AttemptInFlight, InFlight,
           NoAttempt, ServerCommit, WithStatus, client
    <3> QED BY <2>1, <3>1, <3>2, ReceiptStands
  <2> QED BY <2>1 DEF ReleaseInvariant, ReleaseTypeOK, ReadingStands,
       CallKnown, Verdicts, ServerCommit, WithStatus, client
<1>10. ZeroIsMine'
  <2>1. ASSUME NEW c \in Calls, ReceiptIsMine(c)
        PROVE  ReceiptIsMine(c)'
    <3>1. \A m \in Migrations : receipt[m] # NoRow => receipt'[m] = receipt[m]
      BY DEF ReleaseInvariant, ReleaseTypeOK, NoReceiptYet, Mig, LockHeld,
           CallKnown, Migrations, ServerCommit, WithStatus, client
    <3>2. \A a \in Attempts : attempt[a].status = "Succeeded" => attempt'[a] = attempt[a]
      BY DEF ReleaseInvariant, ReleaseTypeOK, AttemptInFlight, InFlight,
           NoAttempt, ServerCommit, WithStatus, client
    <3> QED BY <2>1, <3>1, <3>2, ReceiptStands
  <2> QED BY <2>1 DEF ReleaseInvariant, ReleaseTypeOK, ZeroIsMine,
       CallKnown, ServerCommit, WithStatus, client
<1> QED BY <1>1, <1>2, <1>3, <1>4, <1>5, <1>6, <1>7, <1>8, <1>9, <1>10 DEF
     ReleaseInvariant

(* An acknowledged commit is read again from the tables.                     *)
LEMMA AcknowledgeKeeps ==
    ASSUME ReleaseInvariant, NEW r \in Runners, Acknowledge(r)
    PROVE  ReleaseInvariant'
<1>1. ReleaseTypeOK'
  BY DEF ReleaseInvariant, ReleaseTypeOK, Steps, Verdicts, LockHeld,
       AttemptInFlight, InFlight, CallKnown, AtLock, Busy, Rows, Acknowledge,
       Goto, db
<1>2. LockHeld'
  BY DEF ReleaseInvariant, ReleaseTypeOK, LockHeld, AtLock, Busy, Steps,
       Acknowledge, Goto, db
<1>3. ServerAgrees'
  BY DEF ReleaseInvariant, ReleaseTypeOK, LockHeld, ServerAgrees, AtLock,
       Busy, Steps, Acknowledge, Goto, db
<1>4. AttemptInFlight'
  BY DEF ReleaseInvariant, ReleaseTypeOK, LockHeld, ServerAgrees,
       AttemptInFlight, InFlight, AtLock, Busy, Steps, Acknowledge, Goto, db
<1>5. CallKnown'
  BY DEF ReleaseInvariant, ReleaseTypeOK, CallKnown, LockHeld, Busy,
       Steps, Acknowledge, Goto, db
<1>6. NoReceiptYet'
  BY DEF ReleaseInvariant, ReleaseTypeOK, NoReceiptYet, LockHeld,
       ServerAgrees, AtLock, Busy, Steps, Mig, Acknowledge, Goto, db
<1>7. ReceiptsLinked'
  BY DEF ReleaseInvariant, ReleaseTypeOK, ReceiptsLinked, Acknowledge, Goto, db
<1>8. DeniedFinal'
  BY DEF ReleaseInvariant, ReleaseTypeOK, DeniedFinal, Acknowledge, Goto, db
<1>9. ReadingStands'
  BY DEF ReleaseInvariant, ReleaseTypeOK, ReadingStands, ReceiptIsMine,
       Verdicts, Acknowledge, Goto, db
<1>10. ZeroIsMine'
  BY DEF ReleaseInvariant, ReleaseTypeOK, ZeroIsMine, ReadingStands,
       ReceiptIsMine, Acknowledge, Goto, db
<1> QED BY <1>1, <1>2, <1>3, <1>4, <1>5, <1>6, <1>7, <1>8, <1>9, <1>10 DEF
     ReleaseInvariant

(* A lost connection leaves the transaction and the lock to the server.      *)
LEMMA LoseConnectionKeeps ==
    ASSUME ReleaseInvariant, NEW r \in Runners, LoseConnection(r)
    PROVE  ReleaseInvariant'
<1>1. ReleaseTypeOK'
  BY DEF ReleaseInvariant, ReleaseTypeOK, Steps, Verdicts, LockHeld,
       AttemptInFlight, InFlight, CallKnown, AtLock, Busy, Rows,
       LoseConnection, Exit, db
<1>2. LockHeld'
  BY DEF ReleaseInvariant, ReleaseTypeOK, LockHeld, AtLock, Busy, Steps,
       LoseConnection, Exit, db
<1>3. ServerAgrees'
  BY DEF ReleaseInvariant, ReleaseTypeOK, LockHeld, ServerAgrees, AtLock,
       Busy, Steps, LoseConnection, Exit, db
<1>4. AttemptInFlight'
  BY DEF ReleaseInvariant, ReleaseTypeOK, LockHeld, ServerAgrees,
       AttemptInFlight, InFlight, AtLock, Busy, Steps, LoseConnection, Exit, db
<1>5. CallKnown'
  BY DEF ReleaseInvariant, ReleaseTypeOK, CallKnown, LockHeld, Busy,
       Steps, LoseConnection, Exit, db
<1>6. NoReceiptYet'
  BY DEF ReleaseInvariant, ReleaseTypeOK, NoReceiptYet, LockHeld,
       ServerAgrees, AtLock, Busy, Steps, Mig, LoseConnection, Exit, db
<1>7. ReceiptsLinked'
  BY DEF ReleaseInvariant, ReleaseTypeOK, ReceiptsLinked, LoseConnection,
       Exit, db
<1>8. DeniedFinal'
  BY DEF ReleaseInvariant, ReleaseTypeOK, DeniedFinal, LoseConnection, Exit, db
<1>9. ReadingStands'
  BY DEF ReleaseInvariant, ReleaseTypeOK, ReadingStands, ReceiptIsMine,
       Verdicts, LoseConnection, Exit, db
<1>10. ZeroIsMine'
  BY DEF ReleaseInvariant, ReleaseTypeOK, ZeroIsMine, ReadingStands,
       ReceiptIsMine, LoseConnection, Exit, db
<1> QED BY <1>1, <1>2, <1>3, <1>4, <1>5, <1>6, <1>7, <1>8, <1>9, <1>10 DEF
     ReleaseInvariant

(* Only an attempt that is Started, and whose transaction is undone, is      *)
(* marked.                                                                   *)
LEMMA MarkFailedKeeps ==
    ASSUME ReleaseInvariant, NEW r \in Runners, MarkFailed(r)
    PROVE  ReleaseInvariant'
<1>1. ReleaseTypeOK'
  <2>1. image' \in [Migrations -> [Items -> Images]]
    BY DEF ReleaseInvariant, ReleaseTypeOK, Steps, Busy, AttemptInFlight,
         InFlight, MarkFailed, Exit
  <2>2. receipt' \in [Migrations -> {NoRow} \cup
        [status : {"Applied"}, pin : {c.pin : c \in Calls}, attempt : Attempts]]
    BY DEF ReleaseInvariant, ReleaseTypeOK, Steps, Busy, AttemptInFlight,
         InFlight, MarkFailed, Exit
  <2>20. mine[r] \in Attempts /\ attempt[mine[r]] = [status |-> "Started", call |-> job[r].call] /\ job[r].call \in Calls
    BY DEF ReleaseInvariant, CallKnown, AttemptInFlight, InFlight, MarkFailed
  <2>21. attempt' = [attempt EXCEPT ![mine[r]] = [status |-> "Failed", call |-> job[r].call]]
    BY <2>20 DEF MarkFailed, WithStatus
  <2>3. attempt' \in [Attempts -> {NoAttempt} \cup
        [status : {"Started", "Failed", "Succeeded"}, call : Calls]]
    BY <2>20, <2>21 DEF ReleaseInvariant, ReleaseTypeOK, Steps, Busy,
         AttemptInFlight, InFlight, MarkFailed, Exit
  <2>4. lock' \in Runners \cup {NoOne, "fixture"} /\ pc' \in [Runners -> Steps]
    BY DEF ReleaseInvariant, ReleaseTypeOK, Steps, Busy, AttemptInFlight,
         InFlight, MarkFailed, Exit
  <2>5. job' \in [Runners -> {NoJob} \cup [op : Operations, call : Calls]]
    BY <2>20, <2>21 DEF ReleaseInvariant, ReleaseTypeOK, Steps, Busy,
         AttemptInFlight, InFlight, MarkFailed, Exit
  <2>6. conn' \in [Runners -> {"none", "open", "lost"}]
    BY DEF ReleaseInvariant, ReleaseTypeOK, Steps, Busy, AttemptInFlight,
         InFlight, MarkFailed, Exit
  <2>7. server' \in [Runners ->
        {"idle", "open", "changed", "receipted", "commitSent"}]
    BY DEF ReleaseInvariant, ReleaseTypeOK, Steps, Busy, AttemptInFlight,
         InFlight, MarkFailed, Exit
  <2>8. reading' \in [Runners -> {"none"} \cup Verdicts]
    BY DEF ReleaseInvariant, ReleaseTypeOK, Steps, Busy, AttemptInFlight,
         InFlight, MarkFailed, Exit
  <2>9. mine' \in [Runners -> Attempts \cup {NoOne}]
    BY DEF ReleaseInvariant, ReleaseTypeOK, Steps, Busy, AttemptInFlight,
         InFlight, MarkFailed, Exit
  <2>10. code' \in [Runners -> {"none", "0", "10", "11", "20"}]
    BY DEF ReleaseInvariant, ReleaseTypeOK, Steps, Busy, AttemptInFlight,
         InFlight, MarkFailed, Exit
  <2>11. denied' \subseteq Attempts
    BY DEF ReleaseInvariant, ReleaseTypeOK, Steps, Busy, AttemptInFlight,
         InFlight, MarkFailed, Exit
  <2> QED BY <2>1, <2>2, <2>3, <2>4, <2>5, <2>6, <2>7, <2>8, <2>9, <2>10,
       <2>11 DEF ReleaseTypeOK
<1>2. LockHeld'
  BY DEF ReleaseInvariant, ReleaseTypeOK, LockHeld, AtLock, Busy, Steps,
       MarkFailed, WithStatus, Exit
<1>3. ServerAgrees'
  BY DEF ReleaseInvariant, ReleaseTypeOK, LockHeld, ServerAgrees, AtLock,
       Busy, Steps, MarkFailed, WithStatus, Exit
<1>4. AttemptInFlight'
  BY DEF ReleaseInvariant, ReleaseTypeOK, LockHeld, ServerAgrees,
       AttemptInFlight, InFlight, AtLock, Busy, Steps, MarkFailed, WithStatus,
       Exit
<1>5. CallKnown'
  BY DEF ReleaseInvariant, ReleaseTypeOK, CallKnown, LockHeld, Busy,
       Steps, MarkFailed, WithStatus, Exit
<1>6. NoReceiptYet'
  BY DEF ReleaseInvariant, ReleaseTypeOK, NoReceiptYet, LockHeld,
       ServerAgrees, AtLock, Busy, Steps, Mig, MarkFailed, WithStatus, Exit
<1>7. ReceiptsLinked'
  BY DEF ReleaseInvariant, ReleaseTypeOK, ReceiptsLinked, MarkFailed,
       WithStatus, Exit
<1>8. DeniedFinal'
  BY DEF ReleaseInvariant, ReleaseTypeOK, DeniedFinal, MarkFailed,
       WithStatus, Exit
<1>9. ReadingStands'
  <2>1. ASSUME NEW c \in Calls, ReceiptIsMine(c)
        PROVE  ReceiptIsMine(c)'
    <3>1. \A m \in Migrations : receipt[m] # NoRow => receipt'[m] = receipt[m]
      BY DEF ReleaseInvariant, ReleaseTypeOK, NoReceiptYet, Mig, LockHeld,
           CallKnown, Migrations, MarkFailed, WithStatus, Exit
    <3>2. \A a \in Attempts : attempt[a].status = "Succeeded" => attempt'[a] = attempt[a]
      BY DEF ReleaseInvariant, ReleaseTypeOK, AttemptInFlight, InFlight,
           NoAttempt, MarkFailed, WithStatus, Exit
    <3> QED BY <2>1, <3>1, <3>2, ReceiptStands
  <2> QED BY <2>1 DEF ReleaseInvariant, ReleaseTypeOK, ReadingStands,
       CallKnown, Verdicts, MarkFailed, WithStatus, Exit
<1>10. ZeroIsMine'
  <2>1. ASSUME NEW c \in Calls, ReceiptIsMine(c)
        PROVE  ReceiptIsMine(c)'
    <3>1. \A m \in Migrations : receipt[m] # NoRow => receipt'[m] = receipt[m]
      BY DEF ReleaseInvariant, ReleaseTypeOK, NoReceiptYet, Mig, LockHeld,
           CallKnown, Migrations, MarkFailed, WithStatus, Exit
    <3>2. \A a \in Attempts : attempt[a].status = "Succeeded" => attempt'[a] = attempt[a]
      BY DEF ReleaseInvariant, ReleaseTypeOK, AttemptInFlight, InFlight,
           NoAttempt, MarkFailed, WithStatus, Exit
    <3> QED BY <2>1, <3>1, <3>2, ReceiptStands
  <2> QED BY <2>1 DEF ReleaseInvariant, ReleaseTypeOK, ZeroIsMine,
       CallKnown, MarkFailed, WithStatus, Exit
<1> QED BY <1>1, <1>2, <1>3, <1>4, <1>5, <1>6, <1>7, <1>8, <1>9, <1>10 DEF
     ReleaseInvariant

(* The death of a process changes nothing in the database.                   *)
LEMMA KillKeeps ==
    ASSUME ReleaseInvariant, NEW r \in Runners, Kill(r)
    PROVE  ReleaseInvariant'
<1>1. ReleaseTypeOK'
  BY DEF ReleaseInvariant, ReleaseTypeOK, Steps, Verdicts, LockHeld,
       AttemptInFlight, InFlight, CallKnown, AtLock, Busy, Rows, Kill, db
<1>2. LockHeld'
  BY DEF ReleaseInvariant, ReleaseTypeOK, LockHeld, AtLock, Busy, Steps,
       Kill, db
<1>3. ServerAgrees'
  BY DEF ReleaseInvariant, ReleaseTypeOK, LockHeld, ServerAgrees, AtLock,
       Busy, Steps, Kill, db
<1>4. AttemptInFlight'
  BY DEF ReleaseInvariant, ReleaseTypeOK, LockHeld, ServerAgrees,
       AttemptInFlight, InFlight, AtLock, Busy, Steps, Kill, db
<1>5. CallKnown'
  BY DEF ReleaseInvariant, ReleaseTypeOK, CallKnown, LockHeld, Busy,
       Steps, Kill, db
<1>6. NoReceiptYet'
  BY DEF ReleaseInvariant, ReleaseTypeOK, NoReceiptYet, LockHeld,
       ServerAgrees, AtLock, Busy, Steps, Mig, Kill, db
<1>7. ReceiptsLinked'
  BY DEF ReleaseInvariant, ReleaseTypeOK, ReceiptsLinked, Kill, db
<1>8. DeniedFinal'
  BY DEF ReleaseInvariant, ReleaseTypeOK, DeniedFinal, Kill, db
<1>9. ReadingStands'
  BY DEF ReleaseInvariant, ReleaseTypeOK, ReadingStands, ReceiptIsMine,
       Verdicts, Kill, db
<1>10. ZeroIsMine'
  BY DEF ReleaseInvariant, ReleaseTypeOK, ZeroIsMine, ReadingStands,
       ReceiptIsMine, Kill, db
<1> QED BY <1>1, <1>2, <1>3, <1>4, <1>5, <1>6, <1>7, <1>8, <1>9, <1>10 DEF
     ReleaseInvariant

(* What the server undoes and gives back when it notices a lost connection.  *)
LEMMA ReapKeeps ==
    ASSUME ReleaseInvariant, NEW r \in Runners, Reap(r)
    PROVE  ReleaseInvariant'
<1>1. ReleaseTypeOK'
  BY DEF ReleaseInvariant, ReleaseTypeOK, Steps, Verdicts, LockHeld,
       AttemptInFlight, InFlight, CallKnown, AtLock, Busy, Rows, Reap, db,
       client
<1>2. LockHeld'
  <2>1. CASE lock = r
    BY <2>1, NamesAssumption DEF ReleaseInvariant, ReleaseTypeOK,
         LockHeld, AtLock, Busy, Steps, Reap, db, client
  <2>2. CASE ~(lock = r)
    BY <2>2, NamesAssumption DEF ReleaseInvariant, ReleaseTypeOK,
         LockHeld, AtLock, Busy, Steps, Reap, db, client
  <2> QED BY <2>1, <2>2
<1>3. ServerAgrees'
  BY DEF ReleaseInvariant, ReleaseTypeOK, LockHeld, ServerAgrees, AtLock,
       Busy, Steps, Reap, db, client
<1>4. AttemptInFlight'
  BY DEF ReleaseInvariant, ReleaseTypeOK, LockHeld, ServerAgrees,
       AttemptInFlight, InFlight, AtLock, Busy, Steps, Reap, db, client
<1>5. CallKnown'
  BY DEF ReleaseInvariant, ReleaseTypeOK, CallKnown, LockHeld, Busy,
       Steps, Reap, db, client
<1>6. NoReceiptYet'
  BY DEF ReleaseInvariant, ReleaseTypeOK, NoReceiptYet, LockHeld,
       ServerAgrees, AtLock, Busy, Steps, Mig, Reap, db, client
<1>7. ReceiptsLinked'
  BY DEF ReleaseInvariant, ReleaseTypeOK, ReceiptsLinked, Reap, db, client
<1>8. DeniedFinal'
  BY DEF ReleaseInvariant, ReleaseTypeOK, DeniedFinal, Reap, db, client
<1>9. ReadingStands'
  BY DEF ReleaseInvariant, ReleaseTypeOK, ReadingStands, ReceiptIsMine,
       Verdicts, Reap, db, client
<1>10. ZeroIsMine'
  BY DEF ReleaseInvariant, ReleaseTypeOK, ZeroIsMine, ReadingStands,
       ReceiptIsMine, Reap, db, client
<1> QED BY <1>1, <1>2, <1>3, <1>4, <1>5, <1>6, <1>7, <1>8, <1>9, <1>10 DEF
     ReleaseInvariant

(* Somebody else's DDL touches no row of the runner's two tables.               *)
LEMMA DriftKeeps ==
    ASSUME ReleaseInvariant, NEW m \in Migrations, NEW i \in Items,
           NEW v \in Images, Drift(m, i, v)
    PROVE  ReleaseInvariant'
<1>1. ReleaseTypeOK'
  <2>1. image' \in [Migrations -> [Items -> Images]]
    BY DEF ReleaseInvariant, ReleaseTypeOK, Drift
  <2> QED BY <2>1 DEF ReleaseInvariant, ReleaseTypeOK, Drift, client
<1>2. UNCHANGED <<receipt, attempt, lock, pc, job, conn, server, reading, mine, code, denied>>
  BY DEF Drift, client
<1> QED BY <1>1, <1>2 DEF ReleaseInvariant, LockHeld, ServerAgrees,
     AttemptInFlight, InFlight, CallKnown, NoReceiptYet, Mig, ReceiptsLinked,
     DeniedFinal, ReadingStands, ReceiptIsMine, ZeroIsMine

(* In the first state no process runs and both tables are empty.                *)
LEMMA InitHolds ==
    ASSUME ReleaseInit
    PROVE  ReleaseInvariant
<1>1. ReleaseTypeOK
  BY DEF ReleaseInit, ReleaseTypeOK, Steps, Images
<1>2. LockHeld /\ ServerAgrees /\ AttemptInFlight /\ CallKnown
  BY NamesAssumption DEF ReleaseInit, LockHeld, AtLock, Busy,
       ServerAgrees, AttemptInFlight, InFlight, CallKnown
<1>3. NoReceiptYet /\ ReceiptsLinked /\ DeniedFinal /\ ReadingStands /\ ZeroIsMine
  BY DEF ReleaseInit, NoReceiptYet, ReceiptsLinked, NoRow, NoAttempt,
       DeniedFinal, ReadingStands, ZeroIsMine
<1> QED BY <1>1, <1>2, <1>3 DEF ReleaseInvariant

(* Every step of every process, of the server and of outsiders keeps it.        *)
LEMMA StepKeeps ==
    ASSUME ReleaseInvariant, [ReleaseNext]_vars
    PROVE  ReleaseInvariant'
<1>1. ASSUME NEW r \in Runners, NEW op \in Operations, NEW c \in Calls, Launch(r, op, c)
      PROVE  ReleaseInvariant'
  BY <1>1, LaunchKeeps
<1>2. ASSUME NEW r \in Runners, Advance(r)
      PROVE  ReleaseInvariant'
  BY <1>2, TakeLockKeeps, ReadHistoryKeeps, ReadImagesKeeps, FinishKeeps,
       InsertAttemptKeeps, BeginKeeps, ChangeKeeps, WriteReceiptKeeps,
       RequestCommitKeeps, AcknowledgeKeeps, MarkFailedKeeps DEF Advance
<1>3. ASSUME NEW r \in Runners,
             \/ Unready(r) \/ Throw(r) \/ ServerCommit(r)
             \/ LoseConnection(r) \/ Kill(r) \/ Reap(r)
      PROVE  ReleaseInvariant'
  BY <1>3, UnreadyKeeps, ThrowKeeps, ServerCommitKeeps,
       LoseConnectionKeeps, KillKeeps, ReapKeeps
<1>4. ASSUME NEW m \in Migrations, NEW i \in Items, NEW v \in Images, Drift(m, i, v)
      PROVE  ReleaseInvariant'
  BY <1>4, DriftKeeps
<1>5. CASE UNCHANGED vars
  BY <1>5 DEF vars, ReleaseInvariant, ReleaseTypeOK, LockHeld,
       ServerAgrees, AttemptInFlight, InFlight, CallKnown, NoReceiptYet, Mig,
       ReceiptsLinked, DeniedFinal, ReadingStands, ReceiptIsMine, ZeroIsMine
<1> QED BY <1>1, <1>2, <1>3, <1>4, <1>5 DEF ReleaseNext

(* The invariant of the release runner holds for every number of processes,     *)
(* calls, objects and attempts, whatever dies or drifts.                        *)
THEOREM ReleaseInvariantHolds == ReleaseSpec => []ReleaseInvariant
<1>1. ReleaseInit => ReleaseInvariant
  BY InitHolds
<1>2. ReleaseInvariant /\ [ReleaseNext]_vars => ReleaseInvariant'
  BY StepKeeps
<1> QED BY <1>1, <1>2, PTL DEF ReleaseSpec

(* The variables keep their types.                                              *)
THEOREM ReleaseTypesHold == ReleaseSpec => []ReleaseTypeOK
<1>1. ReleaseInvariant => ReleaseTypeOK
  BY DEF ReleaseInvariant
<1> QED BY <1>1, ReleaseInvariantHolds, PTL

(* A transaction belongs to the owner of the application lock, so two runners   *)
(* never write at the same time.                                                *)
THEOREM OneWriterHolds == ReleaseSpec => []OneWriter
<1>1. ReleaseInvariant => OneWriter
  BY DEF ReleaseInvariant, LockHeld, OneWriter
<1> QED BY <1>1, ReleaseInvariantHolds, PTL

(* Receipts of SchemaMigrationHistory and successes of DeploymentRunHistory     *)
(* name each other.                                                             *)
THEOREM ReceiptsLinkedHolds == ReleaseSpec => []ReceiptsLinked
<1>1. ReleaseInvariant => ReceiptsLinked
  BY DEF ReleaseInvariant
<1> QED BY <1>1, ReleaseInvariantHolds, PTL

(* An attempt reported as rolled back has no transaction left that could still  *)
(* commit it.                                                                   *)
THEOREM RolledBackHolds == ReleaseSpec => []RolledBackIsFinal
<1>1. ReleaseInvariant => RolledBackIsFinal
  BY DEF ReleaseInvariant, DeniedFinal, AttemptInFlight, InFlight,
       RolledBackIsFinal
<1> QED BY <1>1, ReleaseInvariantHolds, PTL

(* Exit 0 speaks of the caller's own release.                                   *)
THEOREM ZeroIsMineHolds == ReleaseSpec => []ZeroIsMine
<1>1. ReleaseInvariant => ZeroIsMine
  BY DEF ReleaseInvariant
<1> QED BY <1>1, ReleaseInvariantHolds, PTL

(* Only the commit of a transaction writes a receipt.                           *)
LEMMA ReceiptSteps ==
    ASSUME [ReleaseNext]_vars
    PROVE  receipt' = receipt \/ \E r \in Runners : ServerCommit(r)
  BY DEF ReleaseNext, Advance, Launch, TakeLock, Unready, ReadHistory,
       ReadImages, Finish, InsertAttempt, Begin, Change, WriteReceipt, Throw,
       RequestCommit, Acknowledge, LoseConnection, MarkFailed, Kill, Reap,
       Drift, Rollback, Goto, Exit, db, client, vars

(* A migration is applied once: its receipt never changes again.                *)
THEOREM AppliedOnceHolds == ReleaseSpec => AppliedOnce
<1>1. ASSUME ReleaseInvariant, [ReleaseNext]_vars, NEW m \in Migrations, receipt[m] # NoRow
      PROVE  receipt'[m] = receipt[m]
  <2>1. CASE receipt' = receipt
    BY <2>1
  <2>2. ASSUME NEW r \in Runners, ServerCommit(r)
        PROVE  receipt'[m] = receipt[m]
    BY <1>1, <2>2, CommitFacts DEF ReleaseInvariant, ReleaseTypeOK
  <2> QED BY <1>1, <2>1, <2>2, ReceiptSteps
<1>2. ReleaseInvariant /\ [ReleaseNext]_vars =>
        [\A m \in Migrations : receipt[m] # NoRow => receipt'[m] = receipt[m]]_vars
  BY <1>1
<1> QED BY <1>2, ReleaseInvariantHolds, PTL DEF ReleaseSpec, AppliedOnce

(* Objects a transaction has changed with statements that refuse what is not    *)
(* as reviewed are, as committed, still as reviewed.                            *)
LEMMA StandsWhileHeld ==
    ASSUME ReleaseInvariant, ImagesStand, [ReleaseNext]_vars
    PROVE  ImagesStand'
<1>1. ASSUME NEW r \in Runners, NEW op \in Operations, NEW c \in Calls, Launch(r, op, c)
      PROVE  ImagesStand'
  <2>1. server[r] = "idle"
    BY <1>1 DEF ReleaseInvariant, LockHeld, Launch
  <2> QED BY <1>1, <2>1 DEF ReleaseInvariant, ReleaseTypeOK, ImagesStand,
       Launch, Mig, AllAre, db
<1>2. ASSUME NEW r \in Runners, ServerCommit(r)
      PROVE  ImagesStand'
  <2>1. \A t \in Runners : t # r => server[t] = "idle"
    BY <1>2, CommitFacts DEF ReleaseInvariant, LockHeld
  <2> QED BY <1>2, <2>1 DEF ReleaseInvariant, ReleaseTypeOK, ImagesStand,
       ServerCommit
<1>3. ASSUME NEW r \in Runners, Change(r)
      PROVE  ImagesStand'
  BY <1>3 DEF ReleaseInvariant, ReleaseTypeOK, ImagesStand, Change,
       Rollback, Goto, Mig, AllAre, db
<1>4. ASSUME NEW m \in Migrations, NEW i \in Items, NEW v \in Images, Drift(m, i, v)
      PROVE  ImagesStand'
  <2>1. \A t \in Runners : server[t] \in {"changed", "receipted", "commitSent"} => Mig(t) # m
    BY <1>4 DEF Drift, Held
  <2>2. \A k \in Migrations : k # m => image'[k] = image[k]
    BY <1>4 DEF ReleaseInvariant, ReleaseTypeOK, Drift
  <2>3. \A t \in Runners : server[t] # "idle" => Mig(t) \in Migrations
    BY DEF ReleaseInvariant, LockHeld, CallKnown, Migrations, Mig
  <2>4. job' = job /\ server' = server
    BY <1>4 DEF Drift, client
  <2> QED BY <2>1, <2>2, <2>3, <2>4 DEF ImagesStand, Mig, AllAre
<1>5. ASSUME NEW r \in Runners,
             \/ TakeLock(r) \/ ReadHistory(r) \/ ReadImages(r) \/ Finish(r)
             \/ InsertAttempt(r) \/ Acknowledge(r) \/ MarkFailed(r)
             \/ Unready(r) \/ LoseConnection(r) \/ Kill(r)
      PROVE  ImagesStand'
  <2>1. UNCHANGED <<image, job, server>>
    BY <1>5 DEF TakeLock, ReadHistory, ReadImages, Finish, InsertAttempt,
         Acknowledge, MarkFailed, Unready, LoseConnection, Kill, Goto, Exit, db
  <2> QED BY <2>1 DEF ImagesStand, Mig, AllAre
<1>8. ASSUME NEW r \in Runners, RequestCommit(r) \/ Reap(r)
      PROVE  ImagesStand'
  <2>1. UNCHANGED <<image, job>>
    BY <1>8 DEF RequestCommit, Reap, Goto, db, client
  <2>2. /\ \A t \in Runners : t # r => server'[t] = server[t]
        /\ server'[r] = "commitSent" => server[r] = "receipted"
        /\ server'[r] \in {"commitSent", "idle"}
    BY <1>8 DEF ReleaseInvariant, ReleaseTypeOK, LockHeld, Busy, Steps,
         ServerAgrees, RequestCommit, Reap
  <2> QED BY <2>1, <2>2 DEF ImagesStand, Mig, AllAre
<1>6. ASSUME NEW r \in Runners, Begin(r) \/ WriteReceipt(r) \/ Throw(r)
      PROVE  ImagesStand'
  BY <1>6 DEF ReleaseInvariant, ReleaseTypeOK, LockHeld, AtLock, Busy,
       ServerAgrees, ImagesStand, Begin, WriteReceipt, Throw, Rollback, Goto,
       Mig, AllAre, db
<1>7. CASE UNCHANGED vars
  BY <1>7 DEF vars, ImagesStand, Mig, AllAre
<1> QED BY <1>1, <1>2, <1>3, <1>4, <1>5, <1>6, <1>7, <1>8 DEF ReleaseNext,
     Advance

(* A release whose statements refuse an object that is not as reviewed commits  *)
(* over reviewed objects only, also when somebody alters one between its check  *)
(* of the preimage and its first statement. The profile module_grants_v1 is     *)
(* outside the hypothesis.                                                      *)
THEOREM OverReviewedHolds ==
    ASSUME \A c \in Calls : ~Overwrites(c)
    PROVE  ReleaseSpec => OverReviewed
<1>1. ReleaseInit => ImagesStand
  BY DEF ReleaseInit, ImagesStand
<1>2. ReleaseInvariant /\ ImagesStand /\ [ReleaseNext]_vars => ImagesStand'
  BY StandsWhileHeld
<1>3. ASSUME ReleaseInvariant, ImagesStand, [ReleaseNext]_vars,
             NEW m \in Migrations, receipt'[m] # receipt[m]
      PROVE  AllAre(m, "before")
  <2>1. PICK r \in Runners : ServerCommit(r)
    BY <1>3, ReceiptSteps
  <2>2. job[r].call \in Calls /\ Mig(r) \in Migrations /\ server[r] = "commitSent"
    BY <1>3, <2>1, CommitFacts DEF ServerCommit
  <2>3. m = Mig(r)
    BY <1>3, <2>1 DEF ReleaseInvariant, ReleaseTypeOK, ServerCommit
  <2> QED BY <1>3, <2>2, <2>3 DEF ImagesStand
<1>4. ReleaseInvariant /\ ImagesStand /\ [ReleaseNext]_vars =>
        [\A m \in Migrations : receipt'[m] # receipt[m] => AllAre(m, "before")]_vars
  BY <1>3
<1> QED BY <1>1, <1>2, <1>4, ReleaseInvariantHolds, PTL DEF ReleaseSpec,
     OverReviewed

-----------------------------------------------------------------------------
(* Marking an attempt, before or after, makes no new attempt.                   *)
LEMMA MarksOnly ==
    ASSUME NEW a \in Attempts, NEW s, s # "none", attempt[a].status # "none",
           DOMAIN attempt = Attempts, attempt' = WithStatus(a, s)
    PROVE  {x \in Attempts : attempt'[x].status # "none"} =
           {x \in Attempts : attempt[x].status # "none"}
  BY DEF WithStatus

(* Every step of the runner is a step of the ledger it promises, or none.       *)
LEMMA LedgerStep ==
    ASSUME ReleaseInvariant, [ReleaseNext]_vars
    PROVE  [Ledger!LedgerNext]_(Ledger!ledgerVars)
<1>1. ASSUME NEW r \in Runners, InsertAttempt(r)
      PROVE  Ledger!LedgerNext
  <2>1. PICK a \in Attempts : /\ attempt[a] = NoAttempt
                              /\ attempt' = [attempt EXCEPT ![a] =
                                    [status |-> "Started", call |-> job[r].call]]
    BY <1>1 DEF InsertAttempt
  <2>2. {x \in Attempts : attempt'[x].status # "none"} =
        {x \in Attempts : attempt[x].status # "none"} \cup {a}
    BY <2>1 DEF ReleaseInvariant, ReleaseTypeOK
  <2>3. receipt' = receipt /\ denied' = denied /\ attempt[a].status = "none"
    BY <1>1, <2>1 DEF InsertAttempt, NoAttempt
  <2>4. Ledger!Attempt(a)
    BY <2>2, <2>3 DEF Ledger!Attempt
  <2> QED BY <2>4 DEF Ledger!LedgerNext
<1>2. ASSUME NEW r \in Runners, ServerCommit(r)
      PROVE  Ledger!LedgerNext
  <2>0. attempt[mine[r]] = [status |-> "Started", call |-> job[r].call]
    BY <1>2, CommitFacts
  <2>1. /\ mine[r] \in Attempts /\ mine[r] \notin denied
        /\ receipt[Mig(r)] = NoRow /\ Mig(r) \in Migrations
        /\ receipt' = [receipt EXCEPT ![Mig(r)] =
              [status |-> "Applied", pin |-> job[r].call.pin, attempt |-> mine[r]]]
    BY <1>2, CommitFacts
  <2>2. {x \in Attempts : attempt'[x].status # "none"} =
        {x \in Attempts : attempt[x].status # "none"}
    BY <1>2, <2>0, <2>1, MarksOnly DEF ReleaseInvariant, ReleaseTypeOK,
         ServerCommit
  <2>3. [m \in Migrations |-> receipt'[m].attempt] =
        [[m \in Migrations |-> receipt[m].attempt] EXCEPT ![Mig(r)] = mine[r]]
    BY <2>1 DEF ReleaseInvariant, ReleaseTypeOK
  <2>4. denied' = denied
    BY <1>2 DEF ServerCommit
  <2>5. PICK a \in Attempts, m \in Migrations : a = mine[r] /\ m = Mig(r)
    BY <2>1
  <2>6. Ledger!Succeed(a, m)
    BY <2>0, <2>1, <2>2, <2>3, <2>4, <2>5 DEF Ledger!Succeed, NoRow
  <2> QED BY <2>6 DEF Ledger!LedgerNext
<1>3. ASSUME NEW r \in Runners, ReadImages(r)
      PROVE  [Ledger!LedgerNext]_(Ledger!ledgerVars)
  <2>1. receipt' = receipt /\ attempt' = attempt
    BY <1>3 DEF ReadImages, db
  <2>2. CASE denied' = denied
    BY <2>1, <2>2 DEF Ledger!ledgerVars
  <2>3. CASE denied' # denied
    <3>1. reading[r] = "rolled_back" /\ denied' = denied \cup Rows(Mig(r))
      BY <1>3, <2>3 DEF ReadImages
    <3>2. \A a \in Rows(Mig(r)) : attempt[a].status \in {"Started", "Failed"}
      BY <1>3, <3>1, RolledBackRows
    <3>3. \A m \in Migrations : receipt[m].attempt \notin Rows(Mig(r))
      BY <3>2, NamesAssumption DEF ReleaseInvariant, ReceiptsLinked, Rows, NoRow
    <3>4. Rows(Mig(r)) \subseteq {a \in Attempts : attempt[a].status # "none"}
      BY DEF Rows
    <3>5. Ledger!Report(Rows(Mig(r)))
      BY <2>1, <3>1, <3>3, <3>4 DEF Ledger!Report
    <3>6. Rows(Mig(r)) \in SUBSET Attempts
      BY DEF Rows
    <3> QED BY <3>5, <3>6 DEF Ledger!LedgerNext
  <2> QED BY <2>2, <2>3
<1>4. ASSUME NEW r \in Runners, MarkFailed(r)
      PROVE  UNCHANGED Ledger!ledgerVars
  <2>0. /\ mine[r] \in Attempts
        /\ attempt[mine[r]] = [status |-> "Started", call |-> job[r].call]
    BY <1>4 DEF ReleaseInvariant, AttemptInFlight, InFlight, MarkFailed
  <2>1. mine[r] \in Attempts /\ attempt[mine[r]].status = "Started"
    BY <2>0
  <2>2. {x \in Attempts : attempt'[x].status # "none"} =
        {x \in Attempts : attempt[x].status # "none"}
    BY <1>4, <2>1, MarksOnly DEF ReleaseInvariant, ReleaseTypeOK, MarkFailed
  <2> QED BY <1>4, <2>2 DEF Ledger!ledgerVars, MarkFailed
<1>5. ASSUME UNCHANGED <<receipt, attempt, denied>>
      PROVE  UNCHANGED Ledger!ledgerVars
  BY <1>5 DEF Ledger!ledgerVars
<1>6. \/ UNCHANGED <<receipt, attempt, denied>>
      \/ \E r \in Runners : InsertAttempt(r) \/ ServerCommit(r) \/ ReadImages(r) \/ MarkFailed(r)
  BY DEF ReleaseNext, Advance, Launch, TakeLock, Unready, ReadHistory,
       Finish, Begin, Change, WriteReceipt, Throw, RequestCommit, Acknowledge,
       LoseConnection, Kill, Reap, Drift, Rollback, Goto, Exit, db, client,
       vars
<1> QED BY <1>1, <1>2, <1>3, <1>4, <1>5, <1>6

(* The runner keeps what it promises: a migration is applied at most once, and  *)
(* never by an attempt somebody was told is rolled back.                        *)
THEOREM ReleaseKeepsLedger == ReleaseSpec => LedgerSpec
<1>1. ReleaseInit => Ledger!LedgerInit
  BY DEF ReleaseInit, Ledger!LedgerInit, NoRow, NoAttempt
<1>2. ReleaseInvariant /\ [ReleaseNext]_vars => [Ledger!LedgerNext]_(Ledger!ledgerVars)
  BY LedgerStep
<1> QED BY <1>1, <1>2, ReleaseInvariantHolds, PTL DEF ReleaseSpec,
     LedgerSpec, Ledger!LedgerSpec
=============================================================================
