---------------------------- MODULE ReleaseRunner ----------------------------
(* Invoke-K98ModuleRelease (deploy/SqlDeploy.ModuleRelease.ps1): the runner   *)
(* that applies one reviewed release profile to a database. Every runner is   *)
(* a process of its own; the server keeps what a process that died has left   *)
(* (its session, its application lock, its open transaction, a commit already *)
(* sent) until it notices. Outsiders may alter the objects a release is about.*)
EXTENDS FiniteSets, Naturals

CONSTANTS
    Runners,        \* processes that run Deploy-SqlMigration.ps1
    Calls,          \* the reviewed invocations: migration, profile, pin, release
    Items,          \* the objects, grants and child receipts of one migration
    Attempts,       \* DeploymentId values
    AttemptBound,   \* rows the bounded history query reads before it refuses
    NoOne           \* no owner, no attempt, no receipt

Field == {"migration", "profile", "pin", "release"}
Migrations == {c.migration : c \in Calls}
Operations == {"Preflight", "Status", "Verify", "Apply"}
Images == {"before", "after", "other"}
NoRow == [status |-> "none", pin |-> NoOne, attempt |-> NoOne]
NoAttempt == [status |-> "none", call |-> NoOne]

ASSUME CallsAssumption == \A c \in Calls : DOMAIN c = Field
ASSUME NamesAssumption ==
    NoOne \notin Runners /\ NoOne \notin Attempts /\ NoOne \notin Calls
ASSUME BoundAssumption == AttemptBound \in Nat /\ IsFiniteSet(Attempts)

VARIABLES
    image,     \* [Migrations -> [Items -> Images]], as committed
    receipt,   \* dbo.SchemaMigrationHistory, one row per migration
    attempt,   \* dbo.DeploymentRunHistory, one row per DeploymentId
    lock,      \* owner of the application lock K98_Module_Release_v1: a runner,
               \* nobody, or the connection of a fixture that occupies it
    pc,        \* where each process stands
    job,       \* operation and call of each process
    conn,      \* its connection: none, open, or lost and not yet noticed
    server,    \* its transaction on the server
    reading,   \* the outcome it has read so far
    mine,      \* the attempt it has inserted
    code,      \* its exit code
    denied     \* history: attempts some runner has found to be rolled back

db == <<image, receipt, attempt>>
client == <<pc, job, reading, mine, code>>
vars == <<image, receipt, attempt, lock, pc, job, conn, server, reading, mine,
          code, denied>>

Steps == {"idle", "opened", "locked", "history", "decided", "started", "begun",
          "changed", "receipted", "committing", "unmarked", "exited", "killed"}
Busy == Steps \ {"idle", "exited", "killed"}
Verdicts == {"committed", "unstarted", "rolled_back"}
NoJob == [op |-> "Status", call |-> NoOne]

ReleaseInit ==
    /\ image = [m \in Migrations |-> [i \in Items |-> "before"]]
    /\ receipt = [m \in Migrations |-> NoRow]
    /\ attempt = [a \in Attempts |-> NoAttempt]
    /\ lock = NoOne
    /\ pc = [r \in Runners |-> "idle"]
    /\ job = [r \in Runners |-> NoJob]
    /\ conn = [r \in Runners |-> "none"]
    /\ server = [r \in Runners |-> "idle"]
    /\ reading = [r \in Runners |-> "none"]
    /\ mine = [r \in Runners |-> NoOne]
    /\ code = [r \in Runners |-> "none"]
    /\ denied = {}

-----------------------------------------------------------------------------
Mig(r) == job[r].call.migration
AllAre(m, v) == \A i \in Items : image[m][i] = v
Rows(m) == {a \in Attempts : /\ attempt[a].status # "none"
                             /\ attempt[a].call.migration = m}

\* Mutant: the release of the linked attempt is not compared.
ReceiptOfPin(c) == receipt[c.migration].status = "Applied"
                   /\ receipt[c.migration].pin = c.pin

\* An Applied row belongs to the release that wrote it: its pin, its linked
\* attempt and the release named there must all be the caller's.
ReceiptIsMine(c) ==
    LET h == receipt[c.migration] IN
    /\ h.status = "Applied"
    /\ h.pin = c.pin
    /\ h.attempt \in Attempts
    /\ attempt[h.attempt] = [status |-> "Succeeded", call |-> c]

AttemptsAreMine(c) ==
    /\ Cardinality(Rows(c.migration)) <= AttemptBound
    /\ \A a \in Rows(c.migration) :
          /\ attempt[a].call = c
          /\ attempt[a].status \in {"Started", "Failed"}

\* Mutant: an attempt that was rolled back falls through to another code.
ExitCodeOther(verdict) ==
    CASE verdict = "committed" -> "0"
      [] verdict = "unstarted" -> "10"
      [] OTHER -> "1"

ExitCode(verdict) ==
    CASE verdict = "committed" -> "0"
      [] verdict = "unstarted" -> "10"
      [] verdict = "rolled_back" -> "11"

\* Mutant: the receipt is written and the attempt stays Started.
WithFailure(a, s) ==
    IF s = "Failed" THEN [attempt EXCEPT ![a].status = s] ELSE attempt

WithStatus(a, s) ==
    [attempt EXCEPT ![a] = [status |-> s, call |-> attempt[a].call]]

\* Mutant: CREATE is written as CREATE OR ALTER in every profile.
OverwritesAny(c) == c.profile # "none"

\* A profile of new tables or triggers, and a recovery chain whose scripts
\* compare their own preimages, fail on an object that is not as reviewed;
\* CREATE OR ALTER of a module replaces whatever it finds.
Overwrites(c) == c.profile = "module_grants_v1"

\* DDL of an uncommitted transaction holds its objects until the end.
Held(m) == \E r \in Runners :
    server[r] \in {"changed", "receipted", "commitSent"} /\ Mig(r) = m

Exit(r, c) ==
    /\ pc' = [pc EXCEPT ![r] = "exited"]
    /\ code' = [code EXCEPT ![r] = c]
    /\ conn' = [conn EXCEPT ![r] = "lost"]
    /\ UNCHANGED <<job, reading, mine>>

Goto(r, p) ==
    /\ pc' = [pc EXCEPT ![r] = p]
    /\ UNCHANGED <<job, conn, code>>

-----------------------------------------------------------------------------
Launch(r, op, c) ==
    /\ pc[r] \in {"idle", "exited", "killed"}
    /\ conn[r] = "none"
    /\ pc' = [pc EXCEPT ![r] = "opened"]
    /\ job' = [job EXCEPT ![r] = [op |-> op, call |-> c]]
    /\ conn' = [conn EXCEPT ![r] = "open"]
    /\ reading' = [reading EXCEPT ![r] = "none"]
    /\ mine' = [mine EXCEPT ![r] = NoOne]
    /\ code' = [code EXCEPT ![r] = "none"]
    /\ UNCHANGED <<db, lock, server, denied>>

\* Mutant: the lock is taken in a mode that other owners share.
TakeLockShared(r) ==
    /\ pc[r] = "opened"
    /\ lock' = r
    /\ Goto(r, "locked")
    /\ UNCHANGED <<reading, mine, db, server, denied>>

\* sp_getapplock with timeout 0: a second owner is refused, never queued.
TakeLock(r) ==
    /\ pc[r] = "opened"
    /\ IF lock = NoOne
       THEN /\ lock' = r
            /\ Goto(r, "locked")
            /\ UNCHANGED <<reading, mine>>
       ELSE /\ Exit(r, "20")
            /\ UNCHANGED lock
    /\ UNCHANGED <<db, server, denied>>

\* Environment, required predecessors or backups are not as the profile asks.
Unready(r) ==
    /\ \/ pc[r] = "locked" /\ mine[r] = NoOne
       \/ /\ pc[r] = "decided"
          /\ reading[r] # "committed"
          /\ mine[r] = NoOne
          /\ job[r].op \in {"Preflight", "Apply"}
    /\ Exit(r, "20")
    /\ UNCHANGED <<db, lock, server, denied>>

\* Mutant: an Applied receipt of the same pin is taken for the caller's own.
ReadHistoryOfPin(r) ==
    LET c == job[r].call IN
    /\ pc[r] = "locked"
    /\ IF receipt[c.migration].status = "Applied"
          /\ receipt[c.migration].pin = c.pin
       THEN reading' = [reading EXCEPT ![r] = "committed"]
       ELSE /\ AttemptsAreMine(c)
            /\ reading' = [reading EXCEPT ![r] =
                  IF Rows(c.migration) = {} THEN "unstarted" ELSE "rolled_back"]
    /\ Goto(r, "history")
    /\ UNCHANGED <<mine, db, lock, server, denied>>

ReadHistory(r) ==
    LET c == job[r].call
        h == receipt[c.migration]
        seen == IF h.status # "none" THEN "committed"
                ELSE IF Rows(c.migration) = {} THEN "unstarted"
                ELSE "rolled_back"
    IN
    /\ pc[r] = "locked"
    /\ IF IF h.status # "none" THEN ReceiptIsMine(c) ELSE AttemptsAreMine(c)
       THEN /\ reading' = [reading EXCEPT ![r] = seen]
            /\ Goto(r, "history")
            /\ UNCHANGED mine
       ELSE Exit(r, "20")
    /\ UNCHANGED <<db, lock, server, denied>>

ReadImages(r) ==
    LET m == Mig(r)
        expected == IF reading[r] = "committed" THEN "after" ELSE "before"
    IN
    /\ pc[r] = "history"
    /\ IF AllAre(m, expected)
       THEN /\ denied' = IF reading[r] = "rolled_back"
                         THEN denied \cup Rows(m) ELSE denied
            /\ Goto(r, "decided")
            /\ UNCHANGED <<reading, mine>>
       ELSE /\ Exit(r, "20")
            /\ UNCHANGED denied
    /\ UNCHANGED <<db, lock, server>>

Finish(r) ==
    /\ pc[r] = "decided"
    /\ job[r].op = "Apply" => reading[r] = "committed" \/ mine[r] # NoOne
    /\ Exit(r, IF job[r].op = "Preflight" THEN "0" ELSE ExitCode(reading[r]))
    /\ UNCHANGED <<db, lock, server, denied>>

\* The attempt is recorded on its own, before the transaction.
InsertAttempt(r) ==
    /\ pc[r] = "decided"
    /\ job[r].op = "Apply"
    /\ reading[r] # "committed"
    /\ mine[r] = NoOne
    /\ \E a \in Attempts :
          /\ attempt[a] = NoAttempt
          /\ attempt' = [attempt EXCEPT ![a] =
                [status |-> "Started", call |-> job[r].call]]
          /\ mine' = [mine EXCEPT ![r] = a]
    /\ Goto(r, "started")
    /\ UNCHANGED <<image, receipt, lock, server, reading, denied>>

\* catch, with the transaction open and no commit requested: roll back, then
\* mark the attempt in a statement of its own.
Rollback(r) ==
    /\ server' = [server EXCEPT ![r] = "idle"]
    /\ Goto(r, "unmarked")
    /\ UNCHANGED <<reading, mine>>

Begin(r) ==
    /\ pc[r] = "started"
    /\ IF AllAre(Mig(r), "before")
       THEN /\ server' = [server EXCEPT ![r] = "open"]
            /\ Goto(r, "begun")
            /\ UNCHANGED <<reading, mine>>
       ELSE Rollback(r)
    /\ UNCHANGED <<db, lock, denied>>

Change(r) ==
    /\ pc[r] = "begun"
    /\ ~Held(Mig(r))
    /\ IF Overwrites(job[r].call) \/ AllAre(Mig(r), "before")
       THEN /\ server' = [server EXCEPT ![r] = "changed"]
            /\ Goto(r, "changed")
            /\ UNCHANGED <<reading, mine>>
       ELSE Rollback(r)
    /\ UNCHANGED <<db, lock, denied>>

\* The receipt and the success of the attempt, in the same transaction. The
\* primary key refuses a second row for the migration.
WriteReceipt(r) ==
    /\ pc[r] = "changed"
    /\ IF receipt[Mig(r)] = NoRow
       THEN /\ server' = [server EXCEPT ![r] = "receipted"]
            /\ Goto(r, "receipted")
            /\ UNCHANGED <<reading, mine>>
       ELSE Rollback(r)
    /\ UNCHANGED <<db, lock, denied>>

Throw(r) ==
    /\ pc[r] \in {"begun", "changed", "receipted"}
    /\ Rollback(r)
    /\ UNCHANGED <<db, lock, denied>>

RequestCommit(r) ==
    /\ pc[r] = "receipted"
    /\ server' = [server EXCEPT ![r] = "commitSent"]
    /\ Goto(r, "committing")
    /\ UNCHANGED <<db, lock, reading, mine, denied>>

\* The server carries out a commit it has received, whoever still waits for it.
ServerCommit(r) ==
    /\ server[r] = "commitSent"
    /\ image' = [image EXCEPT ![Mig(r)] = [i \in Items |-> "after"]]
    /\ receipt' = [receipt EXCEPT ![Mig(r)] =
          [status |-> "Applied", pin |-> job[r].call.pin, attempt |-> mine[r]]]
    /\ attempt' = WithStatus(mine[r], "Succeeded")
    /\ server' = [server EXCEPT ![r] = "idle"]
    /\ UNCHANGED <<lock, client, conn, denied>>

\* After the acknowledgement the outcome is read again, from the database.
Acknowledge(r) ==
    /\ pc[r] = "committing"
    /\ server[r] = "idle"
    /\ Goto(r, "locked")
    /\ UNCHANGED <<db, lock, server, reading, mine, denied>>

\* The connection fails: the rollback is not tried (a commit was requested) or
\* not acknowledged, the attempt is not marked, and the caller sees a refusal.
LoseConnection(r) ==
    /\ pc[r] \in Busy
    /\ Exit(r, "20")
    /\ UNCHANGED <<db, lock, server, denied>>

MarkFailed(r) ==
    /\ pc[r] = "unmarked"
    /\ attempt' = IF attempt[mine[r]].status = "Started"
                  THEN WithStatus(mine[r], "Failed")
                  ELSE attempt
    /\ Exit(r, "20")
    /\ UNCHANGED <<image, receipt, lock, server, denied>>

\* The process dies, or loses its connection, wherever it is.
Kill(r) ==
    /\ pc[r] \in Busy
    /\ pc' = [pc EXCEPT ![r] = "killed"]
    /\ conn' = [conn EXCEPT ![r] = "lost"]
    /\ UNCHANGED <<db, lock, job, server, reading, mine, code, denied>>

\* Mutant: the lock is given back before the open transaction is ended.
ReapLock(r) ==
    /\ conn[r] = "lost"
    /\ conn' = [conn EXCEPT ![r] = "none"]
    /\ lock' = IF lock = r THEN NoOne ELSE lock
    /\ UNCHANGED <<db, client, denied, server>>

\* The server notices: what was not committed is undone, the lock is free.
Reap(r) ==
    /\ conn[r] = "lost"
    /\ conn' = [conn EXCEPT ![r] = "none"]
    /\ server' = [server EXCEPT ![r] = "idle"]
    /\ lock' = IF lock = r THEN NoOne ELSE lock
    /\ UNCHANGED <<db, client, denied>>

-----------------------------------------------------------------------------
\* Somebody alters an object of the migration outside any release.
Drift(m, i, v) ==
    /\ ~Held(m)
    /\ image[m][i] # v
    /\ image' = [image EXCEPT ![m][i] = v]
    /\ UNCHANGED <<receipt, attempt, lock, client, conn, server, denied>>

Advance(r) ==
    \/ TakeLock(r) \/ ReadHistory(r) \/ ReadImages(r) \/ Finish(r)
    \/ InsertAttempt(r) \/ Begin(r) \/ Change(r) \/ WriteReceipt(r)
    \/ RequestCommit(r) \/ Acknowledge(r) \/ MarkFailed(r)

ReleaseNext ==
    \/ \E r \in Runners, op \in Operations, c \in Calls : Launch(r, op, c)
    \/ \E r \in Runners :
          \/ Advance(r) \/ Unready(r) \/ Throw(r) \/ ServerCommit(r)
          \/ LoseConnection(r) \/ Kill(r) \/ Reap(r)
    \/ \E m \in Migrations, i \in Items, v \in Images : Drift(m, i, v)

ReleaseSpec == ReleaseInit /\ [][ReleaseNext]_vars

-----------------------------------------------------------------------------
ReleaseTypeOK ==
    /\ image \in [Migrations -> [Items -> Images]]
    /\ receipt \in [Migrations -> {NoRow} \cup
          [status : {"Applied"}, pin : {c.pin : c \in Calls}, attempt : Attempts]]
    /\ attempt \in [Attempts -> {NoAttempt} \cup
          [status : {"Started", "Failed", "Succeeded"}, call : Calls]]
    /\ lock \in Runners \cup {NoOne, "fixture"}
    /\ pc \in [Runners -> Steps]
    /\ job \in [Runners -> {NoJob} \cup [op : Operations, call : Calls]]
    /\ conn \in [Runners -> {"none", "open", "lost"}]
    /\ server \in [Runners ->
          {"idle", "open", "changed", "receipted", "commitSent"}]
    /\ reading \in [Runners -> {"none"} \cup Verdicts]
    /\ mine \in [Runners -> Attempts \cup {NoOne}]
    /\ code \in [Runners -> {"none", "0", "10", "11", "20"}]
    /\ denied \subseteq Attempts

\* Steps of a process that owns the lock.
AtLock == Busy \ {"opened"}

\* Lock and connection: what a transaction, a step and a lost connection say
\* of the owner of the lock.
LockHeld == \A r \in Runners :
    /\ server[r] # "idle" => lock = r
    /\ pc[r] \in AtLock => lock = r
    /\ pc[r] \in Busy <=> conn[r] = "open"
    /\ lock = r => conn[r] # "none"

\* Where a live process stands and what its transaction has done.
ServerAgrees == \A r \in Runners : conn[r] = "open" =>
    /\ pc[r] = "begun" => server[r] = "open"
    /\ pc[r] = "changed" => server[r] = "changed"
    /\ pc[r] = "receipted" => server[r] = "receipted"
    /\ pc[r] = "committing" => server[r] \in {"commitSent", "idle"}
    /\ pc[r] \notin {"begun", "changed", "receipted", "committing"}
         => server[r] = "idle"

\* The attempt of a transaction, or of one that was rolled back and is not yet
\* marked, is still Started, and nobody was told that it is rolled back.
InFlight(r) == server[r] # "idle" \/ pc[r] \in {"started", "unmarked"}

AttemptInFlight == \A r \in Runners : InFlight(r) =>
    /\ mine[r] \in Attempts
    /\ attempt[mine[r]] = [status |-> "Started", call |-> job[r].call]
    /\ mine[r] \notin denied

CallKnown == \A r \in Runners :
    pc[r] # "idle" \/ conn[r] # "none" \/ code[r] # "none" => job[r].call \in Calls

\* The row a runner found missing is missing until it writes it.
NoReceiptYet == \A r \in Runners :
    (\/ server[r] \in {"receipted", "commitSent"}
     \/ pc[r] = "history" /\ reading[r] # "committed")
    => receipt[Mig(r)] = NoRow

DeniedFinal == \A a \in denied : attempt[a].status \in {"Started", "Failed"}

ReadingStands == \A r \in Runners : pc[r] \in {"history", "decided"} =>
    /\ reading[r] \in Verdicts
    /\ reading[r] = "committed" => ReceiptIsMine(job[r].call)

\* A transaction belongs to the owner of the application lock, also when its
\* process is dead and the server has not noticed: two runners never write at
\* the same time, whatever dies and is started again in between.
OneWriter == \A r \in Runners : server[r] # "idle" => lock = r

\* Receipts and attempts agree: an Applied row names a Succeeded attempt of the
\* same migration and pin, and no other attempt has succeeded.
ReceiptsLinked ==
    /\ \A m \in Migrations : receipt[m] # NoRow =>
          LET a == attempt[receipt[m].attempt] IN
          /\ a.status = "Succeeded"
          /\ a.call.migration = m
          /\ a.call.pin = receipt[m].pin
    /\ \A a \in Attempts : attempt[a].status = "Succeeded" =>
          receipt[attempt[a].call.migration].attempt = a

\* The verdict rolled_back is final: an attempt it covered, which may still be
\* marked Started because its process died, has not succeeded and no
\* transaction that could make it succeed is left on the server.
RolledBackIsFinal == \A a \in denied :
    /\ attempt[a].status \in {"Started", "Failed"}
    /\ \A r \in Runners : mine[r] = a => server[r] = "idle"

\* Exit 0 of Status, Verify and Apply is said of the caller's own release only:
\* nobody is told that a receipt of another release is his.
ZeroIsMine == \A r \in Runners :
    code[r] = "0" /\ job[r].op # "Preflight" => ReceiptIsMine(job[r].call)

\* Objects that are changed by statements that refuse what is not as reviewed
\* are, as committed, as reviewed until the transaction ends.
ImagesStand == \A r \in Runners :
    /\ server[r] \in {"changed", "receipted", "commitSent"}
    /\ ~Overwrites(job[r].call)
    => AllAre(Mig(r), "before")

\* What every step preserves.
ReleaseInvariant ==
    /\ ReleaseTypeOK /\ LockHeld /\ ServerAgrees /\ AttemptInFlight
    /\ CallKnown /\ NoReceiptYet /\ ReceiptsLinked /\ DeniedFinal
    /\ ReadingStands /\ ZeroIsMine

\* A migration is applied once: its receipt never changes again, whoever calls
\* the runner afterwards, whatever drifts and whatever died before.
AppliedOnce == [][\A m \in Migrations :
    receipt[m] # NoRow => receipt'[m] = receipt[m]]_vars

\* A release is committed over objects that are exactly as reviewed.
OverReviewed == [][\A m \in Migrations :
    receipt'[m] # receipt[m] => AllAre(m, "before")]_vars

Ledger == INSTANCE ReleaseLedger WITH
    NoReceipt <- NoOne,
    applied <- [m \in Migrations |-> receipt[m].attempt],
    started <- {a \in Attempts : attempt[a].status # "none"},
    denied <- denied

LedgerSpec == Ledger!LedgerSpec
=============================================================================
