------------------------------ MODULE Rehearsal ------------------------------
(* The rehearsals of the release runner: Python programs, each of which makes a *)
(* disposable database, starts real runners on it one after the other (or one  *)
(* beside a child it has paused), alters the database between them, compares   *)
(* every exit code and every count with what it expects, and stops at the      *)
(* first surprise. A program is the sequence of its steps; what the runners do *)
(* meanwhile is ReleaseRunner.                                                 *)
EXTENDS ReleaseRunner, Sequences

CONSTANTS
    Programs,   \* [names of the rehearsals -> sequences of steps]
    Fixture     \* migrations whose statements fail until a program mends them

VARIABLES
    program,    \* the rehearsal that is run
    timely,     \* FALSE: a call may exceed the timeout the program gives it
    step,       \* index of the step the program is at
    awaited,    \* the process the program waits for, or NoOne
    verdict,    \* running, PASS, or FAIL at the first surprise
    fault,      \* [Runners -> the fault built into the runner's copy]
    broken,     \* migrations whose statements fail
    finally,    \* what the program will undo on its way out, innermost first
    counted,    \* a number of attempts it has noted
    tracking    \* the database setting CHANGE_TRACKING

choice == <<program, timely>>
harness == <<choice, step, awaited, verdict, fault, broken, finally, counted, tracking>>
rehearsalVars == <<vars, harness>>

\* The steps a script is written in.
Run(op, c, expected) == [do |-> "run", op |-> op, call |-> c, fault |-> "none",
                         code |-> expected]
RunFaulty(f, op, c, expected) == [Run(op, c, expected) EXCEPT !.fault = f]
Spawn(f, c) == [do |-> "spawn", op |-> "Apply", call |-> c, fault |-> f]
Await == [do |-> "await"]
Edit(m, i, v) == [do |-> "edit", migration |-> m, item |-> i, to |-> v]
Mend(m) == [do |-> "mend", migration |-> m]
Rebind(m, c) == [do |-> "rebind", migration |-> m, call |-> c]
Legacy(m, how, accepted) == [do |-> "legacy", migration |-> m, how |-> how,
                             accepted |-> accepted]
Switch(on) == [do |-> "switch", to |-> on]
Occupy == [do |-> "occupy"]
Vacate == [do |-> "vacate"]
Guard(undo) == [do |-> "guard", undo |-> undo]
Finally == [do |-> "finally"]
KillChild == [do |-> "kill"]
Count(ms, n) == [do |-> "count", of |-> ms, n |-> n]
Failed(n) == [do |-> "failed", n |-> n]
Note(ms) == [do |-> "note", of |-> ms]
More(ms, n) == [do |-> "more", of |-> ms, n |-> n]
Receipts(ms, n) == [do |-> "receipts", of |-> ms, n |-> n]
Image(m, i, v) == [do |-> "image", migration |-> m, item |-> i, is |-> v]

\* A script names what there is: operations, calls, migrations and objects.
EditFits(e) == e.migration \in Migrations /\ e.item \in Items /\ e.to \in Images
Fits(e) ==
    /\ e.do \in {"run", "spawn"} => e.op \in Operations /\ e.call \in Calls
    /\ e.do = "edit" => EditFits(e)
    /\ e.do = "guard" /\ e.undo.do = "edit" => EditFits(e.undo)
    /\ e.do = "legacy" => e.migration \in Migrations
    /\ e.do = "rebind" => e.call \in Calls /\ e.call.migration = e.migration

\* A call that may commit the migration m.
MayApply(e, m) ==
    e.do \in {"run", "spawn"} /\ e.op = "Apply" /\ e.call.migration = m

ASSUME ProcessesAssumption ==
    {"outer", "child"} \subseteq Runners /\ "fixture" \notin Runners \cup {NoOne}
ASSUME ScriptsAssumption == \A n \in DOMAIN Programs :
    /\ Len(Programs[n]) \in Nat \ {0}
    /\ \A k \in 1..Len(Programs[n]) : Fits(Programs[n][k])
\* Attempts are given to another profile only where each Apply before was made
\* to throw in its change.
ASSUME RebindAssumption == \A n \in DOMAIN Programs : \A k \in 1..Len(Programs[n]) :
    Programs[n][k].do = "rebind" => \A j \in 1..(k - 1) :
        MayApply(Programs[n][j], Programs[n][k].migration) =>
            Programs[n][j].do = "run" /\ Programs[n][j].fault = "throw_in_change"

\* Whatever is started or switched on is followed at once by the finally that
\* kills it or switches it off, also the tracking of a table, which has to end
\* before that of its database can: so no table is tracked before the database.
Tracks(e) == e.do = "edit" /\ e.item = "tracked" /\ e.to = "other"
Untracks(u, m) == u.do = "edit" /\ u.migration = m /\ u.item = "tracked"
Undoes(u, e) ==
    \/ e.do = "spawn" /\ u.do = "kill"
    \/ e.do = "switch" /\ u.do = "switch"
    \/ e.do = "edit" /\ Untracks(u, e.migration)
ASSUME GuardsAssumption == "tracked" \in Items /\ \A n \in DOMAIN Programs :
    \A k \in 1..Len(Programs[n]) :
        LET e == Programs[n][k] IN
        /\ e.do = "spawn" \/ (e.do = "switch" /\ e.to) \/ Tracks(e) =>
              /\ k + 1 \in 1..Len(Programs[n])
              /\ Programs[n][k + 1].do = "guard" /\ Undoes(Programs[n][k + 1].undo, e)
        /\ e.do = "guard" =>
              /\ e.undo.do \in {"kill", "edit", "switch"} /\ ~Tracks(e.undo)
              /\ e.undo.do = "switch" =>
                    ~e.undo.to /\ \A j \in 1..(k - 1) : ~Tracks(Programs[n][j])

RehearsalInit ==
    /\ ReleaseInit
    /\ program \in DOMAIN Programs
    /\ timely \in BOOLEAN
    /\ step = 1
    /\ awaited = NoOne
    /\ verdict = "running"
    /\ fault = [r \in Runners |-> "none"]
    /\ broken = Fixture
    /\ finally = <<>>
    /\ counted = 0
    /\ tracking = FALSE

-----------------------------------------------------------------------------
Now == Programs[program][step]
At(do) == verdict = "running" /\ awaited = NoOne /\ Now.do = do

Pass == /\ step' = step + 1
        /\ verdict' = IF step = Len(Programs[program]) THEN "PASS" ELSE "running"
Fail == step' = step /\ verdict' = "FAIL"
Judge(ok) == IF ok THEN Pass ELSE Fail

\* What the runner's processes see of the database is left alone.
Beside == UNCHANGED <<lock, client, conn, server, denied>>

\* A new process is started only when the server has noticed the end of the
\* last one; the process starts far slower than that.
Prompt == \A r \in Runners : conn[r] # "lost"

Start(r) ==
    /\ Prompt
    /\ Launch(r, Now.op, Now.call)
    /\ fault' = [fault EXCEPT ![r] = Now.fault]

Outer ==
    /\ At("run")
    /\ Start("outer")
    /\ awaited' = "outer"
    /\ UNCHANGED <<step, verdict, broken, finally, counted, tracking>>

Compare ==
    /\ awaited = "outer" /\ verdict = "running"
    /\ pc["outer"] = "exited"
    /\ awaited' = NoOne
    /\ Judge(code["outer"] = Now.code)
    /\ UNCHANGED <<vars, fault, broken, finally, counted, tracking>>

SpawnChild ==
    /\ At("spawn")
    /\ Start("child")
    /\ Pass
    /\ UNCHANGED <<awaited, broken, finally, counted, tracking>>

\* The fault makes the copy stop and say so, just before a statement.
Paused(r) ==
    \/ fault[r] = "pause_before_receipt" /\ pc[r] = "changed"
    \/ fault[r] = "pause_before_commit" /\ pc[r] = "receipted"
    \/ fault[r] = "pause_after_commit" /\ pc[r] = "locked" /\ mine[r] # NoOne

AwaitMarker ==
    /\ At("await")
    /\ Paused("child") \/ pc["child"] \notin Busy
    /\ Judge(Paused("child"))
    /\ UNCHANGED <<vars, awaited, fault, broken, finally, counted, tracking>>

\* The fault makes the copy throw there.
Injected(r) ==
    \/ fault[r] = "throw_in_change" /\ pc[r] = "begun"
    \/ fault[r] = "throw_before_commit" /\ pc[r] = "receipted"
    \/ pc[r] = "begun" /\ Mig(r) \in broken

LostReply(r) ==
    fault[r] = "lose_reply" /\ pc[r] = "locked" /\ mine[r] # NoOne

\* GUIDs are new: here they are numbered in the order they are made.
InOrder == \A a \in Attempts : attempt'[a] # attempt[a] =>
    \A b \in Attempts : b < a => attempt[b] # NoAttempt

RunnerRuns(r) ==
    /\ IF Injected(r) THEN Throw(r)
       ELSE IF LostReply(r) THEN LoseConnection(r)
       ELSE ~Paused(r) /\ Advance(r) /\ InOrder
    /\ UNCHANGED <<step, awaited, verdict, fault, broken, finally, counted,
                   tracking>>

ServerRuns(r) ==
    /\ ServerCommit(r) \/ Reap(r)
    /\ UNCHANGED <<step, awaited, verdict, fault, broken, finally, counted, tracking>>

\* The legacy installer of the same objects refuses what it does not know,
\* installs what is absent and accepts what is exactly installed; it knows no
\* receipts. A copy with an injected catalog flag refuses whatever it finds.
LegacyAccepts(m, how) ==
    how = "installer" /\ (AllAre(m, "before") \/ AllAre(m, "after"))

SetItem(m, i, v) == image' = [image EXCEPT ![m][i] = v]

AlterDatabase ==
    /\ \/ /\ At("edit")
          /\ SetItem(Now.migration, Now.item, Now.to)
          /\ Pass
          /\ UNCHANGED <<attempt, broken, tracking>>
       \/ /\ At("mend")
          /\ broken' = broken \ {Now.migration}
          /\ Pass
          /\ UNCHANGED <<image, attempt, tracking>>
       \/ /\ At("rebind")
          /\ attempt' = [a \in Attempts |-> IF a \in Rows(Now.migration)
                THEN [attempt[a] EXCEPT !.call = Now.call] ELSE attempt[a]]
          /\ Pass
          /\ UNCHANGED <<image, broken, tracking>>
       \/ /\ At("legacy")
          /\ image' = IF LegacyAccepts(Now.migration, Now.how)
                      THEN [image EXCEPT ![Now.migration] = [i \in Items |-> "after"]]
                      ELSE image
          /\ Judge(LegacyAccepts(Now.migration, Now.how) = Now.accepted)
          /\ UNCHANGED <<attempt, broken, tracking>>
       \/ /\ At("switch")
          /\ tracking' = Now.to
          /\ Pass
          /\ UNCHANGED <<image, attempt, broken>>
    /\ Beside
    /\ UNCHANGED <<receipt, awaited, fault, finally, counted>>

\* The program's own connection takes the runner's lock, without waiting, and
\* gives it back; when it is refused the program stops.
OccupyLock ==
    /\ \/ /\ At("occupy") /\ Prompt
          /\ lock' = IF lock = NoOne THEN "fixture" ELSE lock
          /\ Judge(lock = NoOne)
       \/ /\ At("vacate")
          /\ lock' = IF lock = "fixture" THEN NoOne ELSE lock
          /\ Pass
    /\ UNCHANGED <<db, client, conn, server, denied, awaited, fault, broken,
                   finally, counted, tracking>>

Made(ms) == {a \in Attempts : attempt[a] # NoAttempt
                              /\ attempt[a].call.migration \in ms}

Observed ==
    \/ At("count") /\ Judge(Cardinality(Made(Now.of)) = Now.n)
    \/ At("more") /\ Judge(Cardinality(Made(Now.of)) - counted = Now.n)
    \/ At("failed") /\ Judge(Now.n =
          Cardinality({a \in Attempts : attempt[a].status = "Failed"}))
    \/ At("receipts") /\ Judge(Now.n =
          Cardinality({m \in Now.of : receipt[m] # NoRow}))
    \/ At("image") /\ Judge(image[Now.migration][Now.item] = Now.is)

Inspect ==
    /\ \/ Observed /\ UNCHANGED counted
       \/ At("note") /\ counted' = Cardinality(Made(Now.of)) /\ Pass
    /\ UNCHANGED <<vars, awaited, fault, broken, finally, tracking>>

PushFinally ==
    /\ At("guard")
    /\ finally' = <<Now.undo>> \o finally
    /\ Pass
    /\ UNCHANGED <<vars, awaited, fault, broken, counted, tracking>>

\* Mutant: the child is asked to end, and its runner still marks its attempt.
UndoGently(u) ==
    /\ IF u.do = "kill" /\ pc["child"] \in {"begun", "changed", "receipted"}
       THEN Throw("child") ELSE UNCHANGED vars
    /\ tracking' = FALSE

\* process.kill() and wait, or the statement that restores the database; the
\* server refuses to end the tracking of a database with a tracked table.
Undo(u) ==
    \/ /\ u.do = "kill"
       /\ IF pc["child"] \in Busy THEN Kill("child") ELSE UNCHANGED vars
       /\ UNCHANGED tracking
    \/ /\ u.do = "edit"
       /\ SetItem(u.migration, u.item, u.to)
       /\ Beside
       /\ UNCHANGED <<receipt, attempt, tracking>>
    \/ /\ u.do = "switch"
       /\ tracking' = IF \A m \in Migrations : image[m]["tracked"] # "other"
                      THEN u.to ELSE tracking
       /\ UNCHANGED vars

RunFinally ==
    /\ finally # <<>>
    /\ \/ At("finally") /\ Pass
       \/ verdict = "FAIL" /\ awaited = NoOne /\ UNCHANGED <<step, verdict>>
    /\ Undo(Head(finally))
    /\ finally' = Tail(finally)
    /\ UNCHANGED <<awaited, fault, broken, counted>>

\* The call exceeds its timeout: subprocess kills the process it waits for, and
\* the marker of a child is not waited for longer than the deadline.
TimeOut ==
    /\ ~timely
    /\ verdict = "running"
    /\ \/ awaited = "outer" /\ Kill("outer")
       \/ At("await") /\ UNCHANGED vars
    /\ awaited' = NoOne
    /\ Fail
    /\ UNCHANGED <<fault, broken, finally, counted, tracking>>

\* The end of the program closes its own connection.
Leave ==
    /\ verdict # "running" /\ finally = <<>>
    /\ lock = "fixture"
    /\ lock' = NoOne
    /\ UNCHANGED <<db, client, conn, server, denied, step, awaited, verdict, fault, broken,
                   finally, counted, tracking>>

HarnessStep ==
    \/ Outer \/ Compare \/ SpawnChild \/ AwaitMarker \/ AlterDatabase
    \/ OccupyLock \/ Inspect \/ PushFinally \/ RunFinally \/ Leave

RehearsalNext ==
    /\ \/ HarnessStep
       \/ TimeOut
       \/ \E r \in Runners : RunnerRuns(r) \/ ServerRuns(r)
    /\ UNCHANGED choice

RehearsalSpec == RehearsalInit /\ [][RehearsalNext]_rehearsalVars

-----------------------------------------------------------------------------
\* What a rehearsal has to leave behind, however it ends.
NothingLeft ==
    /\ \A r \in Runners : pc[r] \notin Busy /\ server[r] = "idle"
    /\ lock = NoOne
    /\ ~tracking

\* A program that has ended and has run what it had to undo has no process left
\* and no tracking on; what a process it killed has left is only what the server
\* undoes when it notices.
EndsClean == verdict # "running" /\ finally = <<>> =>
    /\ \A r \in Runners :
          /\ pc[r] \notin Busy
          /\ server[r] # "idle" \/ lock = r => conn[r] = "lost"
    /\ ~tracking

\* What a program has once been told with exit code 0 of Status, Verify or Apply
\* is so until its end, whatever it alters, kills or times out afterwards: the
\* receipt is that of the release it asked for.
Attested == \A k \in 1..Len(Programs[program]) :
    LET e == Programs[program][k] IN
    k < step /\ e.do = "run" /\ e.op # "Preflight" /\ e.code = "0"
    => ReceiptIsMine(e.call)
=============================================================================
