-------------------------- MODULE BoardQualification --------------------------
(* validation/rehearse_mge_finalisation.py and mge_finalisation_cases.py, the  *)
(* cases N03 to N15: a Python program that makes events in a disposable        *)
(* database, writes to them with its own sessions, with a thread beside it and *)
(* with a child it kills, and stops at the first answer it does not expect.    *)
(* What the sessions do to the database is BoardFreeze.                        *)
EXTENDS BoardFreeze, Sequences

VARIABLES
    prompt,     \* FALSE: a wait may exceed the time the program gives it
    place,      \* index of the step the program is at
    outcome,    \* running, PASS, or FAIL at the first surprise
    asked,      \* what each session is to do
    until,      \* where a session has to stand, None if nowhere
    answer,     \* what the session was last told; running before that
    gone,       \* the sessions whose process is dead
    before,     \* what the program has noted of the database
    imported    \* dbo.MGE_FinalResults: the events with results

driver == <<prompt, place, outcome, asked, until, answer, gone, before, imported>>
qualificationVars == <<boardVars, driver>>

-----------------------------------------------------------------------------
\* The steps a case is written in.
Make(e, bs, status) == [do |-> "make", event |-> e, as |-> NewEvent(status, bs)]
Send(s, q, where) == [do |-> "send", to |-> s, what |-> q, until |-> where]
Answered(s, a) == [do |-> "answered", by |-> s, is |-> a]
Reached(s) == [do |-> "reached", by |-> s]
Blocked(s) == [do |-> "blocked", by |-> s]
LetGo(s) == [do |-> "let go", whom |-> s]
KillChild == [do |-> "kill"]
OneWins(ss) == [do |-> "one wins", of |-> ss]
Look(s, e, b) == [do |-> "look", by |-> s, event |-> e, board |-> b]
See(e, status, n) == [do |-> "see", event |-> e, status |-> status, n |-> n]
SeePayload(e, b, p) == [do |-> "payload", event |-> e, board |-> b, is |-> p]
Plant(e, b) == [do |-> "plant", event |-> e, board |-> b]
Keep == [do |-> "keep"]
Kept == [do |-> "kept"]
Import(e) == [do |-> "import", event |-> e]

Insert(r, e) == WriteRows({r}, e)
Do(q, a) == << Send("main", q, None), Answered("main", a) >>
Unmoved(q, a) == <<Keep>> \o Do(q, a) \o <<Kept>>
Close(e, n) == Do(Complete(e), "ok") \o << See(e, "completed", n) >>

Writers ==
    << Make("active", Boards, "signup_open") >>
    \o Do(Insert("signup", "active"), "ok") \o Do(Insert("award", "active"), "ok")
    \o Do(WriteEvents({"active"}, "edit"), "ok")

CompletionCase == Close("active", 3) \o Unmoved(Complete("active"), "false")

Sparse ==
    << Make("sparse0", {}, "signup_open") >> \o Close("sparse0", 0)
    \o << Make("sparse1", {"signup"}, "signup_open") >> \o Close("sparse1", 1)
    \o << Make("sparse2", {"signup", "leadership"}, "signup_open") >>
    \o Close("sparse2", 2)
    \o << Make("partial", {}, "signup_open") >>
    \o Do(Attach("partial", {}, TRUE), "ok")
    \o Do(Complete("partial"), "false") \o << See("partial", "signup_open", 0) >>
    \o << Make("created", {}, "created"), Make("legacy", {}, "completed") >>
    \o Do(Complete("created"), "false") \o << See("created", "created", 0) >>
    \o Do(Complete("legacy"), "false") \o << See("legacy", "completed", 0) >>

ChildLoss(e, where, status, n) ==
    << Make(e, Boards, "signup_open"), Send("child", Complete(e), where),
       Reached("child"), KillChild, See(e, status, n) >>

InventoryFailureAndLoss ==
    << Make("planted", {"signup"}, "signup_open"), Plant("planted", "signup") >>
    \o Unmoved(Complete("planted"), "2627")
    \o ChildLoss("uncommitted", "updated", "signup_open", 0)
    \o ChildLoss("committed", "committed", "completed", 3)

Frozen ==
    Do(WriteEvents({"active"}, "edit"), "51830")
    \o Do(WriteRows({"signup"}, "same"), "51830")
    \o Do(WriteRows({"award"}, None), "51830")
    \o Do(WriteRows({"award"}, "same"), "51830")
    \o << Make("deleting", {"signup"}, "signup_open") >>
    \o Do(Insert("single", "deleting"), "ok") \o Close("deleting", 1)
    \o Unmoved(WriteRows({"single"}, None), "51830")
    \o << Make("other", Boards, "signup_open") >>
    \o Do(Insert("signup_other", "other"), "ok")
    \o Do(WriteRows({"signup_other"}, "active"), "51830")
    \o Do(WriteRows({"signup"}, "other"), "51830")
    \o << Make("empty", {}, "completed") >>
    \o Do(WriteEvents({"empty"}, "delete"), "51830")
    \o Do(Insert("late", "active"), "51830")
    \o Do(Insert("award_other", "active"), "51830")
    \o Do(Insert("award_other", "other"), "ok")
    \o Do(WriteRows({"award_other"}, "active"), "51830")
    \o Do(WriteRows({"award"}, "other"), "51830")
    \o Unmoved(WriteEvents({"active", "other"}, "edit"), "51830")
    \o << See("active", "completed", 3) >>

\* The first session has written the event and not committed; the thread beside
\* it is seen to wait for it.
Ordering(e, how, late, a) ==
    << Make(e, Boards, "signup_open"),
       Send("main", WriteEvents({e}, how), "checked"), Reached("main"),
       Send("beside", late, None), Blocked("beside"),
       LetGo("main"), Answered("main", "ok"), Answered("beside", a) >>

Orderings ==
    Ordering("first", "edit", Complete("first"), "ok")
    \o << See("first", "completed", 3) >>
    \o Ordering("second", "close", Insert("late", "second"), "51830")
    \o << See("second", "completed", 0) >>

Cas ==
    << Look("main", "active", "signup") >> \o Do(Settle("failed", "retained"), "ok")
    \o Do(Settle("held", None), "false")

Ready(e) == << Make(e, {"signup"}, "signup_open") >> \o Do(Complete(e), "ok")
            \o << Look("main", e, "signup") >>
Again(e) == << Look("main", e, "signup") >>

TerminalCase ==
    Ready("terminal") \o Do(Settle("failed", "first"), "ok")
    \o Again("terminal") \o Do(Settle("confirmed", "replacement"), "ok")
    \o << SeePayload("terminal", "signup", "first") >>
    \o Again("terminal") \o Do(Settle("held", None), "false")
    \o Ready("retired") \o Do(Settle("retired", None), "ok")
    \o Again("retired") \o Do(Settle("pending", None), "false")

Settling ==
    Ready("settling") \o << Look("beside", "settling", "signup"),
       Send("main", Settle("confirmed", None), None),
       Send("beside", Settle("retired", None), None),
       OneWins({"main", "beside"}) >>

\* The message is read back after a lost acknowledgement: it is the one that was
\* sent, or it is not and the target is held.
Delivery(e, found) ==
    Ready(e) \o Do(Settle("unknown", "sent"), "ok")
    \o Again(e) \o Do(Settle(IF found THEN "confirmed" ELSE "held", None), "ok")
    \o << SeePayload(e, "signup", "sent") >>

ResultsImport == << Import("active") >>

Multistep ==
    << Make("steps", Boards, "signup_open") >>
    \o Do(Insert("signup_steps", "steps"), "ok")
    \o Do(Insert("award_steps", "steps"), "ok") \o Do(Complete("steps"), "ok")
    \o Unmoved(WriteRows({"award_steps"}, None), "51830")

Cases ==
    Writers \o CompletionCase \o Sparse \o InventoryFailureAndLoss \o Frozen
    \o Orderings \o Cas \o TerminalCase \o Settling
    \o Delivery("found", TRUE) \o Delivery("differs", FALSE)
    \o ResultsImport \o Multistep

QualificationInit ==
    /\ event = [e \in Events |-> NoEvent]
    /\ row = [r \in Entries |-> [event |-> None, text |-> 0]]
    /\ target = [e \in Events |-> [b \in Boards |-> NoTarget]]
    /\ holder = [e \in Events |-> None]
    /\ writer = [r \in Entries |-> None]
    /\ tx = [s \in Sessions |-> Idle]
    /\ read = [s \in Sessions |-> None]
    /\ prompt \in BOOLEAN
    /\ place = 1
    /\ outcome = "running"
    /\ asked = [s \in Sessions |-> None]
    /\ until = [s \in Sessions |-> None]
    /\ answer = [s \in Sessions |-> "none"]
    /\ gone = {}
    /\ before = None
    /\ imported = {}

-----------------------------------------------------------------------------
Case == Cases[place]
AtCase(do) == outcome = "running" /\ Case.do = do

\* Whatever ends the program, the child's end is in a finally.
Judge(ok) ==
    IF ok
    THEN /\ place' = place + 1
         /\ outcome' = IF place = Len(Cases) THEN "PASS" ELSE "running"
         /\ UNCHANGED gone
    ELSE /\ outcome' = "FAIL"
         /\ gone' = gone \cup {"child"}
         /\ UNCHANGED place

MakeEvent ==
    /\ \/ /\ AtCase("make") /\ event[Case.event] = NoEvent
          /\ event' = [event EXCEPT ![Case.event] = Case.as]
          /\ UNCHANGED <<target, imported>>
       \/ /\ AtCase("plant")
          /\ target' = [target EXCEPT ![Case.event][Case.board] = NewTarget]
          /\ UNCHANGED <<event, imported>>
       \/ /\ AtCase("import")
          /\ imported' = imported \cup {Case.event}
          /\ UNCHANGED <<event, target>>
    /\ Judge(Case.do = "import" => Completed(Case.event))
    /\ UNCHANGED <<row, holder, writer, tx, read, prompt, asked, until, answer,
                   before>>

\* A new process or a new thread, with a connection of its own.
SendStatement ==
    /\ AtCase("send") /\ tx[Case.to] = Idle
    /\ asked' = [asked EXCEPT ![Case.to] = Case.what]
    /\ until' = [until EXCEPT ![Case.to] = Case.until]
    /\ answer' = [answer EXCEPT ![Case.to] = "running"]
    /\ gone' = gone \ {Case.to}
    /\ place' = place + 1
    /\ UNCHANGED <<boardVars, prompt, outcome, before, imported>>

\* The thread or the child is where the program wants it to be.
Stands(s) ==
    \/ until[s] # None /\ tx[s].pc = until[s]
    \/ until[s] = "committed" /\ answer[s] = "ok"
Waits(s) == tx[s].pc = "locking" /\ \E e \in tx[s].events : holder[e] \notin {None, s}
Told(s) == answer[s] # "running"

\* Without evidence of the wait, the first connection is rolled back before the
\* executor waits for its thread.
AwaitSession ==
    /\ \/ AtCase("answered") /\ Told(Case.by) /\ Judge(answer[Case.by] = Case.is)
          /\ UNCHANGED boardVars
       \/ AtCase("reached") /\ (Stands(Case.by) \/ Told(Case.by))
          /\ Judge(Stands(Case.by))
          /\ UNCHANGED boardVars
       \/ AtCase("blocked") /\ Waits(Case.by) /\ Judge(TRUE) /\ UNCHANGED boardVars
       \/ AtCase("blocked") /\ Told(Case.by) /\ Judge(FALSE) /\ Rollback("main")
       \/ AtCase("one wins") /\ (\A s \in Case.of : Told(s))
          /\ Judge(Cardinality({s \in Case.of : answer[s] = "ok"}) = 1)
          /\ UNCHANGED boardVars
    /\ UNCHANGED <<prompt, asked, until, answer, before, imported>>

LetSession ==
    /\ AtCase("let go")
    /\ until' = [until EXCEPT ![Case.whom] = None]
    /\ Judge(TRUE)
    /\ UNCHANGED <<boardVars, prompt, asked, answer, before, imported>>

EndChild ==
    /\ AtCase("kill")
    /\ gone' = gone \cup {"child"}
    /\ place' = place + 1
    /\ UNCHANGED <<boardVars, prompt, outcome, asked, until, answer, before, imported>>

\* A read waits for whoever has written the event and not committed.
Readable(e) == \A s \in Sessions :
    tx[s].pc \in {"updated", "checked"} => e \notin tx[s].events

Observe ==
    /\ \/ AtCase("look") /\ ReadTarget(Case.by, Case.event, Case.board)
          /\ Judge(TRUE) /\ UNCHANGED before
       \/ /\ AtCase("see") /\ Readable(Case.event)
          /\ Judge(/\ event[Case.event].status = Case.status
                   /\ Cardinality(Inventory(Case.event)) = Case.n)
          /\ UNCHANGED <<boardVars, before>>
       \/ /\ AtCase("payload")
          /\ Judge(target[Case.event][Case.board].payload = Case.is)
          /\ UNCHANGED <<boardVars, before>>
       \/ AtCase("keep") /\ before' = stored /\ Judge(TRUE) /\ UNCHANGED boardVars
       \/ AtCase("kept") /\ Judge(before = stored) /\ UNCHANGED <<boardVars, before>>
    /\ UNCHANGED <<prompt, asked, until, answer, imported>>

\* What the session does with what it was asked for. The program is the main
\* session, and does nothing of it after a surprise.
Runs(s) ==
    /\ ~Told(s) /\ s \notin gone /\ ~Stands(s)
    /\ s = "main" => outcome = "running"
    /\ \/ /\ tx[s] = Idle /\ asked[s].do = "rows" /\ StartRows(s, asked[s])
          /\ UNCHANGED answer
       \/ /\ tx[s] = Idle /\ asked[s].do \in {"events", "complete"}
          /\ StartEvents(s, asked[s])
          /\ UNCHANGED answer
       \/ /\ asked[s].do = "settle" /\ SettleTarget(s, asked[s])
          /\ answer' = [answer EXCEPT ![s] = IF Settles(s) THEN "ok" ELSE "false"]
       \/ /\ Proceed(s)
          /\ answer' = IF tx'[s] # Idle THEN answer ELSE [answer EXCEPT ![s] =
                IF tx[s].pc = "checked" THEN "ok" ELSE Refusal(s)]
    /\ UNCHANGED <<prompt, place, outcome, asked, until, gone, before, imported>>

\* The server finds the connection of a dead process closed.
Reaped(s) ==
    /\ s \in gone /\ Abort(s)
    /\ UNCHANGED driver

\* Mutant: the connections wait for a lock as long as it takes.
NeverTimeOut(s) == FALSE /\ UNCHANGED qualificationVars

\* SET LOCK_TIMEOUT.
LockTimeout(s) ==
    /\ ~prompt /\ Waits(s) /\ s \notin gone
    /\ Abort(s)
    /\ answer' = [answer EXCEPT ![s] = "1222"]
    /\ UNCHANGED <<prompt, place, outcome, asked, until, gone, before, imported>>

\* A future's result, a blocked session or a child's line is not waited for
\* longer than the time the program gives it. The barrier before the blocked
\* session, or a query for it, may fail too: then nothing is rolled back first.
LoseFaith ==
    /\ ~prompt
    /\ \/ AtCase("blocked") /\ (Rollback("main") \/ UNCHANGED boardVars)
       \/ AtCase("reached") /\ Case.by = "child" /\ UNCHANGED boardVars
       \/ AtCase("answered") /\ Case.by = "beside" /\ UNCHANGED boardVars
       \/ AtCase("one wins") /\ UNCHANGED boardVars
    /\ Judge(FALSE)
    /\ UNCHANGED <<prompt, asked, until, answer, before, imported>>

\* On its way out the program waits for its thread, and closes its connection
\* only then.
CloseConnection ==
    /\ outcome # "running" /\ Told("beside")
    /\ Abort("main")
    /\ UNCHANGED driver

ProgramStep ==
    \/ MakeEvent \/ SendStatement \/ AwaitSession \/ LetSession \/ EndChild
    \/ Observe \/ CloseConnection

QualificationNext ==
    \/ ProgramStep \/ LoseFaith
    \/ \E s \in Sessions : Runs(s) \/ Reaped(s) \/ LockTimeout(s)

-----------------------------------------------------------------------------
\* No session holds a lock or a transaction.
NothingHeld ==
    /\ \A s \in Sessions : tx[s] = Idle
    /\ \A e \in Events : holder[e] = None
    /\ \A r \in Entries : writer[r] = None

\* What results.json says of a PASS.
QualificationEvidence == outcome = "PASS" =>
    /\ \A e \in Events : Completed(e) /\ ~event[e].bare =>
          Inventory(e) = event[e].boards
    /\ event["uncommitted"].status = "signup_open"
    /\ row["late"].event = None /\ row["award"].event = "active"
    /\ target["settling"]["signup"].revision = 2
    /\ imported = {"active"}
=============================================================================
