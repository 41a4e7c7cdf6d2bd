----------------------------- MODULE BoardFreeze -----------------------------
(* The boards of an MGE event: its row, its signups and awards, and the        *)
(* inventory of final targets (dbo.MGE_BoardFinalisation). Three triggers keep *)
(* a completed event as it is. Sessions of the bot write with short            *)
(* transactions; a statement locks the rows it writes, its trigger then locks  *)
(* the events it is about, and everything is kept until the end of the         *)
(* transaction. The data access code of the bot is outside the repository.     *)
EXTENDS FiniteSets, Naturals

CONSTANTS
    Sessions,
    Events,
    Entries,          \* signups and awards, by their identity
    Boards,           \* BoardKind: signup, leadership, awards
    None

ASSUME NoneAssumption == None \notin Events /\ None \notin Sessions

VARIABLES
    event,     \* dbo.MGE_Events, as committed
    row,       \* dbo.MGE_Signups and dbo.MGE_Awards, as committed
    target,    \* dbo.MGE_BoardFinalisation, as committed
    holder,    \* owner of the update lock of an event
    writer,    \* owner of the exclusive lock of a signup or award
    tx,        \* the transaction of each session
    read       \* the target each session has last read

boardVars == <<event, row, target, holder, writer, tx, read>>
stored == <<event, row, target>>

\* Text stands for every column that is no key and no board identity. A bare
\* event was completed by other means than the completion of the bot: before the
\* inventory existed, or by a statement of somebody else.
Texts == {0, 1}
NoTarget == [state |-> "none", revision |-> 0, payload |-> None]
NewTarget == [state |-> "pending", revision |-> 1, payload |-> None]
Terminal == {"confirmed", "retired"}
NoEvent == [status |-> "absent", text |-> 0, boards |-> {}, partial |-> FALSE,
            bare |-> FALSE]
NewEvent(status, bs) == [status |-> status, text |-> 0, boards |-> bs,
                         partial |-> FALSE, bare |-> status = "completed"]
Idle == [pc |-> "idle", do |-> [do |-> "nothing"], events |-> {}, boards |-> {}]

\* What a session may ask for. A row is inserted into an event, moved to it,
\* edited where it is (to = "same") or deleted (to = None).
WriteRows(rs, to) == [do |-> "rows", rows |-> rs, to |-> to]
WriteEvents(es, how) == [do |-> "events", events |-> es, how |-> how]
Attach(e, bs, partial) == [do |-> "events", how |-> "attach", events |-> {e},
                           boards |-> bs, partial |-> partial]
Complete(e) == [do |-> "complete", events |-> {e}]
Settle(state, payload) == [do |-> "settle", state |-> state, payload |-> payload]

BoardInit ==
    /\ event \in [Events -> {NewEvent("signup_open", {}), NewEvent("completed", Boards)}]
    /\ row = [r \in Entries |-> [event |-> None, text |-> 0]]
    /\ target = [e \in Events |-> [b \in Boards |-> NoTarget]]
    /\ holder = [e \in Events |-> None]
    /\ writer = [r \in Entries |-> None]
    /\ tx = [s \in Sessions |-> Idle]
    /\ read = [s \in Sessions |-> None]

-----------------------------------------------------------------------------
Completed(e) == event[e].status = "completed"
RowsOf(e) == {r \in Entries : row[r].event = e}
Inventory(e) == {b \in Boards : target[e][b] # NoTarget}

\* The events of the rows as they were and as they will be: deleted UNION
\* inserted.
Touched(q) == ({row[r].event : r \in q.rows} \cup {q.to}) \cap Events

Release(s) ==
    /\ holder' = [e \in Events |-> IF holder[e] = s THEN None ELSE holder[e]]
    /\ writer' = [r \in Entries |-> IF writer[r] = s THEN None ELSE writer[r]]
    /\ tx' = [tx EXCEPT ![s] = Idle]
    /\ UNCHANGED read

Rollback(s) == Release(s) /\ UNCHANGED stored
Goto(s, pc) ==
    /\ tx' = [tx EXCEPT ![s].pc = pc]
    /\ UNCHANGED <<stored, holder, writer, read>>

-----------------------------------------------------------------------------
\* The statement writes the signups or awards: it holds their locks from here.
StartRows(s, q) ==
    /\ tx[s] = Idle /\ q.rows # {}
    /\ \A r \in q.rows : writer[r] = None
    /\ \/ \A r \in q.rows : row[r].event # None
       \/ q.to \in Events /\ \A r \in q.rows : row[r].event = None
    /\ writer' = [r \in Entries |-> IF r \in q.rows THEN s ELSE writer[r]]
    /\ tx' = [tx EXCEPT ![s] = [pc |-> "locking", do |-> q,
                                events |-> Touched(q), boards |-> {}]]
    /\ UNCHANGED <<stored, holder, read>>

StartEvents(s, q) ==
    /\ tx[s] = Idle
    /\ tx' = [tx EXCEPT ![s] = [pc |-> "locking", do |-> q,
                                events |-> q.events, boards |-> {}]]
    /\ UNCHANGED <<stored, holder, writer, read>>

\* One at a time, in whatever order the plan of the statement has.
LockEvent(s) ==
    /\ tx[s].pc = "locking"
    /\ \E e \in tx[s].events :
          /\ holder[e] = None
          /\ holder' = [holder EXCEPT ![e] = s]
    /\ UNCHANGED <<stored, writer, tx, read>>

\* The status is written, and the boards are those that are read beside it.
SetCompleted(s) ==
    /\ tx' = [tx EXCEPT ![s].pc = "updated",
                        ![s].boards = UNION {event[e].boards : e \in tx[s].events}]
    /\ UNCHANGED <<stored, holder, writer, read>>

Locked(s) == tx[s].pc = "locking" /\ \A e \in tx[s].events : holder[e] = s

FrozenAmong(es) == \E e \in es : Completed(e)

\* Mutant: the trigger looks up the events of the inserted rows only.
RowsRefusalInserted(q, es) ==
    CASE FrozenAmong(es \cap {q.to}) -> "51830" [] OTHER -> "none"

\* dbo.tr_MGE_Signups_Frozen, dbo.tr_MGE_Awards_Frozen; the foreign key has
\* looked the event up before.
RowsRefusal(q, es) ==
    CASE \E e \in es : event[e].status = "absent" -> "547"
      [] FrozenAmong(es) -> "51830"
      [] OTHER -> "none"

\* dbo.tr_MGE_Events_Frozen, after an UPDATE or a DELETE of existing events.
EventsRefusal(q, es) ==
    CASE q.how = "delete" /\ \E e \in es : RowsOf(e) # {} \/ Inventory(e) # {} -> "547"
      [] FrozenAmong(es) -> "51830"
      [] OTHER -> "none"

\* The completion of the bot: the event must be open and every board identity
\* whole; the primary key refuses a second inventory.
CompletionRefusal(s, es) ==
    IF tx[s].pc = "locking"
    THEN IF \A e \in es : event[e].status = "signup_open" /\ ~event[e].partial
         THEN "none" ELSE "false"
    ELSE IF \E e \in es : Inventory(e) \cap tx[s].boards # {} THEN "2627" ELSE "none"

Refusal(s) ==
    CASE tx[s].do.do = "rows" -> RowsRefusal(tx[s].do, tx[s].events)
      [] tx[s].do.do = "events" -> EventsRefusal(tx[s].do, tx[s].events)
      [] tx[s].do.do = "complete" -> CompletionRefusal(s, tx[s].events)

\* Mutant: the trigger and the completion read the events without locking them.
CheckUnlocked(s) ==
    /\ tx[s].pc = "locking"
    /\ tx[s].do.do # "events" \/ Locked(s)
    /\ IF Refusal(s) # "none" THEN Rollback(s)
       ELSE IF tx[s].do.do = "complete" THEN SetCompleted(s)
       ELSE Goto(s, "checked")

\* The statement with its constraints and triggers; the completion goes on to
\* the inventory.
Check(s) ==
    /\ Locked(s)
    /\ IF Refusal(s) # "none" THEN Rollback(s)
       ELSE IF tx[s].do.do = "complete" THEN SetCompleted(s)
       ELSE Goto(s, "checked")

InsertInventory(s) ==
    /\ tx[s].pc = "updated"
    /\ IF Refusal(s) # "none" THEN Rollback(s) ELSE Goto(s, "checked")

Edited(x) == [x EXCEPT !.text = 1 - @]

CommitRows(q) ==
    /\ row' = [r \in Entries |->
          IF r \notin q.rows THEN row[r]
          ELSE IF q.to = "same" THEN Edited(row[r])
          ELSE [row[r] EXCEPT !.event = q.to]]
    /\ UNCHANGED <<event, target>>

CommitEvents(q) ==
    /\ event' = [e \in Events |->
          IF e \notin q.events \/ event[e].status = "absent" THEN event[e]
          ELSE IF q.how = "attach"
               THEN [event[e] EXCEPT !.boards = q.boards, !.partial = q.partial]
          ELSE IF q.how = "delete" THEN NoEvent
          ELSE IF q.how = "close"
               THEN [event[e] EXCEPT !.status = "completed", !.bare = TRUE]
          ELSE Edited(event[e])]
    /\ UNCHANGED <<row, target>>

CommitCompletion(s, e) ==
    /\ event' = [event EXCEPT ![e].status = "completed"]
    /\ target' = [target EXCEPT ![e] = [b \in Boards |->
          IF b \in tx[s].boards THEN NewTarget ELSE @[b]]]
    /\ UNCHANGED row

Commit(s) ==
    LET q == tx[s].do IN
    /\ tx[s].pc = "checked"
    /\ CASE q.do = "rows" -> CommitRows(q)
         [] q.do = "events" -> CommitEvents(q)
         [] q.do = "complete" ->
               CommitCompletion(s, CHOOSE e \in tx[s].events : TRUE)
    /\ Release(s)

\* A deadlock victim, a lock timeout, a failed or killed connection.
Abort(s) == tx[s] # Idle /\ Rollback(s)

-----------------------------------------------------------------------------
\* The delivery reads a target and settles it later, if its revision is still
\* the one it has read. A captured payload is kept, a terminal state is final.
ReadTarget(s, e, b) ==
    /\ tx[s] = Idle /\ target[e][b] # NoTarget
    /\ read' = [read EXCEPT ![s] =
          [event |-> e, board |-> b, revision |-> target[e][b].revision]]
    /\ UNCHANGED <<stored, holder, writer, tx>>

Settles(s) == LET t == target[read[s].event][read[s].board] IN
    t.revision = read[s].revision /\ t.state \notin Terminal

SettleTarget(s, q) ==
    /\ tx[s] = Idle /\ read[s] # None
    /\ LET e == read[s].event
           b == read[s].board
           t == target[e][b]
       IN target' = IF ~Settles(s) THEN target ELSE [target EXCEPT ![e][b] =
              [state |-> q.state, revision |-> t.revision + 1,
               payload |-> IF t.payload = None THEN q.payload ELSE t.payload]]
    /\ UNCHANGED <<event, row, holder, writer, tx, read>>

-----------------------------------------------------------------------------
Ask(s) ==
    \/ \E rs \in SUBSET Entries, to \in Events \cup {None, "same"} :
          StartRows(s, WriteRows(rs, to))
    \/ \E es \in SUBSET Events \ {{}}, how \in {"edit", "delete"} :
          StartEvents(s, WriteEvents(es, how))
    \/ \E e \in Events, bs \in SUBSET Boards, partial \in BOOLEAN :
          StartEvents(s, Attach(e, bs, partial))
    \/ \E e \in Events : StartEvents(s, Complete(e))

Proceed(s) == LockEvent(s) \/ Check(s) \/ InsertInventory(s) \/ Commit(s)

BoardNext == \E s \in Sessions : Ask(s) \/ Proceed(s) \/ Abort(s)

BoardSpec == BoardInit /\ [][BoardNext]_boardVars

-----------------------------------------------------------------------------
Asked ==
    {WriteRows(rs, to) : rs \in SUBSET Entries, to \in Events \cup {None, "same"}}
    \cup {WriteEvents(es, how) : es \in SUBSET Events, how \in {"edit", "delete"}}
    \cup {Attach(e, bs, partial) : e \in Events, bs \in SUBSET Boards,
                                  partial \in BOOLEAN}
    \cup {Complete(e) : e \in Events}

\* Targets are settled outside BoardNext, by cases that extend it.
BoardTypeOK ==
    /\ event \in [Events -> [status : {"absent", "signup_open", "completed"},
          text : Texts, boards : SUBSET Boards, partial : BOOLEAN, bare : BOOLEAN]]
    /\ row \in [Entries -> [event : Events \cup {None}, text : Texts]]
    /\ target \in [Events -> [Boards -> {NoTarget, NewTarget}]]
    /\ holder \in [Events -> Sessions \cup {None}]
    /\ writer \in [Entries -> Sessions \cup {None}]
    /\ tx \in [Sessions -> [pc : {"idle", "locking", "updated", "checked"},
          do : Asked \cup {Idle.do}, events : SUBSET Events, boards : SUBSET Boards]]
    /\ \A s \in Sessions : tx[s].pc # "idle" => tx[s].do \in Asked

\* A transaction has locked what it writes, and what it has checked it holds.
LocksHeld == \A s \in Sessions :
    /\ tx[s].pc \in {"updated", "checked"} => \A e \in tx[s].events : holder[e] = s
    /\ tx[s].pc # "idle" /\ tx[s].do.do = "rows" =>
          \A r \in tx[s].do.rows : writer[r] = s

\* The events it holds are still those its rows are in and go to.
EventsKnown == \A s \in Sessions : tx[s].pc # "idle" =>
    tx[s].events = IF tx[s].do.do = "rows" THEN Touched(tx[s].do)
                   ELSE tx[s].do.events

\* What the triggers and the completion have found is still so.
CheckStands == \A s \in Sessions :
    /\ tx[s].pc = "updated" => tx[s].do.do = "complete"
    /\ tx[s].pc = "checked" /\ tx[s].do.do # "complete" =>
          \A e \in tx[s].events : ~Completed(e)
    /\ tx[s].pc \in {"updated", "checked"} /\ tx[s].do.do = "complete" =>
          \A e \in tx[s].events :
             event[e].status = "signup_open" /\ tx[s].boards = event[e].boards

BareIsCompleted == \A e \in Events : event[e].bare => Completed(e)

-----------------------------------------------------------------------------
\* Everything a completed event consists of stays as it was committed: the
\* event, its signups and its awards, whoever had begun to write one of them, to
\* move one in or out, or to write several events at once before the completion.
FrozenStays == [][\A e \in Events : Completed(e) =>
    /\ event'[e] = event[e]
    /\ \A r \in Entries : row[r].event = e \/ row'[r].event = e => row'[r] = row[r]
    ]_boardVars

\* An event that the bot has completed has one target for each board it has, no
\* other event has any: neither a lost completion nor a board attached beside it
\* can make them differ.
InventoryWhole == \A e \in Events :
    Inventory(e) = IF Completed(e) /\ ~event[e].bare THEN event[e].boards ELSE {}

\* What every step preserves.
BoardInvariant ==
    /\ BoardTypeOK /\ LocksHeld /\ EventsKnown /\ CheckStands
    /\ BareIsCompleted /\ InventoryWhole
=============================================================================
