-------------------------- MODULE BoardFreezeProofs --------------------------
(***************************************************************************)
(* Theorems about BoardFreeze for every set of sessions, events, rows and  *)
(* boards.                                                                 *)
(***************************************************************************)
EXTENDS BoardFreeze, TLAPS

(* What a session can have asked for. *)
LEMMA AskedKinds ==
    ASSUME NEW q \in Asked
    PROVE  /\ q.do \in {"rows", "events", "complete"}
           /\ q.do = "rows" => /\ q.rows \in SUBSET Entries
                               /\ q.to \in Events \cup {None, "same"}
           /\ q.do = "events" => /\ q.events \in SUBSET Events
                                 /\ q.how \in {"edit", "delete", "attach"}
                                 /\ q.how = "attach" => /\ q.boards \in SUBSET Boards
                                                        /\ q.partial \in BOOLEAN
           /\ q.do = "complete" => \E e \in Events : q.events = {e}
<1>1. CASE q \in {WriteRows(rs, to) : rs \in SUBSET Entries, to \in Events \cup {None, "same"}}
  BY <1>1 DEF WriteRows
<1>2. CASE q \in {WriteEvents(es, how) : es \in SUBSET Events, how \in {"edit", "delete"}}
  BY <1>2 DEF WriteEvents
<1>3. CASE q \in {Attach(e, bs, partial) : e \in Events, bs \in SUBSET Boards, partial \in BOOLEAN}
  BY <1>3 DEF Attach
<1>4. CASE q \in {Complete(e) : e \in Events}
  BY <1>4 DEF Complete
<1> QED BY <1>1, <1>2, <1>3, <1>4 DEF Asked

(* The request of an idle session is none of them. *)
LEMMA NothingAsked == Idle.do \notin Asked
<1>1. Idle.do.do = "nothing"
  BY DEF Idle
<1> QED BY <1>1, AskedKinds

(* What a transaction at work is. *)
LEMMA AtWork ==
    ASSUME BoardInvariant, NEW s \in Sessions, tx[s].pc # "idle"
    PROVE  /\ tx[s].do \in Asked
           /\ tx[s].events \in SUBSET Events
           /\ tx[s].boards \in SUBSET Boards
           /\ tx[s].do.do = "rows" => tx[s].events = Touched(tx[s].do)
           /\ tx[s].do.do # "rows" => tx[s].events = tx[s].do.events
  BY DEF BoardInvariant, BoardTypeOK, EventsKnown

-----------------------------------------------------------------------------
(* Steps that change one transaction and its locks and nothing that is         *)
(* committed keep what holds of the other transactions.                        *)
OthersKept(s) ==
    /\ \A t \in Sessions \ {s} : tx'[t] = tx[t]
    /\ \A e \in Events : \A t \in Sessions \ {s} : holder[e] = t => holder'[e] = t
    /\ \A r \in Entries : \A t \in Sessions \ {s} : writer[r] = t => writer'[r] = t

(* What the invariant says of one session. *)
Sound(s) ==
    /\ tx[s].pc # "idle" => tx[s].do \in Asked
    /\ tx[s].pc \in {"updated", "checked"} => \A e \in tx[s].events : holder[e] = s
    /\ tx[s].pc # "idle" /\ tx[s].do.do = "rows" =>
          \A r \in tx[s].do.rows : writer[r] = s
    /\ tx[s].pc # "idle" =>
          tx[s].events = IF tx[s].do.do = "rows" THEN Touched(tx[s].do)
                         ELSE tx[s].do.events
    /\ tx[s].pc = "updated" => tx[s].do.do = "complete"
    /\ tx[s].pc = "checked" /\ tx[s].do.do # "complete" =>
          \A e \in tx[s].events : ~Completed(e)
    /\ tx[s].pc \in {"updated", "checked"} /\ tx[s].do.do = "complete" =>
          \A e \in tx[s].events :
             event[e].status = "signup_open" /\ tx[s].boards = event[e].boards

LEMMA AllSound == BoardInvariant => \A s \in Sessions : Sound(s)
  BY DEF BoardInvariant, BoardTypeOK, LocksHeld, EventsKnown, CheckStands, Sound

SessionsTyped ==
    /\ holder \in [Events -> Sessions \cup {None}]
    /\ writer \in [Entries -> Sessions \cup {None}]
    /\ tx \in [Sessions -> [pc : {"idle", "locking", "updated", "checked"},
          do : Asked \cup {Idle.do}, events : SUBSET Events, boards : SUBSET Boards]]

(* A step of one session that commits nothing preserves the invariant if its   *)
(* own transaction is sound afterwards.                                        *)
LEMMA PrivateStep ==
    ASSUME BoardInvariant, NEW s \in Sessions, UNCHANGED stored,
           OthersKept(s), SessionsTyped', Sound(s)'
    PROVE  BoardInvariant'
<1>1. event' = event /\ row' = row /\ target' = target
  BY DEF stored
<1>2. ASSUME NEW t \in Sessions \ {s}
      PROVE  Sound(t)'
  <2>1. Sound(t) /\ tx'[t] = tx[t]
    BY AllSound DEF OthersKept
  <2>2. tx[t].events \in SUBSET Events
    BY DEF BoardInvariant, BoardTypeOK
  <2>3. tx[t].pc # "idle" /\ tx[t].do.do = "rows" => tx[t].do.rows \in SUBSET Entries
    BY <2>1, AskedKinds DEF Sound
  <2>4. Touched(tx[t].do)' = Touched(tx'[t].do)
    BY <1>1 DEF Touched
  <2>5. \A e \in tx[t].events : holder[e] = t => holder'[e] = t
    BY <2>2 DEF OthersKept
  <2>6. tx[t].pc # "idle" /\ tx[t].do.do = "rows" =>
          \A r \in tx[t].do.rows : writer[r] = t => writer'[r] = t
    BY <2>3 DEF OthersKept
  <2> QED BY <1>1, <2>1, <2>4, <2>5, <2>6 DEF Sound, Completed
<1>3. \A t \in Sessions : Sound(t)'
  BY <1>2
<1>4. BoardTypeOK'
  BY <1>1, <1>3 DEF BoardInvariant, BoardTypeOK, SessionsTyped, Sound
<1>5. LocksHeld' /\ EventsKnown' /\ CheckStands'
  BY <1>3 DEF Sound, LocksHeld, EventsKnown, CheckStands
<1>6. BareIsCompleted' /\ InventoryWhole'
  BY <1>1 DEF BoardInvariant, BareIsCompleted, InventoryWhole, Inventory, Completed
<1> QED BY <1>4, <1>5, <1>6 DEF BoardInvariant

LEMMA ReleaseKeeps ==
    ASSUME BoardInvariant, NEW s \in Sessions, Release(s)
    PROVE  /\ OthersKept(s) /\ SessionsTyped' /\ Sound(s)'
           /\ tx'[s] = Idle
<1>1. Idle \in [pc : {"idle", "locking", "updated", "checked"},
                do : Asked \cup {Idle.do}, events : SUBSET Events, boards : SUBSET Boards]
  BY DEF Idle
<1>2. SessionsTyped' /\ tx'[s] = Idle
  BY <1>1 DEF Release, BoardInvariant, BoardTypeOK, SessionsTyped
<1>3. Idle.pc = "idle"
  BY DEF Idle
<1>4. OthersKept(s)
  BY DEF Release, OthersKept, BoardInvariant, BoardTypeOK
<1>5. Sound(s)'
  BY <1>2, <1>3 DEF Sound
<1> QED BY <1>2, <1>4, <1>5

LEMMA RollbackStep ==
    ASSUME BoardInvariant, NEW s \in Sessions, Rollback(s)
    PROVE  BoardInvariant'
  BY ReleaseKeeps, PrivateStep DEF Rollback

LEMMA StartRowsStep ==
    ASSUME BoardInvariant, NEW s \in Sessions, NEW rs \in SUBSET Entries,
           NEW to \in Events \cup {None, "same"}, StartRows(s, WriteRows(rs, to))
    PROVE  BoardInvariant'
<1> DEFINE q == WriteRows(rs, to)
           n == [pc |-> "locking", do |-> q, events |-> Touched(q), boards |-> {}]
<1>1. q \in Asked
  BY DEF Asked
<1>2. Touched(q) \in SUBSET Events
  BY DEF Touched
<1>3. q.do = "rows" /\ q.rows = rs
  BY DEF WriteRows
<1>4. /\ tx' = [tx EXCEPT ![s] = n]
      /\ writer' = [r \in Entries |-> IF r \in rs THEN s ELSE writer[r]]
      /\ \A r \in rs : writer[r] = None
      /\ UNCHANGED <<stored, holder>>
  BY <1>3 DEF StartRows
<1>5. Touched(q)' = Touched(q)
  BY <1>4 DEF Touched, stored, WriteRows
<1> HIDE DEF q
<1>6. SessionsTyped'
  BY <1>1, <1>2, <1>4 DEF BoardInvariant, BoardTypeOK, SessionsTyped
<1>7. tx'[s] = n /\ \A t \in Sessions \ {s} : tx'[t] = tx[t]
  BY <1>4 DEF BoardInvariant, BoardTypeOK
<1>8. OthersKept(s)
  BY <1>4, <1>7, NoneAssumption DEF OthersKept
<1>9. Sound(s)'
  BY <1>1, <1>3, <1>4, <1>5, <1>7 DEF Sound
<1> QED BY <1>4, <1>6, <1>8, <1>9, PrivateStep

LEMMA StartEventsStep ==
    ASSUME BoardInvariant, NEW s \in Sessions, NEW q \in Asked, q.do # "rows",
           StartEvents(s, q)
    PROVE  BoardInvariant'
<1> DEFINE n == [pc |-> "locking", do |-> q, events |-> q.events, boards |-> {}]
<1>1. q.events \in SUBSET Events
  BY AskedKinds
<1>2. tx' = [tx EXCEPT ![s] = n] /\ UNCHANGED <<stored, holder, writer>>
  BY DEF StartEvents
<1>3. SessionsTyped'
  BY <1>1, <1>2 DEF BoardInvariant, BoardTypeOK, SessionsTyped
<1>4. tx'[s] = n /\ \A t \in Sessions \ {s} : tx'[t] = tx[t]
  BY <1>2 DEF BoardInvariant, BoardTypeOK
<1>5. OthersKept(s)
  BY <1>2, <1>4 DEF OthersKept
<1>6. Sound(s)'
  BY <1>4 DEF Sound
<1> QED BY <1>2, <1>3, <1>5, <1>6, PrivateStep

LEMMA AskStep ==
    ASSUME BoardInvariant, NEW s \in Sessions, Ask(s)
    PROVE  BoardInvariant'
<1>1. CASE \E rs \in SUBSET Entries, to \in Events \cup {None, "same"} :
              StartRows(s, WriteRows(rs, to))
  BY <1>1, StartRowsStep
<1>2. CASE \E es \in SUBSET Events \ {{}}, how \in {"edit", "delete"} :
              StartEvents(s, WriteEvents(es, how))
  <2>1. PICK es \in SUBSET Events, how \in {"edit", "delete"} :
                StartEvents(s, WriteEvents(es, how))
    BY <1>2
  <2>2. WriteEvents(es, how) \in Asked /\ WriteEvents(es, how).do = "events"
    BY DEF Asked, WriteEvents
  <2> QED BY <2>1, <2>2, StartEventsStep
<1>3. CASE \E e \in Events, bs \in SUBSET Boards, partial \in BOOLEAN :
              StartEvents(s, Attach(e, bs, partial))
  <2>1. PICK e \in Events, bs \in SUBSET Boards, partial \in BOOLEAN :
                StartEvents(s, Attach(e, bs, partial))
    BY <1>3
  <2>2. Attach(e, bs, partial) \in Asked
    BY DEF Asked
  <2>3. Attach(e, bs, partial).do = "events"
    BY DEF Attach
  <2> QED BY <2>1, <2>2, <2>3, StartEventsStep
<1>4. CASE \E e \in Events : StartEvents(s, Complete(e))
  <2>1. PICK e \in Events : StartEvents(s, Complete(e))
    BY <1>4
  <2>2. Complete(e) \in Asked
    BY DEF Asked
  <2>3. Complete(e).do = "complete"
    BY DEF Complete
  <2> QED BY <2>1, <2>2, <2>3, StartEventsStep
<1> QED BY <1>1, <1>2, <1>3, <1>4 DEF Ask

LEMMA LockStep ==
    ASSUME BoardInvariant, NEW s \in Sessions, LockEvent(s)
    PROVE  BoardInvariant'
<1>1. tx' = tx /\ writer' = writer /\ UNCHANGED stored /\ tx[s].pc = "locking"
  BY DEF LockEvent
<1>2. PICK e \in tx[s].events : holder[e] = None /\ holder' = [holder EXCEPT ![e] = s]
  BY DEF LockEvent
<1>3. SessionsTyped'
  BY <1>1, <1>2 DEF BoardInvariant, BoardTypeOK, SessionsTyped
<1>4. OthersKept(s)
  BY <1>1, <1>2, NoneAssumption DEF OthersKept, BoardInvariant, BoardTypeOK
<1>5. Sound(s)
  BY AllSound
<1>6. Touched(tx[s].do)' = Touched(tx[s].do)
  BY <1>1 DEF Touched, stored
<1>7. Sound(s)'
  BY <1>1, <1>5, <1>6 DEF Sound
<1> QED BY <1>1, <1>3, <1>4, <1>7, PrivateStep

(* A check that finds nothing lets the transaction go on. *)
LEMMA GoOn ==
    ASSUME BoardInvariant, NEW s \in Sessions,
           tx[s].pc \in {"locking", "updated"}, \A e \in tx[s].events : holder[e] = s,
           NEW pc \in {"updated", "checked"}, NEW bs \in SUBSET Boards,
           tx' = [tx EXCEPT ![s].pc = pc, ![s].boards = bs],
           UNCHANGED <<stored, holder, writer>>,
           pc = "updated" => tx[s].do.do = "complete",
           pc = "checked" /\ tx[s].do.do # "complete" =>
              \A e \in tx[s].events : ~Completed(e),
           tx[s].do.do = "complete" => \A e \in tx[s].events :
              event[e].status = "signup_open" /\ bs = event[e].boards
    PROVE  BoardInvariant'
<1> DEFINE n == [tx[s] EXCEPT !.pc = pc, !.boards = bs]
<1>1. n \in [pc : {"idle", "locking", "updated", "checked"},
            do : Asked \cup {Idle.do}, events : SUBSET Events, boards : SUBSET Boards]
  BY DEF BoardInvariant, BoardTypeOK
<1>2. tx' = [tx EXCEPT ![s] = n]
  BY DEF BoardInvariant, BoardTypeOK
<1>3. SessionsTyped'
  BY <1>1, <1>2 DEF BoardInvariant, BoardTypeOK, SessionsTyped
<1>4. /\ tx'[s].pc = pc /\ tx'[s].boards = bs
      /\ tx'[s].do = tx[s].do /\ tx'[s].events = tx[s].events
      /\ \A t \in Sessions \ {s} : tx'[t] = tx[t]
  BY DEF BoardInvariant, BoardTypeOK
<1>5. OthersKept(s)
  BY <1>4 DEF OthersKept
<1>6. Touched(tx[s].do)' = Touched(tx'[s].do)
  BY DEF Touched, stored
<1>7. Touched(tx[s].do)' = Touched(tx[s].do)
  BY <1>4, <1>6 DEF Touched, stored
<1>8. Sound(s)
  BY AllSound
<1>9. event' = event
  BY DEF stored
<1>10. Sound(s)'
  BY <1>4, <1>6, <1>7, <1>8, <1>9 DEF Sound, Completed
<1> QED BY <1>3, <1>5, <1>10, PrivateStep

LEMMA CheckStep ==
    ASSUME BoardInvariant, NEW s \in Sessions, Check(s)
    PROVE  BoardInvariant'
<1>1. tx[s].pc = "locking" /\ \A e \in tx[s].events : holder[e] = s
  BY DEF Check, Locked
<1>2. CASE Refusal(s) # "none"
  BY <1>2, RollbackStep DEF Check
<1>3. CASE Refusal(s) = "none" /\ tx[s].do.do = "complete"
  <2>1. CompletionRefusal(s, tx[s].events) = "none"
    BY <1>3 DEF Refusal
  <2>2. \A e \in tx[s].events : event[e].status = "signup_open"
    BY <1>1, <2>1 DEF CompletionRefusal
  <2>3. SetCompleted(s)
    BY <1>3 DEF Check
  <2>4. PICK e \in Events : tx[s].events = {e}
    BY <1>1, <1>3, AtWork, AskedKinds
  <2>5. UNION {event[d].boards : d \in tx[s].events} = event[e].boards
    BY <2>4
  <2>6. event[e].boards \in SUBSET Boards
    BY DEF BoardInvariant, BoardTypeOK
  <2>7. tx' = [tx EXCEPT ![s].pc = "updated", ![s].boards = event[e].boards]
    BY <2>3, <2>5 DEF SetCompleted
  <2>8. UNCHANGED <<stored, holder, writer>>
    BY <2>3 DEF SetCompleted
  <2>9. \A d \in tx[s].events :
           event[d].status = "signup_open" /\ event[e].boards = event[d].boards
    BY <2>2, <2>4
  <2> QED BY <1>1, <1>3, <2>6, <2>7, <2>8, <2>9, GoOn
<1>4. CASE Refusal(s) = "none" /\ tx[s].do.do # "complete"
  <2>1. tx[s].do.do \in {"rows", "events"}
    BY <1>1, <1>4, AtWork, AskedKinds
  <2>2. ~FrozenAmong(tx[s].events)
    BY <1>4, <2>1 DEF Refusal, RowsRefusal, EventsRefusal
  <2>3. \A e \in tx[s].events : ~Completed(e)
    BY <2>2 DEF FrozenAmong
  <2>4. Goto(s, "checked")
    BY <1>4 DEF Check
  <2>5. tx' = [tx EXCEPT ![s].pc = "checked", ![s].boards = tx[s].boards]
    BY <2>4 DEF Goto, BoardInvariant, BoardTypeOK
  <2>6. tx[s].boards \in SUBSET Boards /\ UNCHANGED <<stored, holder, writer>>
    BY <1>1, <2>4, AtWork DEF Goto
  <2> QED BY <1>1, <1>4, <2>3, <2>5, <2>6, GoOn
<1> QED BY <1>2, <1>3, <1>4

LEMMA InsertStep ==
    ASSUME BoardInvariant, NEW s \in Sessions, InsertInventory(s)
    PROVE  BoardInvariant'
<1>1. tx[s].pc = "updated"
  BY DEF InsertInventory
<1>2. CASE Refusal(s) # "none"
  BY <1>2, RollbackStep DEF InsertInventory
<1>3. CASE Refusal(s) = "none"
  <2>1. Goto(s, "checked")
    BY <1>3 DEF InsertInventory
  <2>2. tx' = [tx EXCEPT ![s].pc = "checked", ![s].boards = tx[s].boards]
    BY <2>1 DEF Goto, BoardInvariant, BoardTypeOK
  <2>3. tx[s].boards \in SUBSET Boards /\ UNCHANGED <<stored, holder, writer>>
    BY <1>1, <2>1, AtWork DEF Goto
  <2>4. Sound(s)
    BY AllSound
  <2> QED BY <1>1, <2>2, <2>3, <2>4, GoOn DEF Sound
<1> QED BY <1>2, <1>3
-----------------------------------------------------------------------------
(* What a checked transaction may rely on when it commits. *)
LEMMA Checked ==
    ASSUME BoardInvariant, NEW s \in Sessions, tx[s].pc = "checked"
    PROVE  /\ \A e \in tx[s].events : ~Completed(e) /\ ~event[e].bare
                                      /\ Inventory(e) = {} /\ holder[e] = s
           /\ tx[s].events \in SUBSET Events
<1>1. Sound(s) /\ tx[s].events \in SUBSET Events
  BY AllSound DEF BoardInvariant, BoardTypeOK
<1>2. \A e \in tx[s].events : ~Completed(e)
  BY <1>1 DEF Sound, Completed
<1>3. \A e \in tx[s].events : ~event[e].bare /\ Inventory(e) = {}
  BY <1>1, <1>2 DEF BoardInvariant, BareIsCompleted, InventoryWhole
<1> QED BY <1>1, <1>2, <1>3 DEF Sound

(* A commit changes what its transaction has locked, and frees it. *)
LEMMA CommitStep ==
    ASSUME BoardInvariant, NEW s \in Sessions, Release(s), tx[s].pc = "checked",
           event' \in [Events -> [status : {"absent", "signup_open", "completed"},
              text : Texts, boards : SUBSET Boards, partial : BOOLEAN, bare : BOOLEAN]],
           row' \in [Entries -> [event : Events \cup {None}, text : Texts]],
           target' \in [Events -> [Boards -> {NoTarget, NewTarget}]],
           \A e \in Events \ tx[s].events : event'[e] = event[e] /\ target'[e] = target[e],
           \A r \in Entries : row'[r] # row[r] => writer[r] = s,
           \A e \in tx[s].events :
              /\ event'[e].bare => Completed(e)'
              /\ Inventory(e)' = IF Completed(e)' /\ ~event'[e].bare
                                 THEN event'[e].boards ELSE {}
    PROVE  BoardInvariant'
<1>1. OthersKept(s) /\ SessionsTyped' /\ Sound(s)'
  BY ReleaseKeeps
<1>2. ASSUME NEW t \in Sessions \ {s}
      PROVE  Sound(t)'
  <2>1. Sound(t) /\ tx'[t] = tx[t] /\ tx[t].events \in SUBSET Events
    BY <1>1, AllSound DEF OthersKept, BoardInvariant, BoardTypeOK
  <2>2. ASSUME tx[t].pc # "idle", tx[t].do.do = "rows"
        PROVE  /\ \A r \in tx[t].do.rows : writer'[r] = t /\ row'[r] = row[r]
               /\ Touched(tx[t].do)' = Touched(tx[t].do)
    <3>1. tx[t].do.rows \in SUBSET Entries /\ tx'[t].do = tx[t].do
      BY <2>1, <2>2, AskedKinds DEF Sound
    <3>2. \A r \in tx[t].do.rows : writer[r] = t
      BY <2>1, <2>2 DEF Sound
    <3>3. \A r \in tx[t].do.rows : writer'[r] = t /\ row'[r] = row[r]
      BY <1>1, <3>1, <3>2 DEF OthersKept
    <3>4. {row'[r].event : r \in tx[t].do.rows} = {row[r].event : r \in tx[t].do.rows}
      BY <3>3
    <3>5. Touched(tx[t].do)' = Touched(tx[t].do)
      BY <3>1, <3>4 DEF Touched
    <3> QED BY <3>3, <3>5
  <2>3. ASSUME tx[t].pc \in {"updated", "checked"}, NEW e \in tx[t].events
        PROVE  holder'[e] = t /\ event'[e] = event[e]
    <3>1. holder[e] = t /\ e \in Events
      BY <2>1, <2>3 DEF Sound
    <3>2. e \notin tx[s].events
      BY <3>1, Checked
    <3> QED BY <1>1, <3>1, <3>2 DEF OthersKept
  <2> QED BY <2>1, <2>2, <2>3 DEF Sound, Completed
<1>3. \A t \in Sessions : Sound(t)'
  BY <1>1, <1>2
<1>4. BoardTypeOK'
  BY <1>1, <1>3 DEF BoardTypeOK, SessionsTyped, Sound
<1>5. LocksHeld' /\ EventsKnown' /\ CheckStands'
  BY <1>3 DEF Sound, LocksHeld, EventsKnown, CheckStands
<1>6. ASSUME NEW e \in Events \ tx[s].events
      PROVE  /\ event'[e].bare => Completed(e)'
             /\ Inventory(e)' = IF Completed(e)' /\ ~event'[e].bare
                                THEN event'[e].boards ELSE {}
  BY DEF BoardInvariant, BareIsCompleted, InventoryWhole, Inventory, Completed
<1>7. BareIsCompleted' /\ InventoryWhole'
  BY <1>6 DEF BareIsCompleted, InventoryWhole
<1> QED BY <1>4, <1>5, <1>7 DEF BoardInvariant

(* The three kinds of a commit: what it writes, seen from outside. *)
Effect(s) ==
    /\ \A e \in Events \ tx[s].events : event'[e] = event[e] /\ target'[e] = target[e]
    /\ \A r \in Entries : row'[r] # row[r] =>
          /\ writer[r] = s
          /\ row[r].event \in Events => row[r].event \in tx[s].events
          /\ row'[r].event \in Events => row'[r].event \in tx[s].events

LEMMA CommitRowsStep ==
    ASSUME BoardInvariant, NEW s \in Sessions, Commit(s), tx[s].do.do = "rows"
    PROVE  BoardInvariant' /\ Effect(s)
<1> DEFINE q == tx[s].do
<1>1. tx[s].pc = "checked" /\ CommitRows(q) /\ Release(s)
  BY DEF Commit
<1>2. /\ q \in Asked /\ q.rows \in SUBSET Entries
      /\ q.to \in Events \cup {None, "same"} /\ tx[s].events = Touched(q)
  BY <1>1, AtWork, AskedKinds
<1>3. \A r \in q.rows : writer[r] = s
  BY <1>1, AllSound DEF Sound
<1> HIDE DEF q
<1>4. event' = event /\ target' = target
  BY <1>1 DEF CommitRows
<1>5. ASSUME NEW r \in Entries
      PROVE  /\ row'[r] \in [event : Events \cup {None}, text : Texts]
             /\ row'[r] # row[r] =>
                  /\ r \in q.rows
                  /\ row'[r].event \in {row[r].event, q.to}
  <2>1. row[r] \in [event : Events \cup {None}, text : Texts]
    BY DEF BoardInvariant, BoardTypeOK
  <2>2. CASE r \notin q.rows
    BY <1>1, <2>1, <2>2 DEF CommitRows
  <2>3. CASE r \in q.rows /\ q.to = "same"
    <3>1. row'[r] = [row[r] EXCEPT !.text = 1 - @]
      BY <1>1, <2>3 DEF CommitRows, Edited
    <3>2. 1 - row[r].text \in Texts
      BY <2>1 DEF Texts
    <3> QED BY <2>1, <2>3, <3>1, <3>2
  <2>4. CASE r \in q.rows /\ q.to # "same"
    <3>1. row'[r] = [row[r] EXCEPT !.event = q.to]
      BY <1>1, <2>4 DEF CommitRows
    <3> QED BY <1>2, <2>1, <2>4, <3>1
  <2> QED BY <2>2, <2>3, <2>4
<1>6. row' \in [Entries -> [event : Events \cup {None}, text : Texts]]
  BY <1>1, <1>5 DEF CommitRows
<1>7. Effect(s)
  BY <1>2, <1>3, <1>4, <1>5 DEF Effect, Touched
<1>8. \A e \in tx[s].events :
         /\ event'[e].bare => Completed(e)'
         /\ Inventory(e)' = IF Completed(e)' /\ ~event'[e].bare
                            THEN event'[e].boards ELSE {}
  BY <1>1, <1>4, Checked DEF Inventory, Completed
<1>9. BoardInvariant'
  BY <1>1, <1>4, <1>6, <1>7, <1>8, CommitStep DEF Effect, BoardInvariant, BoardTypeOK
<1> QED BY <1>7, <1>9

LEMMA CommitEventsStep ==
    ASSUME BoardInvariant, NEW s \in Sessions, Commit(s), tx[s].do.do = "events"
    PROVE  BoardInvariant' /\ Effect(s)
<1> DEFINE q == tx[s].do
           Kind == [status : {"absent", "signup_open", "completed"},
              text : Texts, boards : SUBSET Boards, partial : BOOLEAN, bare : BOOLEAN]
<1>1. tx[s].pc = "checked" /\ CommitEvents(q) /\ Release(s)
  BY DEF Commit
<1>2. /\ q \in Asked /\ tx[s].events = q.events /\ q.events \in SUBSET Events
      /\ q.how \in {"edit", "delete", "attach"}
      /\ q.how = "attach" => q.boards \in SUBSET Boards /\ q.partial \in BOOLEAN
  BY <1>1, AtWork, AskedKinds
<1> HIDE DEF q
<1>3. row' = row /\ target' = target
  BY <1>1 DEF CommitEvents
<1>4. ASSUME NEW e \in Events, e \notin q.events
      PROVE  event'[e] = event[e]
  BY <1>1, <1>4 DEF CommitEvents
<1>5. ASSUME NEW e \in q.events
      PROVE  event'[e] \in Kind /\ event'[e].status # "completed" /\ ~event'[e].bare
  <2>1. /\ event[e] \in Kind /\ event[e].status # "completed" /\ ~event[e].bare
        /\ e \in Events
    BY <1>1, <1>2, Checked DEF BoardInvariant, BoardTypeOK, Completed
  <2>2. CASE event[e].status = "absent"
    BY <1>1, <2>1, <2>2 DEF CommitEvents
  <2>3. CASE event[e].status # "absent" /\ q.how = "attach"
    <3>1. event'[e] = [event[e] EXCEPT !.boards = q.boards, !.partial = q.partial]
      BY <1>1, <2>1, <2>3 DEF CommitEvents
    <3> QED BY <1>2, <2>1, <2>3, <3>1
  <2>4. CASE event[e].status # "absent" /\ q.how = "delete"
    BY <1>1, <2>1, <2>4 DEF CommitEvents, NoEvent, Texts
  <2>5. CASE event[e].status # "absent" /\ q.how = "edit"
    <3>1. event'[e] = [event[e] EXCEPT !.text = 1 - @]
      BY <1>1, <2>1, <2>5 DEF CommitEvents, Edited
    <3>2. 1 - event[e].text \in Texts
      BY <2>1 DEF Texts
    <3> QED BY <2>1, <3>1, <3>2
  <2> QED BY <1>2, <2>2, <2>3, <2>4, <2>5
<1>6. event' \in [Events -> Kind]
  <2>1. event' = [e \in Events |-> event'[e]]
    BY <1>1 DEF CommitEvents
  <2>2. \A e \in Events : event'[e] \in Kind
    BY <1>4, <1>5 DEF BoardInvariant, BoardTypeOK
  <2> QED BY <2>1, <2>2
<1>7. Effect(s)
  BY <1>2, <1>3, <1>4 DEF Effect
<1>8. \A e \in tx[s].events :
         /\ event'[e].bare => Completed(e)'
         /\ Inventory(e)' = IF Completed(e)' /\ ~event'[e].bare
                            THEN event'[e].boards ELSE {}
  BY <1>1, <1>2, <1>3, <1>5, Checked DEF Inventory, Completed
<1>9. BoardInvariant'
  BY <1>1, <1>3, <1>6, <1>7, <1>8, CommitStep DEF Effect, BoardInvariant, BoardTypeOK
<1> QED BY <1>7, <1>9

LEMMA CommitCompletionStep ==
    ASSUME BoardInvariant, NEW s \in Sessions, Commit(s), tx[s].do.do = "complete"
    PROVE  BoardInvariant' /\ Effect(s)
<1>1. tx[s].pc = "checked" /\ Release(s)
      /\ CommitCompletion(s, CHOOSE e \in tx[s].events : TRUE)
  BY DEF Commit
<1>2. PICK e \in Events : tx[s].events = {e}
  BY <1>1, AtWork, AskedKinds
<1>3. (CHOOSE d \in tx[s].events : TRUE) = e
  BY <1>2
<1>4. CommitCompletion(s, e)
  BY <1>1, <1>3
<1>5. /\ event[e].status = "signup_open" /\ tx[s].boards = event[e].boards
      /\ ~event[e].bare /\ Inventory(e) = {}
  BY <1>1, <1>2, AllSound, Checked DEF Sound
<1>6. row' = row /\ event' = [event EXCEPT ![e].status = "completed"]
  BY <1>4 DEF CommitCompletion
<1> DEFINE n == [event[e] EXCEPT !.status = "completed"]
           u == [b \in Boards |-> IF b \in tx[s].boards THEN NewTarget ELSE target[e][b]]
<1>7. target' = [target EXCEPT ![e] = u]
  BY <1>4 DEF CommitCompletion
<1>8. /\ n \in [status : {"absent", "signup_open", "completed"}, text : Texts,
                boards : SUBSET Boards, partial : BOOLEAN, bare : BOOLEAN]
      /\ n.status = "completed" /\ n.bare = event[e].bare /\ n.boards = event[e].boards
  <2>1. event[e] \in [status : {"absent", "signup_open", "completed"}, text : Texts,
                boards : SUBSET Boards, partial : BOOLEAN, bare : BOOLEAN]
    BY DEF BoardInvariant, BoardTypeOK
  <2> QED BY <2>1
<1>9. event' = [event EXCEPT ![e] = n]
  BY <1>6
<1>10. event' \in [Events -> [status : {"absent", "signup_open", "completed"}, text : Texts,
                boards : SUBSET Boards, partial : BOOLEAN, bare : BOOLEAN]]
  BY <1>8, <1>9 DEF BoardInvariant, BoardTypeOK
<1>11. u \in [Boards -> {NoTarget, NewTarget}]
  BY DEF BoardInvariant, BoardTypeOK
<1>12. target' \in [Events -> [Boards -> {NoTarget, NewTarget}]]
  BY <1>7, <1>11 DEF BoardInvariant, BoardTypeOK
<1>13. /\ event'[e] = n /\ target'[e] = u
       /\ \A d \in Events \ {e} : event'[d] = event[d] /\ target'[d] = target[d]
  BY <1>7, <1>9 DEF BoardInvariant, BoardTypeOK
<1>14. Effect(s)
  BY <1>2, <1>6, <1>13 DEF Effect
<1>15. NewTarget # NoTarget
  BY DEF NewTarget, NoTarget
<1>16. Inventory(e)' = event[e].boards
  <2>1. \A b \in Boards : target[e][b] = NoTarget
    BY <1>5 DEF Inventory
  <2>2. \A b \in Boards : u[b] # NoTarget <=> b \in event[e].boards
    BY <1>5, <1>15, <2>1
  <2>3. event[e].boards \in SUBSET Boards
    BY DEF BoardInvariant, BoardTypeOK
  <2> HIDE DEF u
  <2> QED BY <1>13, <2>2, <2>3 DEF Inventory
<1>17. event'[e].bare = FALSE /\ Completed(e)'
  BY <1>5, <1>8, <1>13 DEF Completed, BoardInvariant, BoardTypeOK
<1>18. \A d \in tx[s].events :
         /\ event'[d].bare => Completed(d)'
         /\ Inventory(d)' = IF Completed(d)' /\ ~event'[d].bare
                            THEN event'[d].boards ELSE {}
  <2> HIDE DEF n
  <2>1. /\ event'[e].bare => Completed(e)'
        /\ Inventory(e)' = IF Completed(e)' /\ ~event'[e].bare
                           THEN event'[e].boards ELSE {}
    BY <1>8, <1>13, <1>16, <1>17
  <2> QED BY <1>2, <2>1
<1>19. row' \in [Entries -> [event : Events \cup {None}, text : Texts]]
  BY <1>6 DEF BoardInvariant, BoardTypeOK
<1>20. BoardInvariant'
  <2> HIDE DEF n, u
  <2>1. /\ \A d \in Events \ tx[s].events : event'[d] = event[d] /\ target'[d] = target[d]
        /\ \A d \in Entries : row'[d] # row[d] => writer[d] = s
    BY <1>14 DEF Effect
  <2> QED BY <1>1, <1>10, <1>12, <1>18, <1>19, <2>1, CommitStep
<1> QED BY <1>14, <1>20

LEMMA CommitAny ==
    ASSUME BoardInvariant, NEW s \in Sessions, Commit(s)
    PROVE  BoardInvariant' /\ Effect(s)
<1>1. tx[s].do.do \in {"rows", "events", "complete"}
  BY AtWork, AskedKinds DEF Commit
<1> QED BY <1>1, CommitRowsStep, CommitEventsStep, CommitCompletionStep

-----------------------------------------------------------------------------
LEMMA InitHolds == BoardInit => BoardInvariant
<1> SUFFICES ASSUME BoardInit PROVE BoardInvariant
  OBVIOUS
<1> USE DEF BoardInit
<1>1. Idle \in [pc : {"idle", "locking", "updated", "checked"},
          do : Asked \cup {Idle.do}, events : SUBSET Events, boards : SUBSET Boards]
      /\ Idle.pc = "idle"
  BY DEF Idle
<1>2. event \in [Events -> [status : {"absent", "signup_open", "completed"},
          text : Texts, boards : SUBSET Boards, partial : BOOLEAN, bare : BOOLEAN]]
  <2> DEFINE Kind == [status : {"absent", "signup_open", "completed"},
          text : Texts, boards : SUBSET Boards, partial : BOOLEAN, bare : BOOLEAN]
  <2>1. NewEvent("signup_open", {}) \in Kind /\ NewEvent("completed", Boards) \in Kind
    BY DEF NewEvent, Texts
  <2> QED BY <2>1
<1>3. BoardTypeOK
  BY <1>1, <1>2 DEF BoardTypeOK, Texts
<1>4. \A s \in Sessions : tx[s].pc = "idle"
  BY <1>1
<1>5. LocksHeld /\ EventsKnown /\ CheckStands
  BY <1>4 DEF LocksHeld, EventsKnown, CheckStands
<1>6. \A e \in Events : event[e].bare <=> Completed(e)
  <2>1. \A e \in Events : event[e] \in
           {NewEvent("signup_open", {}), NewEvent("completed", Boards)}
    OBVIOUS
  <2>2. /\ ~NewEvent("signup_open", {}).bare
        /\ NewEvent("signup_open", {}).status = "signup_open"
        /\ NewEvent("completed", Boards).bare
        /\ NewEvent("completed", Boards).status = "completed"
    BY DEF NewEvent
  <2> QED BY <2>1, <2>2 DEF Completed
<1>7. \A e \in Events : Inventory(e) = {}
  BY DEF Inventory
<1>8. BareIsCompleted /\ InventoryWhole
  BY <1>6, <1>7 DEF BareIsCompleted, InventoryWhole
<1> QED BY <1>3, <1>5, <1>8 DEF BoardInvariant

(* A step commits something, or nothing that is committed changes. *)
LEMMA BoardStep ==
    ASSUME BoardInvariant, [BoardNext]_boardVars
    PROVE  /\ BoardInvariant'
           /\ UNCHANGED stored \/ \E s \in Sessions : Commit(s)
<1>1. CASE UNCHANGED boardVars
  <2>1. /\ event' = event /\ row' = row /\ target' = target
        /\ holder' = holder /\ writer' = writer /\ tx' = tx
    BY <1>1 DEF boardVars
  <2>2. BoardTypeOK'
    BY <2>1 DEF BoardInvariant, BoardTypeOK
  <2>3. LocksHeld' /\ CheckStands'
    BY <2>1 DEF BoardInvariant, LocksHeld, CheckStands, Completed
  <2>4. EventsKnown'
    BY <2>1 DEF BoardInvariant, EventsKnown, Touched
  <2>5. BareIsCompleted' /\ InventoryWhole'
    BY <2>1 DEF BoardInvariant, BareIsCompleted, InventoryWhole, Inventory, Completed
  <2> QED BY <2>1, <2>2, <2>3, <2>4, <2>5 DEF BoardInvariant, stored
<1>2. ASSUME NEW s \in Sessions, Ask(s)
      PROVE  BoardInvariant' /\ UNCHANGED stored
  BY <1>2, AskStep DEF Ask, StartRows, StartEvents
<1>3. ASSUME NEW s \in Sessions, LockEvent(s)
      PROVE  BoardInvariant' /\ UNCHANGED stored
  BY <1>3, LockStep DEF LockEvent
<1>4. ASSUME NEW s \in Sessions, Check(s)
      PROVE  BoardInvariant' /\ UNCHANGED stored
  BY <1>4, CheckStep DEF Check, Rollback, SetCompleted, Goto
<1>5. ASSUME NEW s \in Sessions, InsertInventory(s)
      PROVE  BoardInvariant' /\ UNCHANGED stored
  BY <1>5, InsertStep DEF InsertInventory, Rollback, Goto
<1>6. ASSUME NEW s \in Sessions, Commit(s)
      PROVE  BoardInvariant'
  BY <1>6, CommitAny
<1>7. ASSUME NEW s \in Sessions, Abort(s)
      PROVE  BoardInvariant' /\ UNCHANGED stored
  BY <1>7, RollbackStep DEF Abort, Rollback
<1>8. CASE BoardNext
  BY <1>2, <1>3, <1>4, <1>5, <1>6, <1>7, <1>8 DEF BoardNext, Proceed
<1> QED BY <1>1, <1>8 DEF boardVars, stored

(* In every execution a transaction holds the locks its checks rest on, and    *)
(* what it found stays so until it ends.                                       *)
THEOREM BoardInvariantHolds == BoardSpec => []BoardInvariant
<1>1. BoardInvariant /\ [BoardNext]_boardVars => BoardInvariant'
  BY BoardStep
<1> QED BY <1>1, InitHolds, PTL DEF BoardSpec

(* A completed event has the inventory of its boards and no other event has    *)
(* one: the completion of the bot under the locks of tr_MGE_Events_Frozen.     *)
THEOREM InventoryHolds == BoardSpec => []InventoryWhole
<1>1. BoardInvariant => InventoryWhole
  BY DEF BoardInvariant
<1> QED BY <1>1, BoardInvariantHolds, PTL

(* The three triggers keep a completed event, its signups and its awards as    *)
(* they were committed, whatever several sessions do at once.                  *)
THEOREM FrozenHolds == BoardSpec => FrozenStays
<1>1. ASSUME BoardInvariant, [BoardNext]_boardVars, NEW e \in Events, Completed(e)
      PROVE  /\ event'[e] = event[e]
             /\ \A r \in Entries : row[r].event = e \/ row'[r].event = e => row'[r] = row[r]
  <2>1. CASE UNCHANGED stored
    BY <2>1 DEF stored
  <2>2. CASE \E s \in Sessions : Commit(s)
    <3>1. PICK s \in Sessions : Commit(s)
      BY <2>2
    <3>2. Effect(s) /\ tx[s].pc = "checked"
      BY <1>1, <3>1, CommitAny DEF Commit
    <3>3. e \notin tx[s].events
      BY <1>1, <3>2, Checked
    <3> QED BY <3>2, <3>3 DEF Effect
  <2> QED BY <1>1, <2>1, <2>2, BoardStep
<1>2. BoardInvariant /\ [BoardNext]_boardVars =>
        [\A e \in Events : Completed(e) =>
           /\ event'[e] = event[e]
           /\ \A r \in Entries : row[r].event = e \/ row'[r].event = e => row'[r] = row[r]
        ]_boardVars
  BY <1>1
<1> QED BY <1>2, BoardInvariantHolds, PTL DEF BoardSpec, FrozenStays
=============================================================================
