---------------------------- MODULE LogBackupQueue ----------------------------
(* dbo.LogBackupTriggerQueue: the completion of a stats import leaves a        *)
(* trigger in it, workers of the bot read the pending ones, back the log up    *)
(* and mark them, and a clean-up deletes old processed rows. The workers are   *)
(* outside the repository: they are taken to read, to back up and to mark, in  *)
(* that order, and may die anywhere in between.                                *)
EXTENDS Naturals, SequencesExt

CONSTANTS
    Triggers,    \* an interval of IDs from 1
    Workers,
    MaxAge,      \* @MaxAge of GetPending
    Retention,   \* @RetentionDays of Cleanup, on the same clock
    MaxTime,     \* bound on the clock
    Nobody

ASSUME NobodyAssumption == Nobody \notin Workers
ASSUME TriggersAssumption == Triggers \subseteq Nat /\ IsFiniteSet(Triggers)
ASSUME TimesAssumption == MaxAge \in Nat /\ Retention \in Nat /\ MaxTime \in Nat

VARIABLES
    now,       \* SYSDATETIME()
    queue,     \* the rows, one per ID
    list,      \* what each worker has read and not yet dealt with, in order
    answer     \* history: the trigger each worker was last told it has marked

queueVars == <<now, queue, list, answer>>

Absent == [state |-> "absent", time |-> 0, doneAt |-> 0, by |-> Nobody]

QueueInit ==
    /\ now = 0
    /\ queue = [i \in Triggers |-> Absent]
    /\ list = [w \in Workers |-> <<>>]
    /\ answer = [i \in Triggers |-> {}]

Pending(i) == queue[i].state = "pending"
Aged(i) == queue[i].time + MaxAge < now

\* ORDER BY TriggerTime; of two with the same time either may come first.
InTimeOrder(s) == \A j, k \in DOMAIN s : j < k => queue[s[j]].time <= queue[s[k]].time

\* IDENTITY: an ID is never used again, so a deleted row keeps its state here.
QueueTrigger ==
    \E i \in Triggers :
        /\ queue[i] = Absent
        /\ \A j \in Triggers : j < i => queue[j] # Absent
        /\ queue' = [queue EXCEPT ![i] =
              [state |-> "pending", time |-> now, doneAt |-> 0, by |-> Nobody]]
        /\ UNCHANGED <<now, list, answer>>

\* Mutant: the age is not asked for.
GetPendingOfAnyAge(w) ==
    /\ list[w] = <<>>
    /\ \E s \in SetToSeqs({i \in Triggers : Pending(i)}) :
          /\ InTimeOrder(s)
          /\ list' = [list EXCEPT ![w] = s]
    /\ UNCHANGED <<now, queue, answer>>

\* An empty answer is an answer.
GetPending(w) ==
    /\ list[w] = <<>>
    /\ \E s \in SetToSeqs({i \in Triggers : Pending(i) /\ ~Aged(i)}) :
          /\ InTimeOrder(s)
          /\ list' = [list EXCEPT ![w] = s]
    /\ UNCHANGED <<now, queue, answer>>

Marked(w, i, at) == [queue EXCEPT ![i] =
    [@ EXCEPT !.state = "processed", !.doneAt = at, !.by = w]]

\* Mutant: the row is marked whoever has marked it before.
MarkAnyway(w) ==
    /\ list[w] # <<>>
    /\ queue' = Marked(w, Head(list[w]), now)
    /\ answer' = [answer EXCEPT ![Head(list[w])] = @ \cup {w}]
    /\ list' = [list EXCEPT ![w] = Tail(@)]
    /\ UNCHANGED now

\* After its backup. A row somebody else has marked is an error for the caller
\* and stays his.
MarkProcessed(w) ==
    /\ list[w] # <<>>
    /\ LET i == Head(list[w]) IN
       IF Pending(i)
       THEN /\ queue' = Marked(w, i, now)
            /\ answer' = [answer EXCEPT ![i] = @ \cup {w}]
       ELSE UNCHANGED <<queue, answer>>
    /\ list' = [list EXCEPT ![w] = Tail(@)]
    /\ UNCHANGED now

\* The backup fails, or the worker dies: its list is gone, the rows are not.
Abandon(w) ==
    /\ list[w] # <<>>
    /\ list' = [list EXCEPT ![w] = <<>>]
    /\ UNCHANGED <<now, queue, answer>>

Cleanup ==
    LET old == {i \in Triggers : queue[i].state = "processed"
                                 /\ queue[i].doneAt + Retention < now} IN
    /\ old # {}
    /\ queue' = [i \in Triggers |->
          IF i \in old THEN [queue[i] EXCEPT !.state = "deleted"] ELSE queue[i]]
    /\ UNCHANGED <<now, list, answer>>

Tick == now < MaxTime /\ now' = now + 1 /\ UNCHANGED <<queue, list, answer>>

QueueNext ==
    \/ QueueTrigger \/ Cleanup \/ Tick
    \/ \E w \in Workers : GetPending(w) \/ MarkProcessed(w) \/ Abandon(w)

QueueSpec == QueueInit /\ [][QueueNext]_queueVars

-----------------------------------------------------------------------------
Row == [state : {"absent", "pending", "processed", "deleted"}, time : 0..MaxTime,
        doneAt : 0..MaxTime, by : Workers \cup {Nobody}]

QueueTypeOK ==
    /\ now \in 0..MaxTime
    /\ queue \in [Triggers -> Row]
    /\ list \in [Workers -> Seq(Triggers)]
    /\ answer \in [Triggers -> SUBSET Workers]

\* A trigger that has aged out of everybody's reading.
Forgotten(i) ==
    /\ Pending(i) /\ Aged(i)
    /\ \A w \in Workers : i \notin ToSet(list[w])

\* A trigger that no worker has read in time is never handed out afterwards and
\* never cleaned away: it stays in the table, unprocessed, for an operator.
ForgottenStays == [][\A i \in Triggers : Forgotten(i) => Forgotten(i)']_queueVars

\* Two workers that read the same trigger both back up, but one alone is told
\* that the mark is his, and the row and its successors in time say so for ever.
OneMarks == \A i \in Triggers :
    /\ queue[i].state \in {"processed", "deleted"} => answer[i] = {queue[i].by}
    /\ Cardinality(answer[i]) <= 1

\* Nobody has been told anything of a row that is not processed.
AnswersAgree == \A i \in Triggers :
    /\ queue[i].state \in {"processed", "deleted"} => answer[i] = {queue[i].by}
    /\ queue[i].state \in {"absent", "pending"} => answer[i] = {}
=============================================================================
