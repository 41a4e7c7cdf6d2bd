------------------------ MODULE LogBackupQueueProofs ------------------------
(***************************************************************************)
(* Theorems about LogBackupQueue for every number of triggers and workers, *)
(* every maximal age and every retention.                                  *)
(***************************************************************************)
EXTENDS LogBackupQueue, FiniteSetTheorems, TLAPS

(* What GetPending returns is a sequence of the rows it selects. *)
LEMMA Returned ==
    ASSUME NEW S \in SUBSET Triggers, NEW s \in SetToSeqs(S)
    PROVE  s \in Seq(Triggers) /\ ToSet(s) \subseteq S
<1>1. IsFiniteSet(S)
  BY FS_Subset, TriggersAssumption
<1>2. Cardinality(S) \in Nat
  BY <1>1, FS_CardinalityType
<1>3. s \in [1..Cardinality(S) -> S]
  BY DEF SetToSeqs
<1> QED BY <1>2, <1>3 DEF ToSet

(* The first of a list is on it, and the rest is on it too. *)
LEMMA WorkedOff ==
    ASSUME NEW s \in Seq(Triggers), s # <<>>
    PROVE  /\ Head(s) \in Triggers /\ Head(s) \in ToSet(s)
           /\ Tail(s) \in Seq(Triggers) /\ ToSet(Tail(s)) \subseteq ToSet(s)
<1>1. Len(s) \in Nat /\ Len(s) > 0 /\ DOMAIN s = 1..Len(s)
  OBVIOUS
<1>2. Head(s) = s[1]
  OBVIOUS
<1>3. Tail(s) \in Seq(Triggers)
  OBVIOUS
<1>4. \A i \in DOMAIN Tail(s) : i + 1 \in DOMAIN s /\ Tail(s)[i] = s[i + 1]
  BY <1>1
<1>5. ToSet(Tail(s)) \subseteq ToSet(s)
  BY <1>4 DEF ToSet
<1> QED BY <1>1, <1>2, <1>3, <1>5 DEF ToSet

(* What a mark does to the row it finds and to the others. *)
LEMMA MarkedRow ==
    ASSUME QueueTypeOK, NEW w \in Workers, NEW i \in Triggers
    PROVE  /\ Marked(w, i, now) \in [Triggers -> Row]
           /\ Marked(w, i, now)[i].state = "processed"
           /\ Marked(w, i, now)[i].by = w
           /\ \A j \in Triggers \ {i} : Marked(w, i, now)[j] = queue[j]
<1> DEFINE r == [queue[i] EXCEPT !.state = "processed", !.doneAt = now, !.by = w]
<1>1. queue[i] \in Row /\ now \in 0..MaxTime
  BY DEF QueueTypeOK
<1>2. r \in Row /\ r.state = "processed" /\ r.by = w
  BY <1>1 DEF Row
<1>3. Marked(w, i, now) = [queue EXCEPT ![i] = r]
  BY DEF Marked
<1> HIDE DEF r
<1> QED BY <1>2, <1>3 DEF QueueTypeOK

LEMMA TypeStep ==
    ASSUME QueueTypeOK, [QueueNext]_queueVars
    PROVE  QueueTypeOK'
<1> USE TimesAssumption
<1>1. CASE QueueTrigger
  BY <1>1 DEF QueueTrigger, QueueTypeOK, Row
<1>2. CASE Cleanup
  BY <1>2 DEF Cleanup, QueueTypeOK, Row
<1>3. CASE Tick
  BY <1>3 DEF Tick, QueueTypeOK
<1>4. ASSUME NEW w \in Workers, GetPending(w)
      PROVE  QueueTypeOK'
  BY <1>4, Returned DEF GetPending, QueueTypeOK
<1>5. ASSUME NEW w \in Workers, MarkProcessed(w)
      PROVE  QueueTypeOK'
  <2>1. Head(list[w]) \in Triggers /\ Tail(list[w]) \in Seq(Triggers)
    BY <1>5, WorkedOff DEF MarkProcessed, QueueTypeOK
  <2>2. now' = now /\ list' \in [Workers -> Seq(Triggers)]
    BY <1>5, <2>1 DEF MarkProcessed, QueueTypeOK
  <2>3. CASE Pending(Head(list[w]))
    <3>1. queue' \in [Triggers -> Row]
      BY <1>5, <2>1, <2>3, MarkedRow DEF MarkProcessed
    <3>2. answer' \in [Triggers -> SUBSET Workers]
      BY <1>5, <2>1, <2>3 DEF MarkProcessed, QueueTypeOK
    <3> QED BY <2>2, <3>1, <3>2 DEF QueueTypeOK
  <2>4. CASE ~Pending(Head(list[w]))
    BY <1>5, <2>2, <2>4 DEF MarkProcessed, QueueTypeOK
  <2> QED BY <2>3, <2>4
<1>6. ASSUME NEW w \in Workers, Abandon(w)
      PROVE  QueueTypeOK'
  <2>1. <<>> \in Seq(Triggers)
    OBVIOUS
  <2> QED BY <1>6, <2>1 DEF Abandon, QueueTypeOK
<1>7. CASE UNCHANGED queueVars
  BY <1>7 DEF queueVars, QueueTypeOK
<1> QED BY <1>1, <1>2, <1>3, <1>4, <1>5, <1>6, <1>7 DEF QueueNext

(* Every execution keeps the clock within its bound, the rows of the queue in  *)
(* the columns of dbo.LogBackupTriggerQueue and the lists of the workers to    *)
(* triggers.                                                                   *)
THEOREM QueueTypesHold == QueueSpec => []QueueTypeOK
<1>1. QueueInit => QueueTypeOK
  <2>1. Absent \in Row /\ <<>> \in Seq(Triggers)
    BY TimesAssumption DEF Absent, Row
  <2> QED BY <2>1, TimesAssumption DEF QueueInit, QueueTypeOK
<1>2. QueueTypeOK /\ [QueueNext]_queueVars => QueueTypeOK'
  BY TypeStep
<1> QED BY <1>1, <1>2, PTL DEF QueueSpec

-----------------------------------------------------------------------------
(* OneMarks alone is not inductive: a pending row must be known to have been   *)
(* marked by nobody.                                                           *)
LEMMA AnswersStep ==
    ASSUME QueueTypeOK, AnswersAgree, [QueueNext]_queueVars
    PROVE  AnswersAgree'
<1>1. CASE QueueTrigger
  BY <1>1 DEF QueueTrigger, QueueTypeOK, AnswersAgree, Absent
<1>2. CASE Cleanup
  BY <1>2 DEF Cleanup, QueueTypeOK, AnswersAgree, Row
<1>3. CASE Tick
  BY <1>3 DEF Tick, AnswersAgree
<1>4. ASSUME NEW w \in Workers, GetPending(w)
      PROVE  AnswersAgree'
  BY <1>4 DEF GetPending, AnswersAgree
<1>5. ASSUME NEW w \in Workers, MarkProcessed(w)
      PROVE  AnswersAgree'
  <2>1. Head(list[w]) \in Triggers
    BY <1>5, WorkedOff DEF MarkProcessed, QueueTypeOK
  <2> DEFINE i == Head(list[w])
  <2>2. CASE Pending(i)
    <3>1. answer[i] = {} /\ queue' = Marked(w, i, now)
      BY <1>5, <2>1, <2>2 DEF MarkProcessed, Pending, AnswersAgree
    <3>2. answer'[i] = {w} /\ \A j \in Triggers \ {i} : answer'[j] = answer[j]
      BY <1>5, <2>1, <2>2, <3>1 DEF MarkProcessed, QueueTypeOK
    <3> HIDE DEF i
    <3> QED BY <2>1, <3>1, <3>2, MarkedRow DEF AnswersAgree, i
  <2>3. CASE ~Pending(i)
    BY <1>5, <2>3 DEF MarkProcessed, AnswersAgree
  <2> QED BY <2>2, <2>3
<1>6. ASSUME NEW w \in Workers, Abandon(w)
      PROVE  AnswersAgree'
  BY <1>6 DEF Abandon, AnswersAgree
<1>7. CASE UNCHANGED queueVars
  BY <1>7 DEF queueVars, AnswersAgree
<1> QED BY <1>1, <1>2, <1>3, <1>4, <1>5, <1>6, <1>7 DEF QueueNext

(* Of all workers that have read a trigger and backed up, one is told that the *)
(* mark is his: the guard Processed = 0 of MarkLogBackupTriggerProcessed.      *)
THEOREM OneMarksHolds == QueueSpec => []OneMarks
<1>1. QueueInit => AnswersAgree
  BY DEF QueueInit, AnswersAgree, Absent
<1>2. QueueTypeOK /\ AnswersAgree /\ [QueueNext]_queueVars => AnswersAgree'
  BY AnswersStep
<1>3. QueueTypeOK /\ AnswersAgree => OneMarks
  <2> SUFFICES ASSUME QueueTypeOK, AnswersAgree, NEW i \in Triggers
               PROVE  Cardinality(answer[i]) <= 1
    BY DEF AnswersAgree, OneMarks
  <2>1. answer[i] = {} \/ answer[i] = {queue[i].by}
    BY DEF QueueTypeOK, AnswersAgree, Row
  <2>2. Cardinality({}) = 0
    BY FS_EmptySet
  <2>3. Cardinality({queue[i].by}) = 1
    BY FS_Singleton
  <2> QED BY <2>1, <2>2, <2>3
<1> QED BY <1>1, <1>2, <1>3, QueueTypesHold, PTL DEF QueueSpec

-----------------------------------------------------------------------------
LEMMA ForgottenStep ==
    ASSUME QueueTypeOK, [QueueNext]_queueVars, NEW i \in Triggers, Forgotten(i)
    PROVE  Forgotten(i)'
<1> USE TimesAssumption DEF Forgotten, Pending, Aged
<1>1. CASE QueueTrigger
  BY <1>1 DEF QueueTrigger, QueueTypeOK, Absent
<1>2. CASE Cleanup
  BY <1>2 DEF Cleanup, QueueTypeOK
<1>3. CASE Tick
  <2>1. queue[i].time \in Nat /\ now \in Nat
    BY DEF QueueTypeOK, Row
  <2> QED BY <1>3, <2>1 DEF Tick
<1>4. ASSUME NEW w \in Workers, GetPending(w)
      PROVE  Forgotten(i)'
  <2>1. PICK s \in SetToSeqs({j \in Triggers : Pending(j) /\ ~Aged(j)}) :
               list' = [list EXCEPT ![w] = s]
    BY <1>4 DEF GetPending
  <2>2. i \notin ToSet(s)
    BY Returned, {j \in Triggers : Pending(j) /\ ~Aged(j)} \in SUBSET Triggers
  <2> QED BY <1>4, <2>1, <2>2 DEF GetPending, QueueTypeOK
<1>5. ASSUME NEW w \in Workers, MarkProcessed(w)
      PROVE  Forgotten(i)'
  <2>1. /\ Head(list[w]) \in Triggers /\ Head(list[w]) # i
        /\ i \notin ToSet(Tail(list[w]))
    BY <1>5, WorkedOff DEF MarkProcessed, QueueTypeOK
  <2>2. queue'[i] = queue[i] /\ now' = now
    BY <1>5, <2>1 DEF MarkProcessed, Marked, QueueTypeOK
  <2> QED BY <1>5, <2>1, <2>2 DEF MarkProcessed, QueueTypeOK
<1>6. ASSUME NEW w \in Workers, Abandon(w)
      PROVE  Forgotten(i)'
  <2>1. i \notin ToSet(<<>>)
    BY DEF ToSet
  <2> QED BY <1>6, <2>1 DEF Abandon, QueueTypeOK
<1>7. CASE UNCHANGED queueVars
  BY <1>7 DEF queueVars
<1> QED BY <1>1, <1>2, <1>3, <1>4, <1>5, <1>6, <1>7 DEF QueueNext

(* A trigger that aged before anybody read it stays in the table unprocessed:  *)
(* GetPendingLogBackupTriggers never returns it and the clean-up never deletes *)
(* it, for ever.                                                               *)
THEOREM ForgottenStaysHolds == QueueSpec => ForgottenStays
<1>1. QueueTypeOK /\ [QueueNext]_queueVars =>
        [\A i \in Triggers : Forgotten(i) => Forgotten(i)']_queueVars
  BY ForgottenStep
<1> QED BY <1>1, QueueTypesHold, PTL DEF QueueSpec, ForgottenStays
=============================================================================
