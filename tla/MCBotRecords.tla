---------------------------- MODULE MCBotRecords ----------------------------
(* Two records of the database that several workers of the bot write at once:  *)
(* the triggers of log backups and the boards of the events. They share        *)
(* nothing, so one run checks the one or the other.                            *)
EXTENDS LogBackupQueue, BoardFreeze

CONSTANTS w1, w2, s1, s2, e1, e2, r1, r2

VARIABLE part

ThreeTriggers == 1..3
Symmetry == Permutations({w1, w2}) \cup Permutations({s1, s2})
            \cup Permutations({e1, e2}) \cup Permutations({r1, r2})

recordVars == <<queueVars, boardVars, part>>

RecordsInit == QueueInit /\ BoardInit /\ part \in {"queue", "boards"}

RecordsNext ==
    \/ part = "queue" /\ QueueNext /\ UNCHANGED <<boardVars, part>>
    \/ part = "boards" /\ BoardNext /\ UNCHANGED <<queueVars, part>>

RecordsSpec == RecordsInit /\ [][RecordsNext]_recordVars

\* At most one event or row is edited, or one event partly attached, at a time.
Within ==
    Cardinality({e \in Events : event[e].text = 1})
    + Cardinality({e \in Events : event[e].partial})
    + Cardinality({r \in Entries : row[r].text = 1}) <= 1
=============================================================================
