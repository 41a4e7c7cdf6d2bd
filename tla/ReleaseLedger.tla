---------------------------- MODULE ReleaseLedger ----------------------------
(* What a SQL release promises its operator: a migration is applied at most   *)
(* once and keeps the attempt that applied it; an attempt that anybody was    *)
(* told is rolled back never applies anything afterwards.                     *)
CONSTANTS Migrations, Attempts, NoReceipt

VARIABLES
    applied,   \* [Migrations -> Attempts \cup {NoReceipt}]
    started,   \* the attempts made so far
    denied     \* the attempts that were reported as rolled back

ledgerVars == <<applied, started, denied>>

LedgerInit ==
    /\ applied = [m \in Migrations |-> NoReceipt]
    /\ started = {}
    /\ denied = {}

Attempt(a) ==
    /\ a \notin started
    /\ started' = started \cup {a}
    /\ UNCHANGED <<applied, denied>>

Succeed(a, m) ==
    /\ a \in started \ denied
    /\ applied[m] = NoReceipt
    /\ applied' = [applied EXCEPT ![m] = a]
    /\ UNCHANGED <<started, denied>>

Report(S) ==
    /\ S \subseteq started
    /\ \A m \in Migrations : applied[m] \notin S
    /\ denied' = denied \cup S
    /\ UNCHANGED <<applied, started>>

LedgerNext ==
    \/ \E a \in Attempts : Attempt(a)
    \/ \E a \in Attempts, m \in Migrations : Succeed(a, m)
    \/ \E S \in SUBSET Attempts : Report(S)

LedgerSpec == LedgerInit /\ [][LedgerNext]_ledgerVars
=============================================================================
