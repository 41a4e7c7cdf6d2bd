---------------------------- MODULE OutcomeLedger ----------------------------
(***************************************************************************)
(* What the coordinated statistics import promises the bot, free of locks, *)
(* sessions and procedures: a preparation is executed once; its import is  *)
(* committed at most once and gets a scan order above every earlier one;   *)
(* its three reports are delivered once each, in their order; an import    *)
(* that failed, or was committed and not completed, can be settled by an   *)
(* administrator, and a settled one is never touched again.  StatsOutcome  *)
(* implements this specification.                                          *)
(***************************************************************************)
EXTENDS Integers

CONSTANTS
    Preparations, \* identifiers of prepared imports
    FirstScan,    \* the latest scan order before the first of them
    MaxScan       \* the greatest scan order

VARIABLES
    phase,     \* how far each preparation is
    scan,      \* the scan order of its import, 0 before the commit
    delivered, \* how many of its reports are done
    settled    \* an administrator has closed it

outcomeVars == <<phase, scan, delivered, settled>>

Phases == {"absent", "ready", "running", "failed", "committed", "completed"}

Init ==
    /\ phase = [p \in Preparations |-> "absent"]
    /\ scan = [p \in Preparations |-> 0]
    /\ delivered = [p \in Preparations |-> 0]
    /\ settled = [p \in Preparations |-> FALSE]

Advance(p, from, to) ==
    /\ phase[p] = from
    /\ phase' = [phase EXCEPT ![p] = to]

Prepare(p) == Advance(p, "absent", "ready") /\ UNCHANGED <<scan, delivered, settled>>
Enter(p)   == Advance(p, "ready", "running") /\ UNCHANGED <<scan, delivered, settled>>
Fail(p)    == Advance(p, "running", "failed") /\ UNCHANGED <<scan, delivered, settled>>

Commit(p) ==
    /\ Advance(p, "running", "committed")
    /\ \E n \in (FirstScan + 1)..MaxScan :
         /\ \A q \in Preparations : scan[q] < n
         /\ scan' = [scan EXCEPT ![p] = n]
    /\ UNCHANGED <<delivered, settled>>

Deliver(p) ==
    /\ phase[p] = "committed"
    /\ ~settled[p]
    /\ delivered[p] < 3
    /\ delivered' = [delivered EXCEPT ![p] = @ + 1]
    /\ phase' = [phase EXCEPT ![p] = IF delivered'[p] = 3 THEN "completed" ELSE @]
    /\ UNCHANGED <<scan, settled>>

Settle(p) ==
    /\ phase[p] \in {"failed", "committed"}
    /\ ~settled[p]
    /\ settled' = [settled EXCEPT ![p] = TRUE]
    /\ UNCHANGED <<phase, scan, delivered>>

Next ==
    \E p \in Preparations :
        Prepare(p) \/ Enter(p) \/ Fail(p) \/ Commit(p) \/ Deliver(p) \/ Settle(p)

Spec == Init /\ [][Next]_outcomeVars
=============================================================================
