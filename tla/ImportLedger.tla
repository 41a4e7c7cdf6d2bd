---------------------------- MODULE ImportLedger ----------------------------
(***************************************************************************)
(* What the KS4 import pipeline promises its callers, free of files, locks *)
(* and procedures: the bytes of a completed statistics file are accepted   *)
(* at most once, each acceptance gets a scan order above every earlier     *)
(* one, and a file name is disposed of exactly once, either as the owner   *)
(* of the acceptance of its bytes or as a duplicate of another file's.     *)
(* ImportPipeline implements this specification.                           *)
(***************************************************************************)
EXTENDS Integers

CONSTANTS
    Files,      \* completed file names
    Bytes,      \* file contents, which SHA-256 tells apart
    MaxScan,    \* the greatest scan order
    FirstScans, \* scan orders in use before the first acceptance
    NoFile      \* no file owns an acceptance that has not happened

VARIABLES
    scanOf,     \* the scan order an accepted content got, 0 before that
    acceptedAs, \* the file name it was accepted under
    outcome     \* what became of each file name

ledgerVars == <<scanOf, acceptedAs, outcome>>

Init ==
    /\ scanOf = [b \in Bytes |-> 0]
    /\ acceptedAs = [b \in Bytes |-> NoFile]
    /\ outcome = [f \in Files |-> "open"]

(* One content is accepted under one name, with a scan order of its own. *)
Accept(f, b) ==
    /\ outcome[f] = "open"
    /\ scanOf[b] = 0
    /\ \E n \in 1..MaxScan :
         /\ \A m \in FirstScans : m < n
         /\ \A c \in Bytes : scanOf[c] < n
         /\ scanOf' = [scanOf EXCEPT ![b] = n]
    /\ acceptedAs' = [acceptedAs EXCEPT ![b] = f]
    /\ outcome' = [outcome EXCEPT ![f] = "accepted"]

(* A name is closed as a duplicate of a content another name brought in. *)
Reject(f, b) ==
    /\ outcome[f] = "open"
    /\ scanOf[b] # 0
    /\ acceptedAs[b] # f
    /\ outcome' = [outcome EXCEPT ![f] = "rejected"]
    /\ UNCHANGED <<scanOf, acceptedAs>>

Next == \E f \in Files, b \in Bytes : Accept(f, b) \/ Reject(f, b)

Spec == Init /\ [][Next]_ledgerVars
=============================================================================
