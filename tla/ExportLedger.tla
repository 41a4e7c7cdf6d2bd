---------------------------- MODULE ExportLedger ----------------------------
(***************************************************************************)
(* What the execution evidence of exports promises to whoever reads it,    *)
(* free of sessions, owners, fences and versions: the provider calls of an *)
(* account are written into one stream at a time and one call at a time;   *)
(* nothing follows a change whose outcome is unknown in its stream; what a *)
(* sealed stream shows is every call it ever made, with outcomes that no   *)
(* longer change; and a job is concluded only when everything it changed   *)
(* is known, and changes nothing afterwards.                               *)
(* ExportStream implements this specification.                             *)
(***************************************************************************)
CONSTANTS Jobs, Streams, Requests, AccountOf, None

VARIABLES
    phase,      \* of a stream: "new", "active" or "sealed"
    by,         \* the job that opened it
    evidence,   \* what a sealed stream shows
    call,       \* the stream, kind and state of a request
    concluded   \* the jobs whose changes are all known

ledgerVars == <<phase, by, evidence, call, concluded>>

NoCall == [of |-> None, kind |-> "none", state |-> "none"]
Decided == {"succeeded", "not_sent", "unknown"}
Calls(s) == {r \in Requests : call[r].of = s}
Shown(s) == {<<r, call[r].state>> : r \in Calls(s)}

LedgerInit ==
    /\ phase = [s \in Streams |-> "new"]
    /\ by = [s \in Streams |-> None]
    /\ evidence = [s \in Streams |-> None]
    /\ call = [r \in Requests |-> NoCall]
    /\ concluded = {}

(* A stream is opened once, when no other stream of its account is active. *)
Begin(s, j) ==
    /\ phase[s] = "new"
    /\ \A t \in Streams : phase[t] = "active" => AccountOf[by[t]] # AccountOf[j]
    /\ phase' = [phase EXCEPT ![s] = "active"]
    /\ by' = [by EXCEPT ![s] = j]
    /\ UNCHANGED <<evidence, call, concluded>>

(* The next call of a stream waits for the outcome of the one before it. *)
Write(s, r, kind) ==
    /\ phase[s] = "active"
    /\ call[r] = NoCall
    /\ \A q \in Calls(s) :
          /\ call[q].state \in Decided
          /\ call[q].state = "unknown" => call[q].kind = "read"
    /\ kind = "mutation" => by[s] \notin concluded
    /\ call' = [call EXCEPT ![r] = [of |-> s, kind |-> kind, state |-> "prepared"]]
    /\ UNCHANGED <<phase, by, evidence, concluded>>

Send(s, r) ==
    /\ phase[s] = "active"
    /\ call[r].of = s /\ call[r].state = "prepared"
    /\ call[r].kind = "mutation" => by[s] \notin concluded
    /\ call' = [call EXCEPT ![r].state = "dispatch_intent"]
    /\ UNCHANGED <<phase, by, evidence, concluded>>

(* What was not sent has no other outcome, and what was sent has another. *)
Decide(s, r, outcome) ==
    /\ phase[s] = "active"
    /\ call[r].of = s
    /\ call[r].state = IF outcome = "not_sent" THEN "prepared" ELSE "dispatch_intent"
    /\ call' = [call EXCEPT ![r].state = outcome]
    /\ UNCHANGED <<phase, by, evidence, concluded>>

Show(s) ==
    /\ phase[s] = "active"
    /\ phase' = [phase EXCEPT ![s] = "sealed"]
    /\ evidence' = [evidence EXCEPT ![s] = Shown(s)]
    /\ UNCHANGED <<by, call, concluded>>

Conclude(j) ==
    /\ j \notin concluded
    /\ \E s \in Streams : by[s] = j
    /\ \A s \in Streams : by[s] = j =>
          /\ phase[s] = "sealed"
          /\ \A r \in Calls(s) : call[r].state \in {"succeeded", "not_sent"}
    /\ concluded' = concluded \cup {j}
    /\ UNCHANGED <<phase, by, evidence, call>>

LedgerNext ==
    \/ \E s \in Streams :
          \/ \E j \in Jobs : Begin(s, j)
          \/ Show(s)
          \/ \E r \in Requests :
                \/ \E kind \in {"read", "mutation"} : Write(s, r, kind)
                \/ Send(s, r)
                \/ \E outcome \in Decided : Decide(s, r, outcome)
    \/ \E j \in Jobs : Conclude(j)

Spec == LedgerInit /\ [][LedgerNext]_ledgerVars
=============================================================================
