--------------------------- MODULE MCExportStream ---------------------------
(* Instances of ExportStream: every job writes the one file of one account. *)
EXTENDS ExportStream, TLC

CONSTANTS s1, s2, q1, q2, acct, f1

OneAccount == [j \in Jobs |-> acct]
SameFile == [j \in Jobs |-> {f1}]
Symmetric == Permutations(Jobs) \cup Permutations(Streams)
             \cup Permutations(Requests)

\* One job with two requests, one job with a probe and one request, or two jobs
\* with one mutation.
Used == {j \in Jobs : job[j].fence > 0 \/ seen[j] # None}
Sent == {r \in Requests : req[r] # NoRequest}
Probes == {s \in Streams : stream[s].purpose = "probe"}
Within ==
    \/ Cardinality(Used) <= 1 /\ Probes = {}
    \/ Cardinality(Used) <= 1 /\ Cardinality(Probes) = 1 /\ Cardinality(Sent) <= 1
    \/ /\ Probes = {} /\ Cardinality(Sent) <= 1
       /\ \A r \in Sent : req[r].kind = "mutation"
=============================================================================
