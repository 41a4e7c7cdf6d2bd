-------------------------- MODULE ExportStreamProofs --------------------------
(***************************************************************************)
(* Theorems about ExportStream for every set of jobs, streams, requests,   *)
(* sessions, accounts and files.                                           *)
(***************************************************************************)
EXTENDS ExportStream, FiniteSetTheorems, TLAPS

LEMMA MembersAreResources ==
    ASSUME NEW j \in Jobs
    PROVE  /\ AccountOf[j] \in Accounts /\ FilesOf[j] \in SUBSET Files
           /\ Members(j) \in SUBSET Resources
  BY MembershipAssumption DEF Members, Resources

LEMMA MovedTyped ==
    ASSUME ExportTypeOK, NEW j \in Jobs, NEW state \in JobStates
    PROVE  /\ Moved(j, state) \in [Jobs -> JobRow]
           /\ Moved(j, state)[j].state = state
           /\ Moved(j, state)[j].fence = job[j].fence
           /\ \A i \in Jobs \ {j} : Moved(j, state)[i] = job[i]
  BY DEF ExportTypeOK, Moved, JobRow

LEMMA FreeTyped ==
    ASSUME ExportTypeOK, NEW ks \in SUBSET Resources
    PROVE  /\ Free(ks) \in [Resources -> ResourceRow]
           /\ \A k \in ks : Free(ks)[k].job = None
           /\ \A k \in Resources \ ks : Free(ks)[k] = res[k]
  BY DEF ExportTypeOK, Free, ResourceRow

(* The row of a stream that advances: all but four columns stay.               *)
NextRow(c, state, last, digest) ==
    [state |-> state, session |-> c.session, job |-> c.job, fence |-> c.fence,
     claim |-> c.claim, scope |-> c.scope, purpose |-> c.purpose,
     version |-> c.version + 1, last |-> last, digest |-> digest]

LEMMA NextRowTyped ==
    ASSUME NEW c, NEW j \in Jobs, c \in StreamRow(j),
           NEW state \in {"open", "frozen", "closed", "contained"}, NEW last \in Nat,
           NEW digest \in Ledgers \cup {None}
    PROVE  NextRow(c, state, last, digest) \in StreamRow(j)
<1>1. c.version + 1 \in Nat
  BY DEF StreamRow
<1> QED BY <1>1 DEF NextRow, StreamRow

(* How the actions write these rows.                                           *)
LEMMA RowsWritten ==
    ASSUME NEW c, NEW j, c \in StreamRow(j), NEW d, NEW state, NEW last
    PROVE  /\ d = [c EXCEPT !.state = state, !.version = @ + 1]
                => d = NextRow(c, state, c.last, c.digest)
           /\ d = [c EXCEPT !.version = @ + 1, !.last = last]
                => d = NextRow(c, c.state, last, c.digest)
  BY DEF StreamRow, NextRow

LEMMA Opened ==
    ASSUME ExportTypeOK, NEW s \in Streams, stream[s].state # "none"
    PROVE  /\ stream[s].job \in Jobs /\ stream[s] \in StreamRow(stream[s].job)
           /\ stream[s].last \in Nat /\ stream[s].version \in Nat
           /\ stream[s].digest \in Ledgers \cup {None}
  BY DEF ExportTypeOK, NoStream, StreamRow

(* A stream advances: its owner, its scope and its purpose are those it was    *)
(* opened with, its version is the next one.                                   *)
RowAdvances(s, state, last, digest) ==
    /\ stream'[s] \in StreamRow(stream[s].job)
    /\ stream'[s].job = stream[s].job /\ stream'[s].session = stream[s].session
    /\ stream'[s].fence = stream[s].fence /\ stream'[s].claim = stream[s].claim
    /\ stream'[s].scope = stream[s].scope /\ stream'[s].purpose = stream[s].purpose
    /\ stream'[s].version = stream[s].version + 1 /\ stream'[s].state = state
    /\ stream'[s].last = last /\ stream'[s].digest = digest

(* One stream advances and the others stay.                                    *)
Advances(s, state, last, digest) ==
    /\ DOMAIN stream' = Streams
    /\ \A t \in Streams \ {s} : stream'[t] = stream[t]
    /\ RowAdvances(s, state, last, digest)

LEMMA AdvancesOne ==
    ASSUME ExportTypeOK, NEW s \in Streams, stream[s].state # "none",
           NEW state \in {"open", "frozen", "closed", "contained"}, NEW last \in Nat,
           NEW digest \in Ledgers \cup {None},
           stream' = [stream EXCEPT ![s] = NextRow(stream[s], state, last, digest)]
    PROVE  Advances(s, state, last, digest)
<1>1. stream'[s] = NextRow(stream[s], state, last, digest)
      /\ DOMAIN stream' = Streams /\ \A t \in Streams \ {s} : stream'[t] = stream[t]
  BY DEF ExportTypeOK
<1>2. NextRow(stream[s], state, last, digest) \in StreamRow(stream[s].job)
  BY Opened, NextRowTyped
<1> QED BY <1>1, <1>2 DEF Advances, RowAdvances, NextRow

LEMMA FreezeAdvances ==
    ASSUME ExportTypeOK, NEW s \in Streams, Freeze(s)
    PROVE  Advances(s, "frozen", stream[s].last, stream[s].digest)
<1>1. /\ stream[s] \in StreamRow(stream[s].job) /\ stream[s].state = "open"
      /\ stream[s].last \in Nat /\ stream[s].digest \in Ledgers \cup {None}
  BY Opened DEF Freeze
<1>2. [stream[s] EXCEPT !.state = "frozen", !.version = @ + 1]
      = NextRow(stream[s], "frozen", stream[s].last, stream[s].digest)
  BY <1>1, RowsWritten
<1>3. stream' = [stream EXCEPT ![s] =
         [stream[s] EXCEPT !.state = "frozen", !.version = @ + 1]]
  BY DEF Freeze
<1> QED BY <1>1, <1>2, <1>3, AdvancesOne

LEMMA CloseAdvances ==
    ASSUME ExportTypeOK, NEW s \in Streams, CloseStream(s)
    PROVE  Advances(s, "closed", stream[s].last, seal[s].digest)
<1>1. /\ stream[s] \in StreamRow(stream[s].job) /\ stream[s].state = "frozen"
      /\ stream[s].last \in Nat /\ seal[s].digest \in Ledgers
  BY Opened DEF CloseStream, ExportTypeOK, Sealing
<1>2. stream'[s] = [stream[s] EXCEPT !.state = "closed", !.version = @ + 1,
                                     !.digest = seal[s].digest]
  BY DEF CloseStream, ExportTypeOK
<1>3. stream'[s] = NextRow(stream[s], "closed", stream[s].last, seal[s].digest)
  BY <1>1, <1>2 DEF StreamRow, NextRow
<1>4. stream' = [stream EXCEPT ![s] =
         NextRow(stream[s], "closed", stream[s].last, seal[s].digest)]
  BY <1>3 DEF CloseStream, ExportTypeOK
<1> QED BY <1>1, <1>4, AdvancesOne

(* An event of a stream changes one request of it.                             *)
LEMMA EventAdvances ==
    ASSUME ExportTypeOK, NEW s \in Streams, NEW r \in Requests, NEW to \in RequestRow,
           NEW last \in Nat, stream[s].state # "none", Event(s, r, to, last)
    PROVE  /\ Advances(s, stream[s].state, last, stream[s].digest)
           /\ req' \in [Requests -> {NoRequest} \cup RequestRow]
           /\ req'[r] = to /\ \A q \in Requests \ {r} : req'[q] = req[q]
<1>1. stream[s] \in StreamRow(stream[s].job)
  BY Opened
<1>2. [stream[s] EXCEPT !.version = @ + 1, !.last = last]
      = NextRow(stream[s], stream[s].state, last, stream[s].digest)
  BY <1>1, RowsWritten
<1>3. stream' = [stream EXCEPT ![s] = [stream[s] EXCEPT !.version = @ + 1, !.last = last]]
  BY DEF Event
<1>4. /\ stream[s].digest \in Ledgers \cup {None}
      /\ stream[s].state \in {"open", "frozen", "closed", "contained"}
  BY <1>1 DEF StreamRow
<1>5. Advances(s, stream[s].state, last, stream[s].digest)
  BY <1>2, <1>3, <1>4, AdvancesOne
<1> QED BY <1>5 DEF Event, ExportTypeOK

(* What each of the three events makes of its request.                         *)
LEMMA PrepareAdvances ==
    ASSUME ExportTypeOK, NEW s \in Streams, NEW r \in Requests,
           NEW kind \in {"read", "mutation"}, NEW f \in Files, Prepare(s, r, kind, f)
    PROVE  /\ Advances(s, "open", stream[s].last + 1, stream[s].digest)
           /\ req' \in [Requests -> {NoRequest} \cup RequestRow]
           /\ req'[r] \in RequestRow /\ req'[r].state = "prepared" /\ req'[r].stream = s
           /\ req'[r].kind = kind /\ req'[r].target = f
           /\ \A q \in Requests \ {r} : req'[q] = req[q]
<1>1. stream[s].state = "open" /\ stream[s].last + 1 \in Nat
  BY Opened DEF Prepare
<1>2. [state |-> "prepared", stream |-> s, seq |-> stream[s].last + 1,
       kind |-> kind, target |-> f] \in RequestRow
  BY <1>1 DEF RequestRow, Outcomes
<1> QED BY <1>1, <1>2, EventAdvances DEF Prepare

LEMMA OutcomeAdvances ==
    ASSUME ExportTypeOK, NEW s \in Streams, NEW r \in Requests,
           NEW outcome \in Outcomes, outcome # "prepared",
           \/ Dispatch(s, r) /\ outcome = "dispatch_intent"
           \/ Resolve(s, r, outcome)
    PROVE  /\ Active(s) /\ req[r].stream = s /\ req[r] \in RequestRow
           /\ Advances(s, stream[s].state, stream[s].last, stream[s].digest)
           /\ req' \in [Requests -> {NoRequest} \cup RequestRow]
           /\ req'[r] \in RequestRow /\ req'[r].state = outcome /\ req'[r].stream = s
           /\ req'[r].kind = req[r].kind /\ req'[r].target = req[r].target
           /\ \A q \in Requests \ {r} : req'[q] = req[q]
<1> DEFINE to == [req[r] EXCEPT !.state = outcome]
<1>1. /\ Active(s) /\ req[r].stream = s /\ req[r].state \in {"prepared", "dispatch_intent"}
      /\ Event(s, r, to, stream[s].last)
  BY DEF Dispatch, Resolve, Active
<1>2. stream[s].state # "none" /\ stream[s].last \in Nat
  BY <1>1, Opened DEF Active
<1>3. req[r] \in RequestRow
  BY <1>1 DEF ExportTypeOK, NoRequest
<1>4. /\ to \in RequestRow /\ to.state = outcome /\ to.stream = s
      /\ to.kind = req[r].kind /\ to.target = req[r].target
  BY <1>1, <1>3 DEF RequestRow
<1> HIDE DEF to
<1> QED BY <1>1, <1>2, <1>3, <1>4, EventAdvances

LEMMA OpenAdds ==
    ASSUME ExportTypeOK, NEW s \in Streams, NEW x \in Sessions, NEW j \in Jobs,
           NEW purpose \in Purposes, OpenStream(s, x, j, purpose)
    PROVE  /\ DOMAIN stream' = Streams
           /\ \A t \in Streams \ {s} : stream'[t] = stream[t]
           /\ stream[s] = NoStream /\ stream'[s] \in StreamRow(j)
           /\ stream'[s].job = j /\ stream'[s].state = "open" /\ stream'[s].last = 0
           /\ stream'[s].version = 1 /\ stream'[s].purpose = purpose
<1>1. seen[j] \in Reading(j)
  BY DEF OpenStream, ExportTypeOK
<1>2. /\ stream[s] = NoStream
      /\ stream' = [stream EXCEPT ![s] =
            [state |-> "open", session |-> x, job |-> j, fence |-> seen[j].fence,
             claim |-> seen[j].version, scope |-> seen[j].scope, purpose |-> purpose,
             version |-> 1, last |-> 0, digest |-> None]]
  BY DEF OpenStream
<1> QED BY <1>1, <1>2 DEF ExportTypeOK, Reading, StreamRow

(* A containment seals every stream of the job and leaves the others.          *)
LEMMA ContainAdvances ==
    ASSUME ExportTypeOK, NEW j \in Jobs, ContainTargets(j)
    PROVE  /\ DOMAIN stream' = Streams
           /\ \A s \in Streams \ StreamsOf(j) : stream'[s] = stream[s]
           /\ \A s \in StreamsOf(j) :
                 /\ seal[s] \in Sealing /\ seal[s].version = stream[s].version
                 /\ seal[s].last = stream[s].last
                 /\ RowAdvances(s, "contained", stream[s].last, seal[s].digest)
<1>1. ASSUME NEW s \in StreamsOf(j)
      PROVE  /\ seal[s] \in Sealing /\ seal[s].version = stream[s].version
             /\ seal[s].last = stream[s].last
             /\ RowAdvances(s, "contained", stream[s].last, seal[s].digest)
  <2>1. /\ s \in Streams /\ seal[s] \in Sealing /\ seal[s].version = stream[s].version
        /\ seal[s].last = stream[s].last /\ stream[s].state # "none"
    BY <1>1 DEF ContainTargets, Sealed, ExportTypeOK, StreamsOf
  <2>2. /\ stream[s] \in StreamRow(stream[s].job) /\ stream[s].job \in Jobs
        /\ stream[s].last \in Nat
    BY <2>1, Opened
  <2>3. stream'[s] = [stream[s] EXCEPT !.state = "contained", !.version = @ + 1,
                                       !.digest = seal[s].digest]
    BY <1>1, <2>1 DEF ContainTargets
  <2>4. stream'[s] = NextRow(stream[s], "contained", stream[s].last, seal[s].digest)
    BY <2>2, <2>3 DEF StreamRow, NextRow
  <2>5. NextRow(stream[s], "contained", stream[s].last, seal[s].digest)
        \in StreamRow(stream[s].job)
    BY <2>1, <2>2, NextRowTyped DEF Sealing
  <2> QED BY <2>1, <2>4, <2>5 DEF RowAdvances, NextRow
<1> QED BY <1>1 DEF ContainTargets, StreamsOf

-----------------------------------------------------------------------------
(* The type invariant in two parts.                                            *)
StreamsTypeOK ==
    /\ DOMAIN stream = Streams
    /\ \A s \in Streams : stream[s] = NoStream \/ stream[s] \in StreamRow(stream[s].job)
OthersTypeOK ==
    /\ job \in [Jobs -> JobRow]
    /\ res \in [Resources -> ResourceRow]
    /\ session \in [Sessions -> {"none", "open", "closed"}]
    /\ req \in [Requests -> {NoRequest} \cup RequestRow]
    /\ contained \in [Files -> Jobs \cup {None}]
    /\ closeout \subseteq Jobs
    /\ DOMAIN seen = Jobs
    /\ \A j \in Jobs : seen[j] = None \/ seen[j] \in Reading(j)
    /\ seal \in [Streams -> {None} \cup Sealing]

LEMMA TypeParts ==
    /\ ExportTypeOK <=> StreamsTypeOK /\ OthersTypeOK
    /\ ExportTypeOK' <=> StreamsTypeOK' /\ OthersTypeOK'
  BY DEF ExportTypeOK, StreamsTypeOK, OthersTypeOK

LEMMA StreamsTyped ==
    ASSUME StreamsTypeOK, DOMAIN stream' = Streams,
           \A s \in Streams : \/ stream'[s] = stream[s]
                              \/ stream'[s] \in StreamRow(stream'[s].job)
    PROVE  StreamsTypeOK'
<1>1. ASSUME NEW s \in Streams
      PROVE  stream'[s] = NoStream \/ stream'[s] \in StreamRow(stream'[s].job)
  BY DEF StreamsTypeOK
<1> QED BY <1>1 DEF StreamsTypeOK

LEMMA AdvanceTyped ==
    ASSUME StreamsTypeOK, NEW s \in Streams, NEW state, NEW last, NEW digest,
           Advances(s, state, last, digest)
    PROVE  StreamsTypeOK'
<1>1. stream'[s] \in StreamRow(stream'[s].job)
  BY DEF Advances, RowAdvances
<1> QED BY <1>1, StreamsTyped DEF Advances

LEMMA OwnTyped ==
    ASSUME ExportTypeOK, NEW j \in Jobs, NEW state \in JobStates, Own(j, state)
    PROVE  /\ job' \in [Jobs -> JobRow] /\ res' \in [Resources -> ResourceRow]
           /\ job'[j].state = state /\ \A i \in Jobs \ {j} : job'[i] = job[i]
           /\ \A k \in Members(j) : res'[k].job = j
           /\ \A k \in Resources \ Members(j) : res'[k] = res[k]
<1> DEFINE above == {res[k].fence + 1 : k \in Members(j)} \cup {job[j].fence + 1}
<1>1. PICK fence \in above :
         /\ fence <= MaxFence
         /\ job' = [job EXCEPT ![j] = [state |-> state, fence |-> fence,
                                       version |-> @.version + 1]]
         /\ res' = [k \in Resources |-> IF k \in Members(j)
               THEN [res[k] EXCEPT !.job = j, !.fence = fence, !.version = @ + 1]
               ELSE res[k]]
  BY DEF Own
<1>2. fence \in 0..MaxFence
  <2>1. \A k \in Members(j) : res[k].fence \in Nat
    BY MembersAreResources, FenceAssumption DEF ExportTypeOK, ResourceRow
  <2>2. job[j].fence \in Nat
    BY FenceAssumption DEF ExportTypeOK, JobRow
  <2>3. fence \in Nat
    BY <2>1, <2>2
  <2>4. fence <= MaxFence
    BY <1>1
  <2> QED BY <2>3, <2>4, FenceAssumption
<1>3. job' \in [Jobs -> JobRow] /\ job'[j].state = state
      /\ \A i \in Jobs \ {j} : job'[i] = job[i]
  <2>1. [state |-> state, fence |-> fence, version |-> job[j].version + 1] \in JobRow
    BY <1>2 DEF ExportTypeOK, JobRow
  <2> QED BY <1>1, <2>1 DEF ExportTypeOK
<1>4. ASSUME NEW k \in Members(j)
      PROVE  res'[k] \in ResourceRow /\ res'[k].job = j
  <2>1. res'[k] = [res[k] EXCEPT !.job = j, !.fence = fence, !.version = @ + 1]
    BY <1>1, MembersAreResources
  <2>2. res[k] \in ResourceRow
    BY MembersAreResources DEF ExportTypeOK
  <2>3. res'[k] = [job |-> j, fence |-> fence, version |-> res[k].version + 1,
                   blocked |-> res[k].blocked]
    BY <2>1, <2>2 DEF ResourceRow
  <2>4. res[k].version + 1 \in Nat /\ res[k].blocked \in BOOLEAN
    BY <2>2 DEF ResourceRow
  <2> QED BY <1>2, <2>3, <2>4 DEF ResourceRow
<1>5. \A k \in Resources \ Members(j) : res'[k] = res[k]
  BY <1>1
<1>6. res' \in [Resources -> ResourceRow]
  BY <1>1, <1>4, <1>5 DEF ExportTypeOK
<1> QED BY <1>3, <1>4, <1>5, <1>6

LEMMA TypeStep ==
    ASSUME ExportTypeOK, [ExportNext]_vars
    PROVE  ExportTypeOK'
<1>1. ASSUME NEW j \in Jobs, ReadJob(j)
      PROVE  ExportTypeOK'
  <2>1. [fence |-> job[j].fence, version |-> job[j].version,
         scope |-> [k \in Members(j) |-> res[k].version]] \in Reading(j)
    BY MembersAreResources DEF ExportTypeOK, JobRow, ResourceRow, Reading
  <2> QED BY <1>1, <2>1 DEF ReadJob, ExportTypeOK
<1>2. ASSUME NEW s \in Streams, ReadStream(s)
      PROVE  ExportTypeOK'
  <2>1. Ledger(s) \in Ledgers
    BY NoneAssumption DEF Ledger, Ledgers, RequestsOf, ExportTypeOK, NoRequest, RequestRow
  <2>2. stream[s].version \in Nat /\ stream[s].last \in Nat
    BY <1>2, Opened DEF ReadStream
  <2> QED BY <1>2, <2>1, <2>2 DEF ReadStream, ExportTypeOK, Sealing
<1>3. ASSUME NEW x \in Sessions, OpenSession(x) \/ CloseSession(x)
      PROVE  ExportTypeOK'
  BY <1>3 DEF OpenSession, CloseSession, ExportTypeOK
<1>4. ASSUME NEW s \in Streams, NEW x \in Sessions, NEW j \in Jobs,
             NEW purpose \in Purposes, OpenStream(s, x, j, purpose)
      PROVE  ExportTypeOK'
  <2>1. StreamsTypeOK'
    BY <1>4, OpenAdds, TypeParts, StreamsTyped
  <2> QED BY <1>4, <2>1, TypeParts DEF OpenStream, OthersTypeOK
<1>5. ASSUME NEW s \in Streams, Freeze(s) \/ CloseStream(s)
      PROVE  ExportTypeOK'
  <2>1. StreamsTypeOK'
    BY <1>5, FreezeAdvances, CloseAdvances, TypeParts, AdvanceTyped
  <2> QED BY <1>5, <2>1, TypeParts DEF Freeze, CloseStream, OthersTypeOK
<1>6. ASSUME NEW s \in Streams, NEW r \in Requests, NEW kind \in {"read", "mutation"},
             NEW f \in Files, Prepare(s, r, kind, f)
      PROVE  ExportTypeOK'
  <2>1. StreamsTypeOK' /\ req' \in [Requests -> {NoRequest} \cup RequestRow]
    <3>1. PICK last : Advances(s, "open", last, stream[s].digest)
      BY <1>6, PrepareAdvances
    <3> QED BY <1>6, <3>1, PrepareAdvances, TypeParts, AdvanceTyped
  <2> QED BY <1>6, <2>1, TypeParts DEF Prepare, Event, OthersTypeOK
<1>7. ASSUME NEW s \in Streams, NEW r \in Requests, NEW outcome \in Outcomes,
             outcome # "prepared",
             \/ Dispatch(s, r) /\ outcome = "dispatch_intent"
           \/ Resolve(s, r, outcome)
      PROVE  ExportTypeOK'
  <2>1. StreamsTypeOK' /\ req' \in [Requests -> {NoRequest} \cup RequestRow]
    BY <1>7, OutcomeAdvances, TypeParts, AdvanceTyped
  <2> QED BY <1>7, <2>1, TypeParts DEF Dispatch, Resolve, Event, OthersTypeOK
<1>8. /\ "dispatch_intent" \in Outcomes \ {"prepared"}
      /\ \A outcome \in Terminal : outcome \in Outcomes \ {"prepared"}
  BY DEF Outcomes, Terminal
<1>9. ASSUME NEW j \in Jobs, ContainTargets(j)
      PROVE  ExportTypeOK'
  <2>1. job' \in [Jobs -> JobRow] /\ res' \in [Resources -> ResourceRow]
    BY <1>9, MovedTyped, FreeTyped, MembersAreResources DEF ContainTargets, JobStates
  <2>2. StreamsTypeOK'
    BY <1>9, ContainAdvances, TypeParts, StreamsTyped DEF RowAdvances
  <2>3. contained' \in [Files -> Jobs \cup {None}]
    BY <1>9 DEF ContainTargets, ExportTypeOK
  <2> QED BY <1>9, <2>1, <2>2, <2>3, TypeParts DEF ContainTargets, OthersTypeOK
<1>10. ASSUME NEW j \in Jobs, LegacyCloseout(j)
       PROVE  ExportTypeOK'
  <2>1. {k \in Members(j) : HeldBy(k, j)} \in SUBSET Resources
    BY MembersAreResources
  <2>2. job' \in [Jobs -> JobRow] /\ res' \in [Resources -> ResourceRow]
    BY <1>10, <2>1, MovedTyped, FreeTyped DEF LegacyCloseout, JobStates
  <2> QED BY <1>10, <2>2 DEF LegacyCloseout, ExportTypeOK
<1>11. ASSUME NEW j \in Jobs, NEW state \in JobStates, Own(j, state)
       PROVE  ExportTypeOK'
  BY <1>11, OwnTyped DEF Own, ExportTypeOK
<1>12. ASSUME NEW j \in Jobs, StartAttempt(j)
       PROVE  ExportTypeOK'
  BY <1>12 DEF StartAttempt, ExportTypeOK
<1>13. ASSUME NEW j \in Jobs, NEW state \in {"confirmed", "failed", "uncertain"},
              EndJob(j, state)
       PROVE  ExportTypeOK'
  <2>1. job' \in [Jobs -> JobRow]
    BY <1>13, MovedTyped DEF EndJob, JobStates
  <2>2. ASSUME NEW k \in Resources
        PROVE  [res[k] EXCEPT !.blocked = TRUE, !.version = @ + 1] \in ResourceRow
    <3>1. res[k] \in ResourceRow
      BY DEF ExportTypeOK
    <3>2. res[k].version + 1 \in Nat
      BY <3>1 DEF ResourceRow
    <3> QED BY <3>1, <3>2 DEF ResourceRow
  <2>3. res' \in [Resources -> ResourceRow]
    BY <1>13, <2>2, FreeTyped, MembersAreResources DEF EndJob, ExportTypeOK
  <2> QED BY <1>13, <2>1, <2>3 DEF EndJob, ExportTypeOK
<1>14. CASE UNCHANGED vars
  BY <1>14 DEF vars, ExportTypeOK
<1> QED BY <1>1, <1>2, <1>3, <1>4, <1>5, <1>6, <1>7, <1>8, <1>9, <1>10, <1>11,
     <1>12, <1>13, <1>14 DEF ExportNext, Claim, Replace, JobStates

(* Every execution keeps the rows of the tables and what the authority has     *)
(* read in their columns: no transition of an owner advances a fence beyond    *)
(* what a claim has given out.                                                 *)
THEOREM ExportTypesHold == ExportSpec => []ExportTypeOK
<1>1. ExportInit => ExportTypeOK
  <2>1. /\ [state |-> "ready", fence |-> 0, version |-> 1] \in JobRow
        /\ [job |-> None, fence |-> 0, version |-> 1, blocked |-> FALSE] \in ResourceRow
    BY FenceAssumption DEF JobRow, ResourceRow, JobStates
  <2> QED BY <2>1 DEF ExportInit, ExportTypeOK
<1>2. ExportTypeOK /\ [ExportNext]_vars => ExportTypeOK'
  BY TypeStep
<1> QED BY <1>1, <1>2, PTL DEF ExportSpec

-----------------------------------------------------------------------------
(* What holds of the streams and their ledgers, whoever owns the jobs.         *)
StreamsSound ==
    OneActive /\ OneCall /\ RequestsFit /\ LedgerCounted /\ SealsStand /\ SealIsComplete

LEMMA StreamsUnmoved ==
    ASSUME StreamsSound, UNCHANGED <<stream, req, seal>>
    PROVE  StreamsSound'
  BY DEF StreamsSound, OneActive, OneCall, RequestsFit, LedgerCounted, SealsStand,
     SealIsComplete, Active, Outstanding, RequestsOf, Ledger

(* The ledgers of the streams that an event does not belong to stay.           *)
LEMMA OtherLedgers ==
    ASSUME NEW s \in Streams, NEW t \in Streams \ {s}, NEW r \in Requests,
           req[r].stream \in {s, None}, req'[r].stream = s,
           \A q \in Requests \ {r} : req'[q] = req[q]
    PROVE  /\ RequestsOf(t)' = RequestsOf(t) /\ Ledger(t)' = Ledger(t)
           /\ Outstanding(t)' = Outstanding(t)
<1>1. \A q \in Requests : req[q].stream = t => req'[q] = req[q]
  BY NoneAssumption
<1>2. \A q \in Requests : req'[q].stream = t => req'[q] = req[q]
  OBVIOUS
<1>3. RequestsOf(t)' = RequestsOf(t)
  BY <1>1, <1>2 DEF RequestsOf
<1>4. Ledger(t)' = Ledger(t)
  BY <1>1, <1>3 DEF Ledger, RequestsOf
<1>5. Outstanding(t)' = Outstanding(t)
  BY <1>1, <1>3 DEF Outstanding, RequestsOf
<1> QED BY <1>3, <1>4, <1>5

LEMMA ReadStreamSound ==
    ASSUME ExportTypeOK, StreamsSound, NEW s \in Streams, ReadStream(s)
    PROVE  StreamsSound'
<1>1. UNCHANGED <<stream, req>>
  BY DEF ReadStream
<1>2. SealsStand'
  <2> SUFFICES ASSUME NEW t \in Streams, seal'[t] # None
               PROVE  /\ stream[t].state # "none" /\ seal'[t].version <= stream[t].version
                      /\ seal'[t].version = stream[t].version => seal'[t].digest = Ledger(t)
    BY <1>1 DEF SealsStand, Ledger, RequestsOf
  <2>1. CASE t = s
    <3>1. stream[s].state # "none" /\ stream[s].version \in Nat
      BY Opened DEF ReadStream
    <3>2. seal'[s].version = stream[s].version /\ seal'[s].digest = Ledger(s)
      BY DEF ReadStream, ExportTypeOK
    <3> QED BY <2>1, <3>1, <3>2
  <2>2. CASE t # s
    BY <2>2 DEF ReadStream, ExportTypeOK, StreamsSound, SealsStand
  <2> QED BY <2>1, <2>2
<1> QED BY <1>1, <1>2 DEF StreamsSound, OneActive, OneCall, RequestsFit, LedgerCounted,
     SealIsComplete, Active, Outstanding, RequestsOf, Ledger

(* A stream that is not active becomes active only when it is opened.          *)
LEMMA OneActiveKept ==
    ASSUME OneActive, NEW s \in Streams, NEW state, NEW last, NEW digest,
           Advances(s, state, last, digest), state \in {"open", "frozen"} => Active(s)
    PROVE  OneActive'
<1>1. \A t \in Streams : Active(t)' => Active(t) /\ stream'[t].job = stream[t].job
  BY DEF Advances, RowAdvances, Active
<1> QED BY <1>1 DEF OneActive

LEMMA OpenSound ==
    ASSUME ExportTypeOK, StreamsSound, NEW s \in Streams, NEW x \in Sessions,
           NEW j \in Jobs, NEW purpose \in Purposes, OpenStream(s, x, j, purpose)
    PROVE  StreamsSound'
<1>1. /\ stream[s] = NoStream /\ stream'[s].job = j /\ stream'[s].state = "open"
      /\ stream'[s].last = 0 /\ \A t \in Streams \ {s} : stream'[t] = stream[t]
  BY OpenAdds
<1>2. req' = req /\ seal' = seal /\ ~AccountBusy(AccountOf[j])
  BY DEF OpenStream
<1>3. \A t : /\ RequestsOf(t)' = RequestsOf(t) /\ Ledger(t)' = Ledger(t)
             /\ Outstanding(t)' = Outstanding(t)
  BY <1>2 DEF RequestsOf, Ledger, Outstanding
<1>4. OneActive'
  BY <1>1, <1>2 DEF StreamsSound, OneActive, AccountBusy, Active
<1>5. OneCall'
  BY <1>3 DEF StreamsSound, OneCall
<1>6. RequestsFit'
  <2>1. \A r \in Requests : req[r] # NoRequest => req[r].stream \in Streams \ {s}
    BY <1>1 DEF StreamsSound, RequestsFit, NoStream, ExportTypeOK, RequestRow
  <2> QED BY <1>1, <1>2, <2>1 DEF StreamsSound, RequestsFit
<1>7. LedgerCounted'
  BY <1>1, <1>3 DEF StreamsSound, LedgerCounted, NoStream
<1>8. SealsStand'
  BY <1>1, <1>2, <1>3 DEF StreamsSound, SealsStand, NoStream
<1>9. SealIsComplete'
  BY <1>1, <1>3 DEF StreamsSound, SealIsComplete
<1> QED BY <1>4, <1>5, <1>6, <1>7, <1>8, <1>9 DEF StreamsSound

LEMMA SealingSound ==
    ASSUME ExportTypeOK, StreamsSound, NEW s \in Streams, Freeze(s) \/ CloseStream(s)
    PROVE  StreamsSound'
<1>1. PICK state, last, digest :
         /\ state \in {"frozen", "closed"}
         /\ Advances(s, state, last, digest) /\ Active(s) /\ last = stream[s].last
         /\ state = "closed" => /\ seal[s] # None /\ digest = seal[s].digest
                                /\ seal[s].version = stream[s].version
  <2>1. CASE Freeze(s)
    <3>1. Advances(s, "frozen", stream[s].last, stream[s].digest) /\ Active(s)
      BY <2>1, FreezeAdvances DEF Freeze, Active
    <3> QED BY <3>1
  <2>2. CASE CloseStream(s)
    <3>1. /\ Advances(s, "closed", stream[s].last, seal[s].digest) /\ Active(s)
          /\ seal[s] # None /\ seal[s].version = stream[s].version
      BY <2>2, CloseAdvances DEF CloseStream, Active
    <3> QED BY <3>1
  <2> QED BY <2>1, <2>2
<1>2. req' = req /\ seal' = seal
  BY DEF Freeze, CloseStream
<1>3. \A t : /\ RequestsOf(t)' = RequestsOf(t) /\ Ledger(t)' = Ledger(t)
             /\ Outstanding(t)' = Outstanding(t)
  BY <1>2 DEF RequestsOf, Ledger, Outstanding
<1>4. OneActive'
  BY <1>1, OneActiveKept DEF StreamsSound
<1>5. OneCall'
  BY <1>3 DEF StreamsSound, OneCall
<1>6. RequestsFit'
  <2>1. \A t \in Streams : /\ stream'[t].state = "none" => stream[t].state = "none"
                           /\ stream'[t].job = stream[t].job
                           /\ stream'[t].purpose = stream[t].purpose
    BY <1>1 DEF Advances, RowAdvances
  <2>2. \A r \in Requests : req[r] # NoRequest => req[r].stream \in Streams
    BY DEF ExportTypeOK, RequestRow
  <2> QED BY <1>2, <2>1, <2>2 DEF StreamsSound, RequestsFit
<1>7. LedgerCounted'
  BY <1>1, <1>3 DEF StreamsSound, LedgerCounted, Advances, RowAdvances
<1>8. SealsStand'
  <2> SUFFICES ASSUME NEW t \in Streams, seal[t] # None
               PROVE  /\ stream'[t].state # "none" /\ seal[t].version <= stream'[t].version
                      /\ seal[t].version = stream'[t].version => seal[t].digest = Ledger(t)
    BY <1>2, <1>3 DEF SealsStand
  <2>1. CASE t = s
    <3>1. stream[s].version \in Nat /\ seal[s].version \in Nat
      BY <1>1, <2>1, Opened DEF Active, ExportTypeOK, Sealing
    <3>2. stream'[s].version = stream[s].version + 1 /\ stream'[s].state # "none"
          /\ seal[s].version <= stream[s].version
      BY <1>1, <2>1 DEF Advances, RowAdvances, StreamsSound, SealsStand
    <3> QED BY <2>1, <3>1, <3>2
  <2>2. CASE t # s
    BY <1>1, <2>2 DEF Advances, StreamsSound, SealsStand
  <2> QED BY <2>1, <2>2
<1>9. SealIsComplete'
  BY <1>1, <1>3 DEF StreamsSound, SealIsComplete, SealsStand, LedgerCounted, Advances,
     RowAdvances
<1> QED BY <1>4, <1>5, <1>6, <1>7, <1>8, <1>9 DEF StreamsSound

(* An event of a stream: its ledger changes with its version, so no seal taken *)
(* before stands, and only an active stream takes one.                         *)
LEMMA EventSound ==
    ASSUME ExportTypeOK, StreamsSound, NEW s \in Streams, NEW r \in Requests,
           NEW last, NEW digest, Advances(s, stream[s].state, last, digest), Active(s),
           seal' = seal, req' \in [Requests -> {NoRequest} \cup RequestRow],
           req[r].stream \in {s, None}, req'[r].stream = s, req'[r].target \in FilesOf[stream[s].job],
           stream[s].purpose = "probe" => req'[r].kind = "read",
           \A q \in Requests \ {r} : req'[q] = req[q],
           IsFiniteSet(RequestsOf(s)'), last = Cardinality(RequestsOf(s)'),
           \A p, q \in Outstanding(s)' : p = q
    PROVE  StreamsSound'
<1>1. \A t \in Streams \ {s} : stream'[t] = stream[t] /\ RequestsOf(t)' = RequestsOf(t)
         /\ Ledger(t)' = Ledger(t) /\ Outstanding(t)' = Outstanding(t)
  BY OtherLedgers DEF Advances
<1>2. OneActive'
  BY OneActiveKept DEF StreamsSound
<1>3. OneCall'
  BY <1>1 DEF StreamsSound, OneCall
<1>4. RequestsFit'
  <2>1. \A t \in Streams : /\ stream'[t].state = stream[t].state
                           /\ stream'[t].job = stream[t].job
                           /\ stream'[t].purpose = stream[t].purpose
    BY DEF Advances, RowAdvances
  <2>2. \A q \in Requests : req[q] # NoRequest => req[q].stream \in Streams
    BY DEF ExportTypeOK, RequestRow
  <2>3. stream[s].state # "none"
    BY DEF Active
  <2> QED BY <2>1, <2>2, <2>3 DEF StreamsSound, RequestsFit
<1>5. LedgerCounted'
  BY <1>1 DEF StreamsSound, LedgerCounted, Advances, RowAdvances
<1>6. SealsStand'
  <2> SUFFICES ASSUME NEW t \in Streams, seal[t] # None
               PROVE  /\ stream'[t].state # "none" /\ seal[t].version <= stream'[t].version
                      /\ seal[t].version = stream'[t].version => seal[t].digest = Ledger(t)'
    BY DEF SealsStand
  <2>1. CASE t = s
    <3>1. stream[s].version \in Nat /\ seal[s].version \in Nat
      BY <2>1, Opened DEF Active, ExportTypeOK, Sealing
    <3>2. stream'[s].version = stream[s].version + 1 /\ stream'[s].state # "none"
          /\ seal[s].version <= stream[s].version
      BY <2>1 DEF Advances, RowAdvances, StreamsSound, SealsStand, Active
    <3> QED BY <2>1, <3>1, <3>2
  <2>2. CASE t # s
    BY <1>1, <2>2 DEF StreamsSound, SealsStand
  <2> QED BY <2>1, <2>2
<1>7. SealIsComplete'
  <2>1. stream'[s].state \notin {"closed", "contained"}
    BY DEF Advances, RowAdvances, Active
  <2> QED BY <1>1, <2>1 DEF StreamsSound, SealIsComplete
<1> QED BY <1>2, <1>3, <1>4, <1>5, <1>6, <1>7 DEF StreamsSound

LEMMA PrepareSound ==
    ASSUME ExportTypeOK, StreamsSound, NEW s \in Streams, NEW r \in Requests,
           NEW kind \in {"read", "mutation"}, NEW f \in Files, Prepare(s, r, kind, f)
    PROVE  StreamsSound'
<1>1. /\ Advances(s, "open", stream[s].last + 1, stream[s].digest)
      /\ req' \in [Requests -> {NoRequest} \cup RequestRow]
      /\ req'[r].state = "prepared" /\ req'[r].stream = s
      /\ req'[r].kind = kind /\ req'[r].target = f
      /\ \A q \in Requests \ {r} : req'[q] = req[q]
  BY PrepareAdvances
<1>2. /\ stream[s].state = "open" /\ req[r].stream = None /\ f \in FilesOf[stream[s].job]
      /\ stream[s].purpose = "probe" => kind = "read"
      /\ \A q \in RequestsOf(s) : req[q].state \in Terminal
      /\ seal' = seal
  BY DEF Prepare, MayContinue, Event, NoRequest
<1>3. RequestsOf(s)' = RequestsOf(s) \cup {r} /\ r \notin RequestsOf(s)
  BY <1>1, <1>2, NoneAssumption DEF RequestsOf
<1>4. IsFiniteSet(RequestsOf(s)) /\ stream[s].last = Cardinality(RequestsOf(s))
  BY DEF StreamsSound, LedgerCounted
<1>5. IsFiniteSet(RequestsOf(s)') /\ stream[s].last + 1 = Cardinality(RequestsOf(s)')
  BY <1>3, <1>4, FS_AddElement
<1>6. Outstanding(s)' \subseteq {r}
  BY <1>1, <1>2, <1>3 DEF Outstanding, RequestsOf
<1> QED BY <1>1, <1>2, <1>5, <1>6, EventSound DEF Active

LEMMA OutcomeSound ==
    ASSUME ExportTypeOK, StreamsSound, NEW s \in Streams, NEW r \in Requests,
           NEW outcome \in Outcomes, outcome # "prepared",
           \/ Dispatch(s, r) /\ outcome = "dispatch_intent"
           \/ Resolve(s, r, outcome)
    PROVE  StreamsSound'
<1>1. /\ Active(s) /\ req[r].stream = s
      /\ Advances(s, stream[s].state, stream[s].last, stream[s].digest)
      /\ req' \in [Requests -> {NoRequest} \cup RequestRow] /\ req'[r].stream = s
      /\ req'[r].kind = req[r].kind /\ req'[r].target = req[r].target
      /\ \A q \in Requests \ {r} : req'[q] = req[q]
  BY OutcomeAdvances
<1>2. seal' = seal /\ req[r].state \in {"prepared", "dispatch_intent"}
  BY DEF Dispatch, Resolve, Event
<1>3. RequestsOf(s)' = RequestsOf(s)
  BY <1>1 DEF RequestsOf
<1>4. IsFiniteSet(RequestsOf(s)') /\ stream[s].last = Cardinality(RequestsOf(s)')
  BY <1>3 DEF StreamsSound, LedgerCounted
<1>5. Outstanding(s)' \subseteq Outstanding(s)
  BY <1>1, <1>2, <1>3 DEF Outstanding, RequestsOf, Terminal
<1>6. \A p, q \in Outstanding(s)' : p = q
  BY <1>5 DEF StreamsSound, OneCall
<1>7. /\ req[r].target \in FilesOf[stream[s].job]
      /\ stream[s].purpose = "probe" => req[r].kind = "read"
  BY <1>1, <1>2 DEF StreamsSound, RequestsFit, NoRequest
<1> QED BY <1>1, <1>2, <1>4, <1>6, <1>7, EventSound

LEMMA ContainSound ==
    ASSUME ExportTypeOK, StreamsSound, NEW j \in Jobs, ContainTargets(j)
    PROVE  StreamsSound'
<1>1. \A s \in Streams \ StreamsOf(j) : stream'[s] = stream[s]
  BY ContainAdvances
<1>2. ASSUME NEW s \in StreamsOf(j)
      PROVE  /\ s \in Streams /\ seal[s] # None /\ seal[s].version = stream[s].version
             /\ seal[s].version \in Nat /\ stream[s].state # "none"
             /\ RowAdvances(s, "contained", stream[s].last, seal[s].digest)
  BY ContainAdvances DEF ContainTargets, Sealed, StreamsOf, Sealing
<1>3. req' = req /\ seal' = seal
  BY DEF ContainTargets
<1>4. \A t : /\ RequestsOf(t)' = RequestsOf(t) /\ Ledger(t)' = Ledger(t)
             /\ Outstanding(t)' = Outstanding(t)
  BY <1>3 DEF RequestsOf, Ledger, Outstanding
<1>5. OneActive'
  BY <1>1, <1>2 DEF RowAdvances, StreamsSound, OneActive, Active
<1>6. OneCall'
  BY <1>4 DEF StreamsSound, OneCall
<1>7. RequestsFit'
  <2>1. \A t \in Streams : /\ stream'[t].state = "none" => stream[t].state = "none"
                           /\ stream'[t].job = stream[t].job
                           /\ stream'[t].purpose = stream[t].purpose
    BY <1>1, <1>2 DEF RowAdvances
  <2>2. \A r \in Requests : req[r] # NoRequest => req[r].stream \in Streams
    BY DEF ExportTypeOK, RequestRow
  <2> QED BY <1>3, <2>1, <2>2 DEF StreamsSound, RequestsFit
<1>8. LedgerCounted'
  BY <1>1, <1>2, <1>4 DEF RowAdvances, StreamsSound, LedgerCounted
<1>9. SealsStand'
  BY <1>1, <1>2, <1>3, <1>4 DEF RowAdvances, StreamsSound, SealsStand
<1>10. SealIsComplete'
  <2>1. ASSUME NEW s \in StreamsOf(j)
        PROVE  stream'[s].digest = Ledger(s) /\ stream'[s].last = Cardinality(RequestsOf(s))
    BY <1>2, <2>1 DEF RowAdvances, StreamsSound, SealsStand, LedgerCounted
  <2> QED BY <1>1, <1>4, <2>1 DEF StreamsSound, SealIsComplete
<1> QED BY <1>5, <1>6, <1>7, <1>8, <1>9, <1>10 DEF StreamsSound

LEMMA StreamsStep ==
    ASSUME ExportTypeOK, StreamsSound, [ExportNext]_vars
    PROVE  StreamsSound'
<1>1. ASSUME NEW j \in Jobs, ReadJob(j) \/ StartAttempt(j) \/ LegacyCloseout(j)
      PROVE  StreamsSound'
  BY <1>1, StreamsUnmoved DEF ReadJob, StartAttempt, LegacyCloseout
<1>2. ASSUME NEW j \in Jobs, NEW state, Own(j, state) \/ EndJob(j, state)
      PROVE  StreamsSound'
  BY <1>2, StreamsUnmoved DEF Own, EndJob
<1>3. ASSUME NEW x \in Sessions, OpenSession(x) \/ CloseSession(x)
      PROVE  StreamsSound'
  BY <1>3, StreamsUnmoved DEF OpenSession, CloseSession
<1>4. CASE UNCHANGED vars
  BY <1>4, StreamsUnmoved DEF vars
<1>5. /\ "dispatch_intent" \in Outcomes \ {"prepared"}
      /\ \A outcome \in Terminal : outcome \in Outcomes \ {"prepared"}
  BY DEF Outcomes, Terminal
<1> QED BY <1>1, <1>2, <1>3, <1>4, <1>5, ReadStreamSound, OpenSound, SealingSound,
     PrepareSound, OutcomeSound, ContainSound DEF ExportNext, Claim, Replace

-----------------------------------------------------------------------------
(* What holds of the jobs, their resources and their streams.                  *)
OwnersSound == OwnedAreMembers /\ NeverAgain /\ CloseoutIsKnown /\ ContainedHoldsNothing

LEMMA OwnersUnmoved ==
    ASSUME OwnersSound, UNCHANGED <<job, res, stream, req, contained, closeout>>
    PROVE  OwnersSound'
  BY DEF OwnersSound, OwnedAreMembers, NeverAgain, CloseoutIsKnown, ContainedHoldsNothing,
     Contains, StreamsOf, Active

(* A job that runs was neither contained nor closed out.                       *)
LEMMA RunningIsFree ==
    ASSUME NeverAgain, NEW j \in Jobs, job[j].state \in {"ready", "running", "confirmed"}
    PROVE  Contains(j) = {} /\ j \notin closeout
  BY DEF NeverAgain

(* An owner that is replaced or set running holds its resources and is free.   *)
LEMMA OwnSound ==
    ASSUME ExportTypeOK, OwnersSound, NEW j \in Jobs, NEW state \in JobStates,
           Own(j, state), Contains(j) = {}, j \notin closeout
    PROVE  OwnersSound'
<1>1. /\ job'[j].state = state /\ \A i \in Jobs \ {j} : job'[i] = job[i]
      /\ \A k \in Members(j) : res'[k].job = j
      /\ \A k \in Resources \ Members(j) : res'[k] = res[k]
  BY OwnTyped
<1>2. UNCHANGED <<stream, req, contained, closeout>>
  BY DEF Own
<1>3. OwnedAreMembers'
  BY <1>1 DEF OwnersSound, OwnedAreMembers
<1>4. NeverAgain'
  BY <1>1, <1>2 DEF OwnersSound, NeverAgain, Contains
<1>5. CloseoutIsKnown'
  BY <1>2 DEF OwnersSound, CloseoutIsKnown
<1>6. ContainedHoldsNothing'
  BY <1>1, <1>2 DEF OwnersSound, ContainedHoldsNothing, Contains, StreamsOf, Active
<1> QED BY <1>3, <1>4, <1>5, <1>6 DEF OwnersSound

(* The holder of a resource is not closed out, nor has it contained anything.  *)
LEMMA ReplaceIsFree ==
    ASSUME ExportTypeOK, OwnersSound, NEW j \in Jobs, Replace(j)
    PROVE  Contains(j) = {} /\ j \notin closeout
<1>1. AccountOf[j] \in Members(j) /\ AccountOf[j] \in Resources
  BY MembersAreResources DEF Members
<1>2. res[AccountOf[j]].job = j
  BY <1>1 DEF Replace, HeldBy
<1> QED BY <1>1, <1>2 DEF OwnersSound, ContainedHoldsNothing

LEMMA EndJobSound ==
    ASSUME ExportTypeOK, OwnersSound, NEW j \in Jobs,
           NEW state \in {"confirmed", "failed", "uncertain"}, EndJob(j, state)
    PROVE  OwnersSound'
<1>1. /\ job'[j].state = state /\ \A i \in Jobs \ {j} : job'[i] = job[i]
  <2>1. state \in JobStates /\ job' = Moved(j, state)
    BY DEF EndJob, JobStates
  <2> QED BY <2>1, MovedTyped
<1>2. \A k \in Resources : res'[k].job \in {res[k].job, None}
  <2>1. CASE state = "uncertain"
    BY <2>1 DEF EndJob, ExportTypeOK, ResourceRow
  <2>2. CASE state # "uncertain"
    BY <2>2, FreeTyped, MembersAreResources DEF EndJob
  <2> QED BY <2>1, <2>2
<1>3. UNCHANGED <<stream, req, contained, closeout>>
  BY DEF EndJob
<1>4. Contains(j) = {} /\ j \notin closeout
  BY RunningIsFree DEF EndJob, OwnersSound
<1>5. OwnedAreMembers'
  BY <1>2, NoneAssumption DEF OwnersSound, OwnedAreMembers
<1>6. NeverAgain'
  BY <1>1, <1>3, <1>4 DEF OwnersSound, NeverAgain, Contains
<1>7. CloseoutIsKnown'
  BY <1>3 DEF OwnersSound, CloseoutIsKnown
<1>8. ContainedHoldsNothing'
  BY <1>2, <1>3, NoneAssumption DEF OwnersSound, ContainedHoldsNothing, Contains,
     StreamsOf, Active
<1> QED BY <1>5, <1>6, <1>7, <1>8 DEF OwnersSound

LEMMA OpenKeepsOwners ==
    ASSUME ExportTypeOK, StreamsSound, OwnersSound, NEW s \in Streams, NEW x \in Sessions,
           NEW j \in Jobs, NEW purpose \in Purposes, OpenStream(s, x, j, purpose)
    PROVE  OwnersSound'
<1>1. /\ stream[s] = NoStream /\ stream'[s].job = j /\ stream'[s].state = "open"
      /\ stream'[s].purpose = purpose /\ \A t \in Streams \ {s} : stream'[t] = stream[t]
  BY OpenAdds
<1>2. UNCHANGED <<job, res, req, contained, closeout>>
  BY DEF OpenStream
<1>3. purpose = "mutation" => Contains(j) = {} /\ j \notin closeout
  BY RunningIsFree DEF OpenStream, StillOwned, OwnersSound
<1>4. purpose \in {"mutation", "probe"}
  BY MembershipAssumption
<1>5. OwnedAreMembers' /\ NeverAgain'
  BY <1>2 DEF OwnersSound, OwnedAreMembers, NeverAgain, Contains
<1>6. CloseoutIsKnown'
  <2>1. \A r \in Requests : req[r].stream # s
    BY <1>1, NoneAssumption DEF StreamsSound, RequestsFit, NoStream, NoRequest
  <2> QED BY <1>1, <1>2, <2>1 DEF OwnersSound, CloseoutIsKnown
<1>7. ContainedHoldsNothing'
  BY <1>1, <1>2, <1>3, <1>4 DEF OwnersSound, ContainedHoldsNothing, Contains, StreamsOf,
     Active
<1> QED BY <1>5, <1>6, <1>7 DEF OwnersSound

(* A stream that advances without a change of owners: no request of a job that *)
(* is closed out changes, and a closed stream has the outcome of every mutation*)
LEMMA AdvanceKeepsOwners ==
    ASSUME OwnersSound, NEW s \in Streams, NEW state, NEW last, NEW digest,
           Advances(s, state, last, digest), UNCHANGED <<job, res, contained, closeout>>,
           Active(s), state \in {"open", "frozen", "closed"},
           \A r \in Requests : req'[r].stream = s /\ req'[r].kind = "mutation" =>
              /\ state = "closed" => req'[r].state \in Terminal
              /\ stream[s].job \in closeout => req'[r].state \in {"succeeded", "not_sent"},
           \A r \in Requests : req'[r].stream # s => req'[r] = req[r]
    PROVE  OwnersSound'
<1>1. OwnedAreMembers' /\ NeverAgain'
  BY DEF OwnersSound, OwnedAreMembers, NeverAgain, Contains
<1>2. CloseoutIsKnown'
  <2> SUFFICES ASSUME NEW t \in Streams, NEW r \in Requests, req'[r].stream = t,
                      req'[r].kind = "mutation"
               PROVE  /\ stream'[t].state = "closed" => req'[r].state \in Terminal
                      /\ stream'[t].job \in closeout =>
                            req'[r].state \in {"succeeded", "not_sent"}
    BY DEF CloseoutIsKnown
  <2>1. CASE t = s
    BY <2>1 DEF Advances, RowAdvances
  <2>2. CASE t # s
    <3>1. req'[r] = req[r] /\ stream'[t] = stream[t]
      BY <2>2 DEF Advances
    <3> QED BY <3>1 DEF OwnersSound, CloseoutIsKnown
  <2> QED BY <2>1, <2>2
<1>3. \A t \in Streams : /\ Active(t)' => Active(t)
                         /\ stream'[t].job = stream[t].job
                         /\ stream'[t].purpose = stream[t].purpose
  BY DEF Advances, RowAdvances, Active
<1>4. ContainedHoldsNothing'
  BY <1>3 DEF OwnersSound, ContainedHoldsNothing, Contains, StreamsOf
<1> QED BY <1>1, <1>2, <1>4 DEF OwnersSound

LEMMA SealingKeepsOwners ==
    ASSUME ExportTypeOK, StreamsSound, OwnersSound, NEW s \in Streams,
           Freeze(s) \/ CloseStream(s)
    PROVE  OwnersSound'
<1>1. PICK state, last, digest :
         /\ state \in {"frozen", "closed"}
         /\ Advances(s, state, last, digest) /\ Active(s)
         /\ state = "closed" => \A r \in RequestsOf(s) : req[r].state \in Terminal \/ Abandoned(r)
  <2>1. CASE Freeze(s)
    <3>1. Advances(s, "frozen", stream[s].last, stream[s].digest) /\ Active(s)
      BY <2>1, FreezeAdvances DEF Freeze, Active
    <3> QED BY <3>1
  <2>2. CASE CloseStream(s)
    <3>1. /\ Advances(s, "closed", stream[s].last, seal[s].digest) /\ Active(s)
          /\ \A r \in RequestsOf(s) : req[r].state \in Terminal \/ Abandoned(r)
      BY <2>2, CloseAdvances DEF CloseStream, Active
    <3> QED BY <3>1
  <2> QED BY <2>1, <2>2
<1>2. UNCHANGED <<job, res, req, contained, closeout>>
  BY DEF Freeze, CloseStream
<1>3. ASSUME NEW r \in Requests, req[r].stream = s, req[r].kind = "mutation"
      PROVE  /\ state = "closed" => req[r].state \in Terminal
             /\ stream[s].job \in closeout => req[r].state \in {"succeeded", "not_sent"}
  BY <1>1, <1>3 DEF RequestsOf, Abandoned, OwnersSound, CloseoutIsKnown
<1> QED BY <1>1, <1>2, <1>3, AdvanceKeepsOwners

LEMMA PrepareKeepsOwners ==
    ASSUME ExportTypeOK, StreamsSound, OwnersSound, NEW s \in Streams, NEW r \in Requests,
           NEW kind \in {"read", "mutation"}, NEW f \in Files, Prepare(s, r, kind, f)
    PROVE  OwnersSound'
<1>1. PICK last : Advances(s, "open", last, stream[s].digest)
  BY PrepareAdvances
<1>2. req'[r].kind = kind /\ \A q \in Requests \ {r} : req'[q] = req[q]
  BY PrepareAdvances
<1>3. UNCHANGED <<job, res, contained, closeout>> /\ Active(s) /\ req'[r].stream = s
  BY PrepareAdvances DEF Prepare, Event, Active
<1>4. kind = "mutation" => stream[s].job \notin closeout
  <2> SUFFICES ASSUME kind = "mutation"
               PROVE  stream[s].job \notin closeout
    OBVIOUS
  <2>1. stream[s].purpose = "mutation" /\ stream[s].job \in Jobs
    BY Opened, MembershipAssumption DEF Prepare, StreamRow
  <2>2. job[stream[s].job].state = "running"
    BY <2>1 DEF Prepare, Owned, StillOwned
  <2> QED BY <2>1, <2>2, RunningIsFree DEF OwnersSound
<1>5. \A q \in Requests : req[q].stream = s /\ req[q].kind = "mutation" =>
         (stream[s].job \in closeout => req[q].state \in {"succeeded", "not_sent"})
  BY DEF OwnersSound, CloseoutIsKnown
<1> QED BY <1>1, <1>2, <1>3, <1>4, <1>5, AdvanceKeepsOwners

LEMMA OutcomeKeepsOwners ==
    ASSUME ExportTypeOK, StreamsSound, OwnersSound, NEW s \in Streams, NEW r \in Requests,
           NEW outcome \in Outcomes, outcome # "prepared",
           \/ Dispatch(s, r) /\ outcome = "dispatch_intent"
           \/ Resolve(s, r, outcome)
    PROVE  OwnersSound'
<1>1. /\ Active(s) /\ req[r].stream = s /\ req'[r].stream = s
      /\ Advances(s, stream[s].state, stream[s].last, stream[s].digest)
      /\ req'[r].kind = req[r].kind /\ \A q \in Requests \ {r} : req'[q] = req[q]
  BY OutcomeAdvances
<1>2. /\ UNCHANGED <<job, res, contained, closeout>>
      /\ req[r].state \notin {"succeeded", "not_sent"}
      /\ stream[s].state \in {"open", "frozen"}
  BY DEF Dispatch, Resolve, Event, Active
<1>3. \A q \in Requests : req[q].stream = s /\ req[q].kind = "mutation" =>
         (stream[s].job \in closeout => req[q].state \in {"succeeded", "not_sent"})
  BY DEF OwnersSound, CloseoutIsKnown
<1> QED BY <1>1, <1>2, <1>3, AdvanceKeepsOwners

LEMMA ContainKeepsOwners ==
    ASSUME ExportTypeOK, OwnersSound, NEW j \in Jobs, ContainTargets(j)
    PROVE  OwnersSound'
<1>1. /\ job'[j].state = "uncertain" /\ \A i \in Jobs \ {j} : job'[i] = job[i]
  BY MovedTyped DEF ContainTargets, JobStates
<1>2. /\ \A k \in Members(j) : res'[k].job = None
      /\ \A k \in Resources \ Members(j) : res'[k] = res[k]
  BY FreeTyped, MembersAreResources DEF ContainTargets
<1>3. /\ \A s \in Streams \ StreamsOf(j) : stream'[s] = stream[s]
      /\ \A s \in StreamsOf(j) : /\ stream'[s].state = "contained" /\ stream'[s].job = j
                                 /\ stream[s].job = j
  BY ContainAdvances DEF RowAdvances, StreamsOf
<1>4. req' = req /\ closeout' = closeout /\ job[j].state # "failed"
  BY DEF ContainTargets
<1>5. j \notin closeout
  BY <1>4 DEF OwnersSound, NeverAgain
<1>6. \A i \in Jobs \ {j} : Contains(i)' # {} => Contains(i) # {}
  BY DEF ContainTargets, Contains
<1>7. OwnedAreMembers'
  BY <1>2, NoneAssumption DEF OwnersSound, OwnedAreMembers
<1>8. NeverAgain'
  BY <1>1, <1>4, <1>5, <1>6 DEF OwnersSound, NeverAgain
<1>9. CloseoutIsKnown'
  BY <1>3, <1>4, <1>5 DEF OwnersSound, CloseoutIsKnown
<1>10. ContainedHoldsNothing'
  <2>1. \A k \in Resources : res'[k].job # j
    BY <1>2, NoneAssumption DEF OwnersSound, OwnedAreMembers
  <2>2. \A s \in StreamsOf(j)' : ~Active(s)'
    BY <1>3 DEF StreamsOf, Active
  <2>3. ASSUME NEW i \in Jobs \ {j}, i \in closeout' \/ Contains(i)' # {}
        PROVE  /\ \A k \in Resources : res'[k].job # i
               /\ \A s \in StreamsOf(i)' : Active(s)' => stream'[s].purpose = "probe"
    BY <1>2, <1>3, <1>4, <1>6, <2>3, NoneAssumption
       DEF OwnersSound, ContainedHoldsNothing, StreamsOf, Active
  <2> QED BY <2>1, <2>2, <2>3 DEF ContainedHoldsNothing
<1> QED BY <1>7, <1>8, <1>9, <1>10 DEF OwnersSound

LEMMA CloseoutKeepsOwners ==
    ASSUME ExportTypeOK, OwnersSound, NEW j \in Jobs, LegacyCloseout(j)
    PROVE  OwnersSound'
<1>1. /\ job'[j].state = "failed" /\ \A i \in Jobs \ {j} : job'[i] = job[i]
  BY MovedTyped DEF LegacyCloseout, JobStates
<1> DEFINE held == {k \in Members(j) : HeldBy(k, j)}
<1>2. /\ \A k \in held : res'[k].job = None
      /\ \A k \in Resources \ held : res'[k] = res[k]
  BY FreeTyped, MembersAreResources DEF LegacyCloseout
<1>3. \A k \in Resources : res'[k].job # j
  BY <1>2, NoneAssumption DEF LegacyCloseout, OwnersSound, OwnedAreMembers
<1>4. \A k \in Resources : res'[k].job \in {res[k].job, None}
  BY <1>2
<1>5. UNCHANGED <<stream, req, contained>> /\ closeout' = closeout \cup {j}
  BY DEF LegacyCloseout
<1>6. \A s \in StreamsOf(j) : ~Active(s)
  BY DEF LegacyCloseout, AccountBusy, StreamsOf
<1>7. OwnedAreMembers'
  BY <1>4, NoneAssumption DEF OwnersSound, OwnedAreMembers
<1>8. NeverAgain'
  BY <1>1, <1>5 DEF OwnersSound, NeverAgain, Contains
<1>9. CloseoutIsKnown'
  <2>1. ASSUME NEW s \in Streams, NEW r \in Requests, req[r].stream = s, stream[s].job = j
        PROVE  req[r].state \in {"succeeded", "not_sent"}
    BY <2>1 DEF LegacyCloseout, Settled, StreamsOf, RequestsOf
  <2> QED BY <1>5, <2>1 DEF OwnersSound, CloseoutIsKnown
<1>10. ContainedHoldsNothing'
  BY <1>3, <1>4, <1>5, <1>6, NoneAssumption DEF OwnersSound, ContainedHoldsNothing,
     Contains, StreamsOf, Active
<1> QED BY <1>7, <1>8, <1>9, <1>10 DEF OwnersSound

LEMMA OwnersStep ==
    ASSUME ExportTypeOK, StreamsSound, OwnersSound, [ExportNext]_vars
    PROVE  OwnersSound'
<1>1. ASSUME NEW j \in Jobs, ReadJob(j) \/ StartAttempt(j)
      PROVE  OwnersSound'
  BY <1>1, OwnersUnmoved DEF ReadJob, StartAttempt
<1>2. ASSUME NEW s \in Streams, ReadStream(s)
      PROVE  OwnersSound'
  BY <1>2, OwnersUnmoved DEF ReadStream
<1>3. ASSUME NEW x \in Sessions, OpenSession(x) \/ CloseSession(x)
      PROVE  OwnersSound'
  BY <1>3, OwnersUnmoved DEF OpenSession, CloseSession
<1>4. CASE UNCHANGED vars
  BY <1>4, OwnersUnmoved DEF vars
<1>5. ASSUME NEW j \in Jobs, Claim(j)
      PROVE  OwnersSound'
  BY <1>5, RunningIsFree, OwnSound DEF Claim, OwnersSound, JobStates
<1>6. ASSUME NEW j \in Jobs, Replace(j)
      PROVE  OwnersSound'
  BY <1>6, ReplaceIsFree, OwnSound DEF Replace, JobStates
<1>7. /\ "dispatch_intent" \in Outcomes \ {"prepared"}
      /\ \A outcome \in Terminal : outcome \in Outcomes \ {"prepared"}
  BY DEF Outcomes, Terminal
<1> QED BY <1>1, <1>2, <1>3, <1>4, <1>5, <1>6, <1>7, EndJobSound, OpenKeepsOwners,
     SealingKeepsOwners, PrepareKeepsOwners, OutcomeKeepsOwners, ContainKeepsOwners,
     CloseoutKeepsOwners DEF ExportNext

LEMMA InvariantParts ==
    ExportInvariant <=> ExportTypeOK /\ StreamsSound /\ OwnersSound
  BY DEF ExportInvariant, StreamsSound, OwnersSound

(* Every execution preserves the whole invariant.                              *)
THEOREM ExportInvariantHolds == ExportSpec => []ExportInvariant
<1>1. ExportInit => StreamsSound
  <2> SUFFICES ASSUME ExportInit
               PROVE  StreamsSound
    OBVIOUS
  <2>1. \A s \in Streams : RequestsOf(s) = {}
    BY NoneAssumption DEF ExportInit, RequestsOf, NoRequest
  <2>2. Cardinality({}) = 0 /\ IsFiniteSet({})
    BY FS_EmptySet
  <2> QED BY <2>1, <2>2 DEF ExportInit, NoStream, StreamsSound, OneActive, OneCall,
       RequestsFit, LedgerCounted, SealsStand, SealIsComplete, Active, Outstanding
<1>2. ExportInit => OwnersSound
  BY NoneAssumption DEF ExportInit, NoStream, NoRequest, OwnersSound, OwnedAreMembers,
     NeverAgain, CloseoutIsKnown, ContainedHoldsNothing, Contains
<1>3. ExportTypeOK /\ StreamsSound /\ OwnersSound /\ [ExportNext]_vars
      => StreamsSound' /\ OwnersSound'
  BY StreamsStep, OwnersStep
<1> QED BY <1>1, <1>2, <1>3, ExportTypesHold, InvariantParts, PTL DEF ExportSpec

(* One call to the provider at a time and account: EventAppend prepares only   *)
(* what no earlier request of the stream is waiting for, and a stream is opened*)
(* only in an account that no other stream writes.                             *)
THEOREM OneOutstandingHolds == ExportSpec => []OneOutstanding
<1>1. ExportInvariant => OneOutstanding
  <2> SUFFICES ASSUME ExportInvariant, NEW a \in Accounts
               PROVE  Cardinality(UNION {Outstanding(s) : s \in
                         {t \in Streams : Active(t) /\ AccountOf[stream[t].job] = a}}) <= 1
    BY DEF OneOutstanding
  <2> DEFINE calls == UNION {Outstanding(s) : s \in
                         {t \in Streams : Active(t) /\ AccountOf[stream[t].job] = a}}
  <2>1. \A q, r \in calls : q = r
    BY DEF ExportInvariant, OneActive, OneCall
  <2> HIDE DEF calls
  <2>2. ASSUME calls = {}
        PROVE  Cardinality(calls) <= 1
    <3>1. Cardinality(calls) = 0
      BY <2>2, FS_EmptySet
    <3> QED BY <3>1
  <2>3. ASSUME NEW q \in calls
        PROVE  Cardinality(calls) <= 1
    <3>1. calls = {q}
      BY <2>1, <2>3
    <3>2. Cardinality(calls) = 1
      BY <3>1, FS_Singleton
    <3> QED BY <3>2
  <2> QED BY <2>2, <2>3 DEF calls
<1> QED BY <1>1, ExportInvariantHolds, PTL

(* The digest that a closure or a containment stores is the digest of the      *)
(* complete ledger, though the authority computed it from an earlier reading:  *)
(* the version of the stream stands for its ledger.                            *)
THEOREM SealIsCompleteHolds == ExportSpec => []SealIsComplete
<1>1. ExportInvariant => SealIsComplete
  BY DEF ExportInvariant
<1> QED BY <1>1, ExportInvariantHolds, PTL

(* No mutation of a closed stream is without an outcome, and none of a job that*)
(* LegacyCloseout has closed has an unknown one, then or later.                *)
THEOREM CloseoutIsKnownHolds == ExportSpec => []CloseoutIsKnown
<1>1. ExportInvariant => CloseoutIsKnown
  BY DEF ExportInvariant
<1> QED BY <1>1, ExportInvariantHolds, PTL

(* A job that ContainTargets or LegacyCloseout has dealt with never holds a    *)
(* resource again, and never opens a stream for mutations.                     *)
THEOREM ContainedHoldsNothingHolds == ExportSpec => []ContainedHoldsNothing
<1>1. ExportInvariant => ContainedHoldsNothing
  BY DEF ExportInvariant
<1> QED BY <1>1, ExportInvariantHolds, PTL

-----------------------------------------------------------------------------
(* Only Dispatch sends, and it looks at the owner again.                       *)
LEMMA DispatchStep ==
    ASSUME ExportInvariant, [ExportNext]_vars, NEW r \in Requests,
           req'[r].state = "dispatch_intent", req[r].state # "dispatch_intent",
           req[r].kind = "mutation"
    PROVE  LET f == req[r].target
               s == req[r].stream IN
           /\ res[f].job = stream[s].job /\ res[f].fence = stream[s].fence
           /\ contained[f] # None => contained[f] \in closeout
<1>1. ASSUME NEW s \in Streams, NEW q \in Requests, Dispatch(s, q)
      PROVE  /\ r = q /\ req[r].stream = s /\ stream[s].purpose = "mutation"
             /\ req[r].target \in FilesOf[stream[s].job] /\ stream[s].job \in Jobs
             /\ Owned(s) /\ MayUse(req[r].target, stream[s].job, stream[s].purpose)
  <2>1. "dispatch_intent" \in Outcomes /\ ExportTypeOK
    BY DEF Outcomes, ExportInvariant
  <2>2. req[q].stream = s /\ \A p \in Requests \ {q} : req'[p] = req[p]
    BY <1>1, <2>1, OutcomeAdvances
  <2>3. r = q
    BY <2>2
  <2>4. req[r].target \in FilesOf[stream[s].job] /\ stream[s].purpose # "probe"
    BY <1>1, <2>2, <2>3 DEF ExportInvariant, RequestsFit, Dispatch, NoRequest
  <2>5. stream[s].job \in Jobs /\ stream[s].purpose \in Purposes
    BY <1>1, <2>1, Opened DEF Dispatch, StreamRow
  <2> QED BY <1>1, <2>2, <2>3, <2>4, <2>5, MembershipAssumption DEF Dispatch
<1>2. ASSUME NEW s \in Streams, NEW q \in Requests, Dispatch(s, q)
      PROVE  /\ res[req[r].target].job = stream[req[r].stream].job
             /\ res[req[r].target].fence = stream[req[r].stream].fence
             /\ contained[req[r].target] # None => contained[req[r].target] \in closeout
  <2>1. req[r].target \in Members(stream[s].job)
    BY <1>1, <1>2 DEF Members
  <2> QED BY <1>1, <1>2, <2>1 DEF Owned, StillOwned, MayUse, Released
<1>3. ASSUME NEW s \in Streams, NEW q \in Requests, NEW kind \in {"read", "mutation"},
             NEW f \in Files, Prepare(s, q, kind, f)
      PROVE  FALSE
  BY <1>3, PrepareAdvances DEF ExportInvariant
<1>4. ASSUME NEW s \in Streams, NEW q \in Requests, NEW outcome \in Terminal,
             Resolve(s, q, outcome)
      PROVE  FALSE
  <2>1. outcome \in Outcomes /\ outcome \notin {"prepared", "dispatch_intent"}
    BY DEF Outcomes, Terminal
  <2> QED BY <1>4, <2>1, OutcomeAdvances DEF ExportInvariant
<1>5. ASSUME req' = req
      PROVE  FALSE
  BY <1>5
<1>6. \A s \in Streams : ReadStream(s) \/ Freeze(s) \/ CloseStream(s) => req' = req
  BY DEF ReadStream, Freeze, CloseStream
<1>7. \A j \in Jobs : \/ ReadJob(j) \/ Claim(j) \/ Replace(j) \/ StartAttempt(j)
                      \/ \E state \in {"confirmed", "failed", "uncertain"} : EndJob(j, state)
                      \/ ContainTargets(j) \/ LegacyCloseout(j)
                   => req' = req
  BY DEF ReadJob, Claim, Replace, Own, StartAttempt, EndJob, ContainTargets, LegacyCloseout
<1>8. \A x \in Sessions : OpenSession(x) \/ CloseSession(x) => req' = req
  BY DEF OpenSession, CloseSession
<1>9. \A s \in Streams, x \in Sessions, j \in Jobs, purpose \in Purposes :
         OpenStream(s, x, j, purpose) => req' = req
  BY DEF OpenStream
<1>10. UNCHANGED vars => req' = req
  BY DEF vars
<1> QED BY <1>2, <1>3, <1>4, <1>5, <1>6, <1>7, <1>8, <1>9, <1>10 DEF ExportNext

(* Whatever EventAppend sends is sent for the owner of the file, under its     *)
(* current fence, and never to an isolated file.                               *)
THEOREM DispatchIsOwnedHolds == ExportSpec => DispatchIsOwned
<1>1. ExportInvariant /\ [ExportNext]_vars =>
        [\A r \in Requests :
            req'[r].state = "dispatch_intent" /\ req[r].state # "dispatch_intent"
            /\ req[r].kind = "mutation" =>
                LET f == req[r].target
                    s == req[r].stream IN
                /\ res[f].job = stream[s].job /\ res[f].fence = stream[s].fence
                /\ contained[f] # None => contained[f] \in closeout]_vars
  BY DispatchStep
<1> QED BY <1>1, ExportInvariantHolds, PTL DEF ExportSpec, DispatchIsOwned

-----------------------------------------------------------------------------
(* The abstract specification: every step is a step of it or leaves it alone.  *)
LEMMA EvidenceStays ==
    ASSUME \A t \in Streams : /\ PhaseOf(t)' = PhaseOf(t)
                              /\ stream'[t].job = stream[t].job
                              /\ stream'[t].digest = stream[t].digest,
           req' = req, closeout' = closeout
    PROVE  UNCHANGED Evidence!ledgerVars
  BY DEF Evidence!ledgerVars, CallOf

LEMMA SameEvidence ==
    ASSUME stream' = stream, req' = req, closeout' = closeout
    PROVE  UNCHANGED Evidence!ledgerVars
  BY EvidenceStays DEF PhaseOf, Active

(* What the abstract specification sees of a ledger.                           *)
LEMMA WhatIsShown ==
    ASSUME NEW s \in Streams
    PROVE  Evidence!Calls(s) = RequestsOf(s) /\ Evidence!Shown(s) = Ledger(s)
<1>1. Evidence!Calls(s) = RequestsOf(s)
  BY DEF Evidence!Calls, RequestsOf, CallOf
<1>2. \A r \in RequestsOf(s) : CallOf(r).state = req[r].state
  BY DEF CallOf
<1> QED BY <1>1, <1>2 DEF Evidence!Shown, Ledger, RequestsOf

LEMMA ShowStep ==
    ASSUME NEW s \in Streams, Active(s), PhaseOf(s)' = "sealed",
           stream'[s].digest = Ledger(s), stream'[s].job = stream[s].job,
           \A t \in Streams \ {s} : /\ PhaseOf(t)' = PhaseOf(t)
                                    /\ stream'[t].job = stream[t].job
                                    /\ stream'[t].digest = stream[t].digest,
           req' = req, closeout' = closeout
    PROVE  Evidence!LedgerNext
<1>1. PhaseOf(s) = "active"
  BY DEF PhaseOf
<1>2. [t \in Streams |-> PhaseOf(t)]' = [[t \in Streams |-> PhaseOf(t)] EXCEPT ![s] = "sealed"]
  OBVIOUS
<1>3. [t \in Streams |-> stream[t].digest]'
      = [[t \in Streams |-> stream[t].digest] EXCEPT ![s] = Evidence!Shown(s)]
  BY WhatIsShown
<1>4. /\ [t \in Streams |-> stream[t].job]' = [t \in Streams |-> stream[t].job]
      /\ [r \in Requests |-> CallOf(r)]' = [r \in Requests |-> CallOf(r)]
  BY DEF CallOf
<1>5. Evidence!Show(s)
  BY <1>1, <1>2, <1>3, <1>4 DEF Evidence!Show
<1> QED BY <1>5 DEF Evidence!LedgerNext

LEMMA CloseShows ==
    ASSUME ExportInvariant, NEW s \in Streams, CloseStream(s)
    PROVE  Evidence!LedgerNext
<1>1. Advances(s, "closed", stream[s].last, seal[s].digest) /\ Active(s)
  BY CloseAdvances DEF ExportInvariant, CloseStream, Active
<1>2. seal[s].digest = Ledger(s) /\ req' = req /\ closeout' = closeout
  BY DEF CloseStream, ExportInvariant, SealsStand
<1> QED BY <1>1, <1>2, ShowStep DEF Advances, RowAdvances, PhaseOf, Active

(* A containment seals the active stream of the job if there is one; the closed*)
(* ones show the same as before.                                               *)
LEMMA ContainShows ==
    ASSUME ExportInvariant, NEW j \in Jobs, ContainTargets(j)
    PROVE  Evidence!LedgerNext \/ UNCHANGED Evidence!ledgerVars
<1>1. /\ \A t \in Streams \ StreamsOf(j) : stream'[t] = stream[t]
      /\ \A t \in StreamsOf(j) :
            RowAdvances(t, "contained", stream[t].last, seal[t].digest)
  BY ContainAdvances DEF ExportInvariant
<1>2. req' = req /\ closeout' = closeout
  BY DEF ContainTargets
<1>3. ASSUME NEW t \in StreamsOf(j)
      PROVE  /\ t \in Streams /\ stream[t].job = j
             /\ PhaseOf(t)' = "sealed" /\ stream'[t].job = stream[t].job
             /\ stream'[t].digest = Ledger(t)
             /\ ~Active(t) => /\ stream[t].digest = Ledger(t)
                              /\ PhaseOf(t) = "sealed"
  <2>1. /\ t \in Streams /\ stream[t].job = j /\ seal[t] # None
        /\ stream[t].state \in {"open", "frozen", "closed"}
        /\ seal[t].version = stream[t].version
    BY DEF ContainTargets, Sealed, StreamsOf
  <2>2. seal[t].digest = Ledger(t)
    BY <2>1 DEF ExportInvariant, SealsStand
  <2>3. /\ stream'[t].job = stream[t].job /\ stream'[t].state = "contained"
        /\ stream'[t].digest = Ledger(t)
    BY <1>1, <2>2 DEF RowAdvances
  <2>4. ~Active(t) => stream[t].digest = Ledger(t) /\ stream[t].state = "closed"
    BY <2>1 DEF ExportInvariant, SealIsComplete, Active
  <2> QED BY <2>1, <2>3, <2>4 DEF PhaseOf, Active
<1>4. ASSUME NEW t \in Streams \ StreamsOf(j)
      PROVE  /\ PhaseOf(t)' = PhaseOf(t) /\ stream'[t].job = stream[t].job
             /\ stream'[t].digest = stream[t].digest
  BY <1>1 DEF PhaseOf, Active
<1>5. CASE \E s \in StreamsOf(j) : Active(s)
  <2>1. PICK s \in StreamsOf(j) : Active(s)
    BY <1>5
  <2>2. ASSUME NEW t \in StreamsOf(j), t # s
        PROVE  ~Active(t)
    BY <1>3, <2>1, <2>2 DEF ExportInvariant, OneActive
  <2>3. \A t \in Streams \ {s} : /\ PhaseOf(t)' = PhaseOf(t)
                                 /\ stream'[t].job = stream[t].job
                                 /\ stream'[t].digest = stream[t].digest
    BY <1>3, <1>4, <2>2
  <2> QED BY <1>2, <1>3, <2>1, <2>3, ShowStep
<1>6. CASE \A s \in StreamsOf(j) : ~Active(s)
  <2>1. \A t \in Streams : /\ PhaseOf(t)' = PhaseOf(t)
                           /\ stream'[t].job = stream[t].job
                           /\ stream'[t].digest = stream[t].digest
    BY <1>3, <1>4, <1>6
  <2> QED BY <1>2, <2>1, EvidenceStays
<1> QED BY <1>5, <1>6

LEMMA OpenBegins ==
    ASSUME ExportInvariant, NEW s \in Streams, NEW x \in Sessions, NEW j \in Jobs,
           NEW purpose \in Purposes, OpenStream(s, x, j, purpose)
    PROVE  Evidence!LedgerNext
<1>1. /\ \A t \in Streams \ {s} : stream'[t] = stream[t]
      /\ stream[s] = NoStream /\ stream'[s].job = j /\ stream'[s].state = "open"
  BY OpenAdds DEF ExportInvariant
<1>2. stream'[s].digest = None
  BY DEF OpenStream, ExportInvariant, ExportTypeOK
<1>3. stream[s].state = "none" /\ stream[s].digest = None
  BY <1>1 DEF NoStream
<1>4. PhaseOf(s) = "new" /\ PhaseOf(s)' = "active"
  BY <1>1, <1>3 DEF PhaseOf, Active
<1>5. \A t \in Streams \ {s} : PhaseOf(t)' = PhaseOf(t)
  BY <1>1 DEF PhaseOf, Active
<1>6. /\ [t \in Streams |-> PhaseOf(t)]'
         = [[t \in Streams |-> PhaseOf(t)] EXCEPT ![s] = "active"]
      /\ [t \in Streams |-> stream[t].job]'
         = [[t \in Streams |-> stream[t].job] EXCEPT ![s] = j]
      /\ [t \in Streams |-> stream[t].digest]' = [t \in Streams |-> stream[t].digest]
  BY <1>1, <1>2, <1>3, <1>4, <1>5
<1>7. /\ [r \in Requests |-> CallOf(r)]' = [r \in Requests |-> CallOf(r)]
      /\ closeout' = closeout
  BY DEF OpenStream, CallOf
<1>8. \A t \in Streams : PhaseOf(t) = "active" => AccountOf[stream[t].job] # AccountOf[j]
  BY DEF OpenStream, AccountBusy, PhaseOf
<1>9. Evidence!Begin(s, j)
  BY <1>4, <1>6, <1>7, <1>8 DEF Evidence!Begin
<1> QED BY <1>9 DEF Evidence!LedgerNext

(* An event leaves what is seen of the streams.                                *)
LEMMA EventSeen ==
    ASSUME ExportTypeOK, NEW s \in Streams, Active(s), NEW last,
           Advances(s, stream[s].state, last, stream[s].digest)
    PROVE  /\ PhaseOf(s) = "active"
           /\ [t \in Streams |-> PhaseOf(t)]' = [t \in Streams |-> PhaseOf(t)]
           /\ [t \in Streams |-> stream[t].job]' = [t \in Streams |-> stream[t].job]
           /\ [t \in Streams |-> stream[t].digest]' = [t \in Streams |-> stream[t].digest]
<1>1. \A t \in Streams : /\ PhaseOf(t)' = PhaseOf(t)
                         /\ stream'[t].job = stream[t].job
                         /\ stream'[t].digest = stream[t].digest
  BY DEF Advances, RowAdvances, PhaseOf, Active
<1> QED BY <1>1 DEF PhaseOf

LEMMA PrepareWrites ==
    ASSUME ExportInvariant, NEW s \in Streams, NEW r \in Requests,
           NEW kind \in {"read", "mutation"}, NEW f \in Files, Prepare(s, r, kind, f)
    PROVE  Evidence!LedgerNext
<1>1. /\ Advances(s, "open", stream[s].last + 1, stream[s].digest)
      /\ req'[r].state = "prepared" /\ req'[r].stream = s /\ req'[r].kind = kind
      /\ \A q \in Requests \ {r} : req'[q] = req[q]
  BY PrepareAdvances DEF ExportInvariant
<1>2. stream[s].state = "open" /\ Active(s) /\ closeout' = closeout
  BY DEF Prepare, Event, Active
<1>3. /\ PhaseOf(s) = "active"
      /\ [t \in Streams |-> PhaseOf(t)]' = [t \in Streams |-> PhaseOf(t)]
      /\ [t \in Streams |-> stream[t].job]' = [t \in Streams |-> stream[t].job]
      /\ [t \in Streams |-> stream[t].digest]' = [t \in Streams |-> stream[t].digest]
  BY <1>1, <1>2, EventSeen DEF ExportInvariant
<1>4. CallOf(r) = Evidence!NoCall
  BY DEF Prepare, NoRequest, CallOf, Evidence!NoCall
<1>5. CallOf(r)' = [of |-> s, kind |-> kind, state |-> "prepared"]
      /\ \A q \in Requests \ {r} : CallOf(q)' = CallOf(q)
  BY <1>1 DEF CallOf
<1>6. [q \in Requests |-> CallOf(q)]' = [[q \in Requests |-> CallOf(q)] EXCEPT
         ![r] = [of |-> s, kind |-> kind, state |-> "prepared"]]
  BY <1>5
<1>7. \A q \in Evidence!Calls(s) :
         /\ CallOf(q).state \in Evidence!Decided
         /\ CallOf(q).state = "unknown" => CallOf(q).kind = "read"
  <2>1. \A q \in RequestsOf(s) :
           /\ req[q].state \in Terminal
           /\ ~(req[q].kind = "mutation" /\ req[q].state = "unknown")
           /\ req[q].kind \in {"read", "mutation"}
    <3>1. \A q \in RequestsOf(s) : req[q] \in RequestRow
      BY NoneAssumption DEF ExportInvariant, ExportTypeOK, RequestsOf, NoRequest
    <3> QED BY <3>1 DEF Prepare, MayContinue, RequestRow
  <2> QED BY <2>1, WhatIsShown DEF CallOf, Evidence!Decided, Terminal
<1>8. kind = "mutation" => stream[s].job \notin closeout
  <2> SUFFICES ASSUME kind = "mutation"
               PROVE  stream[s].job \notin closeout
    OBVIOUS
  <2>1. stream[s].purpose = "mutation" /\ stream[s].job \in Jobs
    BY <1>2, Opened, MembershipAssumption DEF ExportInvariant, Prepare, StreamRow
  <2>2. job[stream[s].job].state = "running"
    BY <2>1 DEF Prepare, Owned, StillOwned
  <2> QED BY <2>1, <2>2 DEF ExportInvariant, NeverAgain
<1>9. Evidence!Write(s, r, kind)
  BY <1>2, <1>3, <1>4, <1>6, <1>7, <1>8 DEF Evidence!Write, Evidence!Calls
<1> QED BY <1>9 DEF Evidence!LedgerNext

(* The later events of a request change its state and nothing else.            *)
LEMMA OutcomeSeen ==
    ASSUME ExportInvariant, NEW s \in Streams, NEW r \in Requests,
           NEW outcome \in Outcomes, outcome # "prepared",
           \/ Dispatch(s, r) /\ outcome = "dispatch_intent"
           \/ Resolve(s, r, outcome)
    PROVE  /\ PhaseOf(s) = "active" /\ req[r].stream = s /\ closeout' = closeout
           /\ [t \in Streams |-> PhaseOf(t)]' = [t \in Streams |-> PhaseOf(t)]
           /\ [t \in Streams |-> stream[t].job]' = [t \in Streams |-> stream[t].job]
           /\ [t \in Streams |-> stream[t].digest]' = [t \in Streams |-> stream[t].digest]
           /\ [q \in Requests |-> CallOf(q)]'
              = [[q \in Requests |-> CallOf(q)] EXCEPT ![r].state = outcome]
<1>1. /\ Active(s) /\ req[r].stream = s
      /\ Advances(s, stream[s].state, stream[s].last, stream[s].digest)
      /\ req'[r].state = outcome /\ req'[r].stream = s /\ req'[r].kind = req[r].kind
      /\ \A q \in Requests \ {r} : req'[q] = req[q]
  BY OutcomeAdvances DEF ExportInvariant
<1>2. CallOf(r)' = [CallOf(r) EXCEPT !.state = outcome]
      /\ \A q \in Requests \ {r} : CallOf(q)' = CallOf(q)
  BY <1>1 DEF CallOf
<1>3. [q \in Requests |-> CallOf(q)]'
      = [[q \in Requests |-> CallOf(q)] EXCEPT ![r].state = outcome]
  BY <1>2
<1>4. closeout' = closeout
  BY DEF Dispatch, Resolve, Event
<1> QED BY <1>1, <1>3, <1>4, EventSeen DEF ExportInvariant

LEMMA DispatchSends ==
    ASSUME ExportInvariant, NEW s \in Streams, NEW r \in Requests, Dispatch(s, r)
    PROVE  Evidence!LedgerNext
<1>1. "dispatch_intent" \in Outcomes
  BY DEF Outcomes
<1>2. /\ PhaseOf(s) = "active" /\ closeout' = closeout
      /\ [t \in Streams |-> PhaseOf(t)]' = [t \in Streams |-> PhaseOf(t)]
      /\ [t \in Streams |-> stream[t].job]' = [t \in Streams |-> stream[t].job]
      /\ [t \in Streams |-> stream[t].digest]' = [t \in Streams |-> stream[t].digest]
      /\ [q \in Requests |-> CallOf(q)]'
         = [[q \in Requests |-> CallOf(q)] EXCEPT ![r].state = "dispatch_intent"]
  BY <1>1, OutcomeSeen
<1>3. /\ CallOf(r).of = s /\ CallOf(r).state = "prepared"
      /\ CallOf(r).kind = req[r].kind
  BY DEF Dispatch, CallOf
<1>4. req[r].kind = "mutation" => stream[s].job \notin closeout
  <2> SUFFICES ASSUME req[r].kind = "mutation"
               PROVE  stream[s].job \notin closeout
    OBVIOUS
  <2>1. stream[s].state = "open" /\ req[r].stream = s /\ req[r] # NoRequest
    BY DEF Dispatch, NoRequest
  <2>2. stream[s].purpose = "mutation" /\ stream[s].job \in Jobs
    BY <2>1, Opened, MembershipAssumption
       DEF ExportInvariant, RequestsFit, StreamRow
  <2>3. job[stream[s].job].state = "running"
    BY <2>2 DEF Dispatch, Owned, StillOwned
  <2> QED BY <2>2, <2>3 DEF ExportInvariant, NeverAgain
<1>5. Evidence!Send(s, r)
  BY <1>2, <1>3, <1>4 DEF Evidence!Send
<1> QED BY <1>5 DEF Evidence!LedgerNext

LEMMA ResolveDecides ==
    ASSUME ExportInvariant, NEW s \in Streams, NEW r \in Requests,
           NEW outcome \in Terminal, Resolve(s, r, outcome)
    PROVE  Evidence!LedgerNext
<1>1. outcome \in Outcomes /\ outcome # "prepared" /\ outcome \in Evidence!Decided
  BY DEF Outcomes, Terminal, Evidence!Decided
<1>2. /\ PhaseOf(s) = "active" /\ closeout' = closeout
      /\ [t \in Streams |-> PhaseOf(t)]' = [t \in Streams |-> PhaseOf(t)]
      /\ [t \in Streams |-> stream[t].job]' = [t \in Streams |-> stream[t].job]
      /\ [t \in Streams |-> stream[t].digest]' = [t \in Streams |-> stream[t].digest]
      /\ [q \in Requests |-> CallOf(q)]'
         = [[q \in Requests |-> CallOf(q)] EXCEPT ![r].state = outcome]
  BY <1>1, OutcomeSeen
<1>3. /\ CallOf(r).of = s
      /\ CallOf(r).state = IF outcome = "not_sent" THEN "prepared" ELSE "dispatch_intent"
  BY DEF Resolve, CallOf
<1>4. Evidence!Decide(s, r, outcome)
  BY <1>2, <1>3 DEF Evidence!Decide
<1> QED BY <1>1, <1>4 DEF Evidence!LedgerNext

LEMMA CloseoutConcludes ==
    ASSUME ExportInvariant, NEW j \in Jobs, LegacyCloseout(j)
    PROVE  Evidence!LedgerNext
<1>1. /\ j \notin closeout /\ closeout' = closeout \cup {j}
      /\ stream' = stream /\ req' = req
      /\ \E s \in Streams : stream[s].job = j
  BY DEF LegacyCloseout, StreamsOf
<1>2. /\ [t \in Streams |-> PhaseOf(t)]' = [t \in Streams |-> PhaseOf(t)]
      /\ [t \in Streams |-> stream[t].job]' = [t \in Streams |-> stream[t].job]
      /\ [t \in Streams |-> stream[t].digest]' = [t \in Streams |-> stream[t].digest]
      /\ [q \in Requests |-> CallOf(q)]' = [q \in Requests |-> CallOf(q)]
  BY <1>1 DEF PhaseOf, Active, CallOf
<1>3. ASSUME NEW s \in Streams, stream[s].job = j
      PROVE  /\ PhaseOf(s) = "sealed"
             /\ \A r \in Evidence!Calls(s) : CallOf(r).state \in {"succeeded", "not_sent"}
  <2>1. ~Active(s) /\ Settled(s)
    BY <1>3 DEF LegacyCloseout, AccountBusy, StreamsOf
  <2>2. stream[s] # NoStream
    BY <1>3, NoneAssumption DEF NoStream
  <2>3. stream[s].state # "none"
    BY <2>2 DEF ExportInvariant, ExportTypeOK, StreamRow
  <2>4. \A r \in Evidence!Calls(s) : req[r].state \in {"succeeded", "not_sent"}
    BY <2>1, WhatIsShown DEF Settled
  <2> QED BY <2>1, <2>3, <2>4 DEF PhaseOf, CallOf
<1>4. Evidence!Conclude(j)
  BY <1>1, <1>2, <1>3 DEF Evidence!Conclude, Evidence!Calls
<1> QED BY <1>4 DEF Evidence!LedgerNext

LEMMA EvidenceStep ==
    ASSUME ExportInvariant, [ExportNext]_vars
    PROVE  [Evidence!LedgerNext]_(Evidence!ledgerVars)
<1>1. ASSUME NEW j \in Jobs,
             \/ ReadJob(j) \/ Claim(j) \/ Replace(j) \/ StartAttempt(j)
             \/ \E state \in {"confirmed", "failed", "uncertain"} : EndJob(j, state)
      PROVE  UNCHANGED Evidence!ledgerVars
  BY <1>1, SameEvidence DEF ReadJob, Claim, Replace, Own, StartAttempt, EndJob
<1>2. ASSUME NEW x \in Sessions, OpenSession(x) \/ CloseSession(x)
      PROVE  UNCHANGED Evidence!ledgerVars
  BY <1>2, SameEvidence DEF OpenSession, CloseSession
<1>3. ASSUME NEW s \in Streams, ReadStream(s)
      PROVE  UNCHANGED Evidence!ledgerVars
  BY <1>3, SameEvidence DEF ReadStream
<1>4. ASSUME NEW s \in Streams, Freeze(s)
      PROVE  UNCHANGED Evidence!ledgerVars
  <2>1. Advances(s, "frozen", stream[s].last, stream[s].digest) /\ stream[s].state = "open"
    BY <1>4, FreezeAdvances DEF ExportInvariant, Freeze
  <2>2. \A t \in Streams : /\ PhaseOf(t)' = PhaseOf(t)
                           /\ stream'[t].job = stream[t].job
                           /\ stream'[t].digest = stream[t].digest
    BY <2>1 DEF Advances, RowAdvances, PhaseOf, Active
  <2>3. req' = req /\ closeout' = closeout
    BY <1>4 DEF Freeze
  <2> QED BY <2>2, <2>3, EvidenceStays
<1>5. ASSUME UNCHANGED vars
      PROVE  UNCHANGED Evidence!ledgerVars
  BY <1>5, SameEvidence DEF vars
<1> QED BY <1>1, <1>2, <1>3, <1>4, <1>5, CloseShows, ContainShows, OpenBegins, PrepareWrites,
           DispatchSends, ResolveDecides, CloseoutConcludes DEF ExportNext

LEMMA InitEvidence == ExportInit => Evidence!LedgerInit
<1> SUFFICES ASSUME ExportInit PROVE Evidence!LedgerInit
  OBVIOUS
<1>1. \A s \in Streams : stream[s] = NoStream
  BY DEF ExportInit
<1>2. \A s \in Streams : /\ PhaseOf(s) = "new" /\ stream[s].job = None
                         /\ stream[s].digest = None
  BY <1>1 DEF NoStream, PhaseOf, Active
<1>3. \A r \in Requests : CallOf(r) = Evidence!NoCall
  BY DEF ExportInit, NoRequest, CallOf, Evidence!NoCall
<1> QED BY <1>2, <1>3 DEF ExportInit, Evidence!LedgerInit

(* The two procedures of streams and events, the containment and the closeout  *)
(* together keep the promise of ExportLedger: what is sealed shows every call  *)
(* with its last outcome, nothing follows an unknown change in its stream, and *)
(* a concluded job changes nothing.                                            *)
THEOREM ImplementsEvidenceHolds == ExportSpec => ImplementsEvidence
<1>1. ExportInvariant /\ [ExportNext]_vars => [Evidence!LedgerNext]_(Evidence!ledgerVars)
  BY EvidenceStep
<1> QED BY <1>1, InitEvidence, ExportInvariantHolds, PTL
        DEF ExportSpec, ImplementsEvidence, Evidence!Spec
=============================================================================
