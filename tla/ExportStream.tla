----------------------------- MODULE ExportStream -----------------------------
(* The execution evidence of exports: an authority opens streams for jobs it   *)
(* owns, writes every provider request and its outcome into them, and seals    *)
(* them; a job that cannot be finished is contained (its files are isolated)   *)
(* or closed out (they may be used again). One transition of a procedure is    *)
(* one action: each runs under the exclusive application locks of its account  *)
(* and resources. Owners are jobs of the legacy kinds, which have no pool and  *)
(* no epoch. The bot that claims jobs is outside the repository, and so is the *)
(* authority's reading before it calls: both may happen at any time.           *)
EXTENDS FiniteSets, Naturals

CONSTANTS
    Jobs, Streams, Requests, Sessions, Accounts, Files,
    AccountOf,    \* [Jobs -> Accounts]
    FilesOf,      \* [Jobs -> SUBSET Files], the declared destinations
    Purposes,     \* of the streams that are opened
    MaxFence,     \* bound on the claims of one resource
    None

ASSUME MembershipAssumption ==
    /\ AccountOf \in [Jobs -> Accounts]
    /\ FilesOf \in [Jobs -> SUBSET Files]
    /\ \A j \in Jobs : FilesOf[j] # {}
    /\ Purposes \subseteq {"mutation", "probe"}
ASSUME NoneAssumption == None \notin Jobs /\ None \notin Streams
ASSUME FenceAssumption == MaxFence \in Nat /\ Accounts \cap Files = {}

VARIABLES
    job,        \* dbo.ExportJob: state, owner and fence as one number, version
    res,        \* dbo.ExportResource: accounts and destinations
    attempts,   \* dbo.ExportAttempt: <<job, fence>> with a durable attempt
    session,    \* dbo.ExportExecutionSession
    stream,     \* dbo.ExportExecutionStream
    req,        \* dbo.ExportProviderRequest with its last event
    contained,  \* dbo.ExportContainedTarget: the job whose containment holds a file
    closeout,   \* dbo.ExportLegacyCloseout: the jobs
    seen,       \* what the authority last read of a job and its resources
    seal        \* what it last read of a stream and its events

vars == <<job, res, attempts, session, stream, req, contained, closeout, seen, seal>>

Resources == Accounts \cup Files
Members(j) == {AccountOf[j]} \cup FilesOf[j]
Terminal == {"succeeded", "not_sent", "unknown"}
NoStream == [state |-> "none", session |-> None, job |-> None, fence |-> 0,
             claim |-> 0, scope |-> <<>>, purpose |-> "none", version |-> 0,
             last |-> 0, digest |-> None]
NoRequest == [state |-> "none", stream |-> None, seq |-> 0, kind |-> "none",
              target |-> None]

ExportInit ==
    /\ job = [j \in Jobs |-> [state |-> "ready", fence |-> 0, version |-> 1]]
    /\ res = [k \in Resources |->
                [job |-> None, fence |-> 0, version |-> 1, blocked |-> FALSE]]
    /\ attempts = {}
    /\ session = [x \in Sessions |-> "none"]
    /\ stream = [s \in Streams |-> NoStream]
    /\ req = [r \in Requests |-> NoRequest]
    /\ contained = [f \in Files |-> None]
    /\ closeout = {}
    /\ seen = [j \in Jobs |-> None]
    /\ seal = [s \in Streams |-> None]

-----------------------------------------------------------------------------
Active(s) == stream[s].state \in {"open", "frozen"}
\* Mutant: a frozen stream no longer occupies its account.
AccountWritten(a) == \E s \in Streams :
    stream[s].state = "open" /\ AccountOf[stream[s].job] = a
AccountBusy(a) == \E s \in Streams : Active(s) /\ AccountOf[stream[s].job] = a
StreamsOf(j) == {s \in Streams : stream[s].job = j}
RequestsOf(s) == {r \in Requests : req[r].stream = s}
\* EventDigest: a digest of the complete ledger of the stream.
Ledger(s) == {<<r, req[r].state>> : r \in RequestsOf(s)}
HeldBy(k, j) == res[k].job = j /\ res[k].fence = job[j].fence

\* A file that was contained is isolated for everybody until the containing job
\* is closed out, and then open to ordinary mutations of the same account only.
Released(f, a) == contained[f] \in closeout /\ AccountOf[contained[f]] = a
MayUse(f, j, purpose) ==
    contained[f] # None => Released(f, AccountOf[j]) /\ purpose = "mutation"

\* The job and its resources are still those the stream was opened for.
StillOwned(j, fence, claim, scope, purpose) ==
    /\ \A k \in Members(j) :
          /\ res[k].version = scope[k]
          /\ purpose = "mutation" => ~res[k].blocked
          /\ \/ purpose = "probe" /\ res[k].job = None
             \/ res[k].job = j /\ res[k].fence = fence
    /\ job[j].fence = fence /\ job[j].version = claim
    /\ job[j].state \in IF purpose = "mutation" THEN {"running"}
                        ELSE {"running", "uncertain", "confirmed", "failed"}

\* Mutant: the versions advance and the owner stays.
FreeVersionOnly(ks) == [k \in Resources |->
    IF k \in ks THEN [res[k] EXCEPT !.version = @ + 1] ELSE res[k]]

Free(ks) == [k \in Resources |->
    IF k \in ks THEN [job |-> None, fence |-> res[k].fence,
                      version |-> res[k].version + 1, blocked |-> FALSE]
                ELSE res[k]]

\* Mutant: a transition that keeps the owner advances the fence.
MovedFence(j, state) == [job EXCEPT ![j] =
    [state |-> state, fence |-> @.fence + 1, version |-> @.version + 1]]

Moved(j, state) == [job EXCEPT ![j] =
    [state |-> state, fence |-> @.fence, version |-> @.version + 1]]

-----------------------------------------------------------------------------
\* The authority reads a claimed job with its resources, or a stream with its
\* ledger, and binds later calls to what it has read.
ReadJob(j) ==
    /\ job[j].fence > 0
    /\ seen' = [seen EXCEPT ![j] = [fence |-> job[j].fence,
          version |-> job[j].version,
          scope |-> [k \in Members(j) |-> res[k].version]]]
    /\ UNCHANGED <<job, res, attempts, session, stream, req, contained, closeout, seal>>

ReadStream(s) ==
    /\ stream[s].state \in {"open", "frozen", "closed"}
    /\ seal' = [seal EXCEPT ![s] = [version |-> stream[s].version,
          last |-> stream[s].last, digest |-> Ledger(s)]]
    /\ UNCHANGED <<job, res, attempts, session, stream, req, contained, closeout, seen>>

OpenSession(x) ==
    /\ session[x] = "none"
    /\ session' = [session EXCEPT ![x] = "open"]
    /\ UNCHANGED <<job, res, attempts, stream, req, contained, closeout, seen, seal>>

CloseSession(x) ==
    /\ session[x] = "open"
    /\ \A s \in Streams : stream[s].session = x => ~Active(s)
    /\ session' = [session EXCEPT ![x] = "closed"]
    /\ UNCHANGED <<job, res, attempts, stream, req, contained, closeout, seen, seal>>

OpenStream(s, x, j, purpose) ==
    LET c == seen[j] IN
    /\ c # None
    /\ c.fence > 0
    /\ \A f \in FilesOf[j] : MayUse(f, j, purpose)
    /\ StillOwned(j, c.fence, c.version, c.scope, purpose)
    /\ session[x] = "open"
    /\ stream[s] = NoStream /\ ~AccountBusy(AccountOf[j])
    /\ stream' = [stream EXCEPT ![s] =
          [state |-> "open", session |-> x, job |-> j, fence |-> c.fence,
           claim |-> c.version, scope |-> c.scope, purpose |-> purpose,
           version |-> 1, last |-> 0, digest |-> None]]
    /\ UNCHANGED <<job, res, attempts, session, req, contained, closeout, seen, seal>>

Freeze(s) ==
    /\ stream[s].state = "open" /\ session[stream[s].session] = "open"
    /\ stream' = [stream EXCEPT ![s].state = "frozen", ![s].version = @ + 1]
    /\ UNCHANGED <<job, res, attempts, session, req, contained, closeout, seen, seal>>

\* The abandoned reads of a probe do not prevent its closure.
Abandoned(r) ==
    req[r].kind = "read" /\ stream[req[r].stream].purpose = "probe"

CloseStream(s) ==
    /\ stream[s].state = "frozen" /\ session[stream[s].session] = "open"
    /\ seal[s] # None
    /\ seal[s].version = stream[s].version /\ seal[s].last = stream[s].last
    /\ \A r \in RequestsOf(s) : req[r].state \in Terminal \/ Abandoned(r)
    /\ stream' = [stream EXCEPT ![s].state = "closed", ![s].version = @ + 1,
                                ![s].digest = seal[s].digest]
    /\ UNCHANGED <<job, res, attempts, session, req, contained, closeout, seen, seal>>

-----------------------------------------------------------------------------
\* Mutant: the job still owns its resources, under whatever fence.
OwnedByJob(s) == LET c == stream[s] IN
    /\ \A k \in Members(c.job) : HeldBy(k, c.job)
    /\ job[c.job].state = "running"

Owned(s) == LET c == stream[s] IN
    StillOwned(c.job, c.fence, c.claim, c.scope, c.purpose)

\* dbo.usp_ExportProviderRequestEventAppend: every event advances the version of
\* its stream. A call that carries an older version is refused and changes
\* nothing: what remains is a call that carries the current one.
Event(s, r, to, last) ==
    /\ session[stream[s].session] = "open"
    /\ req' = [req EXCEPT ![r] = to]
    /\ stream' = [stream EXCEPT ![s].version = @ + 1, ![s].last = last]
    /\ UNCHANGED <<job, res, attempts, session, contained, closeout, seen, seal>>

\* Mutant: a mutation with an unknown outcome does not stop its stream.
EverythingDecided(s) == \A q \in RequestsOf(s) : req[q].state \in Terminal
MayContinue(s) == \A q \in RequestsOf(s) :
    /\ req[q].state \in Terminal
    /\ ~(req[q].kind = "mutation" /\ req[q].state = "unknown")

Prepare(s, r, kind, f) ==
    LET c == stream[s] IN
    /\ c.state = "open"
    /\ Owned(s) /\ f \in FilesOf[c.job] /\ MayUse(f, c.job, c.purpose)
    /\ c.purpose = "probe" => kind = "read"
    /\ MayContinue(s)
    /\ req[r] = NoRequest
    /\ Event(s, r, [state |-> "prepared", stream |-> s, seq |-> c.last + 1,
                    kind |-> kind, target |-> f], c.last + 1)

Dispatch(s, r) ==
    LET c == stream[s] IN
    /\ c.state = "open" /\ req[r].stream = s /\ req[r].state = "prepared"
    /\ Owned(s) /\ MayUse(req[r].target, c.job, c.purpose)
    /\ req[r].kind = "mutation" => <<c.job, c.fence>> \in attempts
    /\ Event(s, r, [req[r] EXCEPT !.state = "dispatch_intent"], c.last)

\* Outcomes are taken also after the owner was replaced.
Resolve(s, r, outcome) ==
    /\ Active(s) /\ req[r].stream = s
    /\ \/ req[r].state = "prepared" /\ outcome = "not_sent"
       \/ req[r].state = "dispatch_intent" /\ outcome \in {"succeeded", "unknown"}
    /\ Event(s, r, [req[r] EXCEPT !.state = outcome], stream[s].last)

-----------------------------------------------------------------------------
\* Mutant: the streams are sealed as of any earlier reading.
SealedBefore(j) == \A s \in StreamsOf(j) :
    /\ stream[s].state \in {"open", "frozen", "closed"}
    /\ seal[s] # None
    /\ stream[s].fence = job[j].fence /\ stream[s].claim <= job[j].version

\* What ContainTargets requires of the streams of the job: all of them, at the
\* versions whose ledgers the authority has sealed, all of the current owner.
Sealed(j) == \A s \in StreamsOf(j) :
    /\ stream[s].state \in {"open", "frozen", "closed"}
    /\ seal[s] # None
    /\ seal[s].version = stream[s].version /\ seal[s].last = stream[s].last
    /\ stream[s].fence = job[j].fence /\ stream[s].claim <= job[j].version

ContainTargets(j) ==
    /\ seen[j] # None /\ seen[j].version = job[j].version
    /\ job[j].state \in {"running", "uncertain"}
    /\ \A k \in Members(j) : HeldBy(k, j) /\ res[k].version = seen[j].scope[k]
    /\ \A f \in Files : contained[f] # j
    /\ \A f \in FilesOf[j] : contained[f] = None
    /\ StreamsOf(j) # {} /\ Sealed(j)
    /\ \A s \in Streams : Active(s) /\ AccountOf[stream[s].job] = AccountOf[j]
                          => stream[s].job = j
    /\ contained' = [f \in Files |-> IF f \in FilesOf[j] THEN j ELSE contained[f]]
    /\ stream' = [s \in Streams |-> IF s \in StreamsOf(j)
          THEN [stream[s] EXCEPT !.state = "contained", !.version = @ + 1,
                                 !.digest = seal[s].digest]
          ELSE stream[s]]
    /\ job' = Moved(j, "uncertain")
    /\ res' = Free(Members(j))
    /\ UNCHANGED <<attempts, session, req, closeout, seen, seal>>

Contains(j) == {f \in Files : contained[f] = j}

\* Mutant: an unknown outcome counts as an outcome.
SettledUnknown(s) ==
    /\ stream[s].last = Cardinality(RequestsOf(s))
    /\ \A r \in RequestsOf(s) : req[r].state \in Terminal

\* What a closeout requires of the requests of a stream.
Settled(s) ==
    /\ stream[s].last = Cardinality(RequestsOf(s))
    /\ \A r \in RequestsOf(s) : req[r].state \in {"not_sent", "succeeded"}

\* dbo.usp_ExportLegacyCloseout: every execution is sealed, no outcome is open.
LegacyCloseout(j) ==
    /\ seen[j] # None /\ seen[j].version = job[j].version
    /\ job[j].state \in {"uncertain", "failed"} /\ j \notin closeout
    /\ \A k \in Members(j) : res[k].job = None \/ HeldBy(k, j)
    /\ Contains(j) # {} => Contains(j) = FilesOf[j]
    /\ \A f \in FilesOf[j] : contained[f] \notin {None, j}
                             => Released(f, AccountOf[j])
    /\ StreamsOf(j) # {} /\ ~AccountBusy(AccountOf[j])
    /\ \A s \in StreamsOf(j) :
          /\ stream[s].fence = job[j].fence
          /\ stream[s].state = "contained" => Contains(j) # {}
          /\ Settled(s)
    /\ closeout' = closeout \cup {j}
    /\ job' = Moved(j, "failed")
    /\ res' = Free({k \in Members(j) : HeldBy(k, j)})
    /\ UNCHANGED <<attempts, session, stream, req, contained, seen, seal>>

-----------------------------------------------------------------------------
\* The bot: it claims the resources of a job with a higher fence, replaces the
\* owner of a job after a restart, and ends a job.
Own(j, state) ==
  LET above == {res[k].fence + 1 : k \in Members(j)} \cup {job[j].fence + 1} IN
  \E fence \in above :
    /\ \A n \in above : n <= fence
    /\ fence <= MaxFence
    /\ job' = [job EXCEPT ![j] = [state |-> state, fence |-> fence,
                                  version |-> @.version + 1]]
    /\ res' = [k \in Resources |-> IF k \in Members(j)
          THEN [res[k] EXCEPT !.job = j, !.fence = fence, !.version = @ + 1]
          ELSE res[k]]
    /\ UNCHANGED <<attempts, session, stream, req, contained, closeout, seen, seal>>

Claim(j) ==
    /\ job[j].state = "ready"
    /\ \A k \in Members(j) : res[k].job = None /\ ~res[k].blocked
    /\ Own(j, "running")

Replace(j) ==
    /\ job[j].state \in {"running", "uncertain"}
    /\ \A k \in Members(j) : HeldBy(k, j)
    /\ Own(j, job[j].state)

StartAttempt(j) ==
    /\ job[j].state = "running"
    /\ attempts' = attempts \cup {<<j, job[j].fence>>}
    /\ UNCHANGED <<job, res, session, stream, req, contained, closeout, seen, seal>>

EndJob(j, state) ==
    /\ job[j].state = "running"
    /\ job' = Moved(j, state)
    /\ res' = IF state = "uncertain"
              THEN [k \in Resources |-> IF k \in Members(j)
                      THEN [res[k] EXCEPT !.blocked = TRUE, !.version = @ + 1]
                      ELSE res[k]]
              ELSE Free(Members(j))
    /\ UNCHANGED <<attempts, session, stream, req, contained, closeout, seen, seal>>

ExportNext ==
    \/ \E j \in Jobs :
          \/ ReadJob(j) \/ Claim(j) \/ Replace(j) \/ StartAttempt(j)
          \/ \E state \in {"confirmed", "failed", "uncertain"} : EndJob(j, state)
          \/ ContainTargets(j) \/ LegacyCloseout(j)
    \/ \E x \in Sessions : OpenSession(x) \/ CloseSession(x)
    \/ \E s \in Streams :
          \/ \E x \in Sessions, j \in Jobs, purpose \in Purposes :
                OpenStream(s, x, j, purpose)
          \/ ReadStream(s) \/ Freeze(s) \/ CloseStream(s)
          \/ \E r \in Requests :
                \/ \E kind \in {"read", "mutation"}, f \in Files : Prepare(s, r, kind, f)
                \/ Dispatch(s, r)
                \/ \E outcome \in Terminal : Resolve(s, r, outcome)

ExportSpec == ExportInit /\ [][ExportNext]_vars

-----------------------------------------------------------------------------
JobStates == {"ready", "running", "confirmed", "failed", "uncertain"}
Outcomes == {"prepared", "dispatch_intent"} \cup Terminal
Ledgers == SUBSET (Requests \X Outcomes)
JobRow == [state : JobStates, fence : 0..MaxFence, version : Nat]
ResourceRow == [job : Jobs \cup {None}, fence : 0..MaxFence, version : Nat,
                blocked : BOOLEAN]
StreamRow(j) ==
    [state : {"open", "frozen", "closed", "contained"}, session : Sessions,
     job : Jobs, fence : 0..MaxFence, claim : Nat, scope : [Members(j) -> Nat],
     purpose : Purposes, version : Nat, last : Nat, digest : Ledgers \cup {None}]
RequestRow == [state : Outcomes, stream : Streams, seq : Nat,
               kind : {"read", "mutation"}, target : Files]
Reading(j) == [fence : 0..MaxFence, version : Nat, scope : [Members(j) -> Nat]]
Sealing == [version : Nat, last : Nat, digest : Ledgers]

ExportTypeOK ==
    /\ job \in [Jobs -> JobRow]
    /\ res \in [Resources -> ResourceRow]
    /\ session \in [Sessions -> {"none", "open", "closed"}]
    /\ DOMAIN stream = Streams
    /\ \A s \in Streams : stream[s] = NoStream \/ stream[s] \in StreamRow(stream[s].job)
    /\ req \in [Requests -> {NoRequest} \cup RequestRow]
    /\ contained \in [Files -> Jobs \cup {None}]
    /\ closeout \subseteq Jobs
    /\ DOMAIN seen = Jobs
    /\ \A j \in Jobs : seen[j] = None \/ seen[j] \in Reading(j)
    /\ seal \in [Streams -> {None} \cup Sealing]

\* One call to the provider at a time and account: two requests of active
\* streams of one account are never both without an outcome.
Outstanding(s) == {r \in RequestsOf(s) : req[r].state \notin Terminal}
OneOutstanding == \A a \in Accounts :
    Cardinality(UNION {Outstanding(s) : s \in
        {t \in Streams : Active(t) /\ AccountOf[stream[t].job] = a}}) <= 1

\* The digest a closure was given, from a ledger read in an earlier call, is the
\* digest of everything the stream has recorded, now and for ever.
SealIsComplete == \A s \in Streams :
    stream[s].state \in {"closed", "contained"} =>
        stream[s].digest = Ledger(s) /\ stream[s].last = Cardinality(RequestsOf(s))

\* A closed stream leaves no mutation without an outcome, and after a closeout
\* every mutation of the job, in whatever stream, is known to have succeeded or
\* not to have been sent.
CloseoutIsKnown == \A s \in Streams, r \in Requests :
    req[r].stream = s /\ req[r].kind = "mutation" =>
        /\ stream[s].state = "closed" => req[r].state \in Terminal
        /\ stream[s].job \in closeout => req[r].state \in {"succeeded", "not_sent"}

\* A job that has been contained or closed out holds no resource and no active
\* mutation stream: the account is free for other jobs.
ContainedHoldsNothing == \A j \in Jobs :
    j \in closeout \/ Contains(j) # {} =>
        /\ \A k \in Resources : res[k].job # j
        /\ \A s \in StreamsOf(j) : Active(s) => stream[s].purpose = "probe"

\* An account has one active stream, and a stream one request without an outcome.
OneActive == \A s, t \in Streams :
    Active(s) /\ Active(t) /\ AccountOf[stream[s].job] = AccountOf[stream[t].job]
    => s = t
OneCall == \A s \in Streams : \A q, r \in Outstanding(s) : q = r

\* Requests belong to a stream that was opened, and are what it may send.
RequestsFit == \A r \in Requests : req[r] # NoRequest =>
    LET c == stream[req[r].stream] IN
    /\ c.state # "none"
    /\ req[r].target \in FilesOf[c.job]
    /\ c.purpose = "probe" => req[r].kind = "read"

LedgerCounted == \A s \in Streams :
    IsFiniteSet(RequestsOf(s)) /\ stream[s].last = Cardinality(RequestsOf(s))

\* What was read of a stream is its ledger as long as its version is the same.
SealsStand == \A s \in Streams : seal[s] # None =>
    /\ stream[s].state # "none" /\ seal[s].version <= stream[s].version
    /\ seal[s].version = stream[s].version => seal[s].digest = Ledger(s)

OwnedAreMembers == \A k \in Resources, j \in Jobs : res[k].job = j => k \in Members(j)

\* A job that was contained or closed out never runs again.
NeverAgain == \A j \in Jobs :
    /\ Contains(j) # {} => job[j].state \in {"uncertain", "failed"}
    /\ j \in closeout => job[j].state = "failed"

\* What every step preserves.
ExportInvariant ==
    /\ ExportTypeOK /\ OneActive /\ OneCall /\ RequestsFit /\ LedgerCounted
    /\ SealsStand /\ OwnedAreMembers /\ NeverAgain
    /\ SealIsComplete /\ CloseoutIsKnown /\ ContainedHoldsNothing

\* Whatever is sent to the provider is sent for the job that owns the file at
\* that moment, under its current fence, and never to an isolated file, however
\* long ago the stream was opened and the request prepared.
DispatchIsOwned == [][\A r \in Requests :
    req'[r].state = "dispatch_intent" /\ req[r].state # "dispatch_intent"
    /\ req[r].kind = "mutation" =>
        LET f == req[r].target
            s == req[r].stream IN
        /\ res[f].job = stream[s].job /\ res[f].fence = stream[s].fence
        /\ contained[f] # None => contained[f] \in closeout]_vars

-----------------------------------------------------------------------------
\* Somebody who reads only calls, sealed streams and closeouts sees them as
\* ExportLedger promises: usp_ExportExecutionStreamTransition and
\* usp_ExportProviderRequestEventAppend implement it together.
PhaseOf(s) == IF Active(s) THEN "active"
              ELSE IF stream[s].state = "none" THEN "new" ELSE "sealed"
CallOf(r) == [of |-> req[r].stream, kind |-> req[r].kind, state |-> req[r].state]

Evidence == INSTANCE ExportLedger WITH
    phase <- [s \in Streams |-> PhaseOf(s)],
    by <- [s \in Streams |-> stream[s].job],
    evidence <- [s \in Streams |-> stream[s].digest],
    call <- [r \in Requests |-> CallOf(r)],
    concluded <- closeout
ImplementsEvidence == Evidence!Spec
=============================================================================
