---------------------------- MODULE MCRehearsal ----------------------------
(* The four rehearsals of the runner, each with the two processes it runs, and *)
(* the cases of the fourth that follow its release. They work on databases of  *)
(* their own, so one run checks the one part or the other. The objects of the  *)
(* migrations are those any of the four alters.                                *)
EXTENDS ModuleRehearsal, TableRehearsal, RecoveryRehearsal, MgeRehearsal

VARIABLES
    part,
    event, row, target, holder, writer, tx, read,
    prompt, place, outcome, asked, until, answer, gone, before, imported

Processes == {"outer", "child"}
AllCalls == ModuleCalls \cup TableCalls \cup RecoveryCalls \cup MgeCalls
AllItems == {"objects", "tracked"} \cup NAMES
SixAttempts == 1..6
Rehearsals == [modules |-> ModuleScript, tables |-> TableScript,
               recovery |-> RecoveryScript, mge |-> MgeScript]

QualificationEvents ==
    {"active", "sparse0", "sparse1", "sparse2", "partial", "created", "legacy",
     "planted", "uncommitted", "committed", "deleting", "other", "empty", "first",
     "second", "terminal", "retired", "settling", "found", "differs", "steps"}
QualificationRows ==
    {"signup", "award", "single", "signup_other", "award_other", "late",
     "signup_steps", "award_steps"}

Cases == INSTANCE BoardQualification WITH
    Sessions <- {"main", "beside", "child"}, Events <- QualificationEvents,
    Entries <- QualificationRows, Boards <- {"signup", "leadership", "awards"},
    None <- NoOne

caseVars == <<event, row, target, holder, writer, tx, read, prompt, place,
              outcome, asked, until, answer, gone, before, imported>>
allVars == <<rehearsalVars, caseVars, part>>

\* The part that does not run has nothing to choose.
AllInit ==
    /\ RehearsalInit /\ Cases!QualificationInit
    /\ \/ part = "runners" /\ prompt
       \/ part = "cases" /\ program = "mge" /\ timely

InRunners(A) ==
    part = "runners" /\ A /\ UNCHANGED <<choice, caseVars, part>>
InCases(A) == part = "cases" /\ A /\ UNCHANGED <<rehearsalVars, part>>

AllNext == InRunners(RehearsalNext) \/ InCases(Cases!QualificationNext)

AllFairness ==
    /\ WF_allVars(InRunners(HarnessStep))
    /\ \A r \in Processes :
          WF_allVars(InRunners(RunnerRuns(r))) /\ WF_allVars(InRunners(ServerRuns(r)))
    /\ WF_allVars(InCases(Cases!ProgramStep))
    /\ \A s \in {"main", "beside", "child"} :
          /\ WF_allVars(InCases(Cases!Runs(s)))
          /\ WF_allVars(InCases(Cases!Reaped(s)))
          /\ WF_allVars(InCases(Cases!LockTimeout(s)))

AllSpec == AllInit /\ [][AllNext]_allVars /\ AllFairness

-----------------------------------------------------------------------------
\* When no call takes longer than its time, then, whatever the order in which the
\* child, the runner or thread beside it and the server move, the program is
\* answered as it expects: it comes to its end, and its result is PASS.
Passes ==
    /\ (part = "runners" /\ timely) ~> verdict = "PASS"
    /\ (part = "cases" /\ prompt) ~> outcome = "PASS"

\* However a program ends, also at a timeout in the middle of a fault or of a
\* wait, it leaves no runner alive, no transaction open and no lock held, and
\* the database setting it had switched on is switched off again.
Left ==
    /\ part = "runners" => verdict # "running" /\ NothingLeft
    /\ part = "cases" => outcome # "running" /\ Cases!NothingHeld
LeavesNothing == <>[]Left

\* What the programs say of a PASS in their evidence files, what each call on the
\* way to it was told, and that a program cleans up when it ends.
EvidenceIsTrue ==
    /\ Attested /\ EndsClean
    /\ ModuleEvidence /\ TableEvidence /\ RecoveryEvidence /\ MgeEvidence
    /\ Cases!QualificationEvidence
=============================================================================
