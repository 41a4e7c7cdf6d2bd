--------------------------- MODULE ModuleRehearsal ---------------------------
(* validation/rehearse_module_release.py: the rehearsal of the profile of     *)
(* modules and grants, as a script of Rehearsal.                              *)
EXTENDS Rehearsal

Reviewed(m) == [migration |-> m, profile |-> "module_grants_v1",
                pin |-> "commit", release |-> "release"]
WrongRelease(m) == [Reviewed(m) EXCEPT !.release = "wrong_release"]

ModuleMigrations == {"901_fixture", "902_fixture", "903_death", "904_death"}
ModuleCalls == {Reviewed(m) : m \in ModuleMigrations}
               \cup {WrongRelease("901_fixture")}

path == Reviewed("901_fixture")
failed == Reviewed("902_fixture")

Released == <<
    Run("Preflight", path, "0"), Count(ModuleMigrations, 0),
    Run("Status", path, "10"), Run("Apply", path, "0"), Run("Apply", path, "0"),
    Run("Verify", path, "0"), Count(ModuleMigrations, 1) >>

Adopted == [k \in 1..4 |->
    Run(<<"Preflight", "Status", "Verify", "Apply">>[k],
        WrongRelease("901_fixture"), "20")]
    \o << Run("Verify", path, "0"), Count(ModuleMigrations, 1),
          Image("901_fixture", "objects", "after") >>

CompileFailure == <<
    Run("Apply", failed, "20"), Run("Status", failed, "11"),
    Receipts({"902_fixture"}, 0), Failed(1),
    Mend("902_fixture"), Run("Apply", failed, "0"), Failed(1) >>

CommittedDrift == <<
    Edit("901_fixture", "objects", "other"),
    Run("Verify", path, "20"), Run("Apply", path, "20"),
    Count(ModuleMigrations, 3) >>

\* The child pauses for longer than the call beside it may take, and is killed.
ModuleDeath(when, m, expected, more) == <<
    Spawn(when, Reviewed(m)), Guard(KillChild), Await,
    Run("Status", Reviewed(m), "20"), Finally,
    Run("Status", Reviewed(m), expected),
    Note(ModuleMigrations), Run("Apply", Reviewed(m), "0"),
    More(ModuleMigrations, more) >>

ModuleScript ==
    Released \o Adopted \o CompileFailure \o CommittedDrift
    \o ModuleDeath("pause_before_receipt", "903_death", "11", 1)
    \o ModuleDeath("pause_after_commit", "904_death", "0", 0)

-----------------------------------------------------------------------------
\* What the evidence file says of a PASS is so: the attempt that was rolled
\* back is retained beside the one that succeeded, the committed drift is still
\* there under its first receipt, a migration whose runner died before its
\* commit was applied by a second attempt and one whose runner died after it by
\* the first, and the release that is wrong has left nothing.
ModuleEvidence == program = "modules" /\ verdict = "PASS" =>
    /\ {attempt[a].status : a \in Rows("902_fixture")} = {"Failed", "Succeeded"}
    /\ image["901_fixture"]["objects"] = "other"
    /\ Cardinality(Rows("901_fixture")) = 1
    /\ ReceiptIsMine(path)
    /\ {attempt[a].status : a \in Rows("903_death")} = {"Started", "Succeeded"}
    /\ {attempt[a].status : a \in Rows("904_death")} = {"Succeeded"}
    /\ \A a \in Attempts : attempt[a].call # WrongRelease("901_fixture")
=============================================================================
