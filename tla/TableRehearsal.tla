---------------------------- MODULE TableRehearsal ----------------------------
(* validation/rehearse_table_release.py: the rehearsal of the profile of new  *)
(* tables, and of the legacy installer of the same tables beside it. A loop   *)
(* whose turns differ only in what is altered is one turn here; each fixture  *)
(* is a migration of its own.                                                 *)
EXTENDS Rehearsal

Additive(m) == [migration |-> m, profile |-> "additive_tables_v1",
                pin |-> "commit", release |-> "release"]
Strange(c) == [c EXCEPT !.release = "other_release"]
Foreign(c) == [c EXCEPT !.profile = "module_grants_v1"]

\* Fixtures whose profile or parent table the runner must refuse at once.
Unfit == {"hypothetical", "invalid_key", "case", "incompatible", "partial"}
Installs == {"legacy", "success", "adopt", "rollback", "before_commit",
             "after_commit"}
TableMigrations == Unfit \cup {"encrypted_parent"} \cup Installs
TableCalls == {Additive(m) : m \in TableMigrations}
              \cup {Strange(Additive("success")), Foreign(Additive("rollback"))}

p == Additive("success")
Alter(m) == Edit(m, "objects", "other")
Restore(m) == Edit(m, "objects", "after")

\* Refused before any Started attempt is written.
RefusedAtOnce(m) == << Alter(m),
    Run("Preflight", Additive(m), "20"), Run("Apply", Additive(m), "20"),
    Count({m}, 0), Image(m, "objects", "other") >>

HypotheticalKey == RefusedAtOnce("hypothetical")
                   \o << Legacy("hypothetical", "installer", FALSE) >>
InvalidKey == RefusedAtOnce("invalid_key")
CaseDiffers == RefusedAtOnce("case")
Incompatible == RefusedAtOnce("incompatible")

RefuseBeforeInstallation(m) ==
    << Legacy(m, "installer", FALSE), Image(m, "objects", "other") >>

EncryptedParent == << Alter("encrypted_parent") >>
    \o RefuseBeforeInstallation("encrypted_parent")
    \o << Run("Preflight", Additive("encrypted_parent"), "20"),
          Run("Apply", Additive("encrypted_parent"), "20"),
          Count({"encrypted_parent"}, 0) >>

\* The installer is refused by parents, constraint names and column shapes that
\* are not as it expects, and installs once they are gone.
LegacyPrerequisites == << Alter("legacy") >> \o RefuseBeforeInstallation("legacy")
    \o << Edit("legacy", "objects", "before") >>

LegacyInstalls == << Legacy("legacy", "installer", TRUE),
                     Image("legacy", "objects", "after") >>

LegacyDrift == << Alter("legacy"), Legacy("legacy", "installer", FALSE),
                  Restore("legacy"), Legacy("legacy", "installer", TRUE) >>

LegacyModes == << Legacy("legacy", "injected", FALSE),
                  Legacy("legacy", "installer", TRUE) >>

LegacyPartition == << Alter("legacy"), Legacy("legacy", "installer", FALSE) >>

Success == << Run("Preflight", p, "0"), Count({"success"}, 0),
    Run("Status", p, "10"), Run("Apply", p, "0"), Run("Apply", p, "0"),
    Run("Verify", p, "0"), Count({"success"}, 1) >>

RefusedByRunner == << Run("Verify", p, "20"), Run("Apply", p, "20"),
                      Count({"success"}, 1) >>

Masked == << Alter("success") >> \o RefusedByRunner
          \o << Restore("success"), Run("Verify", p, "0") >>

RefusePostimage == << Legacy("success", "installer", FALSE) >> \o RefusedByRunner
RecoveredPostimage == << Legacy("success", "installer", TRUE),
                         Run("Verify", p, "0") >>

\* Index options, statistics, names and security policies, one after the other.
Mutated == << Alter("success") >> \o RefusePostimage
           \o << Restore("success") >> \o RecoveredPostimage

\* Dropped and created with encrypted columns, then with the plain ones again.
Encrypted == << Alter("success") >> \o RefusePostimage
    \o << Edit("success", "objects", "before"), Restore("success") >>
    \o RecoveredPostimage

Sampled == Mutated

ChangeTracking == << Switch(TRUE), Guard(Switch(FALSE)),
        Edit("success", "tracked", "other"),
        Guard(Edit("success", "tracked", "after")) >>
    \o RefusePostimage \o << Finally >> \o RecoveredPostimage \o << Finally >>

\* The same tables under another migration id: present, and not its own.
Retained == << Run("Verify", p, "0") >>
    \o [k \in 1..4 |-> Run(<<"Preflight", "Status", "Verify", "Apply">>[k],
                           Strange(p), "20")]
    \o << Count({"success"}, 1), Edit("adopt", "objects", "after"),
          Run("Apply", Additive("adopt"), "20"), Count({"adopt"}, 0) >>

Partial == << Alter("partial"), Run("Preflight", Additive("partial"), "20"),
              Count({"partial"}, 0) >>

RolledBack == << RunFaulty("throw_in_change", "Apply", Additive("rollback"), "20"),
    Run("Status", Additive("rollback"), "11"),
    Image("rollback", "objects", "before"), Count({"rollback"}, 1) >>

OtherProfile == << Rebind("rollback", Foreign(Additive("rollback"))),
    Run("Status", Additive("rollback"), "20"),
    Run("Apply", Additive("rollback"), "20"), Count({"rollback"}, 1) >>

TableDeath(when, m, expected, more) == <<
    Spawn(when, Additive(m)), Guard(KillChild), Await,
    Run("Status", Additive(m), "20"), Finally,
    Run("Status", Additive(m), expected),
    Note({m}), Run("Apply", Additive(m), "0"), More({m}, more),
    Run("Verify", Additive(m), "0") >>

MetadataDrift == << Alter("success") >> \o RefusedByRunner

TableScript ==
    HypotheticalKey \o InvalidKey \o CaseDiffers \o Incompatible
    \o EncryptedParent \o LegacyPrerequisites \o LegacyInstalls
    \o LegacyDrift \o LegacyModes \o LegacyPartition
    \o Success \o Masked \o Mutated \o ChangeTracking \o Encrypted \o Sampled
    \o Retained \o Partial \o RolledBack \o OtherProfile
    \o TableDeath("pause_before_receipt", "before_commit", "11", 1)
    \o TableDeath("pause_after_commit", "after_commit", "0", 0) \o MetadataDrift

-----------------------------------------------------------------------------
\* A PASS leaves only what the rehearsal says it leaves: the tables of the first
\* release drifted under their one receipt, those the legacy installer made
\* without any, the failed attempt that now belongs to the other profile, and
\* no attempt for anything that was refused at once.
TableEvidence == program = "tables" /\ verdict = "PASS" =>
    /\ \A m \in Unfit \cup {"encrypted_parent", "adopt", "legacy"} :
          Rows(m) = {} /\ receipt[m] = NoRow
    /\ image["success"]["objects"] = "other"
    /\ ReceiptIsMine(p) /\ Cardinality(Rows("success")) = 1
    /\ \A a \in Rows("rollback") :
          attempt[a] = [status |-> "Failed", call |-> Foreign(Additive("rollback"))]
    /\ receipt["rollback"] = NoRow
    /\ \A m \in {"before_commit", "after_commit"} : ReceiptIsMine(Additive(m))
=============================================================================
