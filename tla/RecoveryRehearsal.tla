-------------------------- MODULE RecoveryRehearsal --------------------------
(* validation/rehearse_guided_recovery_release.py: the rehearsal of the       *)
(* coordinated recovery release, twelve migrations and their receipts applied *)
(* in one transaction. Its objects are four: the bodies of its modules, the   *)
(* grants on them, the application identity with its roles, and the receipts  *)
(* of the twelve children; each can be altered behind the release's back.     *)
EXTENDS Rehearsal

PROFILE_ID == "20261016_003_guided_recovery_release"
NAMES == {"module", "grants", "principal", "children"}

Recovery == [migration |-> PROFILE_ID, profile |-> "coordinated_recovery_v1",
             pin |-> "HEAD", release |-> "release"]
OtherIdentity == [Recovery EXCEPT !.release = "other_identity"]
RecoveryCalls == {Recovery, OtherIdentity}

Set(item, v) == Edit(PROFILE_ID, item, v)
run(operation, expected) == Run(operation, Recovery, expected)
injected(how, operation, expected) == RunFaulty(how, operation, Recovery, expected)
Catalogue(v) == <<Image(PROFILE_ID, "module", v), Image(PROFILE_ID, "grants", v)>>

InstallBaseline == << Set("principal", "before"), Set("grants", "before") >>

Identities == << Set("principal", "other"), Set("grants", "other"),
                 run("Preflight", "20") >>
    \o InstallBaseline \o << run("Preflight", "0") >>

\* A missing grant, and then one too many.
LegacyGrant == << Set("grants", "other"), run("Preflight", "20"),
                  Set("grants", "before"), run("Preflight", "0") >>

Unstarted == << run("Verify", "10") >> \o Catalogue("before")
             \o << Count({PROFILE_ID}, 0) >>

ChangedBody == << injected("throw_in_change", "Apply", "20"), run("Verify", "11") >>
    \o Catalogue("before") \o << Receipts({PROFILE_ID}, 0) >>

LiveOwner == << Occupy, run("Verify", "20"), Vacate >>

KilledBeforeCommit == << Spawn("pause_before_commit", Recovery), Guard(KillChild),
                         Await, Finally, run("Verify", "11") >>
    \o Catalogue("before") \o << Receipts({PROFILE_ID}, 0) >>

ThrownBeforeCommit == << injected("throw_before_commit", "Apply", "20") >>
    \o Catalogue("before")
    \o << Receipts({PROFILE_ID}, 0), run("Verify", "11"),
          Run("Verify", OtherIdentity, "20") >>

LostAcknowledgement == << injected("lose_reply", "Apply", "20"), run("Verify", "0"),
                 Image(PROFILE_ID, "grants", "after") >>

DriftSeen(item) == << Set(item, "other"), run("Verify", "20"),
                      Set(item, "after"), run("Verify", "0") >>

NotReplayed == << Note({PROFILE_ID}), run("Apply", "0"), More({PROFILE_ID}, 0),
                  Receipts({PROFILE_ID}, 1), Image(PROFILE_ID, "children", "after") >>

CommittedModule == << Set("module", "other"), run("Verify", "20") >>

RecoveryScript ==
    Identities \o LegacyGrant \o LegacyGrant \o Unstarted
    \o ChangedBody \o ChangedBody \o LiveOwner \o KilledBeforeCommit
    \o ThrownBeforeCommit \o LostAcknowledgement \o DriftSeen("grants") \o NotReplayed
    \o DriftSeen("children") \o DriftSeen("grants") \o DriftSeen("principal")
    \o CommittedModule

-----------------------------------------------------------------------------
\* A PASS means one commit: whichever of the attempts that threw, died before
\* the commit or lost its reply came first, the last one alone has succeeded,
\* the one whose process was killed is still Started, and the drift that the
\* rehearsal retains was never repaired by a replay.
RecoveryEvidence == program = "recovery" /\ verdict = "PASS" =>
    LET made == Rows(PROFILE_ID)
        ended(s) == {a \in made : attempt[a].status = s}
    IN
    /\ ReceiptIsMine(Recovery)
    /\ Cardinality(ended("Succeeded")) = 1
    /\ Cardinality(ended("Started")) = 1
    /\ Cardinality(ended("Failed")) = 3
    /\ image[PROFILE_ID]["module"] = "other"
=============================================================================
