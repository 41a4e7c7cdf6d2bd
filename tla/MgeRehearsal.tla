----------------------------- MODULE MgeRehearsal -----------------------------
(* validation/rehearse_mge_finalisation.py, cases N01 and N02: the release of  *)
(* the board inventory and its triggers, interrupted after each of the first   *)
(* four of its five statements, as a script of Rehearsal. The cases after them *)
(* are those of BoardQualification.                                            *)
EXTENDS Rehearsal

Migration == "20261029_001_mge_board_finalisation"
Finalisation == [migration |-> Migration, profile |-> "mge_finalisation_v1",
                 pin |-> "commit", release |-> "release"]
MgeCalls == {Finalisation}

\* The statements are those of one transaction, so that the four boundaries are
\* one state of it.
Interrupted == <<
    Spawn("pause_before_receipt", Finalisation), Guard(KillChild), Await, Finally,
    Run("Status", Finalisation, "11"),
    Image(Migration, "objects", "before"), Receipts({Migration}, 0) >>

MgeScript ==
    << Run("Preflight", Finalisation, "0"), Run("Status", Finalisation, "10") >>
    \o Interrupted \o Interrupted \o Interrupted \o Interrupted
    \o << Run("Apply", Finalisation, "0"), Note({Migration}),
          Run("Apply", Finalisation, "0"), Run("Verify", Finalisation, "0"),
          More({Migration}, 0), Run("Verify", Finalisation, "0") >>

-----------------------------------------------------------------------------
\* What the record of N01 says: four times nothing was left but an unfinished
\* attempt, and the one that succeeded is that of the receipt.
MgeEvidence == program = "mge" /\ verdict = "PASS" =>
    /\ ReceiptIsMine(Finalisation)
    /\ Cardinality({a \in Rows(Migration) : attempt[a].status = "Started"}) = 4
    /\ Cardinality({a \in Rows(Migration) : attempt[a].status = "Succeeded"}) = 1
    /\ image[Migration]["objects"] = "after"
=============================================================================
