--------------------------- MODULE ImportPipeline ---------------------------
(***************************************************************************)
(* The KingdomScanData4 immutable-file import: SQL sessions that run the   *)
(* public procedures UPDATE_ALL2, UPDATE_ALL, IMPORT_STAGING_PROC and      *)
(* ARCHIVE_IMPORT_STAGING_FILE over the claim and receipt tables, the scan *)
(* tables, the transaction-owned import mutex and the three file           *)
(* directories Import_Ready, Import_Claimed and Import_Archive.            *)
(*                                                                         *)
(* A session is a program counter over the points where another session,   *)
(* the producer or a crash can come between: the ends of transactions and  *)
(* the single file-system commands.  A transaction that runs no file       *)
(* command is one step; its end releases the mutex.  File moves are not    *)
(* undone by a rollback.  Messages, timestamps and LastError texts are     *)
(* left out.                                                               *)
(***************************************************************************)
EXTENDS Integers, FiniteSets

CONSTANTS
    Sessions,    \* SQL sessions
    Files,       \* completed file names, stats_<32 hex>.ready.csv
    Bytes,       \* file contents; a digest is the content it identifies
    Malformed,   \* contents that canonical staging refuses
    MaxScan,     \* greatest scan order, 2147483647 in the code
    History4,    \* scan orders in KingdomScanData4 before the first call
    History5,    \* and in KingdomScanData5
    Republish,   \* TRUE: the producer may reuse a name it published before
    Tamper,      \* TRUE: hardened and archived files may still be rewritten
    NoBytes,     \* no file, or a digest that is NULL
    OldBytes,    \* what a scan from before the first call holds
    NoFile,
    Nobody

Scans == 1..MaxScan

ASSUME ConstantsAssumption ==
    /\ MaxScan \in Nat
    /\ Malformed \subseteq Bytes
    /\ History4 \subseteq Scans
    /\ History5 \subseteq Scans
    /\ {Republish, Tamper} \subseteq BOOLEAN
    /\ NoBytes \notin Bytes \cup {OldBytes}
    /\ OldBytes \notin Bytes
    /\ NoFile \notin Files
    /\ Nobody \notin Sessions

VARIABLES
    \* the database
    claim,      \* KS4_ImportFileClaim: status and digest of each file name
    receipt,    \* KS4_ImportFileReceipt: scan, owner and archive state of a digest
    ks4, ks5,   \* KingdomScanData4 and 5: the content each scan order holds
    lock,       \* the owner of K98:KingdomScanData4:ImportPipeline:v1
    \* the file system
    ready,      \* what Import_Ready holds under each name
    claimed,    \* what Import_Claimed holds
    archive,    \* what Import_Archive holds
    sealed,     \* the claimed file has the SQL-owned access list
    \* the sessions
    pc,         \* where the session is
    file,       \* the @CompletedFileName it works on
    entry,      \* the public procedure that was called
    saw,        \* directories in which CLAIM found the file
    digest,     \* @FileDigest or @ImportFileDigest
    staged,     \* the content BULK INSERT read
    \* the environment
    calm        \* no further crash, command failure or lock timeout

dbVars   == <<claim, receipt, ks4, ks5>>
diskVars == <<ready, claimed, archive, sealed>>
sessVars == <<pc, file, entry, saw, digest, staged>>
vars     == <<dbVars, lock, diskVars, sessVars, calm>>

Entries == {"UPDATE_ALL2", "UPDATE_ALL", "IMPORT_STAGING_PROC"}

Statuses == {"none", "claiming", "claimed", "imported", "archived",
             "duplicate", "duplicate_archived", "failed"}

(* Steps of CLAIM_KS4_IMPORT_FILE, whose CATCH block runs when one fails. *)
ClaimSteps == {"claimOpen", "probeReady", "probeClaimed", "probeArchive",
               "move", "verify", "harden", "hash", "bind"}

(* Steps that hold the mutex between two actions. *)
LockedSteps == {"load", "rehash", "commit", "archiveMove", "archiveVerify"}

(* Steps that wait for the mutex. *)
WaitingSteps == {"claimOpen", "bind", "importOpen", "archiveOpen"}

Steps == {"idle", "claimCatch"} \cup ClaimSteps \cup LockedSteps \cup WaitingSteps

NoReceipt == [scan |-> 0, source |-> NoFile, archived |-> FALSE]

DatabaseTypeOK ==
    /\ claim \in [Files -> [status : Statuses, digest : Bytes \cup {NoBytes}]]
    /\ receipt \in [Bytes -> [scan : 0..MaxScan, source : Files \cup {NoFile},
                              archived : BOOLEAN]]
    /\ ks4 \in [Scans -> Bytes \cup {NoBytes, OldBytes}]
    /\ ks5 \in [Scans -> Bytes \cup {NoBytes, OldBytes}]

DiskTypeOK ==
    /\ ready \in [Files -> Bytes \cup {NoBytes}]
    /\ claimed \in [Files -> Bytes \cup {NoBytes}]
    /\ archive \in [Files -> Bytes \cup {NoBytes}]
    /\ sealed \in [Files -> BOOLEAN]

SessionTypeOK ==
    /\ lock \in Sessions \cup {Nobody}
    /\ pc \in [Sessions -> Steps]
    /\ file \in [Sessions -> Files \cup {NoFile}]
    /\ entry \in [Sessions -> Entries \cup {"none"}]
    /\ saw \in [Sessions -> SUBSET {"ready", "claimed"}]
    /\ digest \in [Sessions -> Bytes \cup {NoBytes}]
    /\ staged \in [Sessions -> Bytes \cup {NoBytes}]
    /\ calm \in BOOLEAN

(* A session at work has a file; from the hash on, and while it loads or    *)
(* moves, it has a digest.                                                  *)
AtWork(s) ==
    /\ pc[s] # "idle" => file[s] \in Files
    /\ pc[s] \in {"bind", "load", "rehash", "commit", "archiveMove", "archiveVerify"}
         => digest[s] \in Bytes

TypeOK ==
    /\ DatabaseTypeOK
    /\ DiskTypeOK
    /\ SessionTypeOK
    /\ \A s \in Sessions : AtWork(s)

Past(history) == [n \in Scans |-> IF n \in history THEN OldBytes ELSE NoBytes]

Init ==
    /\ claim = [f \in Files |-> [status |-> "none", digest |-> NoBytes]]
    /\ receipt = [b \in Bytes |-> NoReceipt]
    /\ ks4 = Past(History4)
    /\ ks5 = Past(History5)
    /\ lock = Nobody
    /\ ready = [f \in Files |-> NoBytes]
    /\ claimed = [f \in Files |-> NoBytes]
    /\ archive = [f \in Files |-> NoBytes]
    /\ sealed = [f \in Files |-> FALSE]
    /\ pc = [s \in Sessions |-> "idle"]
    /\ file = [s \in Sessions |-> NoFile]
    /\ entry = [s \in Sessions |-> "none"]
    /\ saw = [s \in Sessions |-> {}]
    /\ digest = [s \in Sessions |-> NoBytes]
    /\ staged = [s \in Sessions |-> NoBytes]
    /\ calm = FALSE

-----------------------------------------------------------------------------
(* Control: how a step of a session ends. *)

Goto(s, step) == pc' = [pc EXCEPT ![s] = step]

Forget(s) ==
    /\ entry' = [entry EXCEPT ![s] = "none"]
    /\ saw' = [saw EXCEPT ![s] = {}]
    /\ digest' = [digest EXCEPT ![s] = NoBytes]
    /\ staged' = [staged EXCEPT ![s] = NoBytes]

Unlock(s) == lock' = IF lock = s THEN Nobody ELSE lock

(* The call is over; a transaction that is still open is rolled back. *)
Return(s) ==
    /\ Goto(s, "idle")
    /\ file' = [file EXCEPT ![s] = NoFile]
    /\ Forget(s)
    /\ Unlock(s)

(* THROW: CLAIM goes through its CATCH block, the others roll back and end. *)
Throw(s) ==
    IF pc[s] \in ClaimSteps
    THEN /\ Goto(s, "claimCatch")
         /\ Forget(s)
         /\ Unlock(s)
         /\ UNCHANGED file
    ELSE Return(s)

-----------------------------------------------------------------------------
(* The callers. *)

Call(s, f, e) ==
    /\ pc[s] = "idle"
    /\ file' = [file EXCEPT ![s] = f]
    /\ entry' = [entry EXCEPT ![s] = e]
    /\ Goto(s, "claimOpen")
    /\ UNCHANGED <<dbVars, lock, diskVars, saw, digest, staged, calm>>

CallArchive(s, f) ==
    /\ pc[s] = "idle"
    /\ file' = [file EXCEPT ![s] = f]
    /\ Goto(s, "archiveOpen")
    /\ UNCHANGED <<dbVars, lock, diskVars, entry, saw, digest, staged, calm>>

-----------------------------------------------------------------------------
(* CLAIM_KS4_IMPORT_FILE. *)

(* The first transaction inserts or reads the claim row.  A name that is   *)
(* imported or a duplicate is only archived; a closed one is refused, and  *)
(* the CATCH block leaves both rows as they are.                           *)
ClaimOpen(s) ==
    LET f == file[s] IN
    /\ pc[s] = "claimOpen"
    /\ lock = Nobody
    /\ \/ /\ claim[f].status = "none"
          /\ claim' = [claim EXCEPT ![f] = [status |-> "claiming", digest |-> NoBytes]]
          /\ Goto(s, "probeReady")
          /\ UNCHANGED <<file, entry, saw, digest, staged, lock>>
       \/ /\ claim[f].status \in {"claiming", "claimed", "failed"}
          /\ Goto(s, "probeReady")
          /\ UNCHANGED <<claim, file, entry, saw, digest, staged, lock>>
       \/ /\ claim[f].status \in {"imported", "duplicate"}
          /\ Goto(s, "archiveOpen")
          /\ entry' = [entry EXCEPT ![s] = "none"]
          /\ UNCHANGED <<claim, file, saw, digest, staged, lock>>
       \/ /\ claim[f].status \in {"archived", "duplicate_archived"}
          /\ Return(s)
          /\ UNCHANGED claim
    /\ UNCHANGED <<receipt, ks4, ks5, diskVars, calm>>

(* The three sys.dm_os_file_exists reads, one directory at a time. *)
Probe(s, here, dir, name, next) ==
    /\ pc[s] = here
    /\ saw' = [saw EXCEPT ![s] = IF dir[file[s]] = NoBytes THEN @ ELSE @ \cup {name}]
    /\ Goto(s, next)
    /\ UNCHANGED <<dbVars, lock, diskVars, file, entry, digest, staged, calm>>

ProbeReady(s) == Probe(s, "probeReady", ready, "ready", "probeClaimed")

ProbeClaimed(s) == Probe(s, "probeClaimed", claimed, "claimed", "probeArchive")

(* The archive copy is looked for last; the file must have been seen in    *)
(* exactly one of the two other directories.                               *)
ProbeArchive(s) ==
    /\ pc[s] = "probeArchive"
    /\ IF archive[file[s]] = NoBytes /\ saw[s] \in {{"ready"}, {"claimed"}}
       THEN /\ Goto(s, IF saw[s] = {"ready"} THEN "move" ELSE "harden")
            /\ saw' = [saw EXCEPT ![s] = {}]
            /\ UNCHANGED <<file, entry, digest, staged, lock>>
       ELSE Throw(s)
    /\ UNCHANGED <<dbVars, diskVars, calm>>

(* MOVE from Import_Ready to Import_Claimed.  The file keeps the producer's *)
(* access list.  When the destination exists, what the command does is not  *)
(* determined by the code: it replaces the file or refuses.                 *)
Move(s) ==
    LET f == file[s] IN
    /\ pc[s] = "move"
    /\ \/ /\ ready[f] # NoBytes
          /\ claimed' = [claimed EXCEPT ![f] = ready[f]]
          /\ ready' = [ready EXCEPT ![f] = NoBytes]
          /\ sealed' = [sealed EXCEPT ![f] = FALSE]
          /\ Goto(s, "verify")
          /\ UNCHANGED <<file, entry, saw, digest, staged, lock>>
       \/ /\ ready[f] = NoBytes \/ claimed[f] # NoBytes
          /\ Throw(s)
          /\ UNCHANGED <<ready, claimed, sealed>>
    /\ UNCHANGED <<dbVars, archive, calm>>

Verify(s) ==
    LET f == file[s] IN
    /\ pc[s] = "verify"
    /\ IF ready[f] = NoBytes /\ claimed[f] # NoBytes
       THEN /\ Goto(s, "harden")
            /\ UNCHANGED <<file, entry, saw, digest, staged, lock>>
       ELSE Throw(s)
    /\ UNCHANGED <<dbVars, diskVars, calm>>

(* A claim that leaves the file with the producer's access list. *)
LeaveUnhardened(s) ==
    /\ pc[s] = "harden"
    /\ Goto(s, "hash")
    /\ UNCHANGED <<dbVars, diskVars, file, entry, saw, digest, staged, lock, calm>>

(* ICACLS /SETOWNER, /RESET and /VERIFY: the producer can no longer write. *)
Harden(s) ==
    LET f == file[s] IN
    /\ pc[s] = "harden"
    /\ IF claimed[f] # NoBytes
       THEN /\ sealed' = [sealed EXCEPT ![f] = TRUE]
            /\ Goto(s, "hash")
            /\ UNCHANGED <<file, entry, saw, digest, staged, lock>>
       ELSE Throw(s) /\ UNCHANGED sealed
    /\ UNCHANGED <<dbVars, ready, claimed, archive, calm>>

(* A hash that is NULL for a missing file instead of an error. *)
HashUnchecked(s) ==
    /\ pc[s] = "hash"
    /\ digest' = [digest EXCEPT ![s] = claimed[file[s]]]
    /\ Goto(s, "bind")
    /\ UNCHANGED <<dbVars, diskVars, file, entry, saw, staged, lock, calm>>

(* HASH_KS4_IMPORT_ARCHIVE_FILE of the claimed file. *)
Hash(s) ==
    LET f == file[s] IN
    /\ pc[s] = "hash"
    /\ IF claimed[f] # NoBytes
       THEN /\ digest' = [digest EXCEPT ![s] = claimed[f]]
            /\ Goto(s, "bind")
            /\ UNCHANGED <<file, entry, saw, staged, lock>>
       ELSE Throw(s)
    /\ UNCHANGED <<dbVars, diskVars, calm>>

(* A binding without a condition on the status. *)
AnyStatus == Statuses

(* The claims that may be bound, again or for the first time. *)
Bindable == {"claiming", "claimed", "failed", "duplicate"}

(* The second transaction binds the digest to the claim, as a duplicate if *)
(* a receipt has it.  It does not look at the digest bound before.         *)
Bind(s) ==
    LET f == file[s]
        duplicate == receipt[digest[s]].scan # 0
    IN
    /\ pc[s] = "bind"
    /\ lock = Nobody
    /\ IF claim[f].status \in Bindable
       THEN /\ claim' = [claim EXCEPT ![f] =
                 [status |-> IF duplicate THEN "duplicate" ELSE "claimed",
                  digest |-> digest[s]]]
            /\ Goto(s, IF duplicate THEN "archiveOpen" ELSE "importOpen")
            /\ digest' = [digest EXCEPT ![s] = NoBytes]
            /\ entry' = [entry EXCEPT ![s] = IF duplicate THEN "none" ELSE @]
            /\ UNCHANGED <<file, saw, staged, lock>>
       ELSE Throw(s) /\ UNCHANGED claim
    /\ UNCHANGED <<receipt, ks4, ks5, diskVars, calm>>

(* A CATCH block that knows only failure. *)
FailedWhatever(c) == [c EXCEPT !.status = "failed"]

Failed(c) == IF c.status \in {"claiming", "failed"} THEN [c EXCEPT !.status = "failed"]
             ELSE c

(* The CATCH block, outside the mutex.  Its UPDATE waits for the row lock  *)
(* of a transaction that has read the same claim and is still open.        *)
ClaimCatch(s) ==
    LET f == file[s] IN
    /\ pc[s] = "claimCatch"
    /\ \A t \in Sessions : lock = t => file[t] # f
    /\ claim' = [claim EXCEPT ![f] = Failed(@)]
    /\ Return(s)
    /\ UNCHANGED <<receipt, ks4, ks5, diskVars, calm>>

-----------------------------------------------------------------------------
(* IMPORT_STAGING_PROC_CORE and Phase A of UPDATE_ALL2, one transaction.   *)

(* Any digest-bound claim whose file has that digest. *)
HoldsClaimedBytes(f) ==
    /\ claim[f].status = "claimed"
    /\ claim[f].digest # NoBytes
    /\ claimed[f] = claim[f].digest

(* The claimed bytes are there and no receipt has their digest. *)
Importable(f) ==
    /\ HoldsClaimedBytes(f)
    /\ receipt[claim[f].digest].scan = 0

(* The transaction opens and takes the mutex before it looks at the claim. *)
ImportOpen(s) ==
    LET f == file[s] IN
    /\ pc[s] = "importOpen"
    /\ lock = Nobody
    /\ IF Importable(f)
       THEN /\ lock' = s
            /\ digest' = [digest EXCEPT ![s] = claim[f].digest]
            /\ Goto(s, "load")
            /\ UNCHANGED <<file, entry, saw, staged>>
       ELSE Throw(s)
    /\ UNCHANGED <<dbVars, diskVars, calm>>

(* BULK INSERT reads the file by its path. *)
Load(s) ==
    LET f == file[s] IN
    /\ pc[s] = "load"
    /\ staged' = [staged EXCEPT ![s] = claimed[f]]
    /\ Goto(s, "rehash")
    /\ UNCHANGED <<dbVars, lock, diskVars, file, entry, saw, digest, calm>>

Rehash(s) ==
    /\ pc[s] = "rehash"
    /\ IF claimed[file[s]] = digest[s]
       THEN /\ Goto(s, "commit")
            /\ UNCHANGED <<file, entry, saw, digest, staged, lock>>
       ELSE Throw(s)
    /\ UNCHANGED <<dbVars, diskVars, calm>>

InUse(scans) == {n \in Scans : scans[n] # NoBytes}

ReceiptScans == {receipt[b].scan : b \in Bytes} \ {0}

(* An allocation that fills the first gap. *)
FirstFreeScan(n) ==
    LET used == InUse(ks4) \cup InUse(ks5) \cup ReceiptScans IN
    /\ n \notin used
    /\ 1..(n - 1) \subseteq used

(* MAX over the three tables plus one; none when the int range is used up. *)
NextScan(n) ==
    LET used == InUse(ks4) \cup InUse(ks5) \cup ReceiptScans IN
    /\ \A m \in used : m < n
    /\ n = 1 \/ n - 1 \in used

(* A promotion that compares the maxima from before the insert. *)
PromotedLate(e, n) ==
    /\ e \in {"UPDATE_ALL2", "UPDATE_ALL"}
    /\ \E k \in InUse(ks5) : k < n /\ \A m \in InUse(ks4) : m < k

(* IF @MaxScanOrder5 > @MaxScanOrder4: a comparison with the NULL of an    *)
(* empty KingdomScanData4 is not true.  UPDATE_ALL has ISNULL(.., 0).      *)
Promoted(e, n) ==
    /\ e \in {"UPDATE_ALL2", "UPDATE_ALL"}
    /\ \A m \in InUse(ks4) : m < n
    /\ InUse(ks4) # {} \/ e = "UPDATE_ALL"

(* The uniqueness constraints of the receipt table and the checks that the *)
(* allocated scan is in neither scan table.                                *)
Unused(s, n) ==
    /\ receipt[digest[s]].scan = 0
    /\ n \notin ReceiptScans
    /\ entry[s] # "IMPORT_STAGING_PROC" => n \notin InUse(ks4) \cup InUse(ks5)

CommitScan(s, n) ==
    LET f == file[s]
        d == digest[s]
    IN
    /\ claim' = [claim EXCEPT ![f].status = "imported"]
    /\ receipt' = [receipt EXCEPT ![d] =
                     [scan |-> n, source |-> f, archived |-> FALSE]]
    /\ ks5' = IF entry[s] \in {"UPDATE_ALL2", "UPDATE_ALL"}
              THEN [ks5 EXCEPT ![n] = staged[s]] ELSE ks5
    /\ ks4' = IF Promoted(entry[s], n) THEN [ks4 EXCEPT ![n] = staged[s]] ELSE ks4

(* Allocation, canonical staging, receipt, claim, KS5, KS4 and COMMIT.  A  *)
(* refused staging, an exhausted scan range, a violated constraint or a    *)
(* claim that is no longer the one read rolls the transaction back.        *)
Commit(s) ==
    LET f == file[s]
        accepted == /\ staged[s] \notin Malformed
                    /\ claim[f] = [status |-> "claimed", digest |-> digest[s]]
    IN
    /\ pc[s] = "commit"
    /\ \/ /\ accepted
          /\ \E n \in Scans : NextScan(n) /\ Unused(s, n) /\ CommitScan(s, n)
          /\ Goto(s, "archiveOpen")
          /\ Forget(s)
          /\ lock' = Nobody
          /\ UNCHANGED file
       \/ /\ ~accepted \/ \A n \in Scans : ~(NextScan(n) /\ Unused(s, n))
          /\ Throw(s)
          /\ UNCHANGED dbVars
    /\ UNCHANGED <<diskVars, calm>>

-----------------------------------------------------------------------------
(* ARCHIVE_IMPORT_STAGING_FILE, one transaction. *)

(* The claim is committed or a duplicate and its digest has the receipt    *)
(* that says so.                                                           *)
Archivable(f) ==
    LET c == claim[f] IN
    /\ c.digest # NoBytes
    /\ \/ /\ c.status \in {"imported", "archived"}
          /\ receipt[c.digest].scan # 0
          /\ receipt[c.digest].source = f
       \/ /\ c.status \in {"duplicate", "duplicate_archived"}
          /\ receipt[c.digest].scan # 0

(* An archive that tells the claim and forgets the receipt. *)
SetClaimArchived(f) ==
    /\ claim' = [claim EXCEPT ![f].status =
                   IF @ \in {"duplicate", "duplicate_archived"}
                   THEN "duplicate_archived" ELSE "archived"]
    /\ UNCHANGED receipt

(* The final status of the claim, and of the receipt of an imported file. *)
SetArchived(f) ==
    LET duplicate == claim[f].status \in {"duplicate", "duplicate_archived"} IN
    /\ claim' = [claim EXCEPT ![f].status =
                   IF duplicate THEN "duplicate_archived" ELSE "archived"]
    /\ receipt' = IF duplicate THEN receipt
                  ELSE [receipt EXCEPT ![claim[f].digest].archived = TRUE]

(* No move is ever taken for one made before. *)
NotReconcilable(f) == FALSE

(* The move was made and the transaction that should record it was lost. *)
Reconcilable(f) ==
    Archivable(f) /\ claimed[f] = NoBytes /\ archive[f] = claim[f].digest

(* The source holds the claimed bytes and the destination is free. *)
Movable(f) ==
    Archivable(f) /\ claimed[f] = claim[f].digest /\ archive[f] = NoBytes

ArchiveOpen(s) ==
    LET f == file[s] IN
    /\ pc[s] = "archiveOpen"
    /\ lock = Nobody
    /\ \/ /\ Reconcilable(f)
          /\ SetArchived(f)
          /\ Return(s)
       \/ /\ Movable(f)
          /\ lock' = s
          /\ digest' = [digest EXCEPT ![s] = claim[f].digest]
          /\ Goto(s, "archiveMove")
          /\ UNCHANGED <<claim, receipt, file, entry, saw, staged>>
       \/ /\ ~Reconcilable(f) /\ ~Movable(f)
          /\ Throw(s)
          /\ UNCHANGED <<claim, receipt>>
    /\ UNCHANGED <<ks4, ks5, diskVars, calm>>

ArchiveMove(s) ==
    LET f == file[s] IN
    /\ pc[s] = "archiveMove"
    /\ archive' = [archive EXCEPT ![f] = claimed[f]]
    /\ claimed' = [claimed EXCEPT ![f] = NoBytes]
    /\ Goto(s, "archiveVerify")
    /\ UNCHANGED <<dbVars, lock, ready, sealed, file, entry, saw, digest, staged, calm>>

(* The destination is hashed again before either status advances. *)
ArchiveVerify(s) ==
    LET f == file[s] IN
    /\ pc[s] = "archiveVerify"
    /\ IF claimed[f] = NoBytes /\ archive[f] = digest[s]
       THEN SetArchived(f) /\ Return(s)
       ELSE Throw(s) /\ UNCHANGED <<claim, receipt>>
    /\ UNCHANGED <<ks4, ks5, diskVars, calm>>

-----------------------------------------------------------------------------
(* The environment. *)

(* The producer renames a closed file to its completed name. *)
Publish(f, b) ==
    /\ ready[f] = NoBytes
    /\ Republish \/ (claimed[f] = NoBytes /\ archive[f] = NoBytes)
    /\ ready' = [ready EXCEPT ![f] = b]
    /\ UNCHANGED <<dbVars, lock, claimed, archive, sealed, sessVars, calm>>

(* A claimed file that is not hardened yet is still open to the producer;  *)
(* a hardened or archived one only to an identity the protocol trusts.     *)
Rewrite(f, b) ==
    /\ \/ /\ ~sealed[f] \/ Tamper
          /\ claimed[f] \notin {NoBytes, b}
          /\ claimed' = [claimed EXCEPT ![f] = b]
          /\ UNCHANGED archive
       \/ /\ Tamper
          /\ archive[f] \notin {NoBytes, b}
          /\ archive' = [archive EXCEPT ![f] = b]
          /\ UNCHANGED claimed
    /\ UNCHANGED <<dbVars, lock, ready, sealed, sessVars, calm>>

(* The connection or the server is lost: no CATCH block runs. *)
Disconnect(s) ==
    /\ ~calm
    /\ pc[s] # "idle"
    /\ Return(s)
    /\ UNCHANGED <<dbVars, diskVars, calm>>

(* A statement or an xp_cmdshell command fails without a reason above, or  *)
(* sp_getapplock gives up after 60 seconds.                                *)
Fault(s) ==
    /\ ~calm
    /\ pc[s] \notin {"idle", "claimCatch"}
    /\ Throw(s)
    /\ UNCHANGED <<dbVars, diskVars, calm>>

CalmDown ==
    /\ ~calm
    /\ calm' = TRUE
    /\ UNCHANGED <<dbVars, lock, diskVars, sessVars>>

-----------------------------------------------------------------------------
ClaimStep(s) ==
    \/ ClaimOpen(s) \/ ProbeReady(s) \/ ProbeClaimed(s) \/ ProbeArchive(s)
    \/ Move(s) \/ Verify(s) \/ Harden(s) \/ Hash(s) \/ Bind(s) \/ ClaimCatch(s)

ImportStep(s) == ImportOpen(s) \/ Load(s) \/ Rehash(s) \/ Commit(s)

ArchiveStep(s) == ArchiveOpen(s) \/ ArchiveMove(s) \/ ArchiveVerify(s)

Step(s) == ClaimStep(s) \/ ImportStep(s) \/ ArchiveStep(s)

Next ==
    \/ \E s \in Sessions :
         \/ Step(s)
         \/ \E f \in Files : CallArchive(s, f) \/ \E e \in Entries : Call(s, f, e)
         \/ Disconnect(s) \/ Fault(s)
    \/ \E f \in Files, b \in Bytes : Publish(f, b) \/ Rewrite(f, b)

Spec == Init /\ [][Next]_vars

(* Every session keeps running and every name is called again until it is   *)
(* closed.  The calls are the bot's, which retries a name it published; a   *)
(* call needs strong fairness because sessions are busy in between.         *)
Fairness ==
    /\ \A s \in Sessions : WF_vars(Step(s))
    /\ \A f \in Files : SF_vars(\E s \in Sessions : Call(s, f, "UPDATE_ALL2"))
    /\ WF_vars(CalmDown)

FairSpec == Init /\ [][Next \/ CalmDown]_vars /\ Fairness

-----------------------------------------------------------------------------
(* Properties. *)

(* No two contents share a scan order, and a scan in KingdomScanData5 holds *)
(* the very bytes whose receipt names it: the hash before and after BULK    *)
(* INSERT, the receipt check and the allocation work together.              *)
OneScanPerContent ==
    /\ \A b, c \in Bytes :
         receipt[b].scan # 0 /\ receipt[b].scan = receipt[c].scan => b = c
    /\ \A n \in Scans : ks5[n] \in Bytes => receipt[ks5[n]].scan = n

(* From the moment a digest is bound, the file is in exactly one of the two *)
(* SQL-owned directories, holds the bound bytes, and is out of the          *)
(* producer's reach.                                                        *)
BoundBytesStay ==
    \A f \in Files :
      claim[f].status \notin {"none", "claiming", "failed"} =>
        /\ {claimed[f], archive[f]} = {claim[f].digest, NoBytes}
        /\ sealed[f]

(* The archived states are evidence: an archived claim owns the receipt of  *)
(* its digest, which says archived too, a closed duplicate points at        *)
(* another name's receipt, and no receipt is archived before its claim.     *)
ArchivedIsEvidence ==
    /\ \A f \in Files :
         LET r == receipt[claim[f].digest] IN
         /\ claim[f].status = "archived" => r.source = f /\ r.archived
         /\ claim[f].status = "duplicate_archived" => r.scan # 0 /\ r.source # f
    /\ \A b \in Bytes : receipt[b].archived =>
         claim[receipt[b].source] = [status |-> "archived", digest |-> b]

(* Why the evidence holds, whoever breaks the file rules.  The mutex is     *)
(* held by the one session between two of its locked steps, so what that    *)
(* session found under it still holds when it writes.                       *)
MutexHeld == \A s \in Sessions : pc[s] \in LockedSteps <=> lock = s

FoundUnderMutex ==
    \A s \in Sessions :
      /\ pc[s] \in {"load", "rehash", "commit"} => receipt[digest[s]].scan = 0
      /\ pc[s] \in {"archiveMove", "archiveVerify"} => Archivable(file[s])

(* Receipts and the claims that own them say the same.                      *)
ReceiptsAreOwned ==
    \A b \in Bytes :
      LET r == receipt[b] IN
      \/ r = NoReceipt
      \/ /\ r.scan # 0
         /\ r.source \in Files
         /\ claim[r.source].digest = b
         /\ claim[r.source].status = IF r.archived THEN "archived" ELSE "imported"

ClaimsAreBacked ==
    \A f \in Files :
      claim[f].status \in {"imported", "archived", "duplicate", "duplicate_archived"}
        => Archivable(f)

(* The scan range only fills up, and receipts never share a scan.           *)
ScansAreUsedOnce ==
    /\ History4 \subseteq InUse(ks4)
    /\ History5 \subseteq InUse(ks5)
    /\ \A b, c \in Bytes :
         receipt[b].scan # 0 /\ receipt[b].scan = receipt[c].scan => b = c

PipelineInvariant ==
    /\ MutexHeld
    /\ FoundUnderMutex
    /\ ReceiptsAreOwned
    /\ ClaimsAreBacked
    /\ ScansAreUsedOnce

(* Why the bytes stay, as long as the producer never reuses a name and      *)
(* nobody rewrites a hardened file.  A file is in one directory at a time,  *)
(* and a hardened one is never lost.                                        *)
RulesKept == ~Republish /\ ~Tamper

OnePlace ==
    \A f \in Files :
      /\ ready[f] # NoBytes => claimed[f] = NoBytes /\ archive[f] = NoBytes
      /\ claimed[f] # NoBytes => archive[f] = NoBytes

SealedIsKept ==
    \A f \in Files : sealed[f] => claimed[f] # NoBytes \/ archive[f] # NoBytes

(* The SQL-owned directories hold exactly the bytes b of the file.          *)
Holds(f, b) ==
    /\ sealed[f]
    /\ \/ claimed[f] = b /\ archive[f] = NoBytes
       \/ claimed[f] = NoBytes /\ archive[f] = b

(* A claim has a digest from its binding on, and it is that of the file.    *)
ClaimsAreHeld ==
    \A f \in Files :
      IF claim[f].status \in {"none", "claiming", "failed"}
      THEN claim[f].digest = NoBytes
      ELSE claim[f].digest \in Bytes /\ Holds(f, claim[f].digest)

(* What a session found is still so when it acts on it: the sealed file it  *)
(* is about to hash, the digest it is about to bind, and under the mutex    *)
(* the claim, the file and the rows that were read from it.                 *)
KnownBySession(s) ==
    LET f == file[s] IN
    /\ pc[s] = "hash" => sealed[f]
    /\ pc[s] = "bind" => Holds(f, digest[s])
    /\ pc[s] \in {"load", "rehash", "commit"} =>
         /\ claim[f] = [status |-> "claimed", digest |-> digest[s]]
         /\ claimed[f] = digest[s]
    /\ pc[s] \in {"rehash", "commit"} => staged[s] = digest[s]
    /\ pc[s] = "archiveMove" => claimed[f] # NoBytes

ScansHaveReceipts == \A n \in Scans : ks5[n] \in Bytes => receipt[ks5[n]].scan = n

RulesInvariant ==
    /\ OnePlace
    /\ SealedIsKept
    /\ ClaimsAreHeld
    /\ \A s \in Sessions : KnownBySession(s)
    /\ ScansHaveReceipts

(* Every scan Phase A adds to KingdomScanData5 is in KingdomScanData4 too,  *)
(* the table all reports read.                                              *)
EveryScanPromoted == \A n \in Scans : ks5[n] \in Bytes => ks4[n] = ks5[n]

(* A claim only advances: what was committed, found to be a duplicate or    *)
(* archived is never taken back by a slower session or its CATCH block.     *)
ClaimAdvances ==
    [][\A f \in Files :
         LET old == claim[f].status
             new == claim'[f].status
         IN
         /\ old = "claimed" => new \in {"claimed", "imported", "duplicate"}
         /\ old = "imported" => new \in {"imported", "archived"}
         /\ old = "duplicate" => new \in {"duplicate", "duplicate_archived"}
         /\ old \in {"archived", "duplicate_archived"} => new = old]_vars

(* The digest a claim was bound to is verified on a later attempt, never    *)
(* replaced.                                                                *)
DigestIsBoundOnce ==
    [][\A f \in Files : claim[f].digest # NoBytes =>
         claim'[f].digest = claim[f].digest]_vars

(* What the pipeline implements, and how its tables are read as a ledger.   *)
ScanOf == [b \in Bytes |-> receipt[b].scan]

AcceptedAs == [b \in Bytes |-> receipt[b].source]

Outcome ==
    [f \in Files |->
       CASE claim[f].status \in {"imported", "archived"} -> "accepted"
         [] claim[f].status = "duplicate_archived" -> "rejected"
         [] OTHER -> "open"]

Ledger == INSTANCE ImportLedger WITH
    FirstScans <- History4 \cup History5,
    scanOf <- ScanOf,
    acceptedAs <- AcceptedAs,
    outcome <- Outcome

(* The pipeline accepts every content at most once, with a fresh scan       *)
(* order, and closes every name at most once, whoever breaks which rule.    *)
ImplementsLedger == Ledger!Spec

(* Once failures stop, a published file is archived, as the source of a     *)
(* scan or as a duplicate: no crash point leaves it stuck.                  *)
EveryFileSettles ==
    \A f \in Files :
      ready[f] # NoBytes ~> claim[f].status \in {"archived", "duplicate_archived"}

=============================================================================
