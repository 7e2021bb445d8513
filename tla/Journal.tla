------------------------------ MODULE Journal ------------------------------
(***************************************************************************)
(* The EVM transaction journal, JournalManager of                          *)
(* internal/wallet/journal.go: the records in memory, the file             *)
(* journal.json and the archive files they are saved to, and the three     *)
(* operations that write them.  Every operation runs under jm.mu, so each  *)
(* is one action.                                                          *)
(*                                                                         *)
(* What is abstracted:                                                     *)
(*  - a transaction hash is the number of its signature, 1, 2, 3, ...  The  *)
(*    slices keep the order of AppendAtomic, so a record's place in a      *)
(*    slice is the order of its hash, and a slice is a function from the   *)
(*    hashes it holds to their records;                                    *)
(*  - recipient, amount, signed bytes and times are fixed by the hash and  *)
(*    left out; Confirmations, FeeETH and Error are left out too, and a    *)
(*    write that changes nothing else is a "touch" of the record.          *)
(*                                                                         *)
(* atomicWriteFile has three outcomes: "ok"; "lost", an error before the   *)
(* rename, which leaves the old file; and "kept", an error after it (the   *)
(* directory sync), which reports failure although the new file is in      *)
(* place.  A process killed inside a write leaves one of the same two      *)
(* files, so Restart after a failed write also stands for that crash.      *)
(***************************************************************************)
EXTENDS Integers, FiniteSets

CONSTANTS
    Quote,        \* quote IDs
    Nonce,        \* account nonces
    MaxTx,        \* bound on the number of signatures
    MaxRecords,   \* capacity of the active journal (1000)
    ArchiveAt,    \* active records from which archiving starts (900)
    KeepLast,     \* newest records that are never archived (100)
    Reported,     \* record states the callers of JournalSpec report
    MaxVersion    \* bound: versions from which records are no longer touched

VARIABLES
    journal,      \* jm.records: [hash -> record]
    archived,     \* jm.archived: [hash -> record]
    disk,         \* journal.json: [hash -> record]
    files,        \* archive-<first>-<last>.json: [<<first, last>> -> [hash -> record]]
    signed,       \* transactions signed so far: the last hash used
    stored        \* history: hashes AppendAtomic acknowledged or a load returned

journalVars == <<journal, archived, disk, files, signed, stored>>

Hash == 1..MaxTx
MinedStates == {"succeeded", "reverted"}
States == MinedStates \cup
    {"pending", "submitted", "broadcast_unknown", "receipt_unavailable",
     "reorg_detected", "replaced"}
Record == [quote : Quote, nonce : Nonce, state : States, final : BOOLEAN, version : Nat]
WriteOutcome == {"ok", "lost", "kept"}

ASSUME BoundAssumption ==
    /\ MaxTx \in Nat
    /\ MaxRecords \in Nat
    /\ ArchiveAt \in Nat
    /\ KeepLast \in Nat \ {0}
    /\ MaxVersion \in Nat
    /\ Reported \subseteq States

----------------------------------------------------------------------------
(* Lookups, over archived and active records alike (forEachRecordLocked).  *)

Known == DOMAIN archived \cup DOMAIN journal
Rec(h) == IF h \in DOMAIN archived THEN archived[h] ELSE journal[h]

NonceRecords(n) == {h \in Known : Rec(h).nonce = n}
NonceMined(n) == \E h \in NonceRecords(n) : Rec(h).state \in MinedStates
\* Mutant: only a transaction the network accepted counts as in flight.
HasInFlightTx_SubmittedOnly ==
    \E h \in Known : Rec(h).state = "submitted" /\ ~NonceMined(Rec(h).nonce)

HasInFlightTx == \E h \in Known : ~NonceMined(Rec(h).nonce)
\* Mutant: a nonce counts as finalized as soon as it is mined.
FinalizedNonce_Mined(n) == \E h \in NonceRecords(n) : Rec(h).state \in MinedStates

FinalizedNonce(n) ==
    \E h \in NonceRecords(n) : Rec(h).final /\ Rec(h).state \in MinedStates

\* Mutant: a record that was found mined is not asked about again.
RefreshItems_OpenOnly ==
    [h \in {k \in DOMAIN journal :
                journal[k].state \notin MinedStates /\ ~FinalizedNonce(journal[k].nonce)}
        |-> journal[h].version]

\* The records a refresh asks the chain about, each with the version it had.
RefreshItems ==
    [h \in {k \in DOMAIN journal :
                ~journal[k].final /\ ~FinalizedNonce(journal[k].nonce)}
        |-> journal[h].version]

----------------------------------------------------------------------------
(* Writes. *)

Put(f, h, r) == [k \in DOMAIN f \cup {h} |-> IF k = h THEN r ELSE f[k]]
Only(f, S) == [k \in S |-> f[k]]

\* atomicSave: the whole journal replaces the file, unless the write is lost.
\* Memory follows only a save that reported success.
atomicSave(records, outcome) ==
    /\ disk' = IF outcome = "lost" THEN disk ELSE records
    /\ journal' = IF outcome = "ok" THEN records ELSE journal

\* AppendAtomic of a freshly signed transaction; a full journal refuses it.
AppendAtomic(quote, nonce, outcome) ==
    LET h == signed + 1
        record == [quote |-> quote, nonce |-> nonce, state |-> "pending",
                   final |-> FALSE, version |-> 1]
    IN  /\ h \in Hash
        /\ signed' = h
        /\ Cardinality(DOMAIN journal) < MaxRecords
        /\ atomicSave(Put(journal, h, record), outcome)
        /\ stored' = IF outcome = "ok" THEN stored \cup {h} ELSE stored
        /\ UNCHANGED <<archived, files>>

\* The states in which only Confirmations, FeeETH or Error may change.
Touchable(state) == state \in MinedStates \cup {"broadcast_unknown"}

\* UpdateStateAtomicIfVersion.  Beside the outcomes of its write it reports
\* "missing" (no active record has the hash), "stale" (the version moved on)
\* and "same" (nothing to write).
UpdateStateAtomicIfVersion(h, version, state, final, outcome) ==
    LET current == journal[h]
        unchanged == current.state = state /\ current.final = final
    IN  /\ UNCHANGED <<archived, files, signed, stored>>
        /\ \/ /\ h \notin DOMAIN journal
              /\ outcome = "missing"
              /\ UNCHANGED <<journal, disk>>
           \/ /\ h \in DOMAIN journal
              /\ current.version # version
              /\ outcome = "stale"
              /\ UNCHANGED <<journal, disk>>
           \/ /\ h \in DOMAIN journal
              /\ current.version = version
              /\ unchanged
              /\ outcome = "same"
              /\ UNCHANGED <<journal, disk>>
           \/ /\ h \in DOMAIN journal
              /\ current.version = version
              /\ unchanged => Touchable(state) /\ version < MaxVersion
              /\ outcome \in WriteOutcome
              /\ atomicSave(Put(journal, h,
                                [current EXCEPT !.state = state, !.final = final,
                                                !.version = version + 1]),
                            outcome)

UpdateOutcome == WriteOutcome \cup {"missing", "stale", "same"}

\* Mutant: an answer that comes after the record moved on counts as a failed write.
UpdateError_Stale == {"lost", "kept", "missing", "stale"}

UpdateError == {"lost", "kept", "missing"}

\* The records ArchiveFinalized takes: outside the KeepLast newest, and final
\* or beaten to their nonce by a final one.
NotAmongLast(h) == Cardinality({k \in DOMAIN journal : k > h}) >= KeepLast
ArchiveSet ==
    {h \in DOMAIN journal :
        NotAmongLast(h) /\ (journal[h].final \/ FinalizedNonce(journal[h].nonce))}
\* Mutant: a replaced record is archived without being marked final.
ArchiveRecord_NotFinal(r) == IF r.final THEN r ELSE [r EXCEPT !.state = "replaced"]

ArchiveRecord(r) ==
    IF r.final THEN r ELSE [r EXCEPT !.final = TRUE, !.state = "replaced"]

First(S) == CHOOSE h \in S : \A k \in S : h <= k
Last(S) == CHOOSE h \in S : \A k \in S : k <= h
\* Mutant: the archive is named after the journal's first record.
ArchiveName_JournalFirst(S) == <<First(DOMAIN journal), Last(S)>>

ArchiveName(S) == <<First(S), Last(S)>>

Archives == Cardinality(DOMAIN journal) >= ArchiveAt /\ ArchiveSet # {}

\* Mutant: the journal is shortened before the archive file is written.
ArchiveFinalized_JournalFirst(fileOutcome, outcome) ==
    LET content == [h \in ArchiveSet |-> ArchiveRecord(journal[h])]
    IN  /\ Archives
        /\ outcome # "ok" => fileOutcome = "lost"
        /\ atomicSave(Only(journal, DOMAIN journal \ ArchiveSet), outcome)
        /\ files' = IF fileOutcome = "lost" THEN files
                    ELSE Put(files, ArchiveName(ArchiveSet), content)
        /\ archived' = archived
        /\ UNCHANGED <<signed, stored>>

\* ArchiveFinalized when there is something to archive.  The archive file is
\* written first (fileOutcome), then the shortened journal (outcome), and only
\* if both report success does memory follow.
ArchiveFinalized(fileOutcome, outcome) ==
    LET content == [h \in ArchiveSet |-> ArchiveRecord(journal[h])]
        name == ArchiveName(ArchiveSet)
        keep == Only(journal, DOMAIN journal \ ArchiveSet)
    IN  /\ Archives
        /\ fileOutcome # "ok" => outcome = "lost"
        /\ files' = IF fileOutcome = "lost" THEN files ELSE Put(files, name, content)
        /\ atomicSave(keep, outcome)
        /\ archived' = IF outcome = "ok"
                       THEN [h \in DOMAIN archived \cup ArchiveSet |->
                                IF h \in ArchiveSet THEN content[h] ELSE archived[h]]
                       ELSE archived
        /\ UNCHANGED <<signed, stored>>

----------------------------------------------------------------------------
(* Loading: NewJournalManager after the process was killed.                *)

FileHashes == UNION {DOMAIN files[n] : n \in DOMAIN files}

ArchivedRecords == UNION {{files[n][h] : h \in DOMAIN files[n]} : n \in DOMAIN files}

\* load refuses an oversized file, loadArchives an archived record that is
\* not finalized.
Loadable ==
    /\ Cardinality(DOMAIN disk) <= MaxRecords
    /\ \A n \in DOMAIN files : \A h \in DOMAIN files[n] : files[n][h].final

\* Mutant: an archived record is loaded although the active file has it.
LoadArchives_Twice ==
    /\ archived' \in [FileHashes -> ArchivedRecords]
    /\ \A h \in FileHashes :
          \E n \in DOMAIN files : h \in DOMAIN files[n] /\ archived'[h] = files[n][h]

\* Mutant: the archives are not loaded.
LoadArchives_Skipped == archived' = [h \in {} |-> {}]

\* The active file wins over an archive; among archives, the first file in
\* name order, which says nothing about which was written first.
LoadArchives ==
    /\ archived' \in [FileHashes \ DOMAIN disk -> ArchivedRecords]
    /\ \A h \in DOMAIN archived' :
          \E n \in DOMAIN files : h \in DOMAIN files[n] /\ archived'[h] = files[n][h]

Load ==
    /\ Loadable
    /\ journal' = disk
    /\ LoadArchives
    /\ stored' = stored \cup DOMAIN disk \cup FileHashes
    /\ UNCHANGED <<disk, files, signed>>

----------------------------------------------------------------------------
(* The journal on its own: callers may report any state of Reported with   *)
(* either finality for any record, at the version they read or an older    *)
(* one, and go on after a failed write; the process may be killed between  *)
(* any two operations.                                                     *)

NoRecords == [h \in {} |-> {}]

JournalInit ==
    /\ journal = NoRecords
    /\ archived = NoRecords
    /\ disk = NoRecords
    /\ files = NoRecords
    /\ signed = 0
    /\ stored = {}

CallerAppend ==
    \E q \in Quote, n \in Nonce, outcome \in WriteOutcome : AppendAtomic(q, n, outcome)

CallerUpdate ==
    \E h \in Hash, v \in 1..MaxVersion, s \in Reported, f \in BOOLEAN,
       outcome \in UpdateOutcome :
        UpdateStateAtomicIfVersion(h, v, s, f, outcome)

CallerArchive ==
    \E fileOutcome, outcome \in WriteOutcome : ArchiveFinalized(fileOutcome, outcome)

JournalNext == CallerAppend \/ CallerUpdate \/ CallerArchive \/ Load

JournalSpec == JournalInit /\ [][JournalNext]_journalVars

----------------------------------------------------------------------------
(* Properties.                                                             *)

\* What the journal holds is well formed: hashes were signed, an archive file
\* is named after records it holds.
JournalTypeOK ==
    /\ \A f \in {journal, archived, disk} :
          DOMAIN f \subseteq 1..signed /\ f \in [DOMAIN f -> Record]
    /\ files = [n \in DOMAIN files |-> files[n]]
    /\ \A n \in DOMAIN files :
          /\ n \in Hash \X Hash
          /\ n[1] \in DOMAIN files[n]
          /\ DOMAIN files[n] \subseteq 1..signed
          /\ files[n] \in [DOMAIN files[n] -> Record]
    /\ signed \in 0..MaxTx
    /\ stored \subseteq 1..signed

\* "A crash can leave duplicates, never a gap" (journal.go, loadArchives):
\* whatever writes fail and wherever the process is killed, every record that
\* AppendAtomic acknowledged is in journal.json or in an archive file.
NeverAGap == stored \subseteq DOMAIN disk \cup FileHashes

\* The two parts of SeenOnce: no record is active and archived at once, and
\* none that was acknowledged is in neither place.
OnceInMemory == DOMAIN journal \cap DOMAIN archived = {}
NothingForgotten == stored \subseteq Known

\* FindByHash and the nonce counters see every acknowledged record exactly once:
\* neither the operations nor a reload forget it, and it is active or archived,
\* never both, although a crash may leave it in both files.
SeenOnce == OnceInMemory /\ NothingForgotten

\* Whatever is on disk can be loaded again: no sequence of failed writes
\* leaves files that NewJournalManager refuses.
AlwaysLoadable == Loadable
=============================================================================
