--------------------------- MODULE EvmWalletProofs ---------------------------
(***************************************************************************)
(* Proofs about modules Journal and EvmWallet, for any number of           *)
(* transactions, quotes, faults and archiving thresholds, in five parts.   *)
(*   JournalInv: the journal alone, under any callers: no acknowledged     *)
(*               record is lost, and the files always load again.          *)
(*   WalletInv:  the types; whatever was broadcast is on disk, and a       *)
(*               wallet without a storage fault knows what its disk knows. *)
(*   TruthInv:   a copy of a record that says its nonce is settled, in     *)
(*               memory or in any file, tells the truth about the chain.   *)
(*   AloneInv:   beyond the nonces that reorganizations opened again, the  *)
(*               open transactions share one.                              *)
(*   LedgerInv:  every step of the wallet is a step of PaymentLedger, or   *)
(*               changes nothing the ledger shows.                         *)
(* Every step of the wallet is a step of its journal or leaves it alone,   *)
(* so the second part rests on the first; each of the others rests on      *)
(* those before it.                                                        *)
(***************************************************************************)
EXTENDS MCEvmWallet, FiniteSetTheorems, TLAPS

----------------------------------------------------------------------------
(* What any caller may do, whatever state and version it reports: the      *)
(* callers of JournalSpec, and those of module EvmWallet.                  *)

AnyUpdate ==
    \E h \in Hash, v \in Nat, s \in States, f \in BOOLEAN, outcome \in UpdateOutcome :
        UpdateStateAtomicIfVersion(h, v, s, f, outcome)

JournalStep == CallerAppend \/ AnyUpdate \/ CallerArchive \/ Load

LEMMA CallersStep == JournalNext => JournalStep
<1>1. 1..MaxVersion \subseteq Nat /\ Reported \subseteq States
    BY BoundAssumption DEF BoundAssumption
<1>2. CallerUpdate => AnyUpdate
    BY <1>1 DEF CallerUpdate, AnyUpdate
<1> QED
    BY <1>2 DEF JournalNext, JournalStep

----------------------------------------------------------------------------
(* The first and last hash of an archive are hashes of that archive.       *)

LEMMA LessWellFounded == IsWellFoundedOn({p \in Nat \X Nat : p[1] < p[2]}, Nat)
    BY NatLessThanWellFounded DEF OpToRel

LEMMA LeastElement ==
    ASSUME NEW S, S \subseteq Nat, S # {}
    PROVE  \E x \in S : \A y \in S : x <= y
<1>1. PICK x \in S : \A y \in S : ~ (<<y, x>> \in {p \in Nat \X Nat : p[1] < p[2]})
    BY LessWellFounded, WFMin
<1>2. ASSUME NEW y \in S PROVE x <= y
    <2>1. x \in Nat /\ y \in Nat
        OBVIOUS
    <2>2. ~ (<<y, x>> \in {p \in Nat \X Nat : p[1] < p[2]})
        BY <1>1
    <2>3. ~ (y < x)
        BY <2>1, <2>2
    <2> QED
        BY <2>1, <2>3
<1> QED
    BY <1>2

LEMMA FirstInSet ==
    ASSUME NEW S, S \subseteq Nat, S # {}
    PROVE  First(S) \in S
    BY LeastElement DEF First

LEMMA LastInSet ==
    ASSUME NEW n \in Nat, NEW S, S \subseteq 1..n, S # {}
    PROVE  Last(S) \in S
<1>1. {n - x : x \in S} \subseteq Nat /\ {n - x : x \in S} # {}
    <2>1. \A x \in S : n - x \in Nat
        OBVIOUS
    <2> QED
        BY <2>1
<1>2. \E y \in {n - x : x \in S} : \A z \in {n - x : x \in S} : y <= z
    BY <1>1, LeastElement
<1>3. \E x \in S : \A k \in S : n - x <= n - k
    BY <1>2
<1>4. \E x \in S : \A k \in S : k <= x
    BY <1>3
<1> QED
    BY <1>4 DEF Last

----------------------------------------------------------------------------
(* Type correctness. *)

USE DEF Hash

LEMMA SavedRecords ==
    ASSUME JournalTypeOK, NEW records, NEW outcome \in WriteOutcome,
           DOMAIN records \subseteq 1..signed',
           records \in [DOMAIN records -> Record],
           signed' \in 0..MaxTx, signed' >= signed,
           atomicSave(records, outcome)
    PROVE  \A f \in {journal', disk'} :
              DOMAIN f \subseteq 1..signed' /\ f \in [DOMAIN f -> Record]
<1>1. 1..signed \subseteq 1..signed'
    BY DEF JournalTypeOK
<1> QED
    BY <1>1 DEF atomicSave, JournalTypeOK

LEMMA AppendType ==
    ASSUME JournalTypeOK,
           NEW q \in Quote, NEW n \in Nonce, NEW outcome \in WriteOutcome,
           AppendAtomic(q, n, outcome)
    PROVE  JournalTypeOK'
<1> DEFINE h == signed + 1
           r == [quote |-> q, nonce |-> n, state |-> "pending", final |-> FALSE, version |-> 1]
<1>1. signed' = h /\ h \in 1..MaxTx /\ signed \in Nat
    BY DEF AppendAtomic, JournalTypeOK
<1>2. 1..signed \subseteq 1..signed' /\ h \in 1..signed'
    BY <1>1
<1>3. r \in Record
    BY DEF Record, States
<1>4. /\ DOMAIN Put(journal, h, r) \subseteq 1..signed'
      /\ Put(journal, h, r) \in [DOMAIN Put(journal, h, r) -> Record]
    BY <1>1, <1>2, <1>3 DEF Put, JournalTypeOK
<1>5. atomicSave(Put(journal, h, r), outcome)
    BY DEF AppendAtomic
<1>6. \A f \in {journal', disk'} : DOMAIN f \subseteq 1..signed' /\ f \in [DOMAIN f -> Record]
    <2> DEFINE records == Put(journal, h, r)
    <2>1. signed' \in 0..MaxTx /\ signed' >= signed
        BY <1>1
    <2>2. /\ DOMAIN records \subseteq 1..signed' /\ records \in [DOMAIN records -> Record]
          /\ atomicSave(records, outcome)
        BY <1>4, <1>5
    <2> HIDE DEF records
    <2> QED
        BY <2>1, <2>2, SavedRecords
<1>7. archived' = archived /\ files' = files /\ stored' \subseteq stored \cup {h}
    BY DEF AppendAtomic
<1> QED
    BY <1>1, <1>2, <1>6, <1>7 DEF JournalTypeOK

\* Setting one field of a record; the provers take one EXCEPT at a time.
LEMMA SetState ==
    ASSUME NEW r \in Record, NEW s \in States PROVE [r EXCEPT !.state = s] \in Record
    BY DEF Record

LEMMA SetFinal ==
    ASSUME NEW r \in Record, NEW f \in BOOLEAN PROVE [r EXCEPT !.final = f] \in Record
    BY DEF Record

LEMMA SetVersion ==
    ASSUME NEW r \in Record, NEW v \in Nat PROVE [r EXCEPT !.version = v] \in Record
    BY DEF Record

LEMMA UpdatedRecord ==
    ASSUME NEW r \in Record, NEW v \in Nat, NEW s \in States, NEW f \in BOOLEAN
    PROVE  [r EXCEPT !.state = s, !.final = f, !.version = v + 1] \in Record
<1>1. [r EXCEPT !.state = s, !.final = f, !.version = v + 1]
        = [[[r EXCEPT !.state = s] EXCEPT !.final = f] EXCEPT !.version = v + 1]
    OBVIOUS
<1>2. v + 1 \in Nat
    OBVIOUS
<1> QED
    BY <1>1, <1>2, SetState, SetFinal, SetVersion

LEMMA UpdateType ==
    ASSUME JournalTypeOK,
           NEW h, NEW v \in Nat, NEW s \in States, NEW f \in BOOLEAN, NEW outcome,
           UpdateStateAtomicIfVersion(h, v, s, f, outcome)
    PROVE  JournalTypeOK'
<1> DEFINE r == [journal[h] EXCEPT !.state = s, !.final = f, !.version = v + 1]
<1>1. UNCHANGED <<archived, files, signed, stored>>
    BY DEF UpdateStateAtomicIfVersion
<1>2. CASE UNCHANGED <<journal, disk>>
    BY <1>1, <1>2 DEF JournalTypeOK, FileHashes
<1>3. CASE /\ h \in DOMAIN journal
           /\ outcome \in WriteOutcome
           /\ atomicSave(Put(journal, h, r), outcome)
    <2>1. journal[h] \in Record
        BY <1>3 DEF JournalTypeOK
    <2>2. r \in Record
        BY <2>1, UpdatedRecord
    <2>3. /\ DOMAIN Put(journal, h, r) \subseteq 1..signed'
          /\ Put(journal, h, r) \in [DOMAIN Put(journal, h, r) -> Record]
        BY <1>1, <1>3, <2>2 DEF Put, JournalTypeOK
    <2>4. signed' \in 0..MaxTx /\ signed' >= signed
        BY <1>1 DEF JournalTypeOK
    <2>5. \A g \in {journal', disk'} :
              DOMAIN g \subseteq 1..signed' /\ g \in [DOMAIN g -> Record]
        BY <1>3, <2>3, <2>4, SavedRecords
    <2> QED
        BY <1>1, <2>5 DEF JournalTypeOK
<1> QED
    BY <1>2, <1>3 DEF UpdateStateAtomicIfVersion

LEMMA ArchiveType ==
    ASSUME JournalTypeOK,
           NEW fileOutcome \in WriteOutcome, NEW outcome \in WriteOutcome,
           ArchiveFinalized(fileOutcome, outcome)
    PROVE  JournalTypeOK'
<1> DEFINE content == [h \in ArchiveSet |-> ArchiveRecord(journal[h])]
           keep == Only(journal, DOMAIN journal \ ArchiveSet)
           name == ArchiveName(ArchiveSet)
<1>1. ArchiveSet \subseteq DOMAIN journal /\ ArchiveSet # {} /\ ArchiveSet \subseteq 1..signed
    BY DEF ArchiveFinalized, Archives, ArchiveSet, JournalTypeOK
<1>2. name[1] \in ArchiveSet /\ name[2] \in ArchiveSet /\ name \in (1..MaxTx) \X (1..MaxTx)
    <2>1. signed \in Nat /\ 1..signed \subseteq 1..MaxTx /\ 1..signed \subseteq Nat
        BY BoundAssumption DEF JournalTypeOK, BoundAssumption
    <2>2. First(ArchiveSet) \in ArchiveSet
        BY <1>1, <2>1, FirstInSet
    <2>3. Last(ArchiveSet) \in ArchiveSet
        BY <1>1, <2>1, LastInSet
    <2> QED
        BY <1>1, <2>1, <2>2, <2>3 DEF ArchiveName
<1>3. content \in [ArchiveSet -> Record]
    <2>1. ASSUME NEW h \in ArchiveSet PROVE ArchiveRecord(journal[h]) \in Record
        <3>1. journal[h] \in Record
            BY <1>1 DEF JournalTypeOK
        <3> QED
            BY <3>1 DEF ArchiveRecord, Record, States
    <2> QED
        BY <2>1
<1>4. UNCHANGED <<signed, stored>>
    BY DEF ArchiveFinalized
<1>5. \A f \in {journal', disk'} : DOMAIN f \subseteq 1..signed' /\ f \in [DOMAIN f -> Record]
    <2>1. DOMAIN keep \subseteq 1..signed' /\ keep \in [DOMAIN keep -> Record]
        BY <1>4 DEF Only, JournalTypeOK
    <2>2. signed' \in 0..MaxTx /\ signed' >= signed
        BY <1>4 DEF JournalTypeOK
    <2>3. atomicSave(keep, outcome)
        BY DEF ArchiveFinalized
    <2> QED
        BY <2>1, <2>2, <2>3, SavedRecords
<1>6. DOMAIN archived' \subseteq 1..signed' /\ archived' \in [DOMAIN archived' -> Record]
    BY <1>1, <1>3, <1>4 DEF ArchiveFinalized, JournalTypeOK
<1>7. /\ files' = [n \in DOMAIN files' |-> files'[n]]
      /\ \A n \in DOMAIN files' :
          /\ n \in (1..MaxTx) \X (1..MaxTx)
          /\ n[1] \in DOMAIN files'[n]
          /\ DOMAIN files'[n] \subseteq 1..signed'
          /\ files'[n] \in [DOMAIN files'[n] -> Record]
    <2>1. CASE files' = files
        BY <2>1, <1>4 DEF JournalTypeOK
    <2>2. CASE files' = Put(files, name, content)
        <3>1. /\ DOMAIN files' = DOMAIN files \cup {name}
              /\ files'[name] = content
              /\ \A n \in DOMAIN files : n # name => files'[n] = files[n]
              /\ files' = [n \in DOMAIN files' |-> files'[n]]
            BY <2>2 DEF Put
        <3>2. DOMAIN content = ArchiveSet
            OBVIOUS
        <3> QED
            BY <3>1, <3>2, <1>1, <1>2, <1>3, <1>4 DEF JournalTypeOK
    <2> QED
        BY <2>1, <2>2 DEF ArchiveFinalized
<1> QED
    BY <1>4, <1>5, <1>6, <1>7 DEF JournalTypeOK

LEMMA LoadType ==
    ASSUME JournalTypeOK, Load
    PROVE  JournalTypeOK'
<1>1. FileHashes \subseteq 1..signed /\ ArchivedRecords \subseteq Record
    BY DEF FileHashes, ArchivedRecords, JournalTypeOK
<1>2. archived' \in [FileHashes \ DOMAIN disk -> ArchivedRecords]
    BY DEF Load, LoadArchives
<1>3. DOMAIN archived' \subseteq 1..signed /\ archived' \in [DOMAIN archived' -> Record]
    BY <1>1, <1>2
<1> QED
    BY <1>1, <1>3 DEF Load, JournalTypeOK

LEMMA TypeKept == JournalTypeOK /\ [JournalStep]_journalVars => JournalTypeOK'
<1> SUFFICES ASSUME JournalTypeOK, [JournalStep]_journalVars PROVE JournalTypeOK'
    OBVIOUS
<1>1. CASE CallerAppend
    BY <1>1, AppendType DEF CallerAppend
<1>2. CASE AnyUpdate
    BY <1>2, BoundAssumption, UpdateType DEF AnyUpdate, BoundAssumption
<1>3. CASE CallerArchive
    BY <1>3, ArchiveType DEF CallerArchive
<1>4. CASE Load
    BY <1>4, LoadType
<1>5. CASE UNCHANGED journalVars
    BY <1>5 DEF journalVars, JournalTypeOK
<1> QED
    BY <1>1, <1>2, <1>3, <1>4, <1>5 DEF JournalStep

\* Whatever callers ask and whichever writes fail, records keep their shape,
\* hashes are signed ones, and an archive file holds the record it is named
\* after.
THEOREM JournalTypeCorrect == JournalSpec => []JournalTypeOK
<1>1. JournalInit => JournalTypeOK
    BY BoundAssumption DEF JournalInit, NoRecords, JournalTypeOK, BoundAssumption
<1>2. JournalTypeOK /\ [JournalNext]_journalVars => JournalTypeOK'
    BY CallersStep, TypeKept
<1> QED
    BY <1>1, <1>2, PTL DEF JournalSpec

----------------------------------------------------------------------------
(* Never a gap.  A record that left a slice must be in a file that can no  *)
(* longer be overwritten: an archive file is overwritten only by one with  *)
(* its name, so one whose first record is active.  The hard case is a      *)
(* shortened journal.json whose directory sync failed: memory still holds  *)
(* the archived records, and the next archive overwrites the only file     *)
(* that has them -- with the same records, because nothing changed memory. *)

FiledApart(h, S) == \E n \in DOMAIN files : h \in DOMAIN files[n] /\ n[1] \notin S

Held(h, S) == h \in S \/ FiledApart(h, S)

\* Memory has nothing the file lacks, except right after an archiving whose
\* last write reported an error although it took place.
Mirrored ==
    \/ DOMAIN journal \subseteq DOMAIN disk
    \/ /\ ArchiveName(ArchiveSet) \in DOMAIN files
       /\ DOMAIN files[ArchiveName(ArchiveSet)] = ArchiveSet
       /\ DOMAIN disk = DOMAIN journal \ ArchiveSet

AllHeld == \A h \in stored : Held(h, DOMAIN journal) /\ Held(h, DOMAIN disk)

\* What memory and the archive files hold was acknowledged, by an append or by
\* a load.  Only journal.json may hold more: an append that reported an error.
Acknowledged == DOMAIN journal \subseteq stored /\ FileHashes \subseteq stored

GapInv == JournalTypeOK /\ Mirrored /\ AllHeld /\ Acknowledged

LEMMA ArchiveSetStable ==
    ASSUME journal' = journal, archived' = archived
    PROVE  ArchiveSet' = ArchiveSet /\ ArchiveName(ArchiveSet)' = ArchiveName(ArchiveSet)
    BY DEF ArchiveSet, NotAmongLast, FinalizedNonce, NonceRecords, Known, Rec, ArchiveName,
           First, Last

LEMMA AppendGap ==
    ASSUME GapInv, NEW q \in Quote, NEW n \in Nonce, NEW outcome \in WriteOutcome,
           AppendAtomic(q, n, outcome)
    PROVE  Mirrored' /\ AllHeld' /\ Acknowledged'
<1> DEFINE h == signed + 1
           r == [quote |-> q, nonce |-> n, state |-> "pending", final |-> FALSE, version |-> 1]
<1>1. atomicSave(Put(journal, h, r), outcome) /\ UNCHANGED <<archived, files>>
    BY DEF AppendAtomic
<1>2. DOMAIN Put(journal, h, r) = DOMAIN journal \cup {h}
    BY DEF Put
<1>3. \A m \in DOMAIN files : m[1] # h
    BY DEF GapInv, JournalTypeOK
<1>4. Mirrored'
    <2>1. CASE outcome = "lost"
        <3>1. UNCHANGED <<journal, disk, archived, files>>
            BY <1>1, <2>1 DEF atomicSave
        <3> QED
            BY <3>1, ArchiveSetStable DEF GapInv, Mirrored
    <2>2. CASE outcome # "lost"
        <3>1. DOMAIN disk' = DOMAIN journal \cup {h} /\ DOMAIN journal' \subseteq DOMAIN journal \cup {h}
            BY <1>1, <1>2, <2>2 DEF atomicSave
        <3> QED
            BY <3>1 DEF Mirrored
    <2> QED
        BY <2>1, <2>2
<1>5. AllHeld'
    <2>1. ASSUME NEW k, NEW S, NEW T, Held(k, S), T \in {S, S \cup {h}}
          PROVE  Held(k, T)'
        BY <2>1, <1>1, <1>3 DEF Held, FiledApart
    <2>2. /\ DOMAIN journal' \in {DOMAIN journal, DOMAIN journal \cup {h}}
          /\ DOMAIN disk' \in {DOMAIN disk, DOMAIN journal \cup {h}}
        BY <1>1, <1>2 DEF atomicSave
    <2>3. \A k \in stored : Held(k, DOMAIN journal)' /\ Held(k, DOMAIN disk)'
        BY <2>1, <2>2 DEF GapInv, AllHeld
    <2>4. CASE outcome = "ok"
        <3>1. h \in DOMAIN journal' /\ h \in DOMAIN disk' /\ stored' = stored \cup {h}
            BY <1>1, <1>2, <2>4 DEF atomicSave, AppendAtomic
        <3> QED
            BY <2>3, <3>1 DEF AllHeld, Held
    <2>5. CASE outcome # "ok"
        <3>1. stored' = stored
            BY <2>5 DEF AppendAtomic
        <3> QED
            BY <2>3, <3>1 DEF AllHeld
    <2> QED
        BY <2>4, <2>5
<1>6. Acknowledged'
    <2>1. FileHashes' = FileHashes
        BY <1>1 DEF FileHashes
    <2>2. DOMAIN journal' = IF outcome = "ok" THEN DOMAIN journal \cup {h} ELSE DOMAIN journal
        BY <1>1, <1>2 DEF atomicSave
    <2>3. stored' = IF outcome = "ok" THEN stored \cup {h} ELSE stored
        BY DEF AppendAtomic
    <2> QED
        BY <2>1, <2>2, <2>3 DEF GapInv, Acknowledged
<1> QED
    BY <1>4, <1>5, <1>6

LEMMA UpdateGap ==
    ASSUME GapInv, NEW h, NEW v, NEW s, NEW f, NEW outcome,
           UpdateStateAtomicIfVersion(h, v, s, f, outcome)
    PROVE  Mirrored' /\ AllHeld' /\ Acknowledged'
<1> DEFINE r == [journal[h] EXCEPT !.state = s, !.final = f, !.version = v + 1]
<1>1. UNCHANGED <<archived, files, signed, stored>>
    BY DEF UpdateStateAtomicIfVersion
<1>2. CASE UNCHANGED <<journal, disk>>
    <2>1. Mirrored'
        BY <1>1, <1>2, ArchiveSetStable DEF GapInv, Mirrored
    <2>2. AllHeld' /\ Acknowledged'
        BY <1>1, <1>2 DEF GapInv, AllHeld, Held, FiledApart, Acknowledged, FileHashes
    <2> QED
        BY <2>1, <2>2
<1>3. CASE h \in DOMAIN journal /\ atomicSave(Put(journal, h, r), outcome)
    <2>1. DOMAIN Put(journal, h, r) = DOMAIN journal
        BY <1>3 DEF Put
    <2>2. CASE outcome = "lost"
        <3>1. UNCHANGED <<journal, disk>>
            BY <1>3, <2>2 DEF atomicSave
        <3> QED
            BY <3>1, <1>2
    <2>3. CASE outcome # "lost"
        <3>1. DOMAIN disk' = DOMAIN journal /\ DOMAIN journal' = DOMAIN journal
            BY <1>3, <2>1, <2>3 DEF atomicSave
        <3> QED
            BY <1>1, <3>1 DEF GapInv, Mirrored, AllHeld, Held, FiledApart, Acknowledged, FileHashes
    <2> QED
        BY <2>2, <2>3
<1> QED
    BY <1>2, <1>3 DEF UpdateStateAtomicIfVersion

LEMMA ArchiveGap ==
    ASSUME GapInv, NEW fileOutcome \in WriteOutcome, NEW outcome \in WriteOutcome,
           ArchiveFinalized(fileOutcome, outcome)
    PROVE  Mirrored' /\ AllHeld' /\ Acknowledged'
<1> DEFINE A == ArchiveSet
           name == ArchiveName(ArchiveSet)
           content == [h \in ArchiveSet |-> ArchiveRecord(journal[h])]
           keep == Only(journal, DOMAIN journal \ ArchiveSet)
<1>1. A \subseteq DOMAIN journal /\ A # {} /\ A \subseteq Nat
    BY DEF ArchiveFinalized, Archives, ArchiveSet, GapInv, JournalTypeOK
<1>2. name[1] \in A
    BY <1>1, FirstInSet DEF ArchiveName
<1>3. DOMAIN keep = DOMAIN journal \ A /\ DOMAIN content = A
    BY DEF Only
<1>4. stored' = stored /\ atomicSave(keep, outcome)
    BY DEF ArchiveFinalized
<1>5. CASE fileOutcome = "lost"
    <2>1. UNCHANGED <<journal, disk, archived, files>>
        BY <1>5 DEF ArchiveFinalized, atomicSave
    <2> QED
        BY <1>4, <2>1, ArchiveSetStable DEF GapInv, Mirrored, AllHeld, Held, FiledApart,
                                            Acknowledged, FileHashes
<1>6. CASE fileOutcome # "lost"
    <2>1. /\ name \in DOMAIN files' /\ DOMAIN files'[name] = A
          /\ \A n \in DOMAIN files : n \in DOMAIN files' /\ (n # name => files'[n] = files[n])
        BY <1>3, <1>6 DEF ArchiveFinalized, Put
    <2>2. Acknowledged'
        <3>1. DOMAIN journal' \subseteq DOMAIN journal
            BY <1>3, <1>4 DEF atomicSave
        <3>2. FileHashes' \subseteq FileHashes \cup A
            BY <1>3, <1>6 DEF ArchiveFinalized, Put, FileHashes
        <3> QED
            BY <1>1, <1>4, <3>1, <3>2 DEF GapInv, Acknowledged
    <2>3. ASSUME NEW h \in stored PROVE \/ h \in DOMAIN journal
                                        \/ \E n \in DOMAIN files' : /\ h \in DOMAIN files'[n]
                                                                   /\ n[1] \notin DOMAIN journal
        BY <1>1, <1>2, <2>1, <2>3 DEF GapInv, AllHeld, Held, FiledApart
    <2>4. ASSUME NEW h \in stored PROVE \/ h \in DOMAIN journal \ A
                                        \/ \E n \in DOMAIN files' : /\ h \in DOMAIN files'[n]
                                                                   /\ n[1] \notin DOMAIN journal \ A
        BY <1>2, <2>1, <2>3
    <2>5. CASE outcome = "lost"
        <3>1. journal' = journal /\ disk' = disk /\ archived' = archived
            BY <1>4, <2>5 DEF atomicSave, ArchiveFinalized
        <3>2. Mirrored'
            BY <2>1, <3>1, ArchiveSetStable DEF GapInv, Mirrored
        <3>3. ASSUME NEW h \in stored PROVE Held(h, DOMAIN disk)'
            <4>1. CASE DOMAIN journal \subseteq DOMAIN disk
                <5>1. name[1] \in DOMAIN disk
                    BY <1>1, <1>2, <4>1
                <5> QED
                    BY <5>1, <2>1, <3>1 DEF GapInv, AllHeld, Held, FiledApart
            <4>2. CASE /\ name \in DOMAIN files /\ DOMAIN files[name] = A
                       /\ DOMAIN disk = DOMAIN journal \ A
                BY <4>2, <2>4, <3>1 DEF Held, FiledApart
            <4> QED
                BY <4>1, <4>2 DEF GapInv, Mirrored
        <3>4. ASSUME NEW h \in stored PROVE Held(h, DOMAIN journal)'
            BY <2>3, <3>1 DEF Held, FiledApart
        <3> QED
            BY <1>4, <2>2, <3>2, <3>3, <3>4 DEF AllHeld
    <2>6. CASE outcome = "kept"
        <3>1. journal' = journal /\ disk' = keep /\ archived' = archived
            BY <1>4, <2>6 DEF atomicSave, ArchiveFinalized
        <3>2. Mirrored'
            BY <1>3, <2>1, <3>1, ArchiveSetStable DEF Mirrored
        <3>3. ASSUME NEW h \in stored PROVE Held(h, DOMAIN journal)' /\ Held(h, DOMAIN disk)'
            BY <1>3, <2>3, <2>4, <3>1 DEF Held, FiledApart
        <3> QED
            BY <1>4, <2>2, <3>2, <3>3 DEF AllHeld
    <2>7. CASE outcome = "ok"
        <3>1. journal' = keep /\ disk' = keep
            BY <1>4, <2>7 DEF atomicSave
        <3>2. ASSUME NEW h \in stored PROVE Held(h, DOMAIN journal)' /\ Held(h, DOMAIN disk)'
            BY <1>3, <2>4, <3>1 DEF Held, FiledApart
        <3> QED
            BY <1>4, <2>2, <3>1, <3>2 DEF Mirrored, AllHeld
    <2> QED
        BY <2>5, <2>6, <2>7 DEF WriteOutcome
<1> QED
    BY <1>5, <1>6

LEMMA LoadGap ==
    ASSUME GapInv, Load
    PROVE  Mirrored' /\ AllHeld' /\ Acknowledged'
<1>1. journal' = disk /\ disk' = disk /\ files' = files
      /\ stored' = stored \cup DOMAIN disk \cup FileHashes
    BY DEF Load
<1>2. ASSUME NEW h \in stored' PROVE Held(h, DOMAIN disk)'
    <2>1. CASE h \in stored
        BY <1>1, <2>1 DEF GapInv, AllHeld, Held, FiledApart
    <2>2. CASE h \in DOMAIN disk
        BY <1>1, <2>2 DEF Held
    <2>3. CASE h \in FileHashes
        BY <2>1, <2>3 DEF GapInv, Acknowledged
    <2> QED
        BY <1>1, <2>1, <2>2, <2>3
<1>3. Acknowledged'
    BY <1>1 DEF Acknowledged, FileHashes
<1> QED
    BY <1>1, <1>2, <1>3 DEF Mirrored, AllHeld, Held, FiledApart

LEMMA GapKept == GapInv /\ JournalTypeOK' /\ [JournalStep]_journalVars => GapInv'
<1> SUFFICES ASSUME GapInv, JournalTypeOK', [JournalStep]_journalVars
             PROVE  Mirrored' /\ AllHeld' /\ Acknowledged'
    BY DEF GapInv
<1>1. CASE CallerAppend
    BY <1>1, AppendGap DEF CallerAppend
<1>2. CASE AnyUpdate
    BY <1>2, UpdateGap DEF AnyUpdate
<1>3. CASE CallerArchive
    BY <1>3, ArchiveGap DEF CallerArchive
<1>4. CASE Load
    BY <1>4, LoadGap
<1>5. CASE UNCHANGED journalVars
    BY <1>5, ArchiveSetStable DEF journalVars, GapInv, Mirrored, AllHeld, Held, FiledApart,
                                  Acknowledged, FileHashes
<1> QED
    BY <1>1, <1>2, <1>3, <1>4, <1>5 DEF JournalStep

\* "A crash can leave duplicates, never a gap": for any number of signatures,
\* any archiving thresholds and any callers, a record that was acknowledged is
\* in journal.json or in an archive file.
THEOREM NoGap == JournalSpec => []NeverAGap
<1>1. JournalInit => GapInv
    BY BoundAssumption DEF JournalInit, NoRecords, GapInv, JournalTypeOK, Mirrored, AllHeld,
                           Acknowledged, FileHashes, BoundAssumption
<1>2. GapInv /\ JournalTypeOK' /\ [JournalNext]_journalVars => GapInv'
    BY CallersStep, GapKept
<1>3. GapInv => NeverAGap
    BY DEF GapInv, AllHeld, Held, FiledApart, NeverAGap, FileHashes
<1> QED
    BY <1>1, <1>2, <1>3, JournalTypeCorrect, PTL DEF JournalSpec

----------------------------------------------------------------------------
(* What memory holds. *)

LEMMA OnceKept == JournalTypeOK /\ OnceInMemory /\ [JournalStep]_journalVars => OnceInMemory'
<1> SUFFICES ASSUME JournalTypeOK, OnceInMemory, [JournalStep]_journalVars
             PROVE  OnceInMemory'
    OBVIOUS
<1>1. CASE CallerAppend
    <2>1. DOMAIN journal' \subseteq DOMAIN journal \cup {signed + 1} /\ archived' = archived
        BY <1>1 DEF CallerAppend, AppendAtomic, atomicSave, Put
    <2>2. signed + 1 \notin DOMAIN archived
        BY DEF JournalTypeOK
    <2> QED
        BY <2>1, <2>2 DEF OnceInMemory
<1>2. CASE AnyUpdate
    <2>1. DOMAIN journal' = DOMAIN journal /\ archived' = archived
        BY <1>2 DEF AnyUpdate, UpdateStateAtomicIfVersion, atomicSave, Put
    <2> QED
        BY <2>1 DEF OnceInMemory
<1>3. CASE CallerArchive
    BY <1>3 DEF CallerArchive, ArchiveFinalized, atomicSave, Only, OnceInMemory
<1>4. CASE Load
    BY <1>4 DEF Load, LoadArchives, OnceInMemory
<1>5. CASE UNCHANGED journalVars
    BY <1>5 DEF journalVars, OnceInMemory
<1> QED
    BY <1>1, <1>2, <1>3, <1>4, <1>5 DEF JournalStep

\* A record is active or archived, never both, although a crash between the
\* two writes of ArchiveFinalized leaves it in both files.
THEOREM HeldOnce == JournalSpec => []OnceInMemory
<1>1. JournalInit => OnceInMemory
    BY DEF JournalInit, NoRecords, OnceInMemory
<1>2. JournalTypeOK /\ OnceInMemory /\ [JournalNext]_journalVars => OnceInMemory'
    BY CallersStep, OnceKept
<1> QED
    BY <1>1, <1>2, JournalTypeCorrect, PTL DEF JournalSpec

LEMMA NoneForgottenKept == NeverAGap /\ NothingForgotten /\ [JournalStep]_journalVars => NothingForgotten'
<1> SUFFICES ASSUME NeverAGap, NothingForgotten, [JournalStep]_journalVars
             PROVE  NothingForgotten'
    OBVIOUS
<1>1. CASE CallerAppend
    BY <1>1 DEF CallerAppend, AppendAtomic, atomicSave, Put, NothingForgotten, Known
<1>2. CASE AnyUpdate
    <2>1. DOMAIN journal' = DOMAIN journal /\ UNCHANGED <<archived, stored>>
        BY <1>2 DEF AnyUpdate, UpdateStateAtomicIfVersion, atomicSave, Put
    <2> QED
        BY <2>1 DEF NothingForgotten, Known
<1>3. CASE CallerArchive
    BY <1>3 DEF CallerArchive, ArchiveFinalized, atomicSave, Only, NothingForgotten, Known
<1>4. CASE Load
    BY <1>4 DEF Load, LoadArchives, NeverAGap, NothingForgotten, Known
<1>5. CASE UNCHANGED journalVars
    BY <1>5 DEF journalVars, NothingForgotten, Known
<1> QED
    BY <1>1, <1>2, <1>3, <1>4, <1>5 DEF JournalStep

\* No operation forgets an acknowledged record, and a reload finds them all.
THEOREM NoneForgotten == JournalSpec => []NothingForgotten
<1>1. JournalInit => NothingForgotten
    BY DEF JournalInit, NothingForgotten
<1>2. NeverAGap /\ NothingForgotten /\ [JournalNext]_journalVars => NothingForgotten'
    BY CallersStep, NoneForgottenKept
<1> QED
    BY <1>1, <1>2, NoGap, PTL DEF JournalSpec

\* Every acknowledged record is held in memory exactly once, as active or as
\* archived.
THEOREM EverySeenOnce == JournalSpec => []SeenOnce
<1>1. OnceInMemory /\ NothingForgotten => SeenOnce
    BY DEF SeenOnce
<1> QED
    BY <1>1, HeldOnce, NoneForgotten, PTL

----------------------------------------------------------------------------
(* Loading never refuses what the operations wrote. *)

\* Memory and journal.json stay within the capacity, and what an archive file
\* holds is final.
LoadableInv ==
    /\ Cardinality(DOMAIN journal) <= MaxRecords
    /\ Loadable

LEMMA FewerRecords ==
    ASSUME NEW n \in Nat, NEW S, NEW T, S \subseteq 1..n, T \subseteq S,
           Cardinality(S) <= MaxRecords
    PROVE  Cardinality(T) <= MaxRecords
<1>1. IsFiniteSet(S)
    <2>1. IsFiniteSet(1..n)
        BY FS_Interval
    <2> QED
        BY <2>1, FS_Subset
<1>2. IsFiniteSet(T) /\ Cardinality(T) <= Cardinality(S)
    BY <1>1, FS_Subset
<1>3. Cardinality(T) \in Nat /\ Cardinality(S) \in Nat
    BY <1>1, <1>2, FS_CardinalityType
<1> QED
    BY <1>2, <1>3, BoundAssumption DEF BoundAssumption

LEMMA OneMoreRecord ==
    ASSUME NEW n \in Nat, NEW S, NEW h, S \subseteq 1..n, Cardinality(S) < MaxRecords
    PROVE  Cardinality(S \cup {h}) <= MaxRecords
<1>1. IsFiniteSet(S)
    <2>1. IsFiniteSet(1..n)
        BY FS_Interval
    <2> QED
        BY <2>1, FS_Subset
<1>2. Cardinality(S) \in Nat
    BY <1>1, FS_CardinalityType
<1>3. Cardinality(S \cup {h}) = Cardinality(S) \/ Cardinality(S \cup {h}) = Cardinality(S) + 1
    BY <1>1, FS_AddElement
<1> QED
    BY <1>2, <1>3, BoundAssumption DEF BoundAssumption

LEMMA ArchivedIsFinal ==
    ASSUME NEW r \in Record
    PROVE  ArchiveRecord(r).final
<1>1. CASE r.final
    BY <1>1 DEF ArchiveRecord
<1>2. CASE ~r.final
    <2>1. [r EXCEPT !.final = TRUE, !.state = "replaced"].final = TRUE
        BY DEF Record
    <2> QED
        BY <1>2, <2>1 DEF ArchiveRecord
<1> QED
    BY <1>1, <1>2

LEMMA LoadableKept == JournalTypeOK /\ LoadableInv /\ [JournalStep]_journalVars => LoadableInv'
<1> SUFFICES ASSUME JournalTypeOK, LoadableInv, [JournalStep]_journalVars
             PROVE  LoadableInv'
    OBVIOUS
<1>1. CASE CallerAppend
    <2>1. Cardinality(DOMAIN journal \cup {signed + 1}) <= MaxRecords
        <3>1. Cardinality(DOMAIN journal) < MaxRecords
            BY <1>1 DEF CallerAppend, AppendAtomic
        <3>2. signed \in Nat /\ DOMAIN journal \subseteq 1..signed
            BY DEF JournalTypeOK
        <3> QED
            BY <3>1, <3>2, OneMoreRecord
    <2>2. /\ DOMAIN journal' \in {DOMAIN journal, DOMAIN journal \cup {signed + 1}}
          /\ DOMAIN disk' \in {DOMAIN disk, DOMAIN journal \cup {signed + 1}}
          /\ files' = files
        BY <1>1 DEF CallerAppend, AppendAtomic, atomicSave, Put
    <2> QED
        BY <2>1, <2>2 DEF LoadableInv, Loadable
<1>2. CASE AnyUpdate
    <2>1. /\ DOMAIN journal' = DOMAIN journal
          /\ DOMAIN disk' \in {DOMAIN disk, DOMAIN journal}
          /\ files' = files
        BY <1>2 DEF AnyUpdate, UpdateStateAtomicIfVersion, atomicSave, Put
    <2> QED
        BY <2>1 DEF LoadableInv, Loadable
<1>3. CASE CallerArchive
    <2>1. Cardinality(DOMAIN journal \ ArchiveSet) <= MaxRecords
        BY FewerRecords DEF JournalTypeOK, LoadableInv
    <2>2. /\ DOMAIN journal' \in {DOMAIN journal, DOMAIN journal \ ArchiveSet}
          /\ DOMAIN disk' \in {DOMAIN disk, DOMAIN journal \ ArchiveSet}
        BY <1>3 DEF CallerArchive, ArchiveFinalized, atomicSave, Only
    <2>3. \A h \in ArchiveSet : ArchiveRecord(journal[h]).final
        <3>1. \A h \in ArchiveSet : journal[h] \in Record
            BY DEF ArchiveSet, JournalTypeOK
        <3> QED
            BY <3>1, ArchivedIsFinal
    <2>4. \A n \in DOMAIN files' : \A h \in DOMAIN files'[n] : files'[n][h].final
        BY <1>3, <2>3 DEF CallerArchive, ArchiveFinalized, Put, LoadableInv, Loadable
    <2> QED
        BY <2>1, <2>2, <2>4 DEF LoadableInv, Loadable
<1>4. CASE Load
    BY <1>4 DEF Load, LoadableInv, Loadable
<1>5. CASE UNCHANGED journalVars
    BY <1>5 DEF journalVars, LoadableInv, Loadable
<1> QED
    BY <1>1, <1>2, <1>3, <1>4, <1>5 DEF JournalStep

\* Whatever writes failed and wherever the process was killed, the next start
\* accepts journal.json and every archive file.
THEOREM Reloads == JournalSpec => []AlwaysLoadable
<1>1. JournalInit => LoadableInv
    BY FS_EmptySet, BoundAssumption
       DEF JournalInit, NoRecords, LoadableInv, Loadable, BoundAssumption
<1>2. JournalTypeOK /\ LoadableInv /\ [JournalNext]_journalVars => LoadableInv'
    BY CallersStep, LoadableKept
<1>3. LoadableInv => AlwaysLoadable
    BY DEF LoadableInv, AlwaysLoadable
<1> QED
    BY <1>1, <1>2, <1>3, JournalTypeCorrect, PTL DEF JournalSpec

----------------------------------------------------------------------------
(* All of it, for the modules that call the journal. *)

JournalInv ==
    /\ GapInv
    /\ OnceInMemory
    /\ NothingForgotten
    /\ LoadableInv
    /\ DOMAIN archived \subseteq stored

LEMMA InitJournalInv == JournalInit => JournalInv
<1> SUFFICES ASSUME JournalInit PROVE JournalInv
    OBVIOUS
<1>1. GapInv
    BY BoundAssumption DEF JournalInit, NoRecords, GapInv, JournalTypeOK, Mirrored, AllHeld,
                           Acknowledged, FileHashes, BoundAssumption
<1>2. LoadableInv
    BY FS_EmptySet, BoundAssumption
       DEF JournalInit, NoRecords, LoadableInv, Loadable, BoundAssumption
<1> QED
    BY <1>1, <1>2 DEF JournalInit, NoRecords, OnceInMemory, NothingForgotten, JournalInv

LEMMA NothingUnstored == JournalInv => NeverAGap
    BY DEF JournalInv, GapInv, AllHeld, Held, FiledApart, NeverAGap, FileHashes

\* What memory knows is what was acknowledged.
LEMMA KnownIsStored == JournalInv => Known = stored
    BY DEF JournalInv, GapInv, Acknowledged, NothingForgotten, Known

LEMMA StoredGrows == [JournalStep]_journalVars => stored \subseteq stored'
    BY DEF JournalStep, journalVars, CallerAppend, AppendAtomic, AnyUpdate,
           UpdateStateAtomicIfVersion, CallerArchive, ArchiveFinalized, Load

LEMMA JournalInvKept == JournalInv /\ [JournalStep]_journalVars => JournalInv'
<1> SUFFICES ASSUME JournalInv, [JournalStep]_journalVars PROVE JournalInv'
    OBVIOUS
<1>1. GapInv' /\ OnceInMemory' /\ NothingForgotten' /\ LoadableInv'
    <2>1. JournalTypeOK'
        BY TypeKept DEF JournalInv, GapInv
    <2> QED
        BY <2>1, NothingUnstored, GapKept, OnceKept, NoneForgottenKept, LoadableKept
           DEF JournalInv, GapInv
<1>2. DOMAIN archived' \subseteq stored'
    <2>1. CASE CallerAppend \/ AnyUpdate \/ UNCHANGED journalVars
        <3>1. archived' = archived
            BY <2>1 DEF CallerAppend, AppendAtomic, AnyUpdate, UpdateStateAtomicIfVersion,
                        journalVars
        <3> QED
            BY <3>1, StoredGrows DEF JournalInv
    <2>2. CASE CallerArchive
        <3>1. DOMAIN archived' \subseteq DOMAIN archived \cup DOMAIN journal /\ stored' = stored
            BY <2>2 DEF CallerArchive, ArchiveFinalized, ArchiveSet
        <3> QED
            BY <3>1 DEF JournalInv, GapInv, Acknowledged
    <2>3. CASE Load
        BY <2>3 DEF Load, LoadArchives
    <2> QED
        BY <2>1, <2>2, <2>3 DEF JournalStep
<1> QED
    BY <1>1, <1>2 DEF JournalInv

\* No step of the journal forgets a record.
LEMMA KnownGrows == JournalInv /\ [JournalStep]_journalVars => Known \subseteq Known'
<1> SUFFICES ASSUME JournalInv, [JournalStep]_journalVars PROVE Known \subseteq Known'
    OBVIOUS
<1>1. NothingForgotten'
    BY JournalInvKept DEF JournalInv
<1> QED
    BY <1>1, KnownIsStored, StoredGrows DEF NothingForgotten

----------------------------------------------------------------------------
(* The wallet over the journal: its invariant.                            *)

ServiceType ==
    /\ DOMAIN quotes \subseteq 1..quoted
    /\ quotes \in [DOMAIN quotes -> [nonce : Nonce, count : 0..MaxTx]]
    /\ quoted \in {0} \cup Quote
    /\ storageFault \in BOOLEAN

OpSet == [step : OpStep, quote : {0} \cup Quote, hash : {0} \cup Hash,
          version : Nat, accepted : BOOLEAN]

\* An operation works for a quote that is there, on a transaction that is known.
OpPart ==
    /\ op \in OpSet
    /\ op.step \in {"checked", "ready", "appended", "answered"} => op.quote \in DOMAIN quotes
    /\ op.step \in {"appended", "answered", "retrying", "retried"} => op.hash \in Known

RefreshSet == [step : RefreshStep, items : {refresh.items}, hash : {0} \cup Hash,
               state : States \cup {"none", "not_found"}, final : BOOLEAN]

\* A refresh has items with the versions they had, and observed one of them.
RefreshPart ==
    /\ refresh \in RefreshSet
    /\ DOMAIN refresh.items \subseteq Hash
    /\ refresh.items \in [DOMAIN refresh.items -> Nat]
    /\ refresh.step = "observed" =>
          refresh.hash \in DOMAIN refresh.items /\ refresh.state # "none"

NetworkType ==
    /\ chain \in [Hash -> ChainStatus]
    /\ DOMAIN sent \subseteq 1..signed
    /\ sent \in [DOMAIN sent -> Nonce]

SpentType ==
    spent \in [restart : 0..MaxRestarts, reorg : 0..MaxReorgs, write : 0..MaxWriteErrors]

\* What was broadcast was acknowledged before, and a write that failed was noticed.
SentPart == DOMAIN sent \subseteq stored
FaultPart == ~storageFault => disk = journal

WalletRest ==
    ServiceType /\ OpPart /\ RefreshPart /\ NetworkType /\ SpentType /\ SentPart /\ FaultPart

WalletInv == JournalInv /\ WalletRest

LEMMA InitWalletInv == Init => WalletInv
<1> SUFFICES ASSUME Init PROVE WalletInv
    OBVIOUS
<1>1. JournalInv
    BY InitJournalInv DEF Init
<1>2. ServiceType /\ NetworkType /\ SentPart /\ FaultPart
    BY DEF Init, JournalInit, NoRecords, ServiceType, NetworkType, SentPart, FaultPart,
           ChainStatus
<1>3. SpentType
    BY WalletBoundAssumption DEF Init, SpentType, WalletBoundAssumption
<1>4. OpPart /\ RefreshPart
    BY DEF Init, OpPart, OpSet, OpStep, Idle, RefreshPart, RefreshSet, RefreshStep, NoRefresh,
           NoItems
<1> QED
    BY <1>1, <1>2, <1>3, <1>4 DEF WalletInv, WalletRest

----------------------------------------------------------------------------
(* Steps that change only the network, only the operation or only the      *)
(* refresh.                                                                *)

LEMMA KnownKept == ASSUME UNCHANGED journalVars PROVE Known' = Known
    BY DEF journalVars, Known

LEMMA NetworkMoves ==
    ASSUME WalletInv, UNCHANGED <<journalVars, serviceVars, op, refresh, sent>>,
           NEW h \in Hash, NEW status \in ChainStatus, chain' = [chain EXCEPT ![h] = status],
           SpentType'
    PROVE  WalletRest'
<1>1. Known' = Known
    BY KnownKept
<1>2. NetworkType'
    BY DEF WalletInv, WalletRest, NetworkType, journalVars
<1>3. OpPart'
    BY <1>1 DEF WalletInv, WalletRest, OpPart, serviceVars
<1>4. RefreshPart'
    BY DEF WalletInv, WalletRest, RefreshPart, RefreshSet
<1> QED
    BY <1>2, <1>3, <1>4
       DEF WalletInv, WalletRest, ServiceType, SentPart, FaultPart, serviceVars, journalVars

LEMMA NetworkRest == ASSUME WalletInv, Network PROVE WalletRest'
<1>1. PICK h \in Hash : Deliver(h) \/ Mine(h) \/ Drop(h) \/ Finalize(h) \/ Reorg(h)
    BY DEF Network
<1>2. UNCHANGED <<journalVars, serviceVars, op, refresh, sent>>
    BY <1>1 DEF Deliver, Mine, Drop, Finalize, Reorg
<1>3. PICK status \in ChainStatus : chain' = [chain EXCEPT ![h] = status]
    BY <1>1 DEF Deliver, Mine, Drop, Finalize, Reorg, ChainStatus
<1>4. SpentType'
    <2>1. CASE Reorg(h)
        BY <2>1, WalletBoundAssumption
           DEF Reorg, WalletInv, WalletRest, SpentType, WalletBoundAssumption
    <2>2. CASE ~Reorg(h)
        BY <1>1, <2>2 DEF Deliver, Mine, Drop, Finalize, WalletInv, WalletRest, SpentType
    <2> QED
        BY <2>1, <2>2
<1> QED
    BY <1>2, <1>3, <1>4, NetworkMoves

LEMMA OpMoves ==
    ASSUME WalletInv, UNCHANGED <<journalVars, serviceVars, refresh, networkVars, spent>>,
           OpPart'
    PROVE  WalletRest'
<1>1. RefreshPart'
    BY DEF WalletInv, WalletRest, RefreshPart, RefreshSet
<1> QED
    BY <1>1 DEF WalletInv, WalletRest, ServiceType, NetworkType, SpentType, SentPart, FaultPart,
                serviceVars, journalVars, networkVars

LEMMA RefreshMoves ==
    ASSUME WalletInv, UNCHANGED <<journalVars, serviceVars, op, networkVars, spent>>,
           RefreshPart'
    PROVE  WalletRest'
<1>1. Known' = Known
    BY KnownKept
<1>2. OpPart'
    BY <1>1 DEF WalletInv, WalletRest, OpPart, serviceVars
<1> QED
    BY <1>2 DEF WalletInv, WalletRest, ServiceType, NetworkType, SpentType, SentPart, FaultPart,
                serviceVars, journalVars, networkVars

----------------------------------------------------------------------------
(* Quotes. *)

LEMMA KnownFinite ==
    ASSUME JournalTypeOK
    PROVE  /\ Known \subseteq 1..MaxTx
           /\ \A n : Cardinality(NonceRecords(n)) \in 0..MaxTx
<1>1. Known \subseteq 1..MaxTx
    BY BoundAssumption DEF JournalTypeOK, Known, BoundAssumption
<1>2. IsFiniteSet(1..MaxTx) /\ Cardinality(1..MaxTx) = MaxTx
    BY FS_Interval, BoundAssumption DEF BoundAssumption
<1>3. ASSUME NEW n PROVE Cardinality(NonceRecords(n)) \in 0..MaxTx
    <2>1. NonceRecords(n) \subseteq 1..MaxTx
        BY <1>1 DEF NonceRecords
    <2>2. IsFiniteSet(NonceRecords(n)) /\ Cardinality(NonceRecords(n)) <= MaxTx
        BY <1>2, <2>1, FS_Subset
    <2>3. Cardinality(NonceRecords(n)) \in Nat
        BY <2>2, FS_CardinalityType
    <2> QED
        BY <2>2, <2>3, BoundAssumption DEF BoundAssumption
<1> QED
    BY <1>1, <1>3

LEMMA AddQuoteRest ==
    ASSUME WalletInv, NEW nonce, NEW count \in 0..MaxTx, AddQuote(nonce, count)
    PROVE  WalletRest'
<1> DEFINE q == [nonce |-> nonce, count |-> count]
<1>1. /\ quoted + 1 \in Quote /\ quoted' = quoted + 1
      /\ q \in [nonce : Nonce, count : 0..MaxTx]
      /\ quotes' = Put(quotes, quoted + 1, q)
      /\ op = Idle
      /\ UNCHANGED <<journalVars, storageFault, op, refresh, networkVars, spent>>
    BY DEF AddQuote
<1> HIDE DEF q
<1>2. ServiceType'
    <2>1. quoted \in Nat /\ 1..quoted \subseteq 1..quoted' /\ quoted + 1 \in 1..quoted'
        BY <1>1, WalletBoundAssumption
           DEF WalletInv, WalletRest, ServiceType, WalletBoundAssumption
    <2>2. DOMAIN quotes' \subseteq 1..quoted'
        BY <1>1, <2>1 DEF WalletInv, WalletRest, ServiceType, Put
    <2>3. quotes' \in [DOMAIN quotes' -> [nonce : Nonce, count : 0..MaxTx]]
        BY <1>1 DEF WalletInv, WalletRest, ServiceType, Put
    <2> QED
        BY <1>1, <2>2, <2>3 DEF WalletInv, WalletRest, ServiceType
<1>3. OpPart' /\ RefreshPart'
    BY <1>1 DEF WalletInv, WalletRest, OpPart, Idle, RefreshPart, RefreshSet
<1> QED
    BY <1>1, <1>2, <1>3 DEF WalletInv, WalletRest, NetworkType, SpentType, SentPart, FaultPart,
                            journalVars, networkVars

LEMMA QuotingRest == ASSUME WalletInv, Quoting PROVE WalletRest'
<1>1. CASE QuoteNew
    <2>1. AddQuote(PendingNonceAt, 0) /\ 0 \in 0..MaxTx
        BY <1>1, BoundAssumption DEF QuoteNew, BoundAssumption
    <2> QED
        BY <2>1, AddQuoteRest
<1>2. CASE \E h \in Hash : QuoteReplacement(h)
    <2>1. PICK h \in Hash : AddQuote(Rec(h).nonce, Cardinality(NonceRecords(Rec(h).nonce)))
        BY <1>2 DEF QuoteReplacement
    <2>2. Cardinality(NonceRecords(Rec(h).nonce)) \in 0..MaxTx
        BY KnownFinite DEF WalletInv, JournalInv, GapInv
    <2> QED
        BY <2>1, <2>2, AddQuoteRest
<1> QED
    BY <1>1, <1>2 DEF Quoting

----------------------------------------------------------------------------
(* Every step of the wallet is a step of its journal, or leaves it alone. *)

LEMMA OpQuote ==
    ASSUME WalletInv, op.step \in {"checked", "ready", "appended", "answered"}
    PROVE  op.quote \in Quote /\ quotes[op.quote].nonce \in Nonce
<1>1. op.quote \in DOMAIN quotes /\ op.quote \in {0} \cup Quote
    BY DEF WalletInv, WalletRest, OpPart, OpSet
<1> QED
    BY <1>1 DEF WalletInv, WalletRest, ServiceType

LEMMA KnownRecord ==
    ASSUME WalletInv, NEW h \in Known
    PROVE  h \in Hash /\ Rec(h) \in Record
<1>1. h \in Hash
    BY KnownFinite DEF WalletInv, JournalInv, GapInv, Hash
<1>2. Rec(h) \in Record
    BY DEF WalletInv, JournalInv, GapInv, JournalTypeOK, Known, Rec
<1> QED
    BY <1>1, <1>2

LEMMA AnswerUpdates ==
    ASSUME WalletInv, NEW outcome \in UpdateOutcome, RecordAnswer(outcome),
           op.step \in {"answered", "retried"}
    PROVE  AnyUpdate
<1>1. op.hash \in Hash /\ op.version \in Nat
    BY KnownRecord DEF WalletInv, WalletRest, OpPart, OpSet
<1>2. BroadcastState \in States
    BY DEF BroadcastState, States
<1> QED
    BY <1>1, <1>2 DEF RecordAnswer, AnyUpdate

LEMMA ApplyUpdates ==
    ASSUME WalletInv, NEW outcome \in UpdateOutcome, HistoryApply(outcome)
    PROVE  AnyUpdate
<1> DEFINE state == IF refresh.state = "not_found" THEN "broadcast_unknown" ELSE refresh.state
<1>1. refresh.hash \in Hash /\ refresh.items[refresh.hash] \in Nat /\ refresh.final \in BOOLEAN
    BY DEF HistoryApply, WalletInv, WalletRest, RefreshPart, RefreshSet
<1>2. state \in States
    BY DEF HistoryApply, WalletInv, WalletRest, RefreshPart, RefreshSet, States
<1>3. UpdateStateAtomicIfVersion(refresh.hash, refresh.items[refresh.hash], state,
                                 refresh.final, outcome)
    BY DEF HistoryApply
<1> HIDE DEF state
<1> QED
    BY <1>1, <1>2, <1>3 DEF AnyUpdate

LEMMA QuietUnlessRestart ==
    ASSUME WalletInv, [Next]_walletVars, ~Restart
    PROVE  CallerAppend \/ AnyUpdate \/ CallerArchive \/ UNCHANGED journalVars
<1>1. CASE Network \/ Quoting
    BY <1>1 DEF Network, Deliver, Mine, Drop, Finalize, Reorg,
                Quoting, QuoteNew, QuoteReplacement, AddQuote
<1>2. CASE Sending
    <2>1. CASE \/ \E q \in Quote : SendStart(q)
               \/ SendCheckNonce
               \/ GiveUp
               \/ \E accepted \in BOOLEAN : SendBroadcast(accepted)
        BY <2>1 DEF SendStart, SendCheckNonce, GiveUp, SendBroadcast
    <2>2. ASSUME NEW outcome \in WriteOutcome, SendAppend(outcome) PROVE CallerAppend
        BY <2>2, OpQuote DEF SendAppend, CallerAppend
    <2>3. ASSUME NEW outcome \in UpdateOutcome, SendFinish(outcome) PROVE AnyUpdate
        BY <2>3, AnswerUpdates DEF SendFinish
    <2> QED
        BY <1>2, <2>1, <2>2, <2>3 DEF Sending
<1>3. CASE Retrying
    <2>1. CASE \/ \E h \in Hash : RetryStart(h)
               \/ \E accepted \in BOOLEAN : RetryBroadcast(accepted)
        BY <2>1 DEF RetryStart, RetryBroadcast
    <2>2. ASSUME NEW outcome \in UpdateOutcome, RetryFinish(outcome) PROVE AnyUpdate
        BY <2>2, AnswerUpdates DEF RetryFinish
    <2> QED
        BY <1>3, <2>1, <2>2 DEF Retrying
<1>4. CASE Refreshing
    <2>1. CASE \/ HistoryStart \/ HistoryStop \/ HistoryIgnore \/ HistoryDone
               \/ \E h \in Hash : HistoryQuery(h)
        BY <2>1 DEF HistoryStart, HistoryStop, HistoryIgnore, HistoryDone, HistoryQuery
    <2>2. ASSUME NEW outcome \in UpdateOutcome, HistoryApply(outcome) PROVE AnyUpdate
        BY <2>2, ApplyUpdates
    <2>3. ASSUME NEW fileOutcome \in WriteOutcome, NEW outcome \in WriteOutcome,
                 HistoryArchive(fileOutcome, outcome)
          PROVE  CallerArchive
        BY <2>3 DEF HistoryArchive, CallerArchive
    <2> QED
        BY <1>4, <2>1, <2>2, <2>3 DEF Refreshing
<1>5. CASE UNCHANGED walletVars
    BY <1>5 DEF walletVars
<1> QED
    BY <1>1, <1>2, <1>3, <1>4, <1>5 DEF Next

LEMMA JournalMoves ==
    ASSUME WalletInv, [Next]_walletVars
    PROVE  [JournalStep]_journalVars
<1>1. CASE Restart
    BY <1>1 DEF Restart, JournalStep
<1>2. CASE ~Restart
    BY <1>2, QuietUnlessRestart DEF JournalStep
<1> QED
    BY <1>1, <1>2

----------------------------------------------------------------------------
(* Send and Retry. *)

LEMMA OpStarts ==
    ASSUME WalletInv, UNCHANGED <<journalVars, serviceVars, refresh, networkVars, spent>>,
           \/ \E q \in Quote : SendStart(q)
           \/ SendCheckNonce
           \/ GiveUp
           \/ \E h \in Hash : RetryStart(h)
    PROVE  WalletRest'
<1>1. Known' = Known
    BY KnownKept
<1>2. Idle \in OpSet
    BY DEF Idle, OpSet, OpStep
<1>3. OpPart'
    <2>1. ASSUME NEW q \in Quote, SendStart(q) PROVE OpPart'
        <3>1. op' = [Idle EXCEPT !.step = "checked", !.quote = q] /\ q \in DOMAIN quotes'
            BY <2>1 DEF SendStart, serviceVars
        <3>2. op' \in OpSet /\ op'.step = "checked" /\ op'.quote = q
            BY <3>1 DEF Idle, OpSet, OpStep
        <3> QED
            BY <3>1, <3>2 DEF OpPart
    <2>2. CASE SendCheckNonce
        <3>1. op' = [op EXCEPT !.step = "ready"] /\ op.step = "checked" /\ quotes' = quotes
            BY <2>2 DEF SendCheckNonce, serviceVars
        <3>2. op' \in OpSet /\ op'.step = "ready" /\ op'.quote = op.quote
            BY <3>1 DEF WalletInv, WalletRest, OpPart, OpSet, OpStep
        <3> QED
            BY <3>1, <3>2 DEF WalletInv, WalletRest, OpPart
    <2>3. CASE GiveUp
        BY <2>3, <1>2 DEF GiveUp, OpPart, Idle
    <2>4. ASSUME NEW h \in Hash, RetryStart(h) PROVE OpPart'
        <3> DEFINE v == Rec(h).version
        <3>1. op' = [Idle EXCEPT !.step = "retrying", !.hash = h, !.version = v] /\ h \in Known
            BY <2>4 DEF RetryStart
        <3>2. v \in Nat
            BY <3>1, KnownRecord DEF Record
        <3> HIDE DEF v
        <3>3. op' \in OpSet /\ op'.step = "retrying" /\ op'.hash = h
            BY <3>1, <3>2 DEF Idle, OpSet, OpStep
        <3> QED
            BY <1>1, <3>1, <3>3 DEF OpPart
    <2> QED
        BY <2>1, <2>2, <2>3, <2>4
<1> QED
    BY <1>3, OpMoves

LEMMA ChargeType == ASSUME SpentType, NEW outcomes, Charge(outcomes) PROVE SpentType'
<1>1. CASE spent' = spent
    BY <1>1 DEF SpentType
<1>2. CASE spent.write < MaxWriteErrors /\ spent' = [spent EXCEPT !.write = @ + 1]
    BY <1>2, WalletBoundAssumption DEF SpentType, WalletBoundAssumption
<1> QED
    BY <1>1, <1>2 DEF Charge

\* A transaction that is known, with its nonce, is handed to the RPC.
LEMMA BroadcastRest ==
    ASSUME WalletInv, NEW nonce \in Nonce, NEW accepted \in BOOLEAN,
           op.step \in {"appended", "retrying"},
           SendTransaction(nonce, accepted),
           op' = [op EXCEPT !.step = IF op.step = "appended" THEN "answered" ELSE "retried",
                            !.accepted = accepted],
           UNCHANGED <<journalVars, serviceVars, refresh, spent>>
    PROVE  WalletRest'
<1> DEFINE step == IF op.step = "appended" THEN "answered" ELSE "retried"
<1>1. /\ op.hash \in Known /\ op.hash \in Hash /\ op.hash \in stored
      /\ Known' = Known /\ quotes' = quotes
    BY KnownRecord, KnownKept, KnownIsStored DEF WalletInv, WalletRest, OpPart, serviceVars
<1>2. OpPart'
    <2>1. step \in OpStep /\ op' = [op EXCEPT !.step = step, !.accepted = accepted]
        BY DEF OpStep
    <2>2. /\ step \in {"answered", "retried"}
          /\ step = "answered" => op.quote \in DOMAIN quotes
        BY DEF WalletInv, WalletRest, OpPart
    <2> HIDE DEF step
    <2>3. op' \in OpSet /\ op'.step = step /\ op'.quote = op.quote /\ op'.hash = op.hash
        BY <2>1 DEF WalletInv, WalletRest, OpPart, OpSet
    <2> QED
        BY <1>1, <2>2, <2>3 DEF OpPart
<1>3. chain' \in [Hash -> ChainStatus]
    BY <1>1 DEF SendTransaction, WalletInv, WalletRest, NetworkType, ChainStatus
<1>4. /\ DOMAIN sent' = DOMAIN sent \cup {op.hash}
      /\ sent' \in [DOMAIN sent' -> Nonce]
    BY DEF SendTransaction, Put, WalletInv, WalletRest, NetworkType
<1>5. stored \subseteq 1..signed
    BY DEF WalletInv, JournalInv, GapInv, JournalTypeOK
<1>6. NetworkType' /\ SentPart'
    BY <1>1, <1>3, <1>4, <1>5
       DEF NetworkType, SentPart, WalletInv, WalletRest, journalVars
<1>7. RefreshPart'
    BY DEF WalletInv, WalletRest, RefreshPart, RefreshSet
<1> QED
    BY <1>2, <1>6, <1>7
       DEF WalletInv, WalletRest, ServiceType, SpentType, FaultPart, serviceVars, journalVars

LEMMA BroadcastsRest ==
    ASSUME WalletInv, NEW accepted \in BOOLEAN,
           SendBroadcast(accepted) \/ RetryBroadcast(accepted)
    PROVE  WalletRest'
<1>1. CASE SendBroadcast(accepted)
    <2>1. quotes[op.quote].nonce \in Nonce
        BY <1>1, OpQuote DEF SendBroadcast
    <2> QED
        BY <1>1, <2>1, BroadcastRest DEF SendBroadcast
<1>2. CASE RetryBroadcast(accepted)
    <2>1. Rec(op.hash).nonce \in Nonce
        BY <1>2, KnownRecord DEF RetryBroadcast, WalletInv, WalletRest, OpPart, Record
    <2> QED
        BY <1>2, <2>1, BroadcastRest DEF RetryBroadcast
<1> QED
    BY <1>1, <1>2


----------------------------------------------------------------------------
(* The steps that write the journal. *)

\* What a journal step leaves true of the rest, where the operation is ended or
\* keeps to what it worked on.
LEMMA WritesRest ==
    ASSUME WalletInv, JournalStep, NEW outcomes, Charge(outcomes),
           UNCHANGED <<quoted, networkVars>>,
           DOMAIN quotes' \subseteq DOMAIN quotes,
           \A q \in DOMAIN quotes' : quotes'[q] = quotes[q],
           quotes' = [q \in DOMAIN quotes' |-> quotes'[q]],
           storageFault' \in BOOLEAN, OpPart', RefreshPart', FaultPart'
    PROVE  WalletRest'
<1>1. ServiceType'
    BY DEF WalletInv, WalletRest, ServiceType
<1>2. SpentType'
    BY ChargeType DEF WalletInv, WalletRest
<1>3. stored \subseteq stored' /\ stored' \subseteq 1..signed'
    <2>1. JournalInv'
        BY JournalInvKept DEF WalletInv
    <2> QED
        BY <2>1, StoredGrows DEF JournalInv, GapInv, JournalTypeOK
<1>4. NetworkType' /\ SentPart'
    BY <1>3 DEF WalletInv, WalletRest, NetworkType, SentPart, networkVars
<1> QED
    BY <1>1, <1>2, <1>4 DEF WalletRest

\* Whether the update happened or not, file and memory agree unless it failed.
LEMMA UpdateFault ==
    ASSUME WalletInv, NEW h, NEW v, NEW s, NEW f, NEW outcome \in UpdateOutcome,
           UpdateStateAtomicIfVersion(h, v, s, f, outcome),
           storageFault' = (storageFault \/ outcome \in UpdateError)
    PROVE  FaultPart'
<1>1. CASE outcome = "ok"
    <2>1. disk' = journal'
        BY <1>1 DEF UpdateStateAtomicIfVersion, atomicSave
    <2> QED
        BY <2>1 DEF FaultPart
<1>2. CASE outcome \in {"stale", "same"}
    BY <1>2 DEF UpdateStateAtomicIfVersion, WriteOutcome, WalletInv, WalletRest, FaultPart
<1>3. CASE outcome \in UpdateError
    BY <1>3 DEF FaultPart
<1> QED
    BY <1>1, <1>2, <1>3 DEF UpdateOutcome, WriteOutcome, UpdateError

LEMMA IdleOp == op' = Idle => OpPart'
    BY DEF Idle, OpPart, OpSet, OpStep

LEMMA SameRefresh == ASSUME WalletInv, refresh' = refresh PROVE RefreshPart'
    BY DEF WalletInv, WalletRest, RefreshPart, RefreshSet

\* The operation goes on with what it worked on, as no record is forgotten.
LEMMA SameOp ==
    ASSUME WalletInv, [JournalStep]_journalVars, op' = op, quotes' = quotes
    PROVE  OpPart'
    BY KnownGrows DEF WalletInv, WalletRest, OpPart

LEMMA SendAppendRest ==
    ASSUME WalletInv, NEW outcome \in WriteOutcome, SendAppend(outcome)
    PROVE  WalletRest'
<1>1. /\ op.step = "ready"
      /\ AppendAtomic(op.quote, quotes[op.quote].nonce, outcome)
      /\ Charge({outcome})
      /\ storageFault' = (storageFault \/ outcome # "ok")
      /\ UNCHANGED <<quotes, quoted, refresh, networkVars>>
      /\ op.quote \in DOMAIN quotes
    BY DEF SendAppend, WalletInv, WalletRest, OpPart
<1>2. JournalStep
    BY <1>1, OpQuote DEF JournalStep, CallerAppend
<1>3. FaultPart'
    BY <1>1 DEF AppendAtomic, atomicSave, FaultPart
<1>4. OpPart'
    <2>1. CASE outcome = "ok"
        <3>1. signed' \in Hash /\ signed' \in Known'
            BY <1>1, <2>1 DEF AppendAtomic, atomicSave, Put, Known
        <3>2. op' = [op EXCEPT !.step = "appended", !.hash = signed', !.version = 1]
            BY <2>1 DEF SendAppend
        <3>3. /\ op' \in OpSet /\ op'.step = "appended"
              /\ op'.quote = op.quote /\ op'.hash = signed'
            BY <3>1, <3>2 DEF WalletInv, WalletRest, OpPart, OpSet, OpStep
        <3> QED
            BY <1>1, <3>1, <3>3 DEF OpPart
    <2>2. CASE outcome # "ok"
        <3>1. op' = Idle
            BY <2>2 DEF SendAppend
        <3> QED
            BY <3>1, IdleOp
    <2> QED
        BY <2>1, <2>2
<1>5. quotes' = [q \in DOMAIN quotes' |-> quotes'[q]]
    BY <1>1 DEF WalletInv, WalletRest, ServiceType
<1>6. storageFault' \in BOOLEAN
    BY <1>1 DEF WalletInv, WalletRest, ServiceType
<1> QED
    BY <1>1, <1>2, <1>3, <1>4, <1>5, <1>6, SameRefresh, WritesRest

LEMMA FinishRest ==
    ASSUME WalletInv, NEW outcome \in UpdateOutcome,
           SendFinish(outcome) \/ RetryFinish(outcome)
    PROVE  WalletRest'
<1>1. /\ op.step \in {"answered", "retried"}
      /\ RecordAnswer(outcome)
      /\ UNCHANGED <<quoted, refresh, networkVars>>
      /\ quotes' = quotes \/ quotes' = Only(quotes, DOMAIN quotes \ {op.quote})
    BY DEF SendFinish, RetryFinish
<1>2. JournalStep
    BY <1>1, AnswerUpdates DEF JournalStep
<1>3. FaultPart'
    BY <1>1, UpdateFault DEF RecordAnswer
<1>4. OpPart'
    BY <1>1, IdleOp DEF RecordAnswer
<1>5. storageFault' \in BOOLEAN
    BY <1>1 DEF RecordAnswer, WalletInv, WalletRest, ServiceType
<1>6. /\ DOMAIN quotes' \subseteq DOMAIN quotes
      /\ \A q \in DOMAIN quotes' : quotes'[q] = quotes[q]
      /\ quotes' = [q \in DOMAIN quotes' |-> quotes'[q]]
    BY <1>1 DEF Only, WalletInv, WalletRest, ServiceType
<1>7. Charge({outcome})
    BY <1>1 DEF RecordAnswer
<1> QED
    BY <1>1, <1>2, <1>3, <1>4, <1>5, <1>6, <1>7, SameRefresh, WritesRest

----------------------------------------------------------------------------
(* History. *)

LEMMA NoRefreshOK == refresh' = NoRefresh => RefreshPart'
    BY DEF NoRefresh, NoItems, RefreshPart, RefreshSet, RefreshStep

\* Some of the items, or those of a refresh that begins.
LEMMA ScanningOK ==
    ASSUME NEW items, DOMAIN items \subseteq Hash, items \in [DOMAIN items -> Nat],
           refresh' = [NoRefresh EXCEPT !.step = "scanning", !.items = items]
    PROVE  RefreshPart'
<1>1. /\ refresh'.step = "scanning" /\ refresh'.items = items
      /\ refresh' \in RefreshSet'
    BY DEF NoRefresh, RefreshSet, RefreshStep
<1> QED
    BY <1>1 DEF RefreshPart

LEMMA NextItemOK == ASSUME WalletInv, refresh' = NextItem PROVE RefreshPart'
<1> DEFINE items == Only(refresh.items, DOMAIN refresh.items \ {refresh.hash})
<1>1. DOMAIN items \subseteq Hash /\ items \in [DOMAIN items -> Nat]
    BY DEF WalletInv, WalletRest, RefreshPart, Only
<1>2. refresh' = [NoRefresh EXCEPT !.step = "scanning", !.items = items]
    BY DEF NextItem
<1> HIDE DEF items
<1> QED
    BY <1>1, <1>2, ScanningOK

LEMMA PairParts == ASSUME NEW a, NEW b PROVE <<a, b>>[1] = a /\ <<a, b>>[2] = b
    OBVIOUS

\* What a node reports of a transaction is one of the states it can report.
LEMMA ObservationType ==
    ASSUME WalletInv, NEW h \in Hash, NEW o \in Observations(h)
    PROVE  /\ o[1] \in States \cup {"not_found"} /\ o[1] # "none" /\ o[2] \in BOOLEAN
           /\ o[1] \in MinedStates => h \in OnChain /\ o[1] = Receipt(h)
           /\ o[2] => chain[h] = "final" /\ o[1] = Receipt(h)
<1>1. chain[h] \in ChainStatus
    BY DEF WalletInv, WalletRest, NetworkType
<1>2. CASE chain[h] \in {"unknown", "pooled", "orphaned"}
    <2>1. h \notin OnChain
        BY <1>2 DEF OnChain
    <2>2. Observations(h) \in {{<<"not_found", FALSE>>},
                               {<<"not_found", FALSE>>, <<"pending", FALSE>>},
                               {<<"reorg_detected", FALSE>>, <<"pending", FALSE>>}}
        BY <1>2, <2>1 DEF Observations
    <2>3. \E s \in {"not_found", "pending", "reorg_detected"} : o = <<s, FALSE>>
        BY <2>2
    <2>4. o[1] \in {"not_found", "pending", "reorg_detected"} /\ o[2] = FALSE
        BY <2>3, PairParts
    <2> QED
        BY <2>1, <2>4 DEF States, MinedStates
<1>3. CASE chain[h] \in {"mined", "final"}
    <2> DEFINE b == chain[h] = "final"
               r == Receipt(h)
    <2>1. h \in OnChain
        BY <1>3 DEF OnChain
    <2>2. r \in MinedStates /\ b \in BOOLEAN
        BY DEF Receipt, MinedStates
    <2>3. Observations(h) = {<<"receipt_unavailable", FALSE>>, <<r, FALSE>>, <<r, b>>}
        BY <1>3, <2>1 DEF Observations
    <2>4. (b => chain[h] = "final") /\ r = Receipt(h)
        OBVIOUS
    <2> HIDE DEF b, r
    <2>5. (\E s \in {"receipt_unavailable", r} : o = <<s, FALSE>>) \/ o = <<r, b>>
        BY <2>3
    <2>6. /\ o[1] \in {"receipt_unavailable", r}
          /\ o[2] = FALSE \/ (o[1] = r /\ o[2] = b)
        <3>1. ASSUME NEW s \in {"receipt_unavailable", r}, o = <<s, FALSE>>
              PROVE  o[1] = s /\ o[2] = FALSE
            BY <3>1, PairParts
        <3>2. ASSUME o = <<r, b>> PROVE o[1] = r /\ o[2] = b
            BY <3>2, PairParts, Zenon
        <3> QED
            BY <2>5, <3>1, <3>2, Zenon
    <2> QED
        BY <2>1, <2>2, <2>4, <2>6 DEF States, MinedStates
<1> QED
    BY <1>1, <1>2, <1>3 DEF ChainStatus

LEMMA RefreshSteps ==
    ASSUME WalletInv,
           \/ HistoryStart \/ HistoryStop \/ HistoryIgnore \/ HistoryDone
           \/ \E h \in Hash : HistoryQuery(h)
    PROVE  WalletRest'
<1>1. UNCHANGED <<journalVars, serviceVars, op, networkVars, spent>>
    BY DEF HistoryStart, HistoryStop, HistoryIgnore, HistoryDone, HistoryQuery
<1>2. CASE HistoryStart
    <2>1. DOMAIN RefreshItems \subseteq DOMAIN journal /\ DOMAIN journal \subseteq Known
        BY DEF RefreshItems, Known
    <2>2. RefreshItems \in [DOMAIN RefreshItems -> Nat]
        BY DEF RefreshItems, WalletInv, JournalInv, GapInv, JournalTypeOK, Record
    <2>3. DOMAIN RefreshItems \subseteq Hash
        BY <2>1, KnownRecord
    <2> QED
        BY <1>1, <1>2, <2>2, <2>3, ScanningOK, RefreshMoves DEF HistoryStart
<1>3. CASE HistoryStop
    <2>1. refresh' = [NoRefresh EXCEPT !.step = "scanning", !.items = NoItems]
        <3>1. NoRefresh.items = NoItems
            BY DEF NoRefresh
        <3>2. [NoRefresh EXCEPT !.step = "scanning"]
                = [NoRefresh EXCEPT !.step = "scanning", !.items = NoItems]
            BY <3>1 DEF NoRefresh
        <3> QED
            BY <1>3, <3>2 DEF HistoryStop
    <2>2. DOMAIN NoItems \subseteq Hash /\ NoItems \in [DOMAIN NoItems -> Nat]
        BY DEF NoItems
    <2> QED
        BY <1>1, <2>1, <2>2, ScanningOK, RefreshMoves
<1>4. CASE HistoryIgnore
    BY <1>1, <1>4, NextItemOK, RefreshMoves DEF HistoryIgnore
<1>5. CASE HistoryDone
    BY <1>1, <1>5, NoRefreshOK, RefreshMoves DEF HistoryDone
<1>6. ASSUME NEW h \in Hash, HistoryQuery(h) PROVE RefreshPart'
    <2>1. PICK o \in Observations(h) :
              refresh' = [refresh EXCEPT !.step = "observed", !.hash = h,
                                         !.state = o[1], !.final = o[2]]
        BY <1>6 DEF HistoryQuery
    <2> DEFINE state == o[1]
               final == o[2]
    <2>2. state \in States \cup {"not_found"} /\ state # "none" /\ final \in BOOLEAN
        BY ObservationType
    <2>3. refresh' = [refresh EXCEPT !.step = "observed", !.hash = h,
                                     !.state = state, !.final = final]
        BY <2>1
    <2> HIDE DEF state, final
    <2>4. /\ refresh' \in RefreshSet' /\ refresh'.items = refresh.items
          /\ refresh'.hash = h /\ refresh'.state = state
        BY <2>2, <2>3 DEF WalletInv, WalletRest, RefreshPart, RefreshSet, RefreshStep
    <2> QED
        BY <1>6, <2>2, <2>4 DEF HistoryQuery, WalletInv, WalletRest, RefreshPart
<1> QED
    BY <1>1, <1>2, <1>3, <1>4, <1>5, <1>6, RefreshMoves

LEMMA HistoryWritesRest ==
    ASSUME WalletInv,
           \/ \E outcome \in UpdateOutcome : HistoryApply(outcome)
           \/ \E fileOutcome, outcome \in WriteOutcome : HistoryArchive(fileOutcome, outcome)
    PROVE  WalletRest'
<1>1. /\ UNCHANGED <<quotes, quoted, op, networkVars>>
      /\ storageFault' \in BOOLEAN
    BY DEF HistoryApply, HistoryArchive, WalletInv, WalletRest, ServiceType
<1>2. quotes' = [q \in DOMAIN quotes' |-> quotes'[q]]
    BY <1>1 DEF WalletInv, WalletRest, ServiceType
<1>3. ASSUME NEW outcome \in UpdateOutcome, HistoryApply(outcome) PROVE WalletRest'
    <2>1. JournalStep
        BY <1>3, ApplyUpdates DEF JournalStep
    <2>2. FaultPart'
        BY <1>3, UpdateFault DEF HistoryApply
    <2>3. RefreshPart'
        BY <1>3, NoRefreshOK, NextItemOK DEF HistoryApply
    <2>4. Charge({outcome})
        BY <1>3 DEF HistoryApply
    <2> QED
        BY <1>1, <1>2, <2>1, <2>2, <2>3, <2>4, SameOp, WritesRest
<1>4. ASSUME NEW fileOutcome \in WriteOutcome, NEW outcome \in WriteOutcome,
             HistoryArchive(fileOutcome, outcome)
      PROVE  WalletRest'
    <2>1. JournalStep
        BY <1>4 DEF HistoryArchive, JournalStep, CallerArchive
    <2>2. FaultPart'
        BY <1>4 DEF HistoryArchive, ArchiveFinalized, atomicSave, FaultPart
    <2>3. RefreshPart'
        BY <1>4, NoRefreshOK DEF HistoryArchive
    <2>4. Charge({fileOutcome, outcome})
        BY <1>4 DEF HistoryArchive
    <2> QED
        BY <1>1, <1>2, <2>1, <2>2, <2>3, <2>4, SameOp, WritesRest
<1> QED
    BY <1>3, <1>4

----------------------------------------------------------------------------
(* Restart, and all steps together. *)

LEMMA RestartRest == ASSUME WalletInv, Restart PROVE WalletRest'
<1>1. /\ Load
      /\ quotes' = [q \in {} |-> {}]
      /\ storageFault' = FALSE
      /\ op' = Idle /\ refresh' = NoRefresh
      /\ UNCHANGED <<quoted, networkVars>>
      /\ spent.restart < MaxRestarts /\ spent' = [spent EXCEPT !.restart = @ + 1]
    BY DEF Restart
<1>2. ServiceType'
    BY <1>1 DEF WalletInv, WalletRest, ServiceType
<1>3. OpPart' /\ RefreshPart'
    BY <1>1, IdleOp, NoRefreshOK
<1>4. NetworkType' /\ SentPart'
    BY <1>1 DEF WalletInv, WalletRest, NetworkType, SentPart, Load, networkVars
<1>5. SpentType'
    BY <1>1, WalletBoundAssumption DEF WalletInv, WalletRest, SpentType, WalletBoundAssumption
<1>6. FaultPart'
    BY <1>1 DEF FaultPart, Load
<1> QED
    BY <1>2, <1>3, <1>4, <1>5, <1>6 DEF WalletRest

LEMMA WalletInvKept == WalletInv /\ [Next]_walletVars => WalletInv'
<1> SUFFICES ASSUME WalletInv, [Next]_walletVars PROVE WalletRest'
    BY JournalMoves, JournalInvKept DEF WalletInv
<1>1. CASE Network
    BY <1>1, NetworkRest
<1>2. CASE Quoting
    BY <1>2, QuotingRest
<1>3. CASE Sending
    <2>1. CASE (\E q \in Quote : SendStart(q)) \/ SendCheckNonce \/ GiveUp
        <3>1. UNCHANGED <<journalVars, serviceVars, refresh, networkVars, spent>>
            BY <2>1 DEF SendStart, SendCheckNonce, GiveUp
        <3> QED
            BY <2>1, <3>1, OpStarts
    <2> QED
        BY <1>3, <2>1, SendAppendRest, BroadcastsRest, FinishRest DEF Sending
<1>4. CASE Retrying
    <2>1. CASE \E h \in Hash : RetryStart(h)
        <3>1. UNCHANGED <<journalVars, serviceVars, refresh, networkVars, spent>>
            BY <2>1 DEF RetryStart
        <3> QED
            BY <2>1, <3>1, OpStarts
    <2> QED
        BY <1>4, <2>1, BroadcastsRest, FinishRest DEF Retrying
<1>5. CASE Refreshing
    BY <1>5, RefreshSteps, HistoryWritesRest DEF Refreshing
<1>6. CASE Restart
    BY <1>6, RestartRest
<1>7. CASE UNCHANGED walletVars
    <2>1. UNCHANGED <<journalVars, serviceVars, refresh, networkVars, spent>> /\ op' = op
        BY <1>7 DEF walletVars
    <2>2. OpPart'
        BY <2>1, KnownKept DEF WalletInv, WalletRest, OpPart, serviceVars
    <2> QED
        BY <2>1, <2>2, OpMoves
<1> QED
    BY <1>1, <1>2, <1>3, <1>4, <1>5, <1>6, <1>7 DEF Next

\* The invariant every other proof rests on.
THEOREM WalletInvariant == Spec => []WalletInv
    BY InitWalletInv, WalletInvKept, PTL DEF Spec

\* Records, quotes, the operation and the refresh keep their shape, and an
\* operation always works on a quote and a record that are there.
THEOREM WalletTypeCorrect == Spec => []TypeOK
<1>1. WalletInv => TypeOK
    BY DEF WalletInv, WalletRest, JournalInv, GapInv, ServiceType, OpPart, OpSet,
           RefreshPart, RefreshSet, NetworkType, SpentType, TypeOK
<1> QED
    BY <1>1, WalletInvariant, PTL

\* "Must persist atomically before any RPC broadcast" (Send): whatever was handed
\* to the RPC is in journal.json or in an archive, whichever writes failed and
\* wherever the process was killed.
THEOREM BroadcastIsStored == Spec => []SentIsStored
<1>1. WalletInv => SentIsStored
    BY NothingUnstored DEF WalletInv, WalletRest, SentPart, NeverAGap, SentIsStored
<1> QED
    BY <1>1, WalletInvariant, PTL

\* A wallet that accepts payments knows exactly what its files know: journal.json
\* is what is in memory, and every archived record has a file.
THEOREM DiskIsMemory == Spec => []UnfaultedMatchesDisk
<1>1. ASSUME WalletInv PROVE DOMAIN archived \subseteq FileHashes
    <2> SUFFICES ASSUME NEW h \in DOMAIN archived PROVE h \in FileHashes
        OBVIOUS
    <2>1. h \in stored /\ h \notin DOMAIN journal
        BY <1>1 DEF WalletInv, JournalInv, OnceInMemory
    <2>2. FiledApart(h, DOMAIN journal)
        BY <1>1, <2>1 DEF WalletInv, JournalInv, GapInv, AllHeld, Held
    <2> QED
        BY <2>2 DEF FiledApart, FileHashes
<1>2. WalletInv => UnfaultedMatchesDisk
    BY <1>1 DEF WalletInv, WalletRest, FaultPart, UnfaultedMatchesDisk
<1> QED
    BY <1>2, WalletInvariant, PTL


----------------------------------------------------------------------------
(* Versions.  An answer and an observation are applied only if the record  *)
(* has the version it had when they were asked for, and a record never     *)
(* gets a version back, so what was true of it then still is.              *)

Working == {"appended", "answered", "retrying", "retried"}

\* The record an operation works on was open at the version it read.
AnswerPart ==
    op.step \in Working /\ op.hash \in DOMAIN journal =>
        /\ journal[op.hash].version >= op.version
        /\ journal[op.hash].version = op.version => journal[op.hash].state \notin MinedStates

\* The records a refresh asks about were not final at the version it read.
ItemsPart ==
    /\ DOMAIN refresh.items \subseteq Known
    /\ \A h \in DOMAIN refresh.items \cap DOMAIN journal :
          /\ journal[h].version >= refresh.items[h]
          /\ journal[h].version = refresh.items[h] => ~journal[h].final

\* A record is final in the active journal only because it was mined; in the
\* archive every record is.
FinalPart ==
    /\ \A h \in DOMAIN journal : journal[h].final => journal[h].state \in MinedStates
    /\ \A h \in DOMAIN disk : disk[h].final => disk[h].state \in MinedStates
    /\ \A h \in DOMAIN archived : archived[h].final
    /\ refresh.step = "observed" /\ refresh.final => refresh.state \in MinedStates

VersionInv == AnswerPart /\ ItemsPart /\ FinalPart

\* The record an update makes of journal[h], and where it is written.
Updates(h, v, s, f, outcome, r) ==
    /\ r.quote = journal[h].quote /\ r.nonce = journal[h].nonce
    /\ r.state = s /\ r.final = f /\ r.version = v + 1
    /\ disk' = IF outcome = "lost" THEN disk ELSE Put(journal, h, r)
    /\ journal' = IF outcome = "ok" THEN Put(journal, h, r) ELSE journal

\* What an update does: nothing, or one record gets the state, the finality and
\* the next version.
LEMMA UpdateCases ==
    ASSUME JournalTypeOK, NEW h, NEW v \in Nat, NEW s \in States, NEW f \in BOOLEAN, NEW outcome,
           UpdateStateAtomicIfVersion(h, v, s, f, outcome)
    PROVE  /\ UNCHANGED <<archived, files, signed, stored>>
           /\ \/ UNCHANGED <<journal, disk>>
              \/ /\ h \in DOMAIN journal /\ journal[h].version = v
                 /\ outcome \in WriteOutcome
                 /\ \E r \in Record : Updates(h, v, s, f, outcome, r)
<1> DEFINE r == [journal[h] EXCEPT !.state = s, !.final = f, !.version = v + 1]
<1>1. UNCHANGED <<archived, files, signed, stored>>
    BY DEF UpdateStateAtomicIfVersion
<1>2. CASE UNCHANGED <<journal, disk>>
    BY <1>1, <1>2
<1>3. CASE ~UNCHANGED <<journal, disk>>
    <2>1. /\ h \in DOMAIN journal /\ journal[h].version = v
          /\ outcome \in WriteOutcome
          /\ atomicSave(Put(journal, h, r), outcome)
        BY <1>3 DEF UpdateStateAtomicIfVersion
    <2>2. journal[h] \in Record
        BY <2>1 DEF JournalTypeOK
    <2>3. r \in Record
        BY <2>2, UpdatedRecord
    <2>4. /\ r.quote = journal[h].quote /\ r.nonce = journal[h].nonce
          /\ r.state = s /\ r.final = f /\ r.version = v + 1
        BY <2>2 DEF Record
    <2>5. /\ disk' = IF outcome = "lost" THEN disk ELSE Put(journal, h, r)
          /\ journal' = IF outcome = "ok" THEN Put(journal, h, r) ELSE journal
        BY <2>1 DEF atomicSave
    <2> HIDE DEF r
    <2>6. Updates(h, v, s, f, outcome, r)
        BY <2>4, <2>5 DEF Updates
    <2> QED
        BY <1>1, <2>1, <2>3, <2>6
<1> QED
    BY <1>2, <1>3

\* Only a record that was never known enters memory, and versions rise.
LEMMA VersionsRise ==
    ASSUME JournalInv, CallerAppend \/ AnyUpdate \/ CallerArchive \/ UNCHANGED journalVars
    PROVE  /\ \A h \in DOMAIN journal' \ DOMAIN journal : h \notin Known
           /\ \A h \in DOMAIN journal' \cap DOMAIN journal :
                 \/ journal'[h] = journal[h]
                 \/ journal'[h].version = journal[h].version + 1
<1> USE DEF JournalInv, GapInv
<1>1. CASE CallerAppend
    <2>1. PICK r \in Record, outcome \in WriteOutcome :
              atomicSave(Put(journal, signed + 1, r), outcome)
        <3>1. PICK q \in Quote, n \in Nonce, outcome \in WriteOutcome :
                  AppendAtomic(q, n, outcome)
            BY <1>1 DEF CallerAppend
        <3>2. [quote |-> q, nonce |-> n, state |-> "pending", final |-> FALSE, version |-> 1]
                  \in Record
            BY DEF Record, States
        <3> QED
            BY <3>1, <3>2 DEF AppendAtomic
    <2>2. signed + 1 \notin Known
        BY DEF JournalTypeOK, Known
    <2> QED
        BY <2>1, <2>2 DEF atomicSave, Put, Known
<1>2. CASE AnyUpdate
    <2>1. PICK h \in Hash, v \in Nat, s \in States, f \in BOOLEAN, outcome \in UpdateOutcome :
              UpdateStateAtomicIfVersion(h, v, s, f, outcome)
        BY <1>2 DEF AnyUpdate
    <2>2. \/ journal' = journal
          \/ /\ h \in DOMAIN journal /\ journal[h].version = v
             /\ \E r \in Record : Updates(h, v, s, f, outcome, r)
        BY <2>1, UpdateCases
    <2> QED
        BY <2>2 DEF Updates, Put
<1>3. CASE CallerArchive
    BY <1>3 DEF CallerArchive, ArchiveFinalized, atomicSave, Only
<1>4. CASE UNCHANGED journalVars
    BY <1>4 DEF journalVars
<1> QED
    BY <1>1, <1>2, <1>3, <1>4


LEMMA InitVersionInv == Init => VersionInv
<1> SUFFICES ASSUME Init PROVE VersionInv
    OBVIOUS
<1>1. op.step = "idle" /\ refresh.step = "idle" /\ DOMAIN refresh.items = {}
    BY DEF Init, Idle, NoRefresh, NoItems
<1> QED
    BY <1>1 DEF Init, JournalInit, NoRecords, VersionInv, AnswerPart, ItemsPart, FinalPart,
                Working

\* What a step makes of the operation.
LEMMA OpCases ==
    ASSUME [Next]_walletVars
    PROVE  \/ op' = op \/ op' = Idle
           \/ \E q \in Quote : SendStart(q)
           \/ SendCheckNonce
           \/ \E outcome \in WriteOutcome : SendAppend(outcome)
           \/ \E accepted \in BOOLEAN : SendBroadcast(accepted) \/ RetryBroadcast(accepted)
           \/ \E h \in Hash : RetryStart(h)
<1>1. CASE Network \/ Quoting
    BY <1>1 DEF Network, Deliver, Mine, Drop, Finalize, Reorg,
                Quoting, QuoteNew, QuoteReplacement, AddQuote
<1>2. CASE Sending
    BY <1>2 DEF Sending, GiveUp, SendFinish, RecordAnswer
<1>3. CASE Retrying
    BY <1>3 DEF Retrying, RetryFinish, RecordAnswer
<1>4. CASE Refreshing
    BY <1>4 DEF Refreshing, HistoryStart, HistoryStop, HistoryIgnore, HistoryDone,
                HistoryQuery, HistoryApply, HistoryArchive
<1>5. CASE Restart \/ UNCHANGED walletVars
    BY <1>5 DEF Restart, walletVars
<1> QED
    BY <1>1, <1>2, <1>3, <1>4, <1>5 DEF Next

\* How an operation comes to work on a record, and goes on with it.
LEMMA OpContinues ==
    ASSUME WalletInv, [Next]_walletVars
    PROVE  \/ op'.step \notin Working
           \/ /\ op.step \in Working /\ op'.hash = op.hash /\ op'.version = op.version
              /\ ~Restart
           \/ SendAppend("ok")
           \/ \E h \in Hash : RetryStart(h)
<1> USE DEF Working
<1>1. op \in OpSet
    BY DEF WalletInv, WalletRest, OpPart
<1>2. CASE op' = op
    <2>1. Restart => op'.step \notin Working
        BY DEF Restart, Idle
    <2> QED
        BY <1>2, <2>1
<1>3. CASE op' = Idle
    BY <1>3 DEF Idle
<1>4. CASE \E q \in Quote : SendStart(q)
    BY <1>4 DEF SendStart, Idle
<1>5. CASE SendCheckNonce
    BY <1>1, <1>5 DEF SendCheckNonce, OpSet
<1>6. ASSUME NEW accepted \in BOOLEAN, SendBroadcast(accepted) \/ RetryBroadcast(accepted)
      PROVE  op.step \in Working /\ op'.hash = op.hash /\ op'.version = op.version /\ ~Restart
    <2>1. spent' = spent
        BY <1>6 DEF SendBroadcast, RetryBroadcast
    <2>2. ~Restart
        BY <2>1 DEF Restart, WalletInv, WalletRest, SpentType
    <2> QED
        BY <1>1, <1>6, <2>2 DEF SendBroadcast, RetryBroadcast, OpSet
<1>7. ASSUME NEW outcome \in WriteOutcome, SendAppend(outcome) PROVE op' = Idle \/ SendAppend("ok")
    BY <1>7 DEF SendAppend
<1> QED
    BY <1>2, <1>3, <1>4, <1>5, <1>6, <1>7, OpCases

LEMMA AnswerKept ==
    ASSUME WalletInv, AnswerPart, [Next]_walletVars
    PROVE  AnswerPart'
<1>1. JournalTypeOK /\ JournalTypeOK' /\ OnceInMemory /\ op \in OpSet
    <2>1. JournalInv'
        BY JournalMoves, JournalInvKept DEF WalletInv
    <2> QED
        BY <2>1 DEF WalletInv, WalletRest, JournalInv, GapInv, OpPart
<1>2. CASE op'.step \notin Working
    BY <1>2 DEF AnswerPart
<1>3. CASE /\ op.step \in Working /\ op'.hash = op.hash /\ op'.version = op.version
           /\ ~Restart
    <2> SUFFICES ASSUME op.hash \in DOMAIN journal'
                 PROVE  /\ journal'[op.hash].version >= op.version
                        /\ journal'[op.hash].version = op.version =>
                               journal'[op.hash].state \notin MinedStates
        BY <1>3 DEF AnswerPart
    <2>1. CallerAppend \/ AnyUpdate \/ CallerArchive \/ UNCHANGED journalVars
        BY <1>3, QuietUnlessRestart
    <2>2. op.hash \in DOMAIN journal
        BY <1>3, <2>1, VersionsRise DEF Working, WalletInv, WalletRest, OpPart
    <2>3. \/ journal'[op.hash] = journal[op.hash]
          \/ journal'[op.hash].version = journal[op.hash].version + 1
        BY <2>1, <2>2, VersionsRise DEF WalletInv
    <2>4. /\ journal[op.hash].version \in Nat /\ op.version \in Nat
          /\ journal[op.hash].version >= op.version
          /\ journal[op.hash].version = op.version => journal[op.hash].state \notin MinedStates
        BY <1>1, <1>3, <2>2 DEF JournalTypeOK, Record, OpSet, AnswerPart
    <2> QED
        BY <2>3, <2>4
<1>4. CASE SendAppend("ok")
    <2> DEFINE r == [quote |-> op.quote, nonce |-> quotes[op.quote].nonce, state |-> "pending",
                     final |-> FALSE, version |-> 1]
    <2>1. journal' = Put(journal, signed', r)
        BY <1>4 DEF SendAppend, AppendAtomic, atomicSave
    <2>2. r.version = 1 /\ r.state \notin MinedStates
        BY DEF MinedStates
    <2> HIDE DEF r
    <2>3. journal'[signed'] = r
        BY <2>1 DEF Put
    <2>4. op' = [op EXCEPT !.step = "appended", !.hash = signed', !.version = 1]
        BY <1>4 DEF SendAppend
    <2>5. op'.hash = signed' /\ op'.version = 1
        BY <1>1, <2>4 DEF OpSet
    <2> QED
        BY <2>2, <2>3, <2>5 DEF AnswerPart
<1>5. ASSUME NEW h \in Hash, RetryStart(h) PROVE AnswerPart'
    <2> DEFINE v == Rec(h).version
    <2>1. /\ h \in Known /\ ~NonceMined(Rec(h).nonce) /\ journal' = journal
          /\ op' = [Idle EXCEPT !.step = "retrying", !.hash = h, !.version = v]
        BY <1>5 DEF RetryStart, journalVars
    <2>2. Rec(h).state \notin MinedStates
        BY <2>1 DEF NonceMined, NonceRecords
    <2>3. op'.hash = h /\ op'.version = v
        BY <2>1 DEF Idle
    <2>4. h \in DOMAIN journal => Rec(h) = journal[h] /\ journal[h].version \in Nat
        BY <1>1 DEF OnceInMemory, Rec, JournalTypeOK, Record
    <2> QED
        BY <2>1, <2>2, <2>3, <2>4 DEF AnswerPart
<1> QED
    BY <1>2, <1>3, <1>4, <1>5, OpContinues

----------------------------------------------------------------------------

\* A refresh begins with the open records, and goes on with those that are left.
LEMMA RefreshContinues ==
    ASSUME WalletInv, [Next]_walletVars
    PROVE  \/ DOMAIN refresh'.items = {}
           \/ /\ DOMAIN refresh'.items \subseteq DOMAIN refresh.items
              /\ \A h \in DOMAIN refresh'.items : refresh'.items[h] = refresh.items[h]
              /\ ~Restart
           \/ HistoryStart
<1>1. refresh \in RefreshSet
    BY DEF WalletInv, WalletRest, RefreshPart
<1>2. NoRefresh.items = NoItems /\ DOMAIN NoItems = {}
    BY DEF NoRefresh, NoItems
<1>3. CASE Restart
    BY <1>2, <1>3 DEF Restart
<1>4. CASE refresh' = refresh /\ ~Restart
    BY <1>4
<1>5. CASE refresh' = NoRefresh \/ HistoryStop
    <2>1. [NoRefresh EXCEPT !.step = "scanning"].items = NoItems
        BY DEF NoRefresh
    <2> QED
        BY <1>2, <1>5, <2>1 DEF HistoryStop
<1>6. CASE refresh' = NextItem /\ ~Restart
    <2> DEFINE items == Only(refresh.items, DOMAIN refresh.items \ {refresh.hash})
    <2>1. refresh' = [NoRefresh EXCEPT !.step = "scanning", !.items = items]
        BY <1>6 DEF NextItem
    <2>2. refresh'.items = items
        BY <2>1 DEF NoRefresh
    <2> QED
        BY <1>6, <2>2 DEF Only
<1>7. ASSUME NEW h \in Hash, HistoryQuery(h) PROVE refresh'.items = refresh.items
    <2>1. PICK o \in Observations(h) :
              refresh' = [refresh EXCEPT !.step = "observed", !.hash = h,
                                         !.state = o[1], !.final = o[2]]
        BY <1>7 DEF HistoryQuery
    <2> QED
        BY <1>1, <2>1 DEF RefreshSet
<1>8. \/ refresh' = refresh \/ refresh' = NoRefresh \/ refresh' = NextItem
      \/ HistoryStart \/ HistoryStop
      \/ \E h \in Hash : HistoryQuery(h)
    <2>1. CASE Network \/ Quoting
        BY <2>1 DEF Network, Deliver, Mine, Drop, Finalize, Reorg,
                    Quoting, QuoteNew, QuoteReplacement, AddQuote
    <2>2. CASE Sending
        BY <2>2 DEF Sending, SendStart, SendCheckNonce, GiveUp, SendAppend, SendBroadcast,
                    SendFinish
    <2>3. CASE Retrying
        BY <2>3 DEF Retrying, RetryStart, RetryBroadcast, RetryFinish
    <2>4. CASE Refreshing
        BY <2>4 DEF Refreshing, HistoryIgnore, HistoryDone, HistoryApply, HistoryArchive
    <2>5. CASE Restart \/ UNCHANGED walletVars
        BY <2>5 DEF Restart, walletVars
    <2> QED
        BY <2>1, <2>2, <2>3, <2>4, <2>5 DEF Next
<1> QED
    BY <1>3, <1>4, <1>5, <1>6, <1>7, <1>8

LEMMA ItemsKept ==
    ASSUME WalletInv, ItemsPart, [Next]_walletVars
    PROVE  ItemsPart'
<1>1. JournalTypeOK /\ Known \subseteq Known'
    BY JournalMoves, KnownGrows DEF WalletInv, JournalInv, GapInv
<1>2. CASE DOMAIN refresh'.items = {}
    BY <1>2 DEF ItemsPart
<1>3. CASE /\ DOMAIN refresh'.items \subseteq DOMAIN refresh.items
           /\ \A h \in DOMAIN refresh'.items : refresh'.items[h] = refresh.items[h]
           /\ ~Restart
    <2>1. CallerAppend \/ AnyUpdate \/ CallerArchive \/ UNCHANGED journalVars
        BY <1>3, QuietUnlessRestart
    <2>2. DOMAIN refresh'.items \subseteq Known'
        BY <1>1, <1>3 DEF ItemsPart
    <2>3. ASSUME NEW h \in DOMAIN refresh'.items, h \in DOMAIN journal'
          PROVE  /\ journal'[h].version >= refresh'.items[h]
                 /\ journal'[h].version = refresh'.items[h] => ~journal'[h].final
        <3>1. h \in DOMAIN refresh.items /\ refresh'.items[h] = refresh.items[h] /\ h \in Known
            BY <1>3, <2>3 DEF ItemsPart
        <3>2. h \in DOMAIN journal
            BY <2>1, <2>3, <3>1, VersionsRise DEF WalletInv
        <3>3. \/ journal'[h] = journal[h]
              \/ journal'[h].version = journal[h].version + 1
            BY <2>1, <2>3, <3>2, VersionsRise DEF WalletInv
        <3>4. /\ journal[h].version \in Nat /\ refresh.items[h] \in Nat
              /\ journal[h].version >= refresh.items[h]
              /\ journal[h].version = refresh.items[h] => ~journal[h].final
            BY <1>1, <3>1, <3>2
               DEF JournalTypeOK, Record, ItemsPart, WalletInv, WalletRest, RefreshPart
        <3> QED
            BY <3>1, <3>3, <3>4
    <2> QED
        BY <2>2, <2>3 DEF ItemsPart
<1>4. CASE HistoryStart
    <2>1. refresh' = [NoRefresh EXCEPT !.step = "scanning", !.items = RefreshItems]
          /\ UNCHANGED <<journal, archived>>
        BY <1>4 DEF HistoryStart, journalVars
    <2>2. refresh'.items = RefreshItems
        BY <2>1 DEF NoRefresh
    <2>3. /\ DOMAIN RefreshItems \subseteq DOMAIN journal
          /\ \A h \in DOMAIN RefreshItems : /\ RefreshItems[h] = journal[h].version
                                            /\ ~journal[h].final
                                            /\ journal[h].version \in Nat
        BY <1>1 DEF RefreshItems, JournalTypeOK, Record
    <2> QED
        BY <2>1, <2>2, <2>3 DEF ItemsPart, Known
<1> QED
    BY <1>2, <1>3, <1>4, RefreshContinues


----------------------------------------------------------------------------

\* The updates of the wallet: an answer is never final, and an observation is
\* final only if it says the transaction was mined.
WalletUpdate(h, v, s, f, outcome) ==
    /\ UpdateStateAtomicIfVersion(h, v, s, f, outcome)
    /\ \/ /\ op.step \in {"answered", "retried"} /\ f = FALSE
          /\ h = op.hash /\ v = op.version /\ s \notin MinedStates
          /\ refresh' = refresh
       \/ /\ refresh.step = "observed" /\ f = refresh.final /\ refresh' # refresh
          /\ h = refresh.hash /\ v = refresh.items[h]
          /\ s = IF refresh.state = "not_found" THEN "broadcast_unknown" ELSE refresh.state

\* What a step does to the journal.
LEMMA JournalCases ==
    ASSUME WalletInv, [Next]_walletVars
    PROVE  \/ UNCHANGED journalVars
           \/ \E outcome \in WriteOutcome : SendAppend(outcome)
           \/ \E h \in Hash, v \in Nat, s \in States, f \in BOOLEAN, outcome \in UpdateOutcome :
                 WalletUpdate(h, v, s, f, outcome)
           \/ CallerArchive /\ refresh' # refresh
           \/ Restart
<1>1. CASE Network \/ Quoting
    BY <1>1 DEF Network, Deliver, Mine, Drop, Finalize, Reorg,
                Quoting, QuoteNew, QuoteReplacement, AddQuote
<1>2. ASSUME NEW outcome \in UpdateOutcome, SendFinish(outcome) \/ RetryFinish(outcome)
      PROVE  WalletUpdate(op.hash, op.version, BroadcastState, FALSE, outcome)
             /\ op.hash \in Hash /\ op.version \in Nat /\ BroadcastState \in States
    <2>1. op.hash \in Hash /\ op.version \in Nat
        BY <1>2, KnownRecord DEF SendFinish, RetryFinish, WalletInv, WalletRest, OpPart, OpSet
    <2>2. BroadcastState \in States \ MinedStates
        BY DEF BroadcastState, States, MinedStates
    <2> QED
        BY <1>2, <2>1, <2>2 DEF SendFinish, RetryFinish, RecordAnswer, WalletUpdate
<1>3. ASSUME NEW outcome \in UpdateOutcome, HistoryApply(outcome)
      PROVE  \E h \in Hash, v \in Nat, s \in States, f \in BOOLEAN :
                 WalletUpdate(h, v, s, f, outcome)
    <2> DEFINE s == IF refresh.state = "not_found" THEN "broadcast_unknown" ELSE refresh.state
    <2>1. /\ refresh.hash \in Hash /\ refresh.items[refresh.hash] \in Nat
          /\ refresh.final \in BOOLEAN
        BY <1>3 DEF HistoryApply, WalletInv, WalletRest, RefreshPart, RefreshSet
    <2>2. s \in States
        BY <1>3 DEF HistoryApply, WalletInv, WalletRest, RefreshPart, RefreshSet, States
    <2>3. refresh' # refresh
        <3>1. NoRefresh.step = "idle" /\ NextItem.step = "scanning"
            BY DEF NoRefresh, NextItem
        <3> QED
            BY <1>3, <3>1 DEF HistoryApply
    <2>4. WalletUpdate(refresh.hash, refresh.items[refresh.hash], s, refresh.final, outcome)
        BY <1>3, <2>3 DEF HistoryApply, WalletUpdate
    <2> HIDE DEF s
    <2> QED
        BY <2>1, <2>2, <2>4
<1>4. CASE Sending
    BY <1>2, <1>4 DEF Sending, SendStart, SendCheckNonce, GiveUp, SendBroadcast
<1>5. CASE Retrying
    BY <1>2, <1>5 DEF Retrying, RetryStart, RetryBroadcast
<1>6. CASE Refreshing
    <2>1. ASSUME NEW fileOutcome \in WriteOutcome, NEW outcome \in WriteOutcome,
                 HistoryArchive(fileOutcome, outcome)
          PROVE  CallerArchive /\ refresh' # refresh
        BY <2>1 DEF HistoryArchive, CallerArchive, NoRefresh
    <2> QED
        BY <1>3, <1>6, <2>1 DEF Refreshing, HistoryStart, HistoryStop, HistoryIgnore,
                                HistoryDone, HistoryQuery
<1>7. CASE UNCHANGED walletVars
    BY <1>7 DEF walletVars
<1> QED
    BY <1>1, <1>4, <1>5, <1>6, <1>7 DEF Next

\* What a step makes of the refresh.
LEMMA ObservedCases ==
    ASSUME WalletInv, [Next]_walletVars
    PROVE  \/ refresh' = refresh
           \/ refresh'.step # "observed"
           \/ \E h \in Hash : HistoryQuery(h)
<1>1. CASE Network \/ Quoting
    BY <1>1 DEF Network, Deliver, Mine, Drop, Finalize, Reorg,
                Quoting, QuoteNew, QuoteReplacement, AddQuote
<1>2. CASE Sending
    BY <1>2 DEF Sending, SendStart, SendCheckNonce, GiveUp, SendAppend, SendBroadcast, SendFinish
<1>3. CASE Retrying
    BY <1>3 DEF Retrying, RetryStart, RetryBroadcast, RetryFinish
<1>4. CASE Refreshing
    <2>1. NoRefresh.step = "idle" /\ NextItem.step = "scanning"
        BY DEF NoRefresh, NextItem
    <2>2. [NoRefresh EXCEPT !.step = "scanning"].step = "scanning"
        BY DEF NoRefresh
    <2>3. [NoRefresh EXCEPT !.step = "scanning", !.items = RefreshItems].step = "scanning"
        BY DEF NoRefresh
    <2> QED
        BY <1>4, <2>1, <2>2, <2>3 DEF Refreshing, HistoryStart, HistoryStop, HistoryIgnore,
                                      HistoryDone, HistoryApply, HistoryArchive
<1>5. CASE Restart
    BY <1>5 DEF Restart, NoRefresh
<1>6. CASE UNCHANGED walletVars
    BY <1>6 DEF walletVars
<1> QED
    BY <1>1, <1>2, <1>3, <1>4, <1>5, <1>6 DEF Next

LEMMA QueryIs ==
    ASSUME WalletInv, NEW h \in Hash, HistoryQuery(h)
    PROVE  \E o \in Observations(h) : refresh'.hash = h /\ refresh'.state = o[1]
                                        /\ refresh'.final = o[2]
<1>1. PICK o \in Observations(h) :
          refresh' = [refresh EXCEPT !.step = "observed", !.hash = h, !.state = o[1], !.final = o[2]]
    BY DEF HistoryQuery
<1> DEFINE state == o[1]
           final == o[2]
<1>2. /\ refresh' = [refresh EXCEPT !.step = "observed", !.hash = h,
                                    !.state = state, !.final = final]
    BY <1>1
<1> HIDE DEF state, final
<1>3. refresh'.hash = h /\ refresh'.state = state /\ refresh'.final = final
    BY <1>2 DEF WalletInv, WalletRest, RefreshPart, RefreshSet
<1> USE DEF state, final
<1> QED
    BY <1>3

\* What the wallet writes with an update.
LEMMA UpdateWrites ==
    ASSUME WalletInv, NEW h \in Hash, NEW v \in Nat, NEW s \in States, NEW f \in BOOLEAN,
           NEW outcome \in UpdateOutcome, WalletUpdate(h, v, s, f, outcome)
    PROVE  archived' = archived
           /\ \/ UNCHANGED <<journal, disk>>
              \/ \E r \in Record : /\ r.state = s /\ r.final = f
                                    /\ disk' \in {disk, Put(journal, h, r)}
                                    /\ journal' \in {journal, Put(journal, h, r)}
<1>1. JournalTypeOK /\ UpdateStateAtomicIfVersion(h, v, s, f, outcome)
    BY DEF WalletUpdate, WalletInv, JournalInv, GapInv
<1>2. archived' = archived
      /\ \/ UNCHANGED <<journal, disk>>
         \/ \E r \in Record : Updates(h, v, s, f, outcome, r)
    BY <1>1, UpdateCases
<1> QED
    BY <1>2 DEF Updates

LEMMA FinalKept ==
    ASSUME WalletInv, FinalPart, [Next]_walletVars
    PROVE  FinalPart'
<1> USE DEF FinalPart
<1> DEFINE Mined(f) == \A h \in DOMAIN f : f[h].final => f[h].state \in MinedStates
<1>1. refresh'.step = "observed" /\ refresh'.final => refresh'.state \in MinedStates
    <2>1. ASSUME NEW h \in Hash, HistoryQuery(h), refresh'.final
          PROVE  refresh'.state \in MinedStates
        <3>1. Receipt(h) \in MinedStates
            BY DEF Receipt, MinedStates
        <3>2. PICK o \in Observations(h) : refresh'.state = o[1] /\ refresh'.final = o[2]
            BY <2>1, QueryIs
        <3>3. o[2] => o[1] = Receipt(h)
            BY ObservationType
        <3> QED
            BY <2>1, <3>1, <3>2, <3>3
    <2> QED
        BY <2>1, ObservedCases
<1>2. CASE UNCHANGED journalVars
    BY <1>1, <1>2 DEF journalVars
<1>3. ASSUME NEW h, NEW r, r.final => r.state \in MinedStates, archived' = archived,
             journal' \in {journal, Put(journal, h, r)}, disk' \in {disk, Put(journal, h, r)}
      PROVE  FinalPart'
    <2>1. Mined(Put(journal, h, r))
        BY <1>3 DEF Put
    <2>2. Mined(journal)' /\ Mined(disk)'
        BY <1>3, <2>1
    <2> QED
        BY <1>1, <1>3, <2>2
<1>4. ASSUME NEW outcome \in WriteOutcome, SendAppend(outcome) PROVE FinalPart'
    <2> DEFINE r == [quote |-> op.quote, nonce |-> quotes[op.quote].nonce, state |-> "pending",
                     final |-> FALSE, version |-> 1]
    <2>1. /\ journal' \in {journal, Put(journal, signed + 1, r)}
          /\ disk' \in {disk, Put(journal, signed + 1, r)}
          /\ archived' = archived
        BY <1>4 DEF SendAppend, AppendAtomic, atomicSave
    <2>2. ~r.final
        OBVIOUS
    <2> HIDE DEF r
    <2> QED
        BY <1>3, <2>1, <2>2
<1>5. ASSUME NEW h \in Hash, NEW v \in Nat, NEW s \in States, NEW f \in BOOLEAN,
             NEW outcome \in UpdateOutcome, WalletUpdate(h, v, s, f, outcome)
      PROVE  FinalPart'
    <2>1. f => s \in MinedStates
        BY <1>5 DEF WalletUpdate, MinedStates
    <2>2. archived' = archived
          /\ \/ UNCHANGED <<journal, disk>>
             \/ \E r \in Record : /\ r.state = s /\ r.final = f
                                   /\ disk' \in {disk, Put(journal, h, r)}
                                   /\ journal' \in {journal, Put(journal, h, r)}
        BY <1>5, UpdateWrites
    <2>3. CASE UNCHANGED <<journal, disk>>
        BY <1>1, <2>2, <2>3
    <2> QED
        BY <1>3, <2>1, <2>2, <2>3
<1>6. CASE CallerArchive
    <2>1. PICK fileOutcome \in WriteOutcome, outcome \in WriteOutcome :
              ArchiveFinalized(fileOutcome, outcome)
        BY <1>6 DEF CallerArchive
    <2> DEFINE keep == Only(journal, DOMAIN journal \ ArchiveSet)
    <2>2. Mined(keep)
        BY DEF Only
    <2>3. journal' \in {journal, keep} /\ disk' \in {disk, keep}
        BY <2>1 DEF ArchiveFinalized, atomicSave
    <2>4. Mined(journal)' /\ Mined(disk)'
        BY <2>2, <2>3
    <2>5. \A h \in DOMAIN archived' : archived'[h].final
        <3>1. \A h \in ArchiveSet : ArchiveRecord(journal[h]).final
            <4>1. \A h \in ArchiveSet : journal[h] \in Record
                BY DEF ArchiveSet, WalletInv, JournalInv, GapInv, JournalTypeOK
            <4> QED
                BY <4>1, ArchivedIsFinal
        <3> QED
            BY <2>1, <3>1 DEF ArchiveFinalized
    <2> QED
        BY <1>1, <2>4, <2>5
<1>7. CASE Restart
    <2>1. Load
        BY <1>7 DEF Restart
    <2>2. \A h \in DOMAIN archived' : archived'[h].final
        BY <2>1 DEF Load, LoadArchives, Loadable
    <2> QED
        BY <1>1, <2>1, <2>2 DEF Load
<1> QED
    BY <1>2, <1>4, <1>5, <1>6, <1>7, JournalCases

\* What Send, Retry and History read before an RPC call has, in the journal, that
\* version still or a later one.
THEOREM VersionInvariant == Spec => [](WalletInv /\ VersionInv)
<1>1. WalletInv /\ VersionInv /\ [Next]_walletVars => VersionInv'
    BY AnswerKept, ItemsKept, FinalKept DEF VersionInv
<1> QED
    BY <1>1, InitWalletInv, InitVersionInv, WalletInvKept, PTL DEF Spec


\* Recording the answer of a broadcast never turns a record that a refresh found
\* mined in the meantime back into an open one, whatever versions they carry.
THEOREM AnswersKeepMined == Spec => AnswerNeverUnmines
<1> DEFINE Kept == op.step \in {"answered", "retried"} /\ refresh' = refresh
                      /\ spent'.restart = spent.restart =>
                   \A h \in Known : Rec(h).state \in MinedStates => Rec(h)' = Rec(h)
<1>1. WalletInv /\ VersionInv /\ [Next]_walletVars => Kept
    <2> SUFFICES ASSUME WalletInv, VersionInv, [Next]_walletVars,
                        op.step \in {"answered", "retried"}, refresh' = refresh,
                        spent'.restart = spent.restart,
                        NEW h \in Known, Rec(h).state \in MinedStates
                 PROVE  Rec(h)' = Rec(h)
        OBVIOUS
    <2>1. CASE UNCHANGED journalVars
        BY <2>1 DEF journalVars, Rec
    <2>2. ASSUME NEW k \in Hash, NEW v \in Nat, NEW s \in States, NEW f \in BOOLEAN,
                 NEW outcome \in UpdateOutcome, WalletUpdate(k, v, s, f, outcome)
          PROVE  Rec(h)' = Rec(h)
        <3>1. k = op.hash /\ v = op.version
            BY <2>2 DEF WalletUpdate
        <3>2. archived' = archived
              /\ \/ UNCHANGED <<journal, disk>>
                 \/ /\ k \in DOMAIN journal /\ journal[k].version = v
                    /\ \E r \in Record : journal' \in {journal, Put(journal, k, r)}
            <4>1. JournalTypeOK /\ UpdateStateAtomicIfVersion(k, v, s, f, outcome)
                BY <2>2 DEF WalletUpdate, WalletInv, JournalInv, GapInv
            <4>2. archived' = archived
                BY <4>1 DEF UpdateStateAtomicIfVersion
            <4>3. CASE UNCHANGED <<journal, disk>>
                BY <4>2, <4>3
            <4>4. CASE ~UNCHANGED <<journal, disk>>
                <5>1. /\ k \in DOMAIN journal /\ journal[k].version = v
                      /\ \E r \in Record : Updates(k, v, s, f, outcome, r)
                    BY <2>2, <4>1, <4>4, UpdateCases
                <5> QED
                    BY <4>2, <5>1 DEF Updates
            <4> QED
                BY <4>3, <4>4
        <3>3. CASE UNCHANGED journal
            BY <3>2, <3>3 DEF Rec
        <3>4. CASE /\ k \in DOMAIN journal /\ journal[k].version = v
                   /\ \E r \in Record : journal' \in {journal, Put(journal, k, r)}
            <4>1. journal[k].state \notin MinedStates
                BY <3>1, <3>4 DEF VersionInv, AnswerPart, Working
            <4>2. h # k
                BY <3>4, <4>1 DEF WalletInv, JournalInv, OnceInMemory, Rec
            <4> QED
                BY <3>2, <3>4, <4>2 DEF Put, Rec, Known
        <3> QED
            BY <3>2, <3>3, <3>4
    <2>3. \A outcome \in WriteOutcome : ~SendAppend(outcome)
        BY DEF SendAppend
    <2>4. ~Restart
        BY DEF Restart, WalletInv, WalletRest, SpentType
    <2> QED
        BY <2>1, <2>2, <2>3, <2>4, JournalCases
<1> QED
    BY <1>1, VersionInvariant, PTL DEF AnswerNeverUnmines, Spec

----------------------------------------------------------------------------
(* What stops the wallet.  Only ArchiveFinalized takes records out of the  *)
(* active journal, and it ends the refresh, so an observation is applied   *)
(* to a record that is there; an answer may come too late for its own.     *)

ItemsActive == DOMAIN refresh.items \subseteq DOMAIN journal

LEMMA UpdateKeepsActive ==
    ASSUME NEW h, NEW v, NEW s, NEW f, NEW outcome, UpdateStateAtomicIfVersion(h, v, s, f, outcome)
    PROVE  DOMAIN journal \subseteq DOMAIN journal'
    BY DEF UpdateStateAtomicIfVersion, atomicSave, Put

LEMMA ActiveStay ==
    ASSUME WalletInv, [Next]_walletVars, ~Restart, DOMAIN refresh'.items # {}
    PROVE  DOMAIN journal \subseteq DOMAIN journal'
<1>1. CASE UNCHANGED journalVars
    BY <1>1 DEF journalVars
<1>2. ASSUME NEW outcome \in WriteOutcome, SendAppend(outcome)
      PROVE  DOMAIN journal \subseteq DOMAIN journal'
    BY <1>2 DEF SendAppend, AppendAtomic, atomicSave, Put
<1>3. ASSUME NEW h \in Hash, NEW v \in Nat, NEW s \in States, NEW f \in BOOLEAN,
             NEW outcome \in UpdateOutcome, WalletUpdate(h, v, s, f, outcome)
      PROVE  DOMAIN journal \subseteq DOMAIN journal'
    BY <1>3, UpdateKeepsActive DEF WalletUpdate
<1>4. CASE refresh' # refresh
    <2>1. Network \/ Quoting => refresh' = refresh
        BY DEF Network, Deliver, Mine, Drop, Finalize, Reorg,
               Quoting, QuoteNew, QuoteReplacement, AddQuote
    <2>2. Sending => refresh' = refresh
        BY DEF Sending, SendStart, SendCheckNonce, GiveUp, SendAppend, SendBroadcast, SendFinish
    <2>3. Retrying => refresh' = refresh
        BY DEF Retrying, RetryStart, RetryBroadcast, RetryFinish
    <2>4. Refreshing
        BY <1>4, <2>1, <2>2, <2>3 DEF Next, walletVars
    <2>5. ASSUME NEW outcome \in UpdateOutcome, HistoryApply(outcome)
          PROVE  DOMAIN journal \subseteq DOMAIN journal'
        BY <2>5, UpdateKeepsActive DEF HistoryApply
    <2>6. ASSUME NEW fileOutcome \in WriteOutcome, NEW outcome \in WriteOutcome,
                 HistoryArchive(fileOutcome, outcome)
          PROVE  FALSE
        BY <2>6 DEF HistoryArchive, NoRefresh, NoItems
    <2>7. CASE HistoryStart \/ HistoryStop \/ HistoryIgnore \/ HistoryDone
        BY <2>7 DEF HistoryStart, HistoryStop, HistoryIgnore, HistoryDone, journalVars
    <2>8. ASSUME NEW h \in Hash, HistoryQuery(h)
          PROVE  journal' = journal
        BY <2>8 DEF HistoryQuery, journalVars
    <2> QED
        BY <2>4, <2>5, <2>6, <2>7, <2>8 DEF Refreshing
<1> QED
    BY <1>1, <1>2, <1>3, <1>4, JournalCases

LEMMA ItemsActiveKept ==
    ASSUME WalletInv, ItemsActive, [Next]_walletVars
    PROVE  ItemsActive'
<1>1. CASE DOMAIN refresh'.items = {}
    BY <1>1 DEF ItemsActive
<1>2. CASE DOMAIN refresh'.items # {} /\ DOMAIN refresh'.items \subseteq DOMAIN refresh.items /\ ~Restart
    BY <1>2, ActiveStay DEF ItemsActive
<1>3. CASE HistoryStart
    <2>1. refresh' = [NoRefresh EXCEPT !.step = "scanning", !.items = RefreshItems]
          /\ journal' = journal
        BY <1>3 DEF HistoryStart, journalVars
    <2>2. refresh'.items = RefreshItems
        BY <2>1 DEF NoRefresh
    <2> QED
        BY <2>1, <2>2 DEF ItemsActive, RefreshItems
<1> QED
    BY <1>1, <1>2, <1>3, RefreshContinues

LEMMA ChargedIs ==
    ASSUME WalletInv, NEW outcomes, Charge(outcomes), outcomes \cap {"lost", "kept"} # {}
    PROVE  spent'.write > spent.write
    BY DEF Charge, WalletInv, WalletRest, SpentType

LEMMA AnswerFault ==
    ASSUME WalletInv, NEW outcome \in UpdateOutcome, RecordAnswer(outcome),
           op.step \in {"answered", "retried"}, storageFault', ~storageFault
    PROVE  spent'.write > spent.write \/ op.hash \in DOMAIN archived
<1>1. Charge({outcome}) /\ outcome \in UpdateError
    BY DEF RecordAnswer
<1>2. CASE outcome \in {"lost", "kept"}
    BY <1>1, <1>2, ChargedIs
<1>3. CASE outcome = "missing"
    <2>1. op.hash \notin DOMAIN journal
        BY <1>3 DEF RecordAnswer, UpdateStateAtomicIfVersion, WriteOutcome
    <2>2. op.hash \in Known
        BY DEF WalletInv, WalletRest, OpPart
    <2> QED
        BY <2>1, <2>2 DEF Known
<1> QED
    BY <1>1, <1>2, <1>3 DEF UpdateError

LEMMA ObservationFault ==
    ASSUME WalletInv, ItemsActive, NEW outcome \in UpdateOutcome, HistoryApply(outcome),
           storageFault', ~storageFault
    PROVE  spent'.write > spent.write
<1>1. Charge({outcome}) /\ outcome \in UpdateError
    BY DEF HistoryApply
<1>2. refresh.hash \in DOMAIN journal
    BY DEF HistoryApply, ItemsActive, WalletInv, WalletRest, RefreshPart
<1>3. outcome # "missing"
    BY <1>2 DEF HistoryApply, UpdateStateAtomicIfVersion, WriteOutcome
<1> QED
    BY <1>1, <1>3, ChargedIs DEF UpdateError

\* Beside a write that failed, only one thing makes the wallet refuse quotes and
\* sends: Send or Retry wants to record an answer and ArchiveFinalized was faster.
THEOREM FaultsHaveCause == Spec => FaultHasCause
<1> DEFINE Cause == storageFault' /\ ~storageFault =>
                        \/ spent'.write > spent.write
                        \/ op.step \in {"answered", "retried"} /\ op.hash \in DOMAIN archived
<1>1. WalletInv /\ ItemsActive /\ [Next]_walletVars => Cause
    <2> SUFFICES ASSUME WalletInv, ItemsActive, [Next]_walletVars, storageFault', ~storageFault
                 PROVE  \/ spent'.write > spent.write
                        \/ op.step \in {"answered", "retried"} /\ op.hash \in DOMAIN archived
        OBVIOUS
    <2>1. ASSUME NEW outcome \in WriteOutcome, SendAppend(outcome)
          PROVE  spent'.write > spent.write
        BY <2>1, ChargedIs DEF SendAppend, WriteOutcome
    <2>2. ASSUME NEW fileOutcome \in WriteOutcome, NEW outcome \in WriteOutcome,
                 HistoryArchive(fileOutcome, outcome)
          PROVE  spent'.write > spent.write
        BY <2>2, ChargedIs DEF HistoryArchive, WriteOutcome
    <2>3. ASSUME NEW outcome \in UpdateOutcome, SendFinish(outcome) \/ RetryFinish(outcome)
          PROVE  \/ spent'.write > spent.write
                 \/ op.step \in {"answered", "retried"} /\ op.hash \in DOMAIN archived
        BY <2>3, AnswerFault DEF SendFinish, RetryFinish
    <2>4. ~UNCHANGED storageFault
        OBVIOUS
    <2>5. ~(Network \/ Quoting \/ Restart \/ UNCHANGED walletVars)
        BY <2>4 DEF Network, Deliver, Mine, Drop, Finalize, Reorg, serviceVars, walletVars,
                    Quoting, QuoteNew, QuoteReplacement, AddQuote, Restart
    <2>6. CASE Sending
        <3>1. /\ \A q \in Quote : ~SendStart(q)
              /\ ~SendCheckNonce /\ ~GiveUp
              /\ \A accepted \in BOOLEAN : ~SendBroadcast(accepted)
            BY <2>4 DEF SendStart, SendCheckNonce, GiveUp, SendBroadcast, serviceVars
        <3> QED
            BY <2>1, <2>3, <2>6, <3>1 DEF Sending
    <2>7. CASE Retrying
        <3>1. /\ \A h \in Hash : ~RetryStart(h)
              /\ \A accepted \in BOOLEAN : ~RetryBroadcast(accepted)
            BY <2>4 DEF RetryStart, RetryBroadcast, serviceVars
        <3> QED
            BY <2>3, <2>7, <3>1 DEF Retrying
    <2>8. CASE Refreshing
        <3>1. /\ ~HistoryStart /\ ~HistoryStop /\ ~HistoryIgnore /\ ~HistoryDone
              /\ \A h \in Hash : ~HistoryQuery(h)
            BY <2>4 DEF HistoryStart, HistoryQuery, HistoryStop, HistoryIgnore, HistoryDone,
                        serviceVars
        <3> QED
            BY <2>2, <2>8, <3>1, ObservationFault DEF Refreshing
    <2> QED
        BY <2>5, <2>6, <2>7, <2>8 DEF Next
<1>2. Init => ItemsActive
    BY DEF Init, NoRefresh, NoItems, ItemsActive
<1>3. Spec => [](WalletInv /\ ItemsActive)
    BY <1>2, ItemsActiveKept, WalletInvariant, PTL DEF Spec
<1> QED
    BY <1>1, <1>3, PTL DEF FaultHasCause, Spec

----------------------------------------------------------------------------
(* Copies.  A record is in memory, in journal.json and in archive files,   *)
(* in versions that differ after a failed write.  Their quote and nonce    *)
(* never do, a copy that says a nonce is settled tells the truth, and a    *)
(* step makes a new copy only of a transaction it signs, of one it updates *)
(* or of one it archives.                                                  *)

Slices == {journal, archived, disk} \cup {files[n] : n \in DOMAIN files}
Copies(h) == {f[h] : f \in {g \in Slices : h \in DOMAIN g}}

\* The copies, place by place.
Holds(h, r) ==
    \/ h \in DOMAIN journal /\ r = journal[h]
    \/ h \in DOMAIN archived /\ r = archived[h]
    \/ h \in DOMAIN disk /\ r = disk[h]
    \/ \E n \in DOMAIN files : h \in DOMAIN files[n] /\ r = files[n][h]

LEMMA CopyIs == ASSUME NEW h, NEW r PROVE r \in Copies(h) <=> Holds(h, r)
    BY DEF Copies, Slices, Holds

LEMMA CopyIsThen == ASSUME NEW h, NEW r PROVE r \in Copies(h)' <=> Holds(h, r)'
    BY DEF Copies, Slices, Holds

LEMMA CopyType ==
    ASSUME JournalTypeOK, NEW h, NEW r \in Copies(h)
    PROVE  r \in Record /\ h \in 1..signed /\ h \in Hash
<1>1. Holds(h, r)
    BY CopyIs
<1>2. r \in Record /\ h \in 1..signed
    BY <1>1 DEF Holds, JournalTypeOK
<1> QED
    BY <1>2, BoundAssumption DEF JournalTypeOK, Hash, BoundAssumption

LEMMA KnownIsCopy ==
    ASSUME NEW h \in Known
    PROVE  Rec(h) \in Copies(h)
<1>1. Holds(h, Rec(h))
    BY DEF Holds, Rec, Known
<1> QED
    BY <1>1, CopyIs

\* What AppendAtomic writes.
Appended(q, n) ==
    [quote |-> q, nonce |-> n, state |-> "pending", final |-> FALSE, version |-> 1]

LEMMA AppendCopies ==
    ASSUME NEW q, NEW n, NEW outcome, AppendAtomic(q, n, outcome),
           NEW h, NEW r \in Copies(h)'
    PROVE  r \in Copies(h) \/ (h = signed + 1 /\ r = Appended(q, n))
<1> DEFINE new == Appended(q, n)
<1>1. /\ UNCHANGED <<archived, files>>
      /\ disk' \in {disk, Put(journal, signed + 1, new)}
      /\ journal' \in {journal, Put(journal, signed + 1, new)}
    BY DEF AppendAtomic, atomicSave, Appended
<1> HIDE DEF new
<1>2. Holds(h, r)'
    BY CopyIsThen
<1>3. Holds(h, r) \/ (h = signed + 1 /\ r = new)
    BY <1>1, <1>2 DEF Holds, Put
<1> QED
    BY <1>3, CopyIs DEF new

LEMMA UpdateCopies ==
    ASSUME JournalTypeOK, NEW k, NEW v \in Nat, NEW s \in States, NEW f \in BOOLEAN, NEW outcome,
           UpdateStateAtomicIfVersion(k, v, s, f, outcome),
           NEW h, NEW r \in Copies(h)'
    PROVE  \/ r \in Copies(h)
           \/ /\ h = k /\ k \in DOMAIN journal /\ journal[k].version = v
              /\ r.quote = journal[k].quote /\ r.nonce = journal[k].nonce
              /\ r.state = s /\ r.final = f
<1>1. Holds(h, r)'
    BY CopyIsThen
<1>2. /\ UNCHANGED <<archived, files, signed, stored>>
      /\ \/ UNCHANGED <<journal, disk>>
         \/ /\ k \in DOMAIN journal /\ journal[k].version = v
            /\ outcome \in WriteOutcome
            /\ \E x \in Record : Updates(k, v, s, f, outcome, x)
    BY UpdateCases
<1>3. CASE UNCHANGED <<journal, disk>>
    BY <1>1, <1>2, <1>3, CopyIs DEF Holds
<1>4. ASSUME k \in DOMAIN journal, journal[k].version = v,
             NEW x \in Record, Updates(k, v, s, f, outcome, x)
      PROVE  \/ r \in Copies(h)
             \/ (h = k /\ r = x)
    <2>1. /\ disk' \in {disk, Put(journal, k, x)} /\ journal' \in {journal, Put(journal, k, x)}
        BY <1>4 DEF Updates
    <2>2. Holds(h, r) \/ (h = k /\ r = x)
        BY <1>1, <1>2, <2>1 DEF Holds, Put
    <2> QED
        BY <2>2, CopyIs
<1> QED
    BY <1>2, <1>3, <1>4 DEF Updates

LEMMA ArchiveCopies ==
    ASSUME NEW fileOutcome, NEW outcome, ArchiveFinalized(fileOutcome, outcome),
           NEW h, NEW r \in Copies(h)'
    PROVE  r \in Copies(h) \/ (h \in ArchiveSet /\ r = ArchiveRecord(journal[h]))
<1> DEFINE content == [k \in ArchiveSet |-> ArchiveRecord(journal[k])]
           keep == Only(journal, DOMAIN journal \ ArchiveSet)
           name == ArchiveName(ArchiveSet)
           moved == [k \in DOMAIN archived \cup ArchiveSet |->
                        IF k \in ArchiveSet THEN content[k] ELSE archived[k]]
<1>1. /\ files' \in {files, Put(files, name, content)}
      /\ disk' \in {disk, keep} /\ journal' \in {journal, keep}
      /\ archived' \in {archived, moved}
    BY DEF ArchiveFinalized, atomicSave
<1>2. Holds(h, r)'
    BY CopyIsThen
<1>3. h \in ArchiveSet \/ h \notin ArchiveSet
    OBVIOUS
<1>4. \A k \in DOMAIN keep : k \in DOMAIN journal /\ keep[k] = journal[k]
    BY DEF Only
<1>5. \A k \in DOMAIN moved : \/ k \in ArchiveSet /\ moved[k] = ArchiveRecord(journal[k])
                              \/ k \in DOMAIN archived /\ moved[k] = archived[k]
    OBVIOUS
<1>6. \A k \in DOMAIN content : k \in ArchiveSet /\ content[k] = ArchiveRecord(journal[k])
    OBVIOUS
<1>7. ASSUME NEW n \in DOMAIN files', h \in DOMAIN files'[n], r = files'[n][h]
      PROVE  Holds(h, r) \/ (h \in ArchiveSet /\ r = ArchiveRecord(journal[h]))
    <2>1. CASE n \in DOMAIN files /\ files'[n] = files[n]
        BY <1>7, <2>1 DEF Holds
    <2>2. CASE files'[n] = content
        BY <1>7, <1>6, <2>2
    <2> HIDE DEF content, name
    <2>3. (n \in DOMAIN files /\ files'[n] = files[n]) \/ files'[n] = content
        BY <1>1, <1>7 DEF Put
    <2> QED
        BY <2>1, <2>2, <2>3
<1> HIDE DEF content, keep, name, moved
<1>8. Holds(h, r) \/ (h \in ArchiveSet /\ r = ArchiveRecord(journal[h]))
    BY <1>1, <1>2, <1>4, <1>5, <1>7 DEF Holds
<1> QED
    BY <1>8, CopyIs

LEMMA LoadCopies ==
    ASSUME Load, NEW h, NEW r \in Copies(h)'
    PROVE  r \in Copies(h)
<1>1. Holds(h, r)'
    BY CopyIsThen
<1>2. Holds(h, r)
    BY <1>1 DEF Holds, Load, LoadArchives
<1> QED
    BY <1>2, CopyIs

\* An observation says what it saw of the transaction it is about.
ObservedState == IF refresh.state = "not_found" THEN "broadcast_unknown" ELSE refresh.state

LEMMA StepCopies ==
    ASSUME WalletInv, [Next]_walletVars, NEW h, NEW r \in Copies(h)'
    PROVE  \/ r \in Copies(h)
           \/ /\ op.step = "ready" /\ op'.step # "ready" /\ h = signed + 1
              /\ r = Appended(op.quote, quotes[op.quote].nonce)
           \/ /\ h \in DOMAIN journal
              /\ r.quote = journal[h].quote /\ r.nonce = journal[h].nonce
              /\ \/ ~r.final /\ r.state \notin MinedStates
                 \/ /\ refresh.step = "observed" /\ h = refresh.hash
                    /\ r.final = refresh.final /\ r.state = ObservedState
           \/ h \in ArchiveSet /\ r = ArchiveRecord(journal[h])
<1>1. CASE UNCHANGED journalVars
    <2>1. Copies(h)' = Copies(h)
        BY <1>1 DEF Copies, Slices, journalVars
    <2> QED
        BY <2>1
<1>2. ASSUME NEW outcome \in WriteOutcome, SendAppend(outcome)
      PROVE  \/ r \in Copies(h)
             \/ /\ op.step = "ready" /\ op'.step # "ready" /\ h = signed + 1
                /\ r = Appended(op.quote, quotes[op.quote].nonce)
    <2>1. op.step = "ready" /\ AppendAtomic(op.quote, quotes[op.quote].nonce, outcome)
        BY <1>2 DEF SendAppend
    <2>2. op'.step # "ready"
        BY <1>2 DEF SendAppend, Idle, WalletInv, WalletRest, OpPart, OpSet
    <2> QED
        BY <2>1, <2>2, AppendCopies
<1>3. ASSUME NEW k \in Hash, NEW v \in Nat, NEW s \in States, NEW f \in BOOLEAN,
             NEW outcome \in UpdateOutcome, WalletUpdate(k, v, s, f, outcome)
      PROVE  \/ r \in Copies(h)
             \/ /\ h \in DOMAIN journal
                /\ r.quote = journal[h].quote /\ r.nonce = journal[h].nonce
                /\ \/ ~r.final /\ r.state \notin MinedStates
                   \/ /\ refresh.step = "observed" /\ h = refresh.hash
                      /\ r.final = refresh.final /\ r.state = ObservedState
    <2>1. JournalTypeOK /\ UpdateStateAtomicIfVersion(k, v, s, f, outcome)
        BY <1>3 DEF WalletUpdate, WalletInv, JournalInv, GapInv
    <2>2. \/ r \in Copies(h)
          \/ /\ h = k /\ k \in DOMAIN journal /\ journal[k].version = v
             /\ r.quote = journal[k].quote /\ r.nonce = journal[k].nonce
             /\ r.state = s /\ r.final = f
        BY <1>3, <2>1, UpdateCopies
    <2>3. \/ f = FALSE /\ s \notin MinedStates
          \/ refresh.step = "observed" /\ k = refresh.hash /\ f = refresh.final /\ s = ObservedState
        BY <1>3 DEF WalletUpdate, ObservedState
    <2> QED
        BY <2>2, <2>3
<1>4. CASE CallerArchive
    BY <1>4, ArchiveCopies DEF CallerArchive
<1>5. CASE Restart
    BY <1>5, LoadCopies DEF Restart
<1> QED
    BY <1>1, <1>2, <1>3, <1>4, <1>5, JournalCases

----------------------------------------------------------------------------
(* Identity: the quote and the nonce of a transaction.                     *)

IdentityPart ==
    \A h \in Hash : \A r, s \in Copies(h) : r.quote = s.quote /\ r.nonce = s.nonce

LEMMA SameIdentity ==
    ASSUME WalletInv, IdentityPart, NEW h, NEW r \in Copies(h), NEW s \in Copies(h)
    PROVE  r.quote = s.quote /\ r.nonce = s.nonce
<1>1. h \in Hash
    BY CopyType DEF WalletInv, JournalInv, GapInv
<1> QED
    BY <1>1 DEF IdentityPart

LEMMA ArchivedIdentity ==
    ASSUME NEW r \in Record
    PROVE  ArchiveRecord(r).quote = r.quote /\ ArchiveRecord(r).nonce = r.nonce
    BY DEF ArchiveRecord, Record

\* A new copy is of a new transaction, or has the identity of the active record.
LEMMA CopyIdentity ==
    ASSUME WalletInv, IdentityPart, [Next]_walletVars, NEW h, NEW r \in Copies(h)'
    PROVE  \/ /\ op.step = "ready" /\ op'.step # "ready" /\ h = signed + 1
              /\ r = Appended(op.quote, quotes[op.quote].nonce)
           \/ /\ Copies(h) # {}
              /\ \A s \in Copies(h) : r.quote = s.quote /\ r.nonce = s.nonce
<1>1. CASE r \in Copies(h)
    BY <1>1, SameIdentity
<1>2. CASE h \in DOMAIN journal /\ r.quote = journal[h].quote /\ r.nonce = journal[h].nonce
    <2>1. journal[h] \in Copies(h)
        BY <1>2, CopyIs DEF Holds
    <2> QED
        BY <1>2, <2>1, SameIdentity
<1>3. CASE h \in ArchiveSet /\ r = ArchiveRecord(journal[h])
    <2>1. h \in DOMAIN journal
        BY <1>3 DEF ArchiveSet
    <2>2. journal[h] \in Copies(h)
        BY <2>1, CopyIs DEF Holds
    <2>3. journal[h] \in Record
        BY <2>1 DEF WalletInv, JournalInv, GapInv, JournalTypeOK
    <2> QED
        BY <1>3, <2>2, <2>3, ArchivedIdentity, SameIdentity
<1> QED
    BY <1>1, <1>2, <1>3, StepCopies

LEMMA NoCopyYet ==
    ASSUME WalletInv
    PROVE  Copies(signed + 1) = {}
<1> SUFFICES ASSUME NEW r \in Copies(signed + 1) PROVE FALSE
    OBVIOUS
<1>1. signed + 1 \in 1..signed /\ signed \in Nat
    BY CopyType DEF WalletInv, JournalInv, GapInv, JournalTypeOK
<1> QED
    BY <1>1

LEMMA IdentityKept ==
    ASSUME WalletInv, IdentityPart, [Next]_walletVars
    PROVE  IdentityPart'
<1> SUFFICES ASSUME NEW h \in Hash, NEW r \in Copies(h)', NEW s \in Copies(h)'
             PROVE  r.quote = s.quote /\ r.nonce = s.nonce
    BY DEF IdentityPart
<1>1. CASE h = signed + 1
    <2>1. Copies(h) = {}
        BY <1>1, NoCopyYet
    <2> QED
        BY <2>1, CopyIdentity
<1>2. CASE h # signed + 1
    BY <1>2, CopyIdentity
<1> QED
    BY <1>1, <1>2

----------------------------------------------------------------------------
(* The network.  What was mined took the nonces below NonceAt, each once,  *)
(* and what is final stays so.                                             *)

OnChainPart ==
    /\ \A h \in Hash : chain[h] # "unknown" => h \in DOMAIN sent
    /\ \A h, k \in OnChain : sent[h] = sent[k] => h = k
    /\ \A h \in OnChain : sent[h] < NonceAt

\* A transaction was handed to the RPC with the nonce its record has.
SentNonce == \A h \in DOMAIN sent : \A r \in Copies(h) : r.nonce = sent[h]
OpNonce ==
    op.step = "appended" =>
        \A h \in Hash : h = op.hash => \A r \in Copies(h) : r.nonce = quotes[op.quote].nonce

LEMMA NonceAtType == OnChain \subseteq Hash /\ IsFiniteSet(OnChain) /\ NonceAt \in Nat
<1>1. IsFiniteSet(Hash)
    BY FS_Interval, BoundAssumption DEF Hash, BoundAssumption
<1>2. OnChain \subseteq Hash
    BY DEF OnChain
<1> QED
    BY <1>1, <1>2, FS_Subset, FS_CardinalityType DEF NonceAt

\* The transaction op holds is handed over, with a nonce its record has.
Sends ==
    /\ op.hash \in Hash /\ op.hash \in Known
    /\ UNCHANGED <<journalVars, serviceVars, refresh, spent>>
    /\ op'.step \in {"answered", "retried"}
    /\ \E nonce \in Nonce :
          /\ sent' = Put(sent, op.hash, nonce)
          /\ \A r \in Copies(op.hash) : r.nonce = nonce
    /\ \/ chain[op.hash] = "unknown" /\ chain' = [chain EXCEPT ![op.hash] = "pooled"]
       \/ chain' = chain

LEMMA StepSends ==
    ASSUME WalletInv, IdentityPart, OpNonce, NEW accepted \in BOOLEAN,
           SendBroadcast(accepted) \/ RetryBroadcast(accepted)
    PROVE  Sends
<1>1. op.step \in {"appended", "retrying"} /\ op \in OpSet /\ op.hash \in Known
    BY DEF SendBroadcast, RetryBroadcast, WalletInv, WalletRest, OpPart
<1>2. op.hash \in Hash /\ Rec(op.hash) \in Record /\ Rec(op.hash) \in Copies(op.hash)
    BY <1>1, KnownRecord, KnownIsCopy
<1>3. /\ UNCHANGED <<journalVars, serviceVars, refresh, spent>>
      /\ op'.step \in {"answered", "retried"}
    BY <1>1 DEF SendBroadcast, RetryBroadcast, OpSet
<1>4. PICK nonce \in Nonce :
          SendTransaction(nonce, accepted) /\ \A r \in Copies(op.hash) : r.nonce = nonce
    <2>1. CASE SendBroadcast(accepted)
        <3>1. quotes[op.quote].nonce \in Nonce
            BY <2>1, OpQuote DEF SendBroadcast
        <3> QED
            BY <2>1, <3>1, <1>2 DEF SendBroadcast, OpNonce
    <2>2. CASE RetryBroadcast(accepted)
        <3>1. Rec(op.hash).nonce \in Nonce
            BY <1>2 DEF Record
        <3> QED
            BY <2>2, <3>1, <1>2, SameIdentity DEF RetryBroadcast
    <2> QED
        BY <2>1, <2>2
<1>5. sent' = Put(sent, op.hash, nonce)
      /\ \/ chain[op.hash] = "unknown" /\ chain' = [chain EXCEPT ![op.hash] = "pooled"]
         \/ chain' = chain
    BY <1>4 DEF SendTransaction, Acceptable
<1> QED
    BY <1>1, <1>2, <1>3, <1>4, <1>5 DEF Sends

\* A step hands a transaction over, moves one on the network, or does neither.
LEMMA NetworkCases ==
    ASSUME WalletInv, IdentityPart, OpNonce, [Next]_walletVars
    PROVE  \/ UNCHANGED networkVars /\ spent'.reorg = spent.reorg
           \/ Sends
           \/ \E h \in Hash : Deliver(h) \/ Mine(h) \/ Drop(h) \/ Finalize(h) \/ Reorg(h)
<1>1. \A outcomes : Charge(outcomes) => spent'.reorg = spent.reorg
    BY DEF Charge, WalletInv, WalletRest, SpentType
<1>2. CASE Network
    BY <1>2 DEF Network
<1>3. CASE Quoting
    BY <1>3 DEF Quoting, QuoteNew, QuoteReplacement, AddQuote
<1>4. CASE Sending
    BY <1>1, <1>4, StepSends
       DEF Sending, SendStart, SendCheckNonce, GiveUp, SendAppend, SendFinish, RecordAnswer
<1>5. CASE Retrying
    BY <1>1, <1>5, StepSends DEF Retrying, RetryStart, RetryFinish, RecordAnswer
<1>6. CASE Refreshing
    BY <1>1, <1>6 DEF Refreshing, HistoryStart, HistoryQuery, HistoryStop, HistoryApply,
                      HistoryIgnore, HistoryArchive, HistoryDone
<1>7. CASE Restart
    BY <1>7 DEF Restart, WalletInv, WalletRest, SpentType
<1>8. CASE UNCHANGED walletVars
    BY <1>8 DEF walletVars, networkVars
<1> QED
    BY <1>2, <1>3, <1>4, <1>5, <1>6, <1>7, <1>8 DEF Next

\* What was handed over stays so with its nonce, and what is final stays final.
LEMMA FinalStays ==
    ASSUME WalletInv, IdentityPart, SentNonce, OpNonce, [Next]_walletVars
    PROVE  /\ \A h \in DOMAIN sent : h \in DOMAIN sent' /\ sent'[h] = sent[h]
           /\ \A h \in Hash : chain[h] = "final" => chain'[h] = "final"
<1>1. CASE UNCHANGED networkVars
    BY <1>1 DEF networkVars
<1>2. CASE Sends
    <2>1. PICK nonce \in Nonce : /\ sent' = Put(sent, op.hash, nonce)
                                 /\ \A r \in Copies(op.hash) : r.nonce = nonce
        BY <1>2 DEF Sends
    <2>2. Rec(op.hash) \in Copies(op.hash)
        BY <1>2, KnownIsCopy DEF Sends
    <2>3. op.hash \in DOMAIN sent => sent[op.hash] = nonce
        BY <2>1, <2>2 DEF SentNonce
    <2> QED
        BY <1>2, <2>1, <2>3 DEF Sends, Put, WalletInv, WalletRest, NetworkType
<1>3. ASSUME NEW h \in Hash, Deliver(h) \/ Mine(h) \/ Drop(h) \/ Finalize(h) \/ Reorg(h)
      PROVE  /\ sent' = sent
             /\ \A k \in Hash : chain[k] = "final" => chain'[k] = "final"
    BY <1>3 DEF Deliver, Mine, Drop, Finalize, Reorg, Acceptable, Pooled,
                WalletInv, WalletRest, NetworkType
<1> QED
    BY <1>1, <1>2, <1>3, NetworkCases

LEMMA OnChainSame ==
    ASSUME WalletInv, OnChainPart, NEW h \in Hash, NEW status \in ChainStatus,
           chain' = [chain EXCEPT ![h] = status],
           chain[h] \in {"mined", "final"} <=> status \in {"mined", "final"}
    PROVE  OnChain' = OnChain /\ NonceAt' = NonceAt
    BY DEF OnChain, NonceAt, WalletInv, WalletRest, NetworkType

LEMMA OnChainKept ==
    ASSUME WalletInv, IdentityPart, SentNonce, OpNonce, OnChainPart, [Next]_walletVars
    PROVE  OnChainPart'
<1> USE DEF OnChainPart
<1>1. CASE UNCHANGED networkVars
    BY <1>1 DEF networkVars, OnChain, NonceAt
<1>2. CASE Sends
    <2>1. OnChain' = OnChain /\ NonceAt' = NonceAt
        BY <1>2, OnChainSame DEF Sends, ChainStatus, OnChain, NonceAt
    <2>2. \A k \in OnChain : k \in DOMAIN sent /\ sent'[k] = sent[k]
        BY FinalStays DEF OnChain
    <2>3. \A k \in Hash : chain'[k] # "unknown" => k \in DOMAIN sent'
        BY <1>2 DEF Sends, Put, WalletInv, WalletRest, NetworkType
    <2> QED
        BY <2>1, <2>2, <2>3
<1>3. ASSUME NEW h \in Hash, Deliver(h) \/ Drop(h) \/ Finalize(h) PROVE OnChainPart'
    <2>1. PICK status \in ChainStatus :
              /\ chain' = [chain EXCEPT ![h] = status]
              /\ chain[h] \in {"mined", "final"} <=> status \in {"mined", "final"}
              /\ sent' = sent /\ h \in DOMAIN sent
        BY <1>3 DEF Deliver, Drop, Finalize, Acceptable, Pooled, ChainStatus
    <2>2. OnChain' = OnChain /\ NonceAt' = NonceAt
        BY <2>1, OnChainSame
    <2> QED
        BY <2>1, <2>2 DEF WalletInv, WalletRest, NetworkType
<1>4. ASSUME NEW h \in Hash, Mine(h) PROVE OnChainPart'
    <2>1. /\ chain' = [chain EXCEPT ![h] = "mined"] /\ sent' = sent
          /\ h \notin OnChain /\ sent[h] = NonceAt /\ h \in DOMAIN sent
        BY <1>4 DEF Mine, Pooled, OnChain
    <2>2. OnChain' = OnChain \cup {h}
        BY <2>1 DEF OnChain, WalletInv, WalletRest, NetworkType
    <2>3. NonceAt' = NonceAt + 1 /\ NonceAt \in Nat
        BY <2>1, <2>2, NonceAtType, FS_AddElement DEF NonceAt
    <2>4. \A k \in Hash : chain'[k] # "unknown" => k \in DOMAIN sent'
        BY <2>1 DEF WalletInv, WalletRest, NetworkType
    <2>5. \A k \in OnChain : sent[k] < NonceAt /\ sent[k] \in Nat
        BY WalletBoundAssumption DEF OnChain, WalletInv, WalletRest, NetworkType, WalletBoundAssumption
    <2> QED
        BY <2>1, <2>2, <2>3, <2>4, <2>5
<1>5. ASSUME NEW h \in Hash, Reorg(h) PROVE OnChainPart'
    <2>1. /\ chain' = [chain EXCEPT ![h] = "orphaned"] /\ sent' = sent
          /\ h \in OnChain /\ \A k \in OnChain : sent[k] <= sent[h]
        BY <1>5 DEF Reorg, OnChain
    <2>2. OnChain' = OnChain \ {h}
        BY <2>1 DEF OnChain, WalletInv, WalletRest, NetworkType
    <2>3. NonceAt' = NonceAt - 1 /\ NonceAt \in Nat
        BY <2>1, <2>2, NonceAtType, FS_RemoveElement DEF NonceAt
    <2>4. \A k \in Hash : chain'[k] # "unknown" => k \in DOMAIN sent'
        BY <2>1 DEF WalletInv, WalletRest, NetworkType, OnChain
    <2>5. \A k \in OnChain : sent[k] < NonceAt /\ sent[k] \in Nat
        BY WalletBoundAssumption DEF OnChain, WalletInv, WalletRest, NetworkType, WalletBoundAssumption
    <2>6. \A k \in OnChain \ {h} : sent[k] # sent[h]
        BY <2>1
    <2> QED
        BY <2>1, <2>2, <2>3, <2>4, <2>5, <2>6
<1> QED
    BY <1>1, <1>2, <1>3, <1>4, <1>5, NetworkCases

----------------------------------------------------------------------------
(* The quote an operation works for. *)

LEMMA QuotesStable ==
    ASSUME [Next]_walletVars, op.step # "idle", op'.step # "idle"
    PROVE  quotes' = quotes
<1>1. Idle.step = "idle"
    BY DEF Idle
<1>2. CASE Network
    BY <1>2 DEF Network, Deliver, Mine, Drop, Finalize, Reorg, serviceVars
<1>3. CASE Quoting
    BY <1>1, <1>3 DEF Quoting, QuoteNew, QuoteReplacement, AddQuote
<1>4. CASE Sending
    BY <1>1, <1>4 DEF Sending, SendStart, SendCheckNonce, GiveUp, SendAppend, SendBroadcast,
                      SendFinish, RecordAnswer, serviceVars
<1>5. CASE Retrying
    BY <1>5 DEF Retrying, RetryStart, RetryBroadcast, RetryFinish, serviceVars
<1>6. CASE Refreshing
    BY <1>6 DEF Refreshing, HistoryStart, HistoryQuery, HistoryStop, HistoryApply,
                HistoryIgnore, HistoryArchive, HistoryDone, serviceVars
<1>7. CASE Restart \/ UNCHANGED walletVars
    BY <1>1, <1>7 DEF Restart, walletVars, serviceVars
<1> QED
    BY <1>2, <1>3, <1>4, <1>5, <1>6, <1>7 DEF Next

\* How an operation comes to a step of Send and Retry.
LEMMA OpStepFrom ==
    ASSUME WalletInv, [Next]_walletVars
    PROVE  /\ op'.step \in {"checked", "ready"} =>
                \/ op.step \in {"checked", "ready"} /\ op'.quote = op.quote
                \/ \E q \in Quote : SendStart(q) /\ op'.quote = q /\ op'.step = "checked"
           /\ op'.step = "checked" => op.step # "ready"
           /\ op'.step = "ready" => SendCheckNonce \/ (op.step = "ready" /\ op'.quote = op.quote)
           /\ op'.step = "appended" =>
                \/ op' = op
                \/ \E outcome \in WriteOutcome :
                      /\ SendAppend(outcome) /\ outcome = "ok"
                      /\ op'.hash = signed + 1 /\ op'.quote = op.quote
<1>1. op \in OpSet
    BY DEF WalletInv, WalletRest, OpPart
<1>2. CASE op' = op \/ op' = Idle
    BY <1>2 DEF Idle
<1>3. ASSUME NEW q \in Quote, SendStart(q)
      PROVE  op'.quote = q /\ op'.step = "checked" /\ op.step = "idle"
    BY <1>3 DEF SendStart, Idle
<1>4. CASE SendCheckNonce
    BY <1>1, <1>4 DEF SendCheckNonce, OpSet
<1>5. ASSUME NEW outcome \in WriteOutcome, SendAppend(outcome), op' # Idle
      PROVE  /\ outcome = "ok" /\ op'.step = "appended"
             /\ op'.hash = signed + 1 /\ op'.quote = op.quote
    <2>1. outcome = "ok" /\ op' = [op EXCEPT !.step = "appended", !.hash = signed', !.version = 1]
          /\ signed' = signed + 1
        BY <1>5 DEF SendAppend, AppendAtomic
    <2> QED
        BY <1>1, <2>1 DEF OpSet
<1>6. ASSUME NEW accepted \in BOOLEAN, SendBroadcast(accepted) \/ RetryBroadcast(accepted)
      PROVE  op'.step \in {"answered", "retried"}
    BY <1>1, <1>6 DEF SendBroadcast, RetryBroadcast, OpSet
<1>7. ASSUME NEW h \in Hash, RetryStart(h) PROVE op'.step = "retrying"
    BY <1>7 DEF RetryStart, Idle
<1>8. CASE \E q \in Quote : SendStart(q)
    BY <1>3, <1>8
<1>9. CASE \E outcome \in WriteOutcome : SendAppend(outcome)
    BY <1>2, <1>5, <1>9
<1> QED
    BY <1>2, <1>4, <1>6, <1>7, <1>8, <1>9, OpCases

LEMMA OpNonceKept ==
    ASSUME WalletInv, IdentityPart, OpNonce, [Next]_walletVars
    PROVE  OpNonce'
<1> SUFFICES ASSUME op'.step = "appended", NEW h \in Hash, h = op'.hash, NEW r \in Copies(h)'
             PROVE  r.nonce = quotes'[op'.quote].nonce
    BY DEF OpNonce
<1>1. CASE op' = op
    <2>1. quotes' = quotes
        BY <1>1, QuotesStable
    <2>2. op.hash \in 1..signed
        BY <1>1 DEF WalletInv, WalletRest, OpPart, JournalInv, GapInv, JournalTypeOK, Known
    <2>3. op.hash # signed + 1
        BY <2>2 DEF WalletInv, JournalInv, GapInv, JournalTypeOK
    <2>4. h = op.hash /\ Copies(h) # {} /\ \A s \in Copies(h) : r.nonce = s.nonce
        BY <1>1, <2>3, CopyIdentity
    <2> QED
        BY <1>1, <2>1, <2>4 DEF OpNonce
<1>2. ASSUME NEW outcome \in WriteOutcome, SendAppend(outcome),
             op'.hash = signed + 1, op'.quote = op.quote
      PROVE  r.nonce = quotes'[op'.quote].nonce
    <2>1. Copies(signed + 1) = {}
        BY NoCopyYet
    <2>2. r = Appended(op.quote, quotes[op.quote].nonce)
        BY <1>2, <2>1, CopyIdentity
    <2>3. quotes' = quotes
        BY <1>2 DEF SendAppend
    <2> QED
        BY <1>2, <2>2, <2>3 DEF Appended
<1> QED
    BY <1>1, <1>2, OpStepFrom

LEMMA SentNonceKept ==
    ASSUME WalletInv, IdentityPart, SentNonce, OpNonce, [Next]_walletVars
    PROVE  SentNonce'
<1> SUFFICES ASSUME NEW h \in DOMAIN sent', NEW r \in Copies(h)' PROVE r.nonce = sent'[h]
    BY DEF SentNonce
<1>1. CASE h \in DOMAIN sent
    <2>1. sent'[h] = sent[h] /\ h # signed + 1
        BY <1>1, FinalStays DEF WalletInv, WalletRest, NetworkType, JournalInv, GapInv,
                                JournalTypeOK
    <2> QED
        BY <1>1, <2>1, CopyIdentity DEF SentNonce
<1>2. CASE h \notin DOMAIN sent
    <2>1. Sends /\ h = op.hash
        BY <1>2, NetworkCases DEF networkVars, Sends, Put, Deliver, Mine, Drop, Finalize, Reorg
    <2>2. PICK nonce \in Nonce : /\ sent' = Put(sent, op.hash, nonce)
                                 /\ \A s \in Copies(op.hash) : s.nonce = nonce
        BY <2>1 DEF Sends
    <2>3. Copies(h)' = Copies(h)
        BY <2>1 DEF Sends, Copies, Slices, journalVars
    <2> QED
        BY <2>1, <2>2, <2>3 DEF Put
<1> QED
    BY <1>1, <1>2

----------------------------------------------------------------------------
(* The truth of what is final. *)

Beaten(h, n) == \E k \in DOMAIN sent \ {h} : sent[k] = n /\ chain[k] = "final"
IsTrue(h, r) ==
    r.final => IF r.state \in MinedStates
               THEN chain[h] = "final" /\ r.state = Receipt(h)
               ELSE Beaten(h, r.nonce)
TruthPart == \A h \in Hash : \A r \in Copies(h) : IsTrue(h, r)

\* A refresh that saw a final transaction still sees it.
ObservedTruth ==
    refresh.step = "observed" /\ refresh.final =>
        chain[refresh.hash] = "final" /\ refresh.state = Receipt(refresh.hash)

TruthInv ==
    IdentityPart /\ SentNonce /\ OpNonce /\ OnChainPart /\ TruthPart /\ ObservedTruth

LEMMA ObservedKept ==
    ASSUME WalletInv, TruthInv, [Next]_walletVars
    PROVE  ObservedTruth'
<1>1. CASE refresh' = refresh
    <2>1. refresh.step = "observed" => refresh.hash \in Hash
        BY DEF WalletInv, WalletRest, RefreshPart
    <2> QED
        BY <1>1, <2>1, FinalStays DEF TruthInv, ObservedTruth, Receipt
<1>2. ASSUME NEW h \in Hash, HistoryQuery(h) PROVE ObservedTruth'
    <2>1. PICK o \in Observations(h) : refresh'.hash = h /\ refresh'.state = o[1]
                                         /\ refresh'.final = o[2]
        BY <1>2, QueryIs
    <2>2. o[2] => chain[h] = "final" /\ o[1] = Receipt(h)
        BY ObservationType
    <2>3. chain' = chain
        BY <1>2 DEF HistoryQuery, networkVars
    <2> QED
        BY <2>1, <2>2, <2>3 DEF ObservedTruth, Receipt
<1> QED
    BY <1>1, <1>2, ObservedCases DEF ObservedTruth

LEMMA StaysTrue ==
    ASSUME WalletInv, TruthInv, [Next]_walletVars, NEW h \in Hash, NEW r, IsTrue(h, r)
    PROVE  IsTrue(h, r)'
<1>1. /\ \A k \in DOMAIN sent : k \in DOMAIN sent' /\ sent'[k] = sent[k]
      /\ \A k \in Hash : chain[k] = "final" => chain'[k] = "final"
    BY FinalStays DEF TruthInv
<1>2. DOMAIN sent \subseteq Hash
    BY BoundAssumption DEF WalletInv, WalletRest, NetworkType, JournalInv, GapInv, JournalTypeOK,
                           Hash, BoundAssumption
<1>3. CASE r.final /\ r.state \notin MinedStates
    BY <1>1, <1>2, <1>3 DEF IsTrue, Beaten
<1>4. CASE ~(r.final /\ r.state \notin MinedStates)
    BY <1>1, <1>4 DEF IsTrue, Receipt
<1> QED
    BY <1>3, <1>4

\* What is archived as replaced has lost its nonce to a final transaction.
LEMMA ReplacedIsBeaten ==
    ASSUME WalletInv, TruthInv, NEW h \in ArchiveSet, ~journal[h].final
    PROVE  Beaten(h, journal[h].nonce)
<1>1. PICK k \in NonceRecords(journal[h].nonce) : Rec(k).final /\ Rec(k).state \in MinedStates
    BY DEF ArchiveSet, FinalizedNonce
<1>2. k \in Known /\ Rec(k).nonce = journal[h].nonce
    BY DEF NonceRecords
<1>3. k \in Hash /\ Rec(k) \in Copies(k)
    BY <1>2, KnownRecord, KnownIsCopy
<1>4. chain[k] = "final"
    BY <1>1, <1>3 DEF TruthInv, TruthPart, IsTrue
<1>5. k \in DOMAIN sent /\ sent[k] = journal[h].nonce
    BY <1>2, <1>3, <1>4 DEF TruthInv, OnChainPart, SentNonce
<1>6. k # h
    <2>1. h \in DOMAIN journal /\ h \notin DOMAIN archived
        BY DEF ArchiveSet, WalletInv, JournalInv, OnceInMemory
    <2> QED
        BY <1>1, <2>1 DEF Rec
<1> QED
    BY <1>4, <1>5, <1>6 DEF Beaten

LEMMA TruthKept ==
    ASSUME WalletInv, TruthInv, [Next]_walletVars
    PROVE  TruthPart'
<1> SUFFICES ASSUME NEW h \in Hash, NEW r \in Copies(h)' PROVE IsTrue(h, r)'
    BY DEF TruthPart
<1> SUFFICES IsTrue(h, r)
    BY StaysTrue
<1>1. CASE r \in Copies(h)
    BY <1>1 DEF TruthInv, TruthPart
<1>2. CASE r = Appended(op.quote, quotes[op.quote].nonce)
    BY <1>2 DEF Appended, IsTrue
<1>3. CASE ~r.final
    BY <1>3 DEF IsTrue
<1>4. CASE /\ refresh.step = "observed" /\ h = refresh.hash
           /\ r.final = refresh.final /\ r.state = ObservedState
    <2>1. Receipt(h) \in MinedStates /\ "not_found" \notin MinedStates
        BY DEF Receipt, MinedStates
    <2> QED
        BY <1>4, <2>1 DEF IsTrue, TruthInv, ObservedTruth, ObservedState
<1>5. CASE h \in ArchiveSet /\ r = ArchiveRecord(journal[h])
    <2>1. h \in DOMAIN journal /\ journal[h] \in Record
        BY <1>5 DEF ArchiveSet, WalletInv, JournalInv, GapInv, JournalTypeOK
    <2>2. CASE journal[h].final
        <3>1. r = journal[h]
            BY <1>5, <2>2 DEF ArchiveRecord
        <3>2. r \in Copies(h)
            BY <2>1, <3>1, CopyIs DEF Holds
        <3> QED
            BY <1>1, <3>2
    <2>3. CASE ~journal[h].final
        <3>1. r.state = "replaced" /\ r.nonce = journal[h].nonce
            BY <1>5, <2>1, <2>3 DEF ArchiveRecord, Record
        <3>2. Beaten(h, r.nonce)
            BY <1>5, <2>3, <3>1, ReplacedIsBeaten
        <3> QED
            BY <3>1, <3>2 DEF IsTrue, MinedStates
    <2> QED
        BY <2>2, <2>3
<1> QED
    BY <1>1, <1>2, <1>3, <1>4, <1>5, StepCopies

LEMMA NoCopyAtStart == ASSUME Init, NEW h PROVE Copies(h) = {}
<1> SUFFICES ASSUME NEW r \in Copies(h) PROVE FALSE
    OBVIOUS
<1>1. Holds(h, r)
    BY CopyIs
<1> QED
    BY <1>1 DEF Init, JournalInit, NoRecords, Holds

LEMMA InitTruthInv == Init => TruthInv
<1> SUFFICES ASSUME Init PROVE TruthInv
    OBVIOUS
<1>1. \A h : Copies(h) = {}
    BY NoCopyAtStart
<1>2. OnChainPart /\ OpNonce /\ ObservedTruth
    BY DEF Init, OnChain, OnChainPart, OpNonce, ObservedTruth, Idle, NoRefresh
<1> QED
    BY <1>1, <1>2 DEF TruthInv, IdentityPart, SentNonce, TruthPart

LEMMA TruthInvKept == WalletInv /\ TruthInv /\ [Next]_walletVars => TruthInv'
<1> SUFFICES ASSUME WalletInv, TruthInv, [Next]_walletVars PROVE TruthInv'
    OBVIOUS
<1> QED
    BY IdentityKept, SentNonceKept, OpNonceKept, OnChainKept, TruthKept, ObservedKept DEF TruthInv

\* A copy of a record that says its nonce is settled tells the truth, in memory, in
\* journal.json, in an archive file and in the hands of History.
THEOREM TruthInvariant == Spec => [](WalletInv /\ VersionInv /\ TruthInv)
    BY VersionInvariant, InitTruthInv, TruthInvKept, PTL DEF Spec

\* "Final" is never a guess: in memory and in every file, a record that says it is
\* final was executed as it says in a finalized block, or its nonce is taken for
\* good by another transaction -- through reorganizations, stale observations,
\* failed writes and crashes, in every order.
THEOREM FinalRecordsAreTrue == Spec => []FinalIsTrue
<1>1. WalletInv /\ TruthInv => FinalIsTrue
    <2> SUFFICES ASSUME WalletInv, TruthInv, NEW f \in Slices, NEW h \in DOMAIN f, f[h].final
                 PROVE  IF f[h].state \in MinedStates
                        THEN chain[h] = "final" /\ f[h].state = Receipt(h)
                        ELSE \E k \in DOMAIN sent \ {h} : sent[k] = f[h].nonce /\ chain[k] = "final"
        BY DEF FinalIsTrue, Slices
    <2>1. f[h] \in Copies(h)
        BY DEF Copies
    <2>2. IsTrue(h, f[h])
        BY <2>1, CopyType DEF WalletInv, JournalInv, GapInv, TruthInv, TruthPart
    <2> QED
        BY <2>2 DEF IsTrue, Beaten
<1> QED
    BY <1>1, TruthInvariant, PTL

----------------------------------------------------------------------------
(* One open nonce.  A transaction that is mined moves the account's nonce  *)
(* up by one and a reorganization takes one back, so Peak never falls.     *)
(* What was once found mined is behind Peak for good, so a journal with    *)
(* nothing in flight means that every nonce in use is, and the operation   *)
(* that found this is the only one that appends.                           *)

\* Handed to the RPC with a nonce that was mined once.
SentBehind(h) == h \in DOMAIN sent /\ sent[h] < Peak

\* What was once found mined is behind.
MinedBehind ==
    /\ \A h \in Hash : \A r \in Copies(h) : r.state \in MinedStates => SentBehind(h)
    /\ refresh.step = "observed" /\ refresh.state \in MinedStates => SentBehind(refresh.hash)

OpenAlone ==
    \A h, k \in Hash : \A r \in Copies(h), s \in Copies(k) :
        r.nonce >= Peak /\ s.nonce >= Peak => r.nonce = s.nonce

AllBehind == \A h \in Hash : \A r \in Copies(h) : r.nonce < Peak

\* A new payment is made when no nonce is open, a replacement for one in use.
OpFresh == op.step \in {"checked", "ready"} /\ quotes[op.quote].count = 0 => AllBehind
OpReplaces ==
    op.step = "ready" /\ quotes[op.quote].count # 0 =>
        \E h \in Known : Rec(h).nonce = quotes[op.quote].nonce

AloneInv == MinedBehind /\ OpenAlone /\ OpFresh /\ OpReplaces

LEMMA CopyNonce == ASSUME WalletInv, NEW h, NEW r \in Copies(h) PROVE r.nonce \in Nat
<1>1. r \in Record
    BY CopyType DEF WalletInv, JournalInv, GapInv
<1> QED
    BY <1>1, WalletBoundAssumption DEF Record, WalletBoundAssumption

\* Mining adds to the account's nonce what a reorganization takes from it.
LEMMA PeakRises ==
    ASSUME WalletInv, TruthInv, [Next]_walletVars
    PROVE  Peak <= Peak' /\ Peak \in Nat /\ Peak' \in Nat /\ NonceAt <= Peak
<1>1. NonceAt \in Nat /\ spent.reorg \in Nat /\ spent'.reorg \in Nat
    <2>1. spent.reorg \in Nat /\ spent'.reorg \in Nat
        BY WalletInvKept DEF WalletInv, WalletRest, SpentType
    <2> QED
        BY <2>1, NonceAtType
<1>2. CASE UNCHANGED networkVars /\ spent'.reorg = spent.reorg
    <2>1. NonceAt' = NonceAt
        BY <1>2 DEF networkVars, OnChain, NonceAt
    <2> QED
        BY <1>1, <1>2, <2>1 DEF Peak
<1>3. CASE Sends
    <2>1. OnChain' = OnChain /\ NonceAt' = NonceAt /\ spent' = spent
        BY <1>3, OnChainSame DEF Sends, ChainStatus, OnChain, NonceAt, TruthInv
    <2> QED
        BY <1>1, <2>1 DEF Peak
<1>4. ASSUME NEW h \in Hash, Deliver(h) \/ Drop(h) \/ Finalize(h)
      PROVE  NonceAt' = NonceAt /\ spent' = spent
    <2>1. PICK status \in ChainStatus :
              /\ chain' = [chain EXCEPT ![h] = status]
              /\ chain[h] \in {"mined", "final"} <=> status \in {"mined", "final"}
              /\ spent' = spent
        BY <1>4 DEF Deliver, Drop, Finalize, Acceptable, Pooled, ChainStatus
    <2> QED
        BY <2>1, OnChainSame DEF TruthInv
<1>5. ASSUME NEW h \in Hash, Mine(h)
      PROVE  NonceAt' = NonceAt + 1 /\ spent' = spent
    <2>1. chain' = [chain EXCEPT ![h] = "mined"] /\ h \notin OnChain /\ spent' = spent
        BY <1>5 DEF Mine, Pooled, OnChain
    <2>2. OnChain' = OnChain \cup {h}
        BY <2>1 DEF OnChain, WalletInv, WalletRest, NetworkType
    <2> QED
        BY <2>1, <2>2, NonceAtType, FS_AddElement DEF NonceAt
<1>6. ASSUME NEW h \in Hash, Reorg(h)
      PROVE  NonceAt' = NonceAt - 1 /\ spent'.reorg = spent.reorg + 1
    <2>1. chain' = [chain EXCEPT ![h] = "orphaned"] /\ h \in OnChain
        BY <1>6 DEF Reorg, OnChain
    <2>2. OnChain' = OnChain \ {h}
        BY <2>1 DEF OnChain, WalletInv, WalletRest, NetworkType
    <2>3. NonceAt' = NonceAt - 1
        BY <2>1, <2>2, NonceAtType, FS_RemoveElement DEF NonceAt
    <2> QED
        BY <1>6, <2>3 DEF Reorg, WalletInv, WalletRest, SpentType
<1> QED
    BY <1>1, <1>2, <1>3, <1>4, <1>5, <1>6, NetworkCases DEF TruthInv, Peak

LEMMA BehindStays ==
    ASSUME WalletInv, TruthInv, [Next]_walletVars, NEW h \in DOMAIN sent, sent[h] < Peak
    PROVE  h \in DOMAIN sent' /\ sent'[h] < Peak'
<1>1. h \in DOMAIN sent' /\ sent'[h] = sent[h]
    BY FinalStays DEF TruthInv
<1>2. sent[h] \in Nat
    BY WalletBoundAssumption DEF WalletInv, WalletRest, NetworkType, WalletBoundAssumption
<1> QED
    BY <1>1, <1>2, PeakRises

LEMMA OnChainBehind ==
    ASSUME WalletInv, TruthInv, NEW h \in OnChain
    PROVE  SentBehind(h)
<1>1. h \in DOMAIN sent /\ sent[h] < NonceAt /\ sent[h] \in Nat
    BY WalletBoundAssumption DEF TruthInv, OnChainPart, OnChain, WalletInv, WalletRest,
                                 NetworkType, WalletBoundAssumption
<1>2. spent.reorg \in Nat
    BY DEF WalletInv, WalletRest, SpentType
<1> QED
    BY <1>1, <1>2, NonceAtType DEF SentBehind, Peak

LEMMA MinedBehindKept ==
    ASSUME WalletInv, TruthInv, MinedBehind, [Next]_walletVars
    PROVE  MinedBehind'
<1>1. \A h : SentBehind(h) => SentBehind(h)'
    BY BehindStays DEF SentBehind
<1>2. ASSUME NEW h \in Hash, NEW r \in Copies(h)', r.state \in MinedStates
      PROVE  SentBehind(h)
    <2>1. CASE r \in Copies(h)
        BY <1>2, <2>1 DEF MinedBehind
    <2>2. CASE r = Appended(op.quote, quotes[op.quote].nonce)
        BY <1>2, <2>2 DEF Appended, MinedStates
    <2>3. CASE refresh.step = "observed" /\ h = refresh.hash /\ r.state = ObservedState
        <3>1. "broadcast_unknown" \notin MinedStates
            BY DEF MinedStates
        <3> QED
            BY <1>2, <2>3, <3>1 DEF MinedBehind, ObservedState
    <2>4. CASE h \in ArchiveSet /\ r = ArchiveRecord(journal[h])
        <3>1. h \in DOMAIN journal /\ journal[h] \in Record
            BY <2>4 DEF ArchiveSet, WalletInv, JournalInv, GapInv, JournalTypeOK
        <3>2. r = journal[h]
            BY <1>2, <2>4, <3>1 DEF ArchiveRecord, Record, MinedStates
        <3>3. r \in Copies(h)
            BY <3>1, <3>2, CopyIs DEF Holds
        <3> QED
            BY <2>1, <3>3
    <2> QED
        BY <1>2, <2>1, <2>2, <2>3, <2>4, StepCopies
<1>3. ASSUME refresh'.step = "observed", refresh'.state \in MinedStates
      PROVE  SentBehind(refresh'.hash)
    <2>1. ASSUME NEW h \in Hash, HistoryQuery(h) PROVE SentBehind(refresh'.hash)
        <3>1. PICK o \in Observations(h) : refresh'.hash = h /\ refresh'.state = o[1]
            BY <2>1, QueryIs
        <3>2. o[1] \in MinedStates => SentBehind(h)
            BY ObservationType, OnChainBehind
        <3> QED
            BY <1>3, <3>1, <3>2
    <2> QED
        BY <1>3, <2>1, ObservedCases DEF MinedBehind
<1> QED
    BY <1>1, <1>2, <1>3 DEF MinedBehind, SentBehind

\* Nothing in flight means that every nonce in use is behind.
LEMMA NothingOpen ==
    ASSUME WalletInv, TruthInv, MinedBehind, ~HasInFlightTx, ~storageFault
    PROVE  AllBehind
<1> SUFFICES ASSUME NEW h \in Hash, NEW r \in Copies(h) PROVE r.nonce < Peak
    BY DEF AllBehind
<1>1. h \in Known
    <2>1. Holds(h, r)
        BY CopyIs
    <2>2. disk = journal /\ FileHashes \subseteq Known
        BY KnownIsStored DEF WalletInv, WalletRest, FaultPart, JournalInv, GapInv, Acknowledged
    <2> QED
        BY <2>1, <2>2 DEF Holds, Known, FileHashes
<1>2. r.nonce = Rec(h).nonce
    BY <1>1, KnownIsCopy, SameIdentity DEF TruthInv
<1>3. PICK k \in Known : Rec(k).nonce = Rec(h).nonce /\ Rec(k).state \in MinedStates
    BY <1>1 DEF HasInFlightTx, NonceMined, NonceRecords
<1>4. k \in Hash /\ Rec(k) \in Copies(k)
    BY KnownIsCopy, KnownRecord
<1>5. k \in DOMAIN sent /\ sent[k] < Peak
    BY <1>3, <1>4 DEF MinedBehind, SentBehind
<1>6. sent[k] = Rec(k).nonce
    BY <1>4, <1>5 DEF TruthInv, SentNonce
<1> QED
    BY <1>2, <1>3, <1>5, <1>6

\* No step makes a nonce of a transaction that is there.
LEMMA OldNonce ==
    ASSUME WalletInv, TruthInv, [Next]_walletVars, NEW h \in Hash, NEW r \in Copies(h)',
           ~(op.step = "ready" /\ op'.step # "ready" /\ h = signed + 1)
    PROVE  \E s \in Copies(h) : r.nonce = s.nonce
    BY CopyIdentity DEF TruthInv

LEMMA OpFreshKept ==
    ASSUME WalletInv, TruthInv, MinedBehind, OpFresh, [Next]_walletVars
    PROVE  OpFresh'
<1> SUFFICES ASSUME op'.step \in {"checked", "ready"}, quotes'[op'.quote].count = 0,
                    NEW h \in Hash, NEW r \in Copies(h)'
             PROVE  r.nonce < Peak'
    BY DEF OpFresh, AllBehind
<1>1. AllBehind
    <2>1. CASE op.step \in {"checked", "ready"} /\ op'.quote = op.quote
        <3>1. quotes' = quotes
            BY <2>1, QuotesStable
        <3> QED
            BY <2>1, <3>1 DEF OpFresh
    <2>2. ASSUME NEW q \in Quote, SendStart(q), op'.quote = q PROVE AllBehind
        BY <2>2, NothingOpen DEF SendStart, serviceVars
    <2> QED
        BY <2>1, <2>2, OpStepFrom
<1>2. ~(op.step = "ready" /\ op'.step # "ready")
    BY OpStepFrom
<1>3. PICK s \in Copies(h) : r.nonce = s.nonce
    BY <1>2, OldNonce
<1>4. s.nonce < Peak /\ s.nonce \in Nat
    BY <1>1, <1>3, CopyNonce DEF AllBehind
<1> QED
    BY <1>3, <1>4, PeakRises

\* A known transaction keeps its nonce.
LEMMA KnownNonce ==
    ASSUME WalletInv, TruthInv, [Next]_walletVars, NEW h \in Known
    PROVE  h \in Known' /\ Rec(h)'.nonce = Rec(h).nonce
<1>1. h \in Known'
    BY JournalMoves, KnownGrows DEF WalletInv
<1>2. PICK r : r = Rec(h)'
    OBVIOUS
<1>3. h \in Hash /\ Rec(h) \in Copies(h) /\ h # signed + 1
    BY KnownRecord, KnownIsCopy DEF Known, WalletInv, JournalInv, GapInv, JournalTypeOK
<1>4. r \in Copies(h)'
    <2>1. Holds(h, r)'
        BY <1>1, <1>2 DEF Holds, Rec, Known
    <2> QED
        BY <2>1, CopyIsThen
<1>5. PICK s \in Copies(h) : r.nonce = s.nonce
    BY <1>3, <1>4, OldNonce
<1> QED
    BY <1>1, <1>2, <1>3, <1>5, SameIdentity DEF TruthInv

LEMMA OpReplacesKept ==
    ASSUME WalletInv, TruthInv, OpReplaces, [Next]_walletVars
    PROVE  OpReplaces'
<1> SUFFICES ASSUME op'.step = "ready", quotes'[op'.quote].count # 0
             PROVE  \E h \in Known' : Rec(h)'.nonce = quotes'[op'.quote].nonce
    BY DEF OpReplaces
<1>1. op.step # "idle" /\ op'.quote = op.quote
    BY OpStepFrom DEF SendCheckNonce, WalletInv, WalletRest, OpPart, OpSet
<1>2. quotes' = quotes
    BY <1>1, QuotesStable
<1>3. PICK h \in Known : Rec(h).nonce = quotes[op.quote].nonce
    <2>1. CASE op.step = "ready"
        BY <1>1, <1>2, <2>1 DEF OpReplaces
    <2>2. CASE SendCheckNonce
        <3>1. Cardinality(NonceRecords(quotes[op.quote].nonce)) # 0
            BY <1>1, <1>2, <2>2 DEF SendCheckNonce
        <3>2. NonceRecords(quotes[op.quote].nonce) # {}
            BY <3>1, FS_EmptySet
        <3> QED
            BY <3>2 DEF NonceRecords
    <2> QED
        BY <2>1, <2>2, OpStepFrom
<1> QED
    BY <1>1, <1>2, <1>3, KnownNonce

LEMMA OpenAloneKept ==
    ASSUME WalletInv, TruthInv, OpenAlone, OpFresh, OpReplaces, [Next]_walletVars
    PROVE  OpenAlone'
<1> SUFFICES ASSUME NEW h \in Hash, NEW k \in Hash, NEW r \in Copies(h)', NEW s \in Copies(k)',
                    r.nonce >= Peak', s.nonce >= Peak'
             PROVE  r.nonce = s.nonce
    BY DEF OpenAlone
<1>1. Peak <= Peak' /\ Peak \in Nat /\ Peak' \in Nat
    BY PeakRises
<1> DEFINE New(x) == op.step = "ready" /\ op'.step # "ready" /\ x = signed + 1
           n == quotes[op.quote].nonce
<1>2. ASSUME NEW x \in Hash, NEW y \in Copies(x)'
      PROVE  y.nonce \in Nat
    <2>1. JournalTypeOK'
        BY WalletInvKept DEF WalletInv, JournalInv, GapInv
    <2>2. Holds(x, y)'
        BY <1>2, CopyIsThen
    <2>3. y \in Record
        BY <2>1, <2>2 DEF Holds, JournalTypeOK
    <2> QED
        BY <2>3, WalletBoundAssumption DEF Record, WalletBoundAssumption
<1>3. ASSUME NEW x \in Hash, New(x), NEW y \in Copies(x)' PROVE y.nonce = n
    <2>1. Copies(x) = {}
        BY <1>3, NoCopyYet
    <2>2. y = Appended(op.quote, n)
        BY <1>3, <2>1, CopyIdentity DEF TruthInv
    <2> QED
        BY <2>2 DEF Appended
<1>4. ASSUME NEW x \in Hash, ~New(x), NEW y \in Copies(x)', y.nonce >= Peak'
      PROVE  \E z \in Copies(x) : y.nonce = z.nonce /\ z.nonce >= Peak
    <2>1. PICK z \in Copies(x) : y.nonce = z.nonce
        BY <1>4, OldNonce
    <2> QED
        BY <1>1, <1>2, <1>4, <2>1
<1>5. ASSUME op.step = "ready", n >= Peak', NEW x \in Hash, NEW z \in Copies(x),
             z.nonce >= Peak
      PROVE  z.nonce = n
    <2>1. CASE quotes[op.quote].count = 0
        <3>1. AllBehind
            BY <1>5, <2>1 DEF OpFresh
        <3>2. z.nonce < Peak /\ z.nonce \in Nat
            BY <1>5, <3>1, CopyNonce DEF AllBehind
        <3> QED
            BY <1>1, <1>5, <3>2
    <2>2. CASE quotes[op.quote].count # 0
        <3>1. PICK w \in Known : Rec(w).nonce = n
            BY <1>5, <2>2 DEF OpReplaces
        <3>2. w \in Hash /\ Rec(w) \in Copies(w)
            BY KnownIsCopy, KnownRecord
        <3>3. n \in Nat
            BY <3>1, KnownRecord, WalletBoundAssumption DEF Record, WalletBoundAssumption
        <3>4. Rec(w).nonce >= Peak
            BY <1>1, <1>5, <3>1, <3>3
        <3> QED
            BY <1>5, <3>1, <3>2, <3>4 DEF OpenAlone
    <2> QED
        BY <2>1, <2>2
<1> HIDE DEF n
<1>6. CASE New(h) /\ New(k)
    BY <1>3, <1>6
<1>7. CASE New(h) /\ ~New(k)
    BY <1>3, <1>4, <1>5, <1>7
<1>8. CASE ~New(h) /\ New(k)
    BY <1>3, <1>4, <1>5, <1>8
<1>9. CASE ~New(h) /\ ~New(k)
    <2>1. PICK y \in Copies(h) : r.nonce = y.nonce /\ y.nonce >= Peak
        BY <1>4, <1>9
    <2>2. PICK z \in Copies(k) : s.nonce = z.nonce /\ z.nonce >= Peak
        BY <1>4, <1>9
    <2> QED
        BY <2>1, <2>2 DEF OpenAlone
<1> QED
    BY <1>6, <1>7, <1>8, <1>9

LEMMA AloneInvKept == WalletInv /\ TruthInv /\ AloneInv /\ [Next]_walletVars => AloneInv'
    BY MinedBehindKept, OpenAloneKept, OpFreshKept, OpReplacesKept DEF AloneInv

LEMMA InitAloneInv == Init => AloneInv
<1> SUFFICES ASSUME Init PROVE AloneInv
    OBVIOUS
<1>1. \A h : Copies(h) = {}
    BY NoCopyAtStart
<1>2. op.step = "idle" /\ refresh.step = "idle"
    BY DEF Init, Idle, NoRefresh
<1> QED
    BY <1>1, <1>2 DEF AloneInv, MinedBehind, OpenAlone, OpFresh, OpReplaces

\* "Single outstanding tx constraint" (QuoteCommand), and what reorganizations cost
\* of it: each can open one nonce again, and beyond those transactions that can
\* still be mined share theirs -- although quotes are taken ahead, broadcasts are
\* repeated, History judges blocks that are undone later, writes fail and the
\* process is killed in between.
THEOREM OneOpenBeyondReorgs == Spec => []OneBeyondReorgs
<1>1. WalletInv /\ TruthInv /\ AloneInv => OneBeyondReorgs
    <2> SUFFICES ASSUME WalletInv, TruthInv, AloneInv, NEW h \in DOMAIN sent, NEW k \in DOMAIN sent,
                        sent[h] >= Peak, sent[k] >= Peak
                 PROVE  sent[h] = sent[k]
        BY DEF OneBeyondReorgs
    <2>1. h \in Known /\ k \in Known
        BY KnownIsStored DEF WalletInv, WalletRest, SentPart
    <2>2. Rec(h) \in Copies(h) /\ Rec(k) \in Copies(k) /\ h \in Hash /\ k \in Hash
        BY <2>1, KnownIsCopy, KnownRecord
    <2>3. Rec(h).nonce = sent[h] /\ Rec(k).nonce = sent[k]
        BY <2>2 DEF TruthInv, SentNonce
    <2> QED
        BY <2>2, <2>3 DEF AloneInv, OpenAlone
<1>2. Spec => []AloneInv
    BY TruthInvariant, InitAloneInv, AloneInvKept, PTL DEF Spec
<1> QED
    BY <1>1, <1>2, TruthInvariant, PTL

\* As long as no reorganization took place, transactions that can still be mined
\* share their nonce, so that Send and Retry never put two payments on the way.
THEOREM OneOpenSoFar == Spec => [](spent.reorg = 0 => SingleInFlight)
<1>1. WalletInv => (OneBeyondReorgs => (spent.reorg = 0 => SingleInFlight))
    <2>1. spent.reorg = 0 => Peak = NonceAt
        BY NonceAtType DEF Peak
    <2> QED
        BY <2>1 DEF OneBeyondReorgs, SingleInFlight
<1> QED
    BY <1>1, WalletInvariant, OneOpenBeyondReorgs, PTL

\* The same on a chain without reorganizations, as the run without them checks it.
THEOREM OneOpenNonce == MaxReorgs = 0 => (Spec => []SingleInFlight)
<1> SUFFICES ASSUME MaxReorgs = 0 PROVE Spec => []SingleInFlight
    OBVIOUS
<1>1. WalletInv => spent.reorg = 0
    BY DEF WalletInv, WalletRest, SpentType
<1> QED
    BY <1>1, WalletInvariant, OneOpenSoFar, PTL

----------------------------------------------------------------------------
(* The ledger of module PaymentLedger, as the wallet keeps it.             *)

LEMMA OutcomeIs ==
    ASSUME NEW r \in Record
    PROVE  /\ ~r.final => Outcome(r) = "open"
           /\ r.final /\ r.state \in MinedStates => Outcome(r) = "paid"
           /\ r.final /\ r.state \notin MinedStates => Outcome(r) = "void"
    BY DEF Outcome, Record

\* How an entry looks after a step.
Becomes(h, outcome) ==
    /\ Rec(h)'.quote = Rec(h).quote
    /\ Rec(h)'.nonce = Rec(h).nonce
    /\ Outcome(Rec(h)') = outcome
Stays(h) == Becomes(h, Outcome(Rec(h)))

LEMMA LedgerSame ==
    ASSUME Known' = Known, \A h \in Known : Stays(h), DOMAIN sent' = DOMAIN sent
    PROVE  UNCHANGED Ledger!ledgerVars
    BY DEF Ledger!ledgerVars, Stays, Becomes

LEMMA IsBroadcast ==
    ASSUME NEW h \in Hash, h \in Known, Known' = Known, \A k \in Known : Stays(k),
           DOMAIN sent' = DOMAIN sent \cup {h}
    PROVE  Ledger!Broadcast(h)
    BY DEF Ledger!Broadcast, Stays, Becomes

LEMMA IsCommit ==
    ASSUME NEW h \in Hash, NEW q \in Quote, NEW n \in Nonce,
           h \notin Known, \A k \in Known : Rec(k).quote # q,
           Known' = Known \cup {h}, \A k \in Known : Stays(k),
           Rec(h)'.quote = q, Rec(h)'.nonce = n, Outcome(Rec(h)') = "open",
           DOMAIN sent' = DOMAIN sent
    PROVE  Ledger!Commit(h, q, n)
    BY DEF Ledger!Commit, Stays, Becomes

LEMMA IsPay ==
    ASSUME WalletInv, TruthInv, NEW h \in Known, ~Rec(h).final, chain[h] = "final",
           Known' = Known, \A k \in Known \ {h} : Stays(k), Becomes(h, "paid"),
           DOMAIN sent' = DOMAIN sent
    PROVE  Ledger!Pay(h)
<1>1. h \in DOMAIN sent /\ h \in OnChain /\ sent[h] = Rec(h).nonce
    BY KnownRecord, KnownIsCopy DEF TruthInv, OnChainPart, SentNonce, OnChain
<1>2. \A k \in Known : Rec(k).nonce = Rec(h).nonce => Outcome(Rec(k)) # "paid"
    <2> SUFFICES ASSUME NEW k \in Known, Rec(k).nonce = Rec(h).nonce,
                        Outcome(Rec(k)) = "paid"
                 PROVE  FALSE
        OBVIOUS
    <2>1. k \in Hash /\ Rec(k) \in Copies(k) /\ Rec(k) \in Record
        BY KnownRecord, KnownIsCopy
    <2>2. Rec(k).final /\ Rec(k).state \in MinedStates
        BY <2>1, OutcomeIs
    <2>3. chain[k] = "final"
        BY <2>1, <2>2 DEF TruthInv, TruthPart, IsTrue
    <2>4. k \in DOMAIN sent /\ k \in OnChain /\ sent[k] = Rec(k).nonce
        BY <2>1, <2>3 DEF TruthInv, OnChainPart, SentNonce, OnChain
    <2>5. k = h
        BY <1>1, <2>4 DEF TruthInv, OnChainPart
    <2> QED
        BY <2>2, <2>5
<1>3. Outcome(Rec(h)) = "open"
    BY KnownRecord, OutcomeIs
<1> QED
    BY <1>1, <1>2, <1>3 DEF Ledger!Pay, Ledger!Paid, Stays, Becomes

LEMMA IsVoid ==
    ASSUME NEW S \in SUBSET Known, S # {}, Known' = Known,
           \A h \in Known \ S : Stays(h),
           \A h \in S : Outcome(Rec(h)) = "open" /\ Becomes(h, "void"),
           \A h \in S : \E k \in Known : /\ Outcome(Rec(k)) = "paid"
                                         /\ Rec(k).nonce = Rec(h).nonce,
           DOMAIN sent' = DOMAIN sent
    PROVE  Ledger!Void(S)
    BY DEF Ledger!Void, Ledger!Paid, Stays, Becomes

\* A nonce has one final transaction.
LEMMA FinalNotBeaten ==
    ASSUME WalletInv, TruthInv, NEW h \in Hash, NEW r \in Copies(h), chain[h] = "final"
    PROVE  ~Beaten(h, r.nonce)
<1> SUFFICES ASSUME NEW k \in DOMAIN sent \ {h}, sent[k] = r.nonce, chain[k] = "final"
             PROVE  FALSE
    BY DEF Beaten
<1>1. h \in OnChain /\ h \in DOMAIN sent /\ sent[h] = r.nonce
    BY DEF TruthInv, OnChainPart, SentNonce, OnChain
<1>2. k \in Hash
    BY BoundAssumption DEF WalletInv, WalletRest, NetworkType, JournalInv, GapInv, JournalTypeOK,
                           Hash, BoundAssumption
<1> QED
    BY <1>1, <1>2 DEF TruthInv, OnChainPart, OnChain

\* Two copies of a transaction make the same entry if both are final or neither is.
LEMMA SameEntry ==
    ASSUME WalletInv, TruthInv, NEW h, NEW r \in Copies(h), NEW s \in Copies(h),
           r.final = s.final
    PROVE  r.quote = s.quote /\ r.nonce = s.nonce /\ Outcome(r) = Outcome(s)
<1>1. h \in Hash /\ r \in Record /\ s \in Record
    BY CopyType DEF WalletInv, JournalInv, GapInv
<1>2. r.quote = s.quote /\ r.nonce = s.nonce
    BY SameIdentity DEF TruthInv
<1>3. ASSUME NEW x \in Copies(h), NEW y \in Copies(h), x.final, y.final,
             x.state \in MinedStates, y.state \notin MinedStates
      PROVE  FALSE
    <2>1. chain[h] = "final" /\ Beaten(h, y.nonce)
        BY <1>1, <1>3 DEF TruthInv, TruthPart, IsTrue
    <2> QED
        BY <1>1, <1>3, <2>1, FinalNotBeaten
<1>4. Outcome(r) = Outcome(s)
    BY <1>1, <1>3, OutcomeIs
<1> QED
    BY <1>2, <1>4

----------------------------------------------------------------------------
(* What a restart finds.  The file says what memory says, or it has what   *)
(* the last failed write left there: one record more, one record updated,  *)
(* or the records without those that are archived.                         *)

FreshQuote(q) == \A h \in Known : Rec(h).quote # q

OpFreshQuote == op.step \in {"checked", "ready"} => FreshQuote(op.quote)

Shortened == disk = Only(journal, DOMAIN journal \ ArchiveSet)
UpdatedAt(h) == h \in DOMAIN journal \cap DOMAIN disk /\ disk = Put(journal, h, disk[h])
                  /\ ~journal[h].final
AppendedAt(h) == h \in DOMAIN disk \ Known /\ disk = Put(journal, h, disk[h])
                   /\ ~disk[h].final /\ FreshQuote(disk[h].quote)

DiskPart ==
    \/ disk = journal
    \/ Shortened
    \/ \E h \in Hash : UpdatedAt(h) \/ AppendedAt(h)

LedgerInv == OpFreshQuote /\ DiskPart

\* Only an open record is updated.
LEMMA UpdatesOpen ==
    ASSUME WalletInv, VersionInv, NEW h \in Hash, NEW v, NEW s, NEW f, NEW outcome,
           WalletUpdate(h, v, s, f, outcome), h \in DOMAIN journal, journal[h].version = v
    PROVE  ~journal[h].final
<1>1. CASE op.step \in {"answered", "retried"} /\ h = op.hash /\ v = op.version
    BY <1>1 DEF VersionInv, AnswerPart, FinalPart, Working
<1>2. CASE refresh.step = "observed" /\ h = refresh.hash /\ v = refresh.items[h]
    <2>1. h \in DOMAIN refresh.items
        BY <1>2 DEF WalletInv, WalletRest, RefreshPart
    <2> QED
        BY <1>2, <2>1 DEF VersionInv, ItemsPart
<1> QED
    BY <1>1, <1>2 DEF WalletUpdate

\* The updates of memory and of the file.
LEMMA UpdateSaves ==
    ASSUME WalletInv, VersionInv, NEW h \in Hash, NEW v \in Nat, NEW s \in States,
           NEW f \in BOOLEAN, NEW outcome \in UpdateOutcome, WalletUpdate(h, v, s, f, outcome)
    PROVE  /\ archived' = archived
           /\ \/ journal' = journal /\ disk' = disk
              \/ /\ h \in DOMAIN journal /\ ~journal[h].final
                 /\ \E r \in Record :
                       /\ r.quote = journal[h].quote /\ r.nonce = journal[h].nonce
                       /\ r.state = s /\ r.final = f
                       /\ disk' = Put(journal, h, r)
                       /\ journal' \in {journal, Put(journal, h, r)}
<1>1. JournalTypeOK /\ UpdateStateAtomicIfVersion(h, v, s, f, outcome)
    BY DEF WalletUpdate, WalletInv, JournalInv, GapInv
<1>2. /\ archived' = archived
      /\ \/ UNCHANGED <<journal, disk>>
         \/ /\ h \in DOMAIN journal /\ journal[h].version = v
            /\ \E r \in Record : Updates(h, v, s, f, outcome, r)
    BY <1>1, UpdateCases
<1>3. CASE UNCHANGED <<journal, disk>>
    BY <1>2, <1>3
<1>4. ASSUME h \in DOMAIN journal, journal[h].version = v,
             NEW r \in Record, Updates(h, v, s, f, outcome, r), ~UNCHANGED <<journal, disk>>
      PROVE  /\ ~journal[h].final
             /\ r.quote = journal[h].quote /\ r.nonce = journal[h].nonce
             /\ r.state = s /\ r.final = f
             /\ disk' = Put(journal, h, r)
             /\ journal' \in {journal, Put(journal, h, r)}
    <2>1. outcome # "lost"
        BY <1>4 DEF Updates
    <2> QED
        BY <1>4, <2>1, UpdatesOpen DEF Updates
<1> QED
    BY <1>2, <1>3, <1>4

\* Memory knows the same transactions unless one is signed or the process restarts.
LEMMA KnownSame ==
    ASSUME WalletInv, [Next]_walletVars, ~Restart, \A outcome \in WriteOutcome : ~SendAppend(outcome)
    PROVE  Known' = Known
<1>1. ASSUME NEW h \in Hash, NEW v \in Nat, NEW s \in States, NEW f \in BOOLEAN,
             NEW outcome \in UpdateOutcome, WalletUpdate(h, v, s, f, outcome)
      PROVE  Known' = Known
    <2>1. JournalTypeOK /\ UpdateStateAtomicIfVersion(h, v, s, f, outcome)
        BY <1>1 DEF WalletUpdate, WalletInv, JournalInv, GapInv
    <2>2. archived' = archived /\ DOMAIN journal' = DOMAIN journal
        BY <2>1 DEF UpdateStateAtomicIfVersion, atomicSave, Put
    <2> QED
        BY <2>2 DEF Known
<1>2. CASE CallerArchive
    <2>1. \/ UNCHANGED <<journal, archived>>
          \/ /\ DOMAIN journal' = DOMAIN journal \ ArchiveSet
             /\ DOMAIN archived' = DOMAIN archived \cup ArchiveSet
        BY <1>2 DEF CallerArchive, ArchiveFinalized, atomicSave, Only
    <2> QED
        BY <2>1 DEF Known, ArchiveSet
<1> QED
    BY <1>1, <1>2, JournalCases, KnownKept

LEMMA KnownQuote ==
    ASSUME WalletInv, TruthInv, [Next]_walletVars, NEW h \in Known
    PROVE  Rec(h)'.quote = Rec(h).quote
<1>1. h \in Known'
    BY KnownNonce
<1>2. PICK r : r = Rec(h)'
    OBVIOUS
<1>3. h \in Hash /\ Rec(h) \in Copies(h) /\ h # signed + 1
    BY KnownRecord, KnownIsCopy DEF Known, WalletInv, JournalInv, GapInv, JournalTypeOK
<1>4. r \in Copies(h)'
    <2>1. Holds(h, r)'
        BY <1>1, <1>2 DEF Holds, Rec, Known
    <2> QED
        BY <2>1, CopyIsThen
<1>5. PICK s \in Copies(h) : r.quote = s.quote
    BY <1>3, <1>4, CopyIdentity DEF TruthInv
<1> QED
    BY <1>2, <1>3, <1>5, SameIdentity DEF TruthInv

LEMMA OpFreshQuoteKept ==
    ASSUME WalletInv, TruthInv, OpFreshQuote, [Next]_walletVars
    PROVE  OpFreshQuote'
<1> SUFFICES ASSUME op'.step \in {"checked", "ready"}, NEW h \in Known'
             PROVE  Rec(h)'.quote # op'.quote
    BY DEF OpFreshQuote, FreshQuote
<1>1. FreshQuote(op'.quote)
    <2>1. ASSUME NEW q \in Quote, SendStart(q) PROVE FreshQuote(q)
        BY <2>1 DEF SendStart, FreshQuote
    <2> QED
        BY <2>1, OpStepFrom DEF OpFreshQuote
<1>2. Known' = Known
    <2>1. ~Restart
        BY DEF Restart, Idle
    <2>2. ASSUME NEW outcome \in WriteOutcome, SendAppend(outcome) PROVE FALSE
        <3>1. op \in OpSet /\ Idle.step = "idle"
            BY DEF WalletInv, WalletRest, OpPart, Idle
        <3>2. op' = Idle \/ op' = [op EXCEPT !.step = "appended", !.hash = signed', !.version = 1]
            BY <2>2 DEF SendAppend
        <3> QED
            BY <3>1, <3>2 DEF OpSet
    <2> QED
        BY <2>1, <2>2, KnownSame
<1> QED
    BY <1>1, <1>2, KnownQuote DEF FreshQuote

LEMMA DiskSame ==
    ASSUME DiskPart, UNCHANGED <<journal, archived, disk>>
    PROVE  DiskPart'
<1>1. Known' = Known /\ ArchiveSet' = ArchiveSet /\ \A h : Rec(h)' = Rec(h)
    BY ArchiveSetStable DEF Known, Rec
<1> QED
    BY <1>1 DEF DiskPart, Shortened, UpdatedAt, AppendedAt, FreshQuote

LEMMA DiskKept ==
    ASSUME WalletInv, VersionInv, LedgerInv, [Next]_walletVars
    PROVE  DiskPart'
<1>1. CASE UNCHANGED journalVars
    BY <1>1, DiskSame DEF journalVars, LedgerInv
<1>2. ASSUME NEW outcome \in WriteOutcome, SendAppend(outcome) PROVE DiskPart'
    <2> DEFINE r == Appended(op.quote, quotes[op.quote].nonce)
    <2>0. PICK x : x = signed + 1
        OBVIOUS
    <2>1. /\ disk' = IF outcome = "lost" THEN disk ELSE Put(journal, x, r)
          /\ journal' = IF outcome = "ok" THEN Put(journal, x, r) ELSE journal
          /\ archived' = archived /\ x \in Hash /\ op.step = "ready"
        BY <1>2, <2>0 DEF SendAppend, AppendAtomic, atomicSave, Appended
    <2>2. ~r.final /\ r.quote = op.quote
        BY DEF Appended
    <2>3. x \notin Known
        BY <2>0 DEF WalletInv, JournalInv, GapInv, JournalTypeOK, Known
    <2>4. FreshQuote(op.quote)
        BY <2>1 DEF LedgerInv, OpFreshQuote
    <2> HIDE DEF r
    <2>5. CASE outcome = "ok"
        BY <2>1, <2>5 DEF DiskPart
    <2>6. CASE outcome = "lost"
        BY <2>1, <2>6, DiskSame DEF LedgerInv
    <2>7. CASE outcome = "kept"
        <3>1. journal' = journal /\ disk' = Put(journal, x, r)
            BY <2>1, <2>7
        <3>2. x \in DOMAIN disk' /\ disk'[x] = r
            BY <3>1 DEF Put
        <3>3. AppendedAt(x)'
            BY <2>1, <2>2, <2>3, <2>4, <3>1, <3>2 DEF AppendedAt, FreshQuote, Known, Rec
        <3> QED
            BY <2>1, <3>3 DEF DiskPart
    <2> QED
        BY <2>5, <2>6, <2>7 DEF WriteOutcome
<1>3. ASSUME NEW h \in Hash, NEW v \in Nat, NEW s \in States, NEW f \in BOOLEAN,
             NEW outcome \in UpdateOutcome, WalletUpdate(h, v, s, f, outcome)
      PROVE  DiskPart'
    <2>1. archived' = archived
        BY <1>3, UpdateSaves
    <2>2. CASE journal' = journal /\ disk' = disk
        BY <2>1, <2>2, DiskSame DEF LedgerInv
    <2>3. ASSUME h \in DOMAIN journal, ~journal[h].final, NEW r, disk' = Put(journal, h, r),
                 journal' \in {journal, Put(journal, h, r)}
          PROVE  DiskPart'
        <3>1. CASE journal' = Put(journal, h, r)
            BY <2>3, <3>1 DEF DiskPart
        <3>2. CASE journal' = journal
            <4>1. h \in DOMAIN disk' /\ disk'[h] = r
                BY <2>3 DEF Put
            <4>2. UpdatedAt(h)'
                BY <2>3, <3>2, <4>1 DEF UpdatedAt
            <4> QED
                BY <4>2 DEF DiskPart
        <3> QED
            BY <2>3, <3>1, <3>2
    <2> QED
        BY <1>3, <2>2, <2>3, UpdateSaves
<1>4. CASE CallerArchive
    <2>1. PICK fileOutcome \in WriteOutcome, outcome \in WriteOutcome :
              ArchiveFinalized(fileOutcome, outcome)
        BY <1>4 DEF CallerArchive
    <2> DEFINE keep == Only(journal, DOMAIN journal \ ArchiveSet)
    <2>2. /\ disk' = IF outcome = "lost" THEN disk ELSE keep
          /\ journal' = IF outcome = "ok" THEN keep ELSE journal
          /\ outcome # "ok" => archived' = archived
        BY <2>1 DEF ArchiveFinalized, atomicSave
    <2> HIDE DEF keep
    <2>3. CASE outcome = "ok"
        BY <2>2, <2>3 DEF DiskPart
    <2>4. CASE outcome = "lost"
        BY <2>2, <2>4, DiskSame DEF LedgerInv
    <2>5. CASE outcome = "kept"
        <3>1. UNCHANGED <<journal, archived>> /\ disk' = keep
            BY <2>2, <2>5
        <3>2. ArchiveSet' = ArchiveSet
            BY <3>1, ArchiveSetStable
        <3>3. Shortened'
            BY <3>1, <3>2 DEF Shortened, keep
        <3> QED
            BY <3>3 DEF DiskPart
    <2> QED
        BY <2>3, <2>4, <2>5 DEF WriteOutcome
<1>5. CASE Restart
    BY <1>5 DEF Restart, Load, DiskPart
<1> QED
    BY <1>1, <1>2, <1>3, <1>4, <1>5, JournalCases

----------------------------------------------------------------------------
(* Every step of the wallet is a step of its ledger.                       *)

LEMMA StaysIfSame ==
    ASSUME NEW h, Rec(h)' = Rec(h)
    PROVE  Stays(h)
    BY DEF Stays, Becomes

LEMMA WriteIsNotSent ==
    ASSUME WalletInv, TruthInv, [Next]_walletVars, ~UNCHANGED journalVars
    PROVE  UNCHANGED networkVars
    BY NetworkCases DEF TruthInv, Sends, Deliver, Mine, Drop, Finalize, Reorg

LEMMA QuietLedger ==
    ASSUME WalletInv, TruthInv, [Next]_walletVars, UNCHANGED journalVars
    PROVE  [Ledger!Next]_(Ledger!ledgerVars)
<1>1. Known' = Known /\ \A h \in Known : Stays(h)
    BY StaysIfSame DEF journalVars, Known, Rec
<1>2. CASE DOMAIN sent' = DOMAIN sent
    BY <1>1, <1>2, LedgerSame
<1>3. CASE Sends
    <2>1. op.hash \in Hash /\ op.hash \in Known /\ DOMAIN sent' = DOMAIN sent \cup {op.hash}
        BY <1>3 DEF Sends, Put
    <2>2. \E h \in Hash : Ledger!Broadcast(h)
        BY <1>1, <2>1, IsBroadcast
    <2> QED
        BY <2>2 DEF Ledger!Next
<1> QED
    BY <1>2, <1>3, NetworkCases
       DEF TruthInv, networkVars, Deliver, Mine, Drop, Finalize, Reorg

LEMMA AppendLedger ==
    ASSUME WalletInv, LedgerInv, NEW outcome \in WriteOutcome, SendAppend(outcome)
    PROVE  [Ledger!Next]_(Ledger!ledgerVars)
<1> DEFINE r == Appended(op.quote, quotes[op.quote].nonce)
<1>1. PICK x : x = signed + 1
    OBVIOUS
<1>2. /\ journal' = IF outcome = "ok" THEN Put(journal, x, r) ELSE journal
      /\ archived' = archived /\ sent' = sent /\ x \in Hash /\ op.step = "ready"
    BY <1>1 DEF SendAppend, AppendAtomic, atomicSave, Appended, networkVars
<1>3. /\ r \in Record /\ ~r.final /\ r.quote = op.quote /\ r.nonce \in Nonce /\ op.quote \in Quote
    BY <1>2, OpQuote DEF Appended, Record, States
<1>4. x \notin Known
    BY <1>1 DEF WalletInv, JournalInv, GapInv, JournalTypeOK, Known
<1>5. \A k \in Known : Rec(k).quote # op.quote
    BY <1>2 DEF LedgerInv, OpFreshQuote, FreshQuote
<1> HIDE DEF r
<1>6. CASE outcome = "ok"
    <2>1. Known' = Known \cup {x}
        BY <1>2, <1>6 DEF Known, Put
    <2>2. \A k \in Known : Stays(k)
        BY <1>2, <1>4, <1>6, StaysIfSame DEF Known, Rec, Put
    <2>3. Rec(x)' = r
        BY <1>2, <1>4, <1>6 DEF Known, Rec, Put
    <2>4. Ledger!Commit(x, op.quote, r.nonce)
        BY <1>2, <1>3, <1>4, <1>5, <2>1, <2>2, <2>3, OutcomeIs, IsCommit
    <2> QED
        BY <1>2, <1>3, <2>4 DEF Ledger!Next
<1>7. CASE outcome # "ok"
    <2>1. Known' = Known /\ \A h \in Known : Stays(h)
        BY <1>2, <1>7, StaysIfSame DEF Known, Rec
    <2> QED
        BY <1>2, <2>1, LedgerSame
<1> QED
    BY <1>6, <1>7

LEMMA UpdateLedger ==
    ASSUME WalletInv, VersionInv, TruthInv, sent' = sent,
           NEW h \in Hash, NEW v \in Nat, NEW s \in States,
           NEW f \in BOOLEAN, NEW outcome \in UpdateOutcome, WalletUpdate(h, v, s, f, outcome)
    PROVE  [Ledger!Next]_(Ledger!ledgerVars)
<1>1. archived' = archived
    BY UpdateSaves
<1>2. CASE journal' = journal
    <2>1. Known' = Known /\ \A k \in Known : Stays(k)
        BY <1>1, <1>2, StaysIfSame DEF Known, Rec
    <2> QED
        BY <2>1, LedgerSame
<1>3. ASSUME h \in DOMAIN journal, ~journal[h].final, NEW r \in Record,
             r.quote = journal[h].quote, r.nonce = journal[h].nonce,
             r.state = s, r.final = f, journal' = Put(journal, h, r)
      PROVE  [Ledger!Next]_(Ledger!ledgerVars)
    <2>1. h \in Known /\ Rec(h) = journal[h] /\ Known' = Known /\ Rec(h)' = r
        BY <1>1, <1>3 DEF WalletInv, JournalInv, OnceInMemory, Known, Rec, Put
    <2>2. \A k \in Known \ {h} : Stays(k)
        BY <1>1, <1>3, StaysIfSame DEF Known, Rec, Put
    <2>3. Rec(h) \in Record
        BY <2>1, KnownRecord
    <2>4. CASE f
        <3>1. refresh.step = "observed" /\ refresh.final /\ h = refresh.hash
              /\ s = ObservedState
            BY <2>4 DEF WalletUpdate, ObservedState
        <3>2. chain[h] = "final" /\ refresh.state = Receipt(h)
            BY <3>1 DEF TruthInv, ObservedTruth
        <3>3. s \in MinedStates
            BY <3>1, <3>2 DEF ObservedState, Receipt, MinedStates
        <3>4. Becomes(h, "paid")
            BY <1>3, <2>1, <2>4, <3>3, OutcomeIs DEF Becomes
        <3>5. Ledger!Pay(h)
            BY <1>3, <2>1, <2>2, <3>2, <3>4, IsPay
        <3> QED
            BY <3>5 DEF Ledger!Next
    <2>5. CASE ~f
        <3>1. Stays(h)
            BY <1>3, <2>1, <2>3, <2>5, OutcomeIs DEF Stays, Becomes
        <3> QED
            BY <2>1, <2>2, <3>1, LedgerSame
    <2> QED
        BY <2>4, <2>5
<1> QED
    BY <1>2, <1>3, UpdateSaves

\* What is archived was final, or is void as its nonce was paid for.
LEMMA NonceIsPaid ==
    ASSUME WalletInv, NEW h \in ArchiveSet, ~journal[h].final
    PROVE  \E k \in Known : Outcome(Rec(k)) = "paid" /\ Rec(k).nonce = journal[h].nonce
<1>1. PICK k \in NonceRecords(journal[h].nonce) : Rec(k).final /\ Rec(k).state \in MinedStates
    BY DEF ArchiveSet, FinalizedNonce
<1>2. k \in Known /\ Rec(k).nonce = journal[h].nonce
    BY DEF NonceRecords
<1> QED
    BY <1>1, <1>2, KnownRecord, OutcomeIs

\* The records of S, open so far and to be archived, turn final.
LEMMA VoidLedger ==
    ASSUME WalletInv, TruthInv, DOMAIN sent' = DOMAIN sent, Known' = Known,
           NEW S \in SUBSET ArchiveSet, \A h \in S : ~journal[h].final,
           \A h \in S : Becomes(h, "void"),
           \A h \in Known \ S : Stays(h)
    PROVE  [Ledger!Next]_(Ledger!ledgerVars)
<1>1. CASE S = {}
    BY <1>1, LedgerSame
<1>2. CASE S # {}
    <2>1. \A h \in S : h \in Known /\ Rec(h) = journal[h] /\ Outcome(Rec(h)) = "open"
        <3> SUFFICES ASSUME NEW h \in S
                     PROVE  h \in Known /\ Rec(h) = journal[h] /\ Outcome(Rec(h)) = "open"
            OBVIOUS
        <3>1. h \in Known /\ Rec(h) = journal[h]
            BY DEF ArchiveSet, WalletInv, JournalInv, OnceInMemory, Known, Rec
        <3> QED
            BY <3>1, KnownRecord, OutcomeIs
    <2>2. \A h \in S : \E k \in Known : Outcome(Rec(k)) = "paid" /\ Rec(k).nonce = Rec(h).nonce
        BY <2>1, NonceIsPaid
    <2>3. S \in SUBSET Known
        BY <2>1
    <2>4. Ledger!Void(S)
        BY <1>2, <2>1, <2>2, <2>3, IsVoid
    <2> QED
        BY <2>3, <2>4 DEF Ledger!Next
<1> QED
    BY <1>1, <1>2

LEMMA ArchiveLedger ==
    ASSUME WalletInv, TruthInv, sent' = sent, CallerArchive
    PROVE  [Ledger!Next]_(Ledger!ledgerVars)
<1>1. PICK fileOutcome \in WriteOutcome, outcome \in WriteOutcome :
          ArchiveFinalized(fileOutcome, outcome)
    BY DEF CallerArchive
<1>2. CASE outcome # "ok"
    <2>1. UNCHANGED <<journal, archived>>
        BY <1>1, <1>2 DEF ArchiveFinalized, atomicSave
    <2>2. Known' = Known /\ \A h \in Known : Stays(h)
        BY <2>1, StaysIfSame DEF Known, Rec
    <2> QED
        BY <2>2, LedgerSame
<1>3. CASE outcome = "ok"
    <2> DEFINE moved == [k \in DOMAIN archived \cup ArchiveSet |->
                            IF k \in ArchiveSet THEN ArchiveRecord(journal[k]) ELSE archived[k]]
    <2>1. /\ journal' = Only(journal, DOMAIN journal \ ArchiveSet)
          /\ archived' = moved
        BY <1>1, <1>3 DEF ArchiveFinalized, atomicSave
    <2>2. ArchiveSet \subseteq DOMAIN journal /\ DOMAIN journal \cap DOMAIN archived = {}
        BY DEF ArchiveSet, WalletInv, JournalInv, OnceInMemory
    <2>3. /\ Known' = Known
          /\ \A h \in Known \ ArchiveSet : Rec(h)' = Rec(h)
          /\ \A h \in ArchiveSet : Rec(h)' = ArchiveRecord(journal[h]) /\ Rec(h) = journal[h]
        BY <2>1, <2>2 DEF Known, Rec, Only
    <2> DEFINE S == {h \in ArchiveSet : ~journal[h].final}
    <2>4. ASSUME NEW h \in Known \ S PROVE Stays(h)
        <3>1. Rec(h)' = Rec(h)
            BY <2>3 DEF ArchiveRecord
        <3> QED
            BY <3>1, StaysIfSame
    <2>5. ASSUME NEW h \in S PROVE Becomes(h, "void")
        <3>1. journal[h] \in Record
            BY <2>2 DEF WalletInv, JournalInv, GapInv, JournalTypeOK
        <3> DEFINE r == ArchiveRecord(journal[h])
        <3>2. r \in Record /\ r.final /\ r.state = "replaced"
              /\ r.quote = journal[h].quote /\ r.nonce = journal[h].nonce
            BY <3>1, ArchivedIdentity DEF ArchiveRecord, Record, States
        <3> HIDE DEF r
        <3>3. Outcome(r) = "void"
            BY <3>2, OutcomeIs DEF MinedStates
        <3>4. Rec(h)' = r /\ Rec(h) = journal[h]
            BY <2>3 DEF r
        <3> QED
            BY <3>2, <3>3, <3>4 DEF Becomes
    <2> QED
        BY <2>3, <2>4, <2>5, VoidLedger
<1> QED
    BY <1>2, <1>3

\* What a restart knows of a transaction that was known: what the file says, or
\* what an archive says, which is final.
LEMMA RestartRecords ==
    ASSUME WalletInv, Load, NEW h \in Known
    PROVE  /\ h \in Known' /\ Rec(h)' \in Copies(h)
           /\ h \in DOMAIN disk => Rec(h)' = disk[h]
           /\ h \notin DOMAIN disk => Rec(h)'.final
<1>1. /\ journal' = disk /\ DOMAIN archived' = FileHashes \ DOMAIN disk
      /\ \A k \in DOMAIN archived' :
            \E n \in DOMAIN files : k \in DOMAIN files[n] /\ archived'[k] = files[n][k]
      /\ \A n \in DOMAIN files : \A k \in DOMAIN files[n] : files[n][k].final
    BY DEF Load, LoadArchives, Loadable
<1>2. h \in DOMAIN disk \cup FileHashes
    BY KnownIsStored, NothingUnstored DEF WalletInv, NeverAGap
<1>3. CASE h \in DOMAIN disk
    <2>1. Rec(h)' = disk[h] /\ h \in Known'
        BY <1>1, <1>3 DEF Rec, Known
    <2>2. disk[h] \in Copies(h)
        BY <1>3, CopyIs DEF Holds
    <2> QED
        BY <1>3, <2>1, <2>2
<1>4. CASE h \notin DOMAIN disk
    <2>1. Rec(h)' = archived'[h] /\ h \in DOMAIN archived' /\ h \in Known'
        BY <1>1, <1>2, <1>4 DEF Rec, Known
    <2>2. PICK n \in DOMAIN files : h \in DOMAIN files[n] /\ archived'[h] = files[n][h]
        BY <1>1, <2>1
    <2>3. files[n][h] \in Copies(h) /\ files[n][h].final
        BY <1>1, <2>2, CopyIs DEF Holds
    <2> QED
        BY <1>4, <2>1, <2>2, <2>3
<1> QED
    BY <1>3, <1>4

LEMMA StaysIfFinal ==
    ASSUME WalletInv, TruthInv, NEW h \in Known, NEW r \in Copies(h), Rec(h)' = r,
           r.final = Rec(h).final
    PROVE  Stays(h)
    BY KnownIsCopy, SameEntry DEF Stays, Becomes

LEMMA RestartLedger ==
    ASSUME WalletInv, VersionInv, TruthInv, DiskPart, Load, sent' = sent
    PROVE  [Ledger!Next]_(Ledger!ledgerVars)
<1>1. /\ Known' = DOMAIN disk \cup FileHashes /\ FileHashes \subseteq Known
      /\ Known \subseteq Known'
    <2>1. FileHashes \subseteq Known
        BY KnownIsStored DEF WalletInv, JournalInv, GapInv, Acknowledged
    <2>2. Known \subseteq Known'
        BY RestartRecords
    <2> QED
        BY <2>1, <2>2 DEF Load, LoadArchives, Known
<1>2. /\ \A h \in DOMAIN journal : h \in Known /\ Rec(h) = journal[h]
      /\ \A h \in Known \ DOMAIN journal : h \in DOMAIN archived /\ Rec(h).final
    BY DEF WalletInv, JournalInv, OnceInMemory, Known, Rec, VersionInv, FinalPart
<1>3. ASSUME NEW h \in DOMAIN journal \cap DOMAIN disk, disk[h] = journal[h] PROVE Stays(h)
    BY <1>2, <1>3, RestartRecords, StaysIfSame
<1>4. ASSUME NEW h \in Known \ DOMAIN disk, Rec(h).final PROVE Stays(h)
    <2>1. PICK r \in Copies(h) : r = Rec(h)'
        BY RestartRecords
    <2>2. r.final = Rec(h).final
        <3>1. r \in Record /\ Rec(h) \in Record
            BY CopyType, KnownRecord DEF WalletInv, JournalInv, GapInv
        <3>2. r.final
            BY <2>1, RestartRecords
        <3> QED
            BY <1>4, <3>1, <3>2 DEF Record
    <2> QED
        BY <2>1, <2>2, StaysIfFinal
<1>5. CASE disk = journal
    <2>1. Known' = Known /\ \A h \in Known : Stays(h)
        BY <1>1, <1>2, <1>3, <1>4, <1>5
    <2> QED
        BY <2>1, LedgerSame
<1>6. CASE Shortened
    <2> DEFINE S == {h \in ArchiveSet : ~journal[h].final}
    <2>1. /\ DOMAIN disk = DOMAIN journal \ ArchiveSet
          /\ \A h \in DOMAIN disk : disk[h] = journal[h]
          /\ ArchiveSet \subseteq DOMAIN journal
        BY <1>6 DEF Shortened, Only, ArchiveSet
    <2>2. Known' = Known
        BY <1>1, <1>2, <2>1
    <2>3. \A h \in Known \ S : Stays(h)
        BY <1>2, <1>3, <1>4, <2>1
    <2>4. ASSUME NEW h \in S PROVE Becomes(h, "void")
        <3>1. h \in Known /\ h \notin DOMAIN disk /\ Rec(h) = journal[h] /\ h \in Hash
            BY <1>2, <2>1, KnownRecord
        <3>2. PICK r \in Copies(h) : r = Rec(h)'
            BY <3>1, RestartRecords
        <3>3. r.final /\ r \in Record
            BY <3>1, <3>2, RestartRecords, CopyType DEF WalletInv, JournalInv, GapInv
        <3>4. r.quote = Rec(h).quote /\ r.nonce = Rec(h).nonce
            BY <3>1, KnownIsCopy, SameIdentity DEF TruthInv
        <3>5. Beaten(h, r.nonce)
            BY <3>1, <3>4, ReplacedIsBeaten
        <3>6. r.state \notin MinedStates
            BY <3>1, <3>3, <3>5, FinalNotBeaten DEF TruthInv, TruthPart, IsTrue
        <3> QED
            BY <3>2, <3>3, <3>4, <3>6, OutcomeIs DEF Becomes
    <2> QED
        BY <2>2, <2>3, <2>4, VoidLedger
<1>7. ASSUME NEW h \in Hash, UpdatedAt(h) PROVE [Ledger!Next]_(Ledger!ledgerVars)
    <2>1. /\ h \in DOMAIN journal /\ h \in DOMAIN disk /\ DOMAIN disk = DOMAIN journal
          /\ \A k \in DOMAIN journal \ {h} : disk[k] = journal[k]
          /\ ~journal[h].final
        BY <1>7 DEF UpdatedAt, Put
    <2>2. Known' = Known /\ h \in Known /\ Rec(h) = journal[h] /\ Rec(h)' = disk[h]
        BY <1>1, <1>2, <2>1, RestartRecords
    <2>3. \A k \in Known \ {h} : Stays(k)
        BY <1>2, <1>3, <1>4, <2>1
    <2>4. disk[h] \in Copies(h) /\ disk[h] \in Record
        BY <2>1, CopyIs, CopyType DEF Holds, WalletInv, JournalInv, GapInv
    <2>5. CASE disk[h].final
        <3>1. disk[h].state \in MinedStates
            BY <2>1, <2>5 DEF VersionInv, FinalPart
        <3>2. chain[h] = "final"
            BY <2>4, <2>5, <3>1 DEF TruthInv, TruthPart, IsTrue
        <3>3. Becomes(h, "paid")
            BY <2>2, <2>4, <2>5, <3>1, KnownIsCopy, SameIdentity, OutcomeIs DEF Becomes, TruthInv
        <3>4. Ledger!Pay(h)
            BY <2>1, <2>2, <2>3, <3>2, <3>3, IsPay
        <3> QED
            BY <3>4 DEF Ledger!Next
    <2>6. CASE ~disk[h].final
        <3>1. disk[h].final = Rec(h).final
            BY <2>1, <2>2, <2>4, <2>6, KnownRecord DEF Record
        <3>2. Stays(h)
            BY <2>2, <2>4, <3>1, StaysIfFinal
        <3> QED
            BY <2>2, <2>3, <3>2, LedgerSame
    <2> QED
        BY <2>5, <2>6
<1>8. ASSUME NEW h \in Hash, AppendedAt(h) PROVE [Ledger!Next]_(Ledger!ledgerVars)
    <2>1. /\ h \in DOMAIN disk /\ h \notin Known /\ DOMAIN disk = DOMAIN journal \cup {h}
          /\ \A k \in DOMAIN journal : disk[k] = journal[k]
          /\ ~disk[h].final /\ \A k \in Known : Rec(k).quote # disk[h].quote
        BY <1>2, <1>8 DEF AppendedAt, FreshQuote, Put
    <2>2. Known' = Known \cup {h}
        BY <1>1, <1>2, <2>1
    <2>3. \A k \in Known : Stays(k)
        BY <1>2, <1>3, <1>4, <2>1
    <2>4. disk[h] \in Record
        BY <2>1 DEF WalletInv, JournalInv, GapInv, JournalTypeOK
    <2>5. Rec(h)' = disk[h]
        BY <2>1 DEF Load, LoadArchives, Rec
    <2>6. disk[h].quote \in Quote /\ disk[h].nonce \in Nonce /\ Outcome(disk[h]) = "open"
        BY <2>1, <2>4, OutcomeIs DEF Record
    <2>7. Ledger!Commit(h, disk[h].quote, disk[h].nonce)
        BY <2>1, <2>2, <2>3, <2>5, <2>6, IsCommit
    <2> QED
        BY <2>6, <2>7 DEF Ledger!Next
<1> QED
    BY <1>5, <1>6, <1>7, <1>8 DEF DiskPart

LEMMA LedgerStep ==
    ASSUME WalletInv, VersionInv, TruthInv, LedgerInv, [Next]_walletVars
    PROVE  [Ledger!Next]_(Ledger!ledgerVars)
<1>1. CASE UNCHANGED journalVars
    BY <1>1, QuietLedger
<1>2. CASE ~UNCHANGED journalVars
    <2>1. sent' = sent
        BY <1>2, WriteIsNotSent DEF networkVars
    <2>2. CASE Restart
        BY <2>1, <2>2, RestartLedger DEF Restart, LedgerInv
    <2>3. CASE CallerArchive
        BY <2>1, <2>3, ArchiveLedger
    <2>4. CASE \E outcome \in WriteOutcome : SendAppend(outcome)
        BY <2>4, AppendLedger
    <2>5. ASSUME NEW h \in Hash, NEW v \in Nat, NEW s \in States, NEW f \in BOOLEAN,
                 NEW outcome \in UpdateOutcome, WalletUpdate(h, v, s, f, outcome)
          PROVE  [Ledger!Next]_(Ledger!ledgerVars)
        BY <2>1, <2>5, UpdateLedger
    <2> QED
        BY <1>2, <2>2, <2>3, <2>4, <2>5, JournalCases
<1> QED
    BY <1>1, <1>2

LEMMA InitLedger == Init => LedgerInv /\ Ledger!Init
<1> SUFFICES ASSUME Init PROVE LedgerInv /\ Ledger!Init
    OBVIOUS
<1>1. LedgerInv
    BY DEF Init, JournalInit, Idle, LedgerInv, OpFreshQuote, DiskPart
<1>2. Known = {} /\ DOMAIN sent = {}
    BY DEF Init, JournalInit, NoRecords, Known
<1> QED
    BY <1>1, <1>2 DEF Ledger!Init

\* Through crashes, failed writes, archiving, reorganizations and late answers, in
\* every order, the journal in memory is a ledger: a quote gets one transaction,
\* only a transaction on record is broadcast, no entry is lost or reopened, and a
\* nonce is paid for once.
THEOREM WalletIsALedger == Spec => ImplementsLedger
<1>1. WalletInv /\ VersionInv /\ TruthInv /\ LedgerInv /\ [Next]_walletVars => LedgerInv'
    BY OpFreshQuoteKept, DiskKept DEF LedgerInv
<1>2. WalletInv /\ VersionInv /\ TruthInv /\ LedgerInv /\ [Next]_walletVars
        => [Ledger!Next]_(Ledger!ledgerVars)
    BY LedgerStep
<1> QED
    BY <1>1, <1>2, InitLedger, TruthInvariant, PTL DEF Spec, ImplementsLedger, Ledger!Spec

=============================================================================
