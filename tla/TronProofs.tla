----------------------------- MODULE TronProofs -----------------------------
(***************************************************************************)
(* Proofs about module TronWallet, for any number of quotes and records,   *)
(* any expirations, forks, restarts and failed writes: what was broadcast  *)
(* is on disk, what the wallet says is over is over and ended as it says,  *)
(* one transaction at most can still pay, and a final record stays.        *)
(***************************************************************************)
EXTENDS MCTronWallet, SequenceTheorems, TLAPS

----------------------------------------------------------------------------
(* The invariant.  A list of records, be it s.records, transactions.json   *)
(* or the copy History works on, is sound in the world of the chain and    *)
(* the signed expirations.                                                 *)

World == [expires |-> expires, block |-> block, solid |-> solid, failed |-> failed]

\* A record is of a signed transaction; if it says that it is over, it is.  The expiry
\* of no other record was checked.
Tells(r, w) ==
    /\ w.expires[r.quote] # 0
    /\ r.checked # 0 => r.state = "expired_unconfirmed"
    /\ r.state = "expired_unconfirmed" =>
          w.block[r.quote] = 0 /\ w.expires[r.quote] <= w.solid
    /\ r.final =>
          /\ w.block[r.quote] # 0
          /\ w.block[r.quote] <= w.solid
          /\ r.state = IF r.quote \in w.failed THEN "execution_failed" ELSE "finalized"

\* What pending counts.
Open(r) == ~r.final /\ r.state # "expired_unconfirmed"

Sound(s, w, broadcast) ==
    /\ s \in Seq(Record)
    /\ \A i \in DOMAIN s : Tells(s[i], w)
    /\ \A i, j \in DOMAIN s : Open(s[i]) /\ Open(s[j]) => i = j
    /\ \A q \in broadcast : InRecords(s, q)

ChainPart ==
    /\ clock \in Nat
    /\ solid \in Nat
    /\ solid <= clock
    /\ block \in [Quote -> Nat]
    /\ expires \in [Quote -> Nat]
    /\ failed \subseteq Quote
    /\ sent \subseteq Quote
    /\ \A q \in Quote : block[q] # 0 => block[q] <= expires[q]

\* The final records of a list are, in this place, records of the other one.
FinalIn(s, t) == \A i \in DOMAIN s : s[i].final => i \in DOMAIN t /\ s[i].quote = t[i].quote

WalletPart ==
    /\ fault \in BOOLEAN
    /\ ~fault => disk = records
    /\ quotes \subseteq {q \in Quote : expires[q] # 0}
    /\ Sound(records, World, sent)
    /\ Sound(disk, World, sent)
    /\ FinalIn(disk, records)

OpSet == [step : {"idle", "signing", "broadcasting", "answered", "refreshing", "headed"},
          quote : Nat, at : Nat, next : Seq(Record), head : Nat, accepted : BOOLEAN]

Refreshes == op.step \in {"refreshing", "headed"}

\* History's copy has, in each place, a record of the same transaction, and knows of
\* every place it passed whether the file has it as final.
CopyPart ==
    /\ Sound(op.next, World, sent)
    /\ DOMAIN op.next = DOMAIN records
    /\ \A i \in DOMAIN records : op.next[i].quote = records[i].quote
    /\ \A i \in DOMAIN disk : disk[i].final /\ i < op.at => op.next[i].final

OpPart ==
    /\ op \in OpSet
    /\ op.step = "signing" =>
          ~fault /\ ~pending /\ op.quote \in Quote /\ expires[op.quote] # 0
    /\ op.step \in {"broadcasting", "answered"} =>
          ~fault /\ op.at \in DOMAIN records /\ Open(records[op.at])
    /\ Refreshes => op.at # 0 /\ op.head <= solid /\ CopyPart
    /\ op.step = "headed" => op.at \in DOMAIN op.next /\ ~op.next[op.at].final

TronInv == ChainPart /\ WalletPart /\ OpPart

----------------------------------------------------------------------------
(* Lists of records. *)

LEMMA Replaced ==
    ASSUME NEW S, NEW s \in Seq(S), NEW i \in DOMAIN s, NEW r \in S
    PROVE  /\ [s EXCEPT ![i] = r] \in Seq(S)
           /\ DOMAIN [s EXCEPT ![i] = r] = DOMAIN s
           /\ [s EXCEPT ![i] = r][i] = r
           /\ \A j \in DOMAIN s : j # i => [s EXCEPT ![i] = r][j] = s[j]
<1>1. i \in 1..Len(s)
    BY LenProperties
<1> QED
    BY <1>1, ExceptSeq

LEMMA Appended ==
    ASSUME NEW S, NEW s \in Seq(S), NEW r \in S
    PROVE  /\ Append(s, r) \in Seq(S)
           /\ DOMAIN Append(s, r) = DOMAIN s \cup {Len(s) + 1}
           /\ Len(s) + 1 \notin DOMAIN s
           /\ Append(s, r)[Len(s) + 1] = r
           /\ \A j \in DOMAIN s : Append(s, r)[j] = s[j]
<1>1. /\ Append(s, r) \in Seq(S)
      /\ Len(Append(s, r)) = Len(s) + 1
      /\ \A j \in 1..Len(s) : Append(s, r)[j] = s[j]
      /\ Append(s, r)[Len(s) + 1] = r
    BY AppendProperties
<1>2. DOMAIN s = 1..Len(s) /\ Len(s) \in Nat /\ DOMAIN Append(s, r) = 1..(Len(s) + 1)
    BY <1>1, LenProperties
<1>3. DOMAIN Append(s, r) = DOMAIN s \cup {Len(s) + 1} /\ Len(s) + 1 \notin DOMAIN s
    BY <1>2
<1> QED
    BY <1>1, <1>2, <1>3

\* How the world may change: expirations stay, and so does what is on a solid block
\* and what can no longer get on one.
Moves(w, v) ==
    /\ w.solid \in Nat /\ v.solid \in Nat /\ w.solid <= v.solid
    /\ w.expires \in [Quote -> Nat] /\ v.expires \in [Quote -> Nat]
    /\ w.block \in [Quote -> Nat] /\ v.block \in [Quote -> Nat]
    /\ \A q \in Quote : w.expires[q] # 0 =>
          /\ v.expires[q] = w.expires[q]
          /\ w.block[q] # 0 /\ w.block[q] <= w.solid =>
                v.block[q] = w.block[q] /\ (q \in v.failed <=> q \in w.failed)
          /\ w.block[q] = 0 /\ w.expires[q] <= w.solid => v.block[q] = 0

LEMMA TellsStill ==
    ASSUME NEW w, NEW v, Moves(w, v), NEW r \in Record, Tells(r, w)
    PROVE  Tells(r, v)
<1>1. r.quote \in Quote /\ w.expires[r.quote] # 0
    BY DEF Record, Tells
<1>2. v.expires[r.quote] = w.expires[r.quote] /\ w.solid <= v.solid
    BY <1>1 DEF Moves
<1>3. r.state = "expired_unconfirmed" => v.block[r.quote] = 0 /\ v.expires[r.quote] <= v.solid
    BY <1>1, <1>2 DEF Moves, Tells
<1>4. ASSUME r.final
      PROVE  /\ v.block[r.quote] = w.block[r.quote]
             /\ r.quote \in v.failed <=> r.quote \in w.failed
    BY <1>1, <1>4 DEF Moves, Tells
<1>5. r.final => v.block[r.quote] # 0 /\ v.block[r.quote] <= v.solid
    BY <1>1, <1>2, <1>4 DEF Moves, Tells
<1>6. r.final => r.state = IF r.quote \in v.failed THEN "execution_failed" ELSE "finalized"
    BY <1>4 DEF Tells
<1>7. r.checked # 0 => r.state = "expired_unconfirmed"
    BY DEF Tells
<1> QED
    BY <1>1, <1>2, <1>3, <1>5, <1>6, <1>7 DEF Tells

LEMMA SoundStill ==
    ASSUME NEW w, NEW v, Moves(w, v), NEW s, NEW qs, Sound(s, w, qs)
    PROVE  Sound(s, v, qs)
<1>1. \A i \in DOMAIN s : s[i] \in Record
    BY ElementOfSeq, LenProperties DEF Sound
<1>2. \A i \in DOMAIN s : Tells(s[i], v)
    BY <1>1, TellsStill DEF Sound
<1> QED
    BY <1>2 DEF Sound

LEMMA SoundAppend ==
    ASSUME NEW w, NEW s, NEW qs, Sound(s, w, qs), \A i \in DOMAIN s : ~Open(s[i]),
           NEW r \in Record, Tells(r, w)
    PROVE  Sound(Append(s, r), w, qs)
<1> DEFINE t == Append(s, r)
<1>1. /\ t \in Seq(Record)
      /\ DOMAIN t = DOMAIN s \cup {Len(s) + 1}
      /\ t[Len(s) + 1] = r
      /\ \A j \in DOMAIN s : t[j] = s[j]
    BY Appended DEF Sound
<1> HIDE DEF t
<1>2. \A i \in DOMAIN t : Tells(t[i], w)
    BY <1>1 DEF Sound
<1>3. \A i, j \in DOMAIN t : Open(t[i]) /\ Open(t[j]) => i = j
    BY <1>1
<1>4. \A q \in qs : InRecords(t, q)
    BY <1>1 DEF Sound, InRecords
<1>5. Sound(t, w, qs)
    BY <1>1, <1>2, <1>3, <1>4 DEF Sound
<1> QED
    BY <1>5 DEF t

LEMMA SoundReplace ==
    ASSUME NEW w, NEW s, NEW qs, Sound(s, w, qs), NEW i \in DOMAIN s,
           NEW r \in Record, Tells(r, w), r.quote = s[i].quote, Open(r) => Open(s[i])
    PROVE  Sound([s EXCEPT ![i] = r], w, qs)
<1> DEFINE t == [s EXCEPT ![i] = r]
<1>1. /\ t \in Seq(Record)
      /\ DOMAIN t = DOMAIN s
      /\ t[i] = r
      /\ \A j \in DOMAIN s : j # i => t[j] = s[j]
    BY Replaced DEF Sound
<1> HIDE DEF t
<1>2. \A j \in DOMAIN t : Tells(t[j], w)
    BY <1>1 DEF Sound
<1>3. \A j \in DOMAIN t : Open(t[j]) => Open(s[j])
    BY <1>1
<1>4. \A j, k \in DOMAIN t : Open(t[j]) /\ Open(t[k]) => j = k
    BY <1>1, <1>3 DEF Sound
<1>5. \A j \in DOMAIN t : t[j].quote = s[j].quote
    BY <1>1
<1>6. \A q \in qs : InRecords(t, q)
    BY <1>1, <1>5 DEF Sound, InRecords
<1>7. Sound(t, w, qs)
    BY <1>1, <1>2, <1>4, <1>6 DEF Sound
<1> QED
    BY <1>7 DEF t

----------------------------------------------------------------------------
(* The beginning, and the steps of the chain. *)

LEMMA InitTronInv == Init => TronInv
<1> SUFFICES ASSUME Init PROVE TronInv
    OBVIOUS
<1>1. ChainPart
    BY DEF Init, ChainPart
<1>2. <<>> \in Seq(Record) /\ DOMAIN <<>> = {}
    BY EmptySeq
<1>3. Sound(<<>>, World, {})
    BY <1>2 DEF Sound
<1>4. WalletPart
    BY <1>2, <1>3 DEF Init, WalletPart, FinalIn
<1>5. Idle \in OpSet
    BY <1>2 DEF Idle, OpSet
<1>6. OpPart
    BY <1>5 DEF Init, OpPart, Idle, Refreshes
<1> QED
    BY <1>1, <1>4, <1>6 DEF TronInv

\* What the steps of the chain, and a quote, leave alone stays true.
LEMMA WalletStill ==
    ASSUME TronInv, Moves(World, World'), UNCHANGED <<records, disk, fault, op, sent>>,
           quotes' \subseteq {q \in Quote : expires'[q] # 0}
    PROVE  WalletPart' /\ OpPart'
<1>1. /\ Sound(records, World, sent) => Sound(records, World', sent)
      /\ Sound(disk, World, sent) => Sound(disk, World', sent)
      /\ Sound(op.next, World, sent) => Sound(op.next, World', sent)
    BY SoundStill
<1>2. WalletPart'
    BY <1>1 DEF TronInv, WalletPart, FinalIn
<1>3. Refreshes => CopyPart'
    BY <1>1 DEF TronInv, OpPart, CopyPart
<1>4. solid' \in Nat /\ solid <= solid' /\ solid \in Nat
    BY DEF Moves, World
<1>5. \A q \in Quote : expires[q] # 0 => expires'[q] # 0
    BY DEF Moves, World
<1>6. pending' = pending
    BY DEF pending
<1>7. op.head \in Nat
    BY DEF TronInv, OpPart, OpSet
<1>8. OpPart'
    BY <1>3, <1>4, <1>5, <1>6, <1>7 DEF TronInv, OpPart, Refreshes
<1> QED
    BY <1>2, <1>8

LEMMA ProduceStep == ASSUME TronInv, Produce PROVE TronInv'
<1>1. /\ clock' = clock + 1
      /\ UNCHANGED <<walletVars, op, solid, sent, spent>>
      /\ clock \in Nat /\ solid \in Nat /\ solid <= clock
    BY DEF Produce, TronInv, ChainPart
<1>2. CASE UNCHANGED <<block, failed>>
    <2>1. ChainPart' /\ Moves(World, World')
        BY <1>1, <1>2 DEF TronInv, ChainPart, Moves, World, walletVars
    <2> QED
        BY <1>1, <2>1, WalletStill DEF TronInv, WalletPart, walletVars
<1>3. CASE \E q \in sent :
            /\ block[q] = 0
            /\ clock < expires[q]
            /\ block' = [block EXCEPT ![q] = clock + 1]
            /\ failed' \in {failed, failed \cup {q}}
    <2> PICK q \in sent :
            /\ block[q] = 0
            /\ clock < expires[q]
            /\ block' = [block EXCEPT ![q] = clock + 1]
            /\ failed' \in {failed, failed \cup {q}}
        BY <1>3
    <2>1. q \in Quote /\ expires[q] \in Nat
        BY DEF TronInv, ChainPart
    <2>2. ChainPart'
        BY <1>1, <2>1 DEF TronInv, ChainPart, walletVars
    <2>3. Moves(World, World')
        BY <1>1, <2>1, <2>2 DEF TronInv, ChainPart, Moves, World, walletVars
    <2> QED
        BY <1>1, <2>2, <2>3, WalletStill DEF TronInv, WalletPart, walletVars
<1> QED
    BY <1>2, <1>3 DEF Produce

LEMMA SolidifyStep == ASSUME TronInv, Solidify PROVE TronInv'
<1>1. ChainPart'
    BY DEF Solidify, TronInv, ChainPart, walletVars
<1>2. Moves(World, World')
    BY <1>1 DEF Solidify, TronInv, ChainPart, Moves, World, walletVars
<1> QED
    BY <1>1, <1>2, WalletStill DEF Solidify, TronInv, WalletPart, walletVars

LEMMA ForkStep == ASSUME TronInv, Fork PROVE TronInv'
<1>1. ChainPart'
    BY DEF Fork, TronInv, ChainPart, walletVars
<1>2. Moves(World, World')
    BY <1>1 DEF Fork, TronInv, ChainPart, Moves, World, walletVars
<1> QED
    BY <1>1, <1>2, WalletStill DEF Fork, TronInv, WalletPart, walletVars

LEMMA QuoteStep ==
    ASSUME TronInv, NEW q \in Quote, NEW e \in (clock + 1)..(clock + Window),
           QuoteTransfer(q, e)
    PROVE  TronInv'
<1>1. e \in Nat /\ e # 0
    BY TronAssumption DEF TronInv, ChainPart
<1>2. expires' = [expires EXCEPT ![q] = e] /\ expires[q] = 0 /\ quotes' = quotes \cup {q}
    BY DEF QuoteTransfer
<1>3. UNCHANGED <<records, disk, fault, op, chainVars, sent, spent>>
    BY DEF QuoteTransfer
<1>4. ChainPart'
    BY <1>1, <1>2, <1>3 DEF TronInv, ChainPart, chainVars
<1>5. Moves(World, World')
    BY <1>1, <1>2, <1>3, <1>4 DEF TronInv, ChainPart, Moves, World, chainVars
<1>6. quotes' \subseteq {p \in Quote : expires'[p] # 0}
    BY <1>1, <1>2 DEF TronInv, WalletPart, ChainPart
<1> QED
    BY <1>3, <1>4, <1>5, <1>6, WalletStill DEF TronInv

----------------------------------------------------------------------------
(* The steps of an operation.  They leave the world as it is; a save puts  *)
(* a sound list in the place of the file, of memory, or of both.           *)

\* A list that may be saved: sound, and with every final record of the file.
Savable(next) ==
    /\ Sound(next, World, sent)
    /\ \A i \in DOMAIN disk : disk[i].final => i \in DOMAIN next /\ next[i] = disk[i]
    /\ FinalIn(next, records)

LEMMA SaveStep ==
    ASSUME TronInv, NEW next, NEW outcome \in WriteOutcome, Savable(next),
           save(next, outcome), UNCHANGED <<expires, chainVars, sent>>,
           quotes' \subseteq quotes
    PROVE  /\ ChainPart'
           /\ WalletPart'
           /\ outcome = "ok" => records' = next /\ fault' = fault
           /\ \A i \in DOMAIN disk :
                disk[i].final => i \in DOMAIN disk' /\ disk'[i] = disk[i]
<1>1. ChainPart' /\ World' = World
    BY DEF TronInv, ChainPart, World, chainVars
<1>2. \/ outcome = "ok" /\ records' = next /\ disk' = next /\ fault' = fault
      \/ outcome # "ok" /\ records' = records /\ disk' \in {disk, next} /\ fault' = TRUE
    BY DEF save, WriteOutcome, TronInv, WalletPart
<1>3. FinalIn(next, next) /\ FinalIn(next, records) /\ FinalIn(disk, records)
    BY DEF FinalIn, Savable, TronInv, WalletPart
<1>4. /\ Sound(records', World, sent)
      /\ Sound(disk', World, sent)
      /\ FinalIn(disk', records')
      /\ fault' \in BOOLEAN
      /\ ~fault' => disk' = records'
    BY <1>2, <1>3 DEF TronInv, WalletPart, Savable
<1>5. quotes' \subseteq {q \in Quote : expires'[q] # 0}
    BY DEF TronInv, WalletPart
<1>6. WalletPart'
    BY <1>1, <1>4, <1>5 DEF WalletPart, Sound
<1>7. \A i \in DOMAIN disk : disk[i].final => i \in DOMAIN disk' /\ disk'[i] = disk[i]
    BY <1>2 DEF Savable
<1> QED
    BY <1>1, <1>2, <1>6, <1>7

\* A step that touches neither the file nor memory.
LEMMA OpOnly ==
    ASSUME TronInv, UNCHANGED <<walletVars, chainVars, sent>>
    PROVE  /\ ChainPart'
           /\ WalletPart'
           /\ World' = World
           /\ OpPart => (op' = op => OpPart')
           /\ op' = Idle => OpPart'
           /\ pending' = pending
<1>1. ChainPart' /\ World' = World /\ pending' = pending
    BY DEF TronInv, ChainPart, World, chainVars, walletVars, pending
<1>2. WalletPart'
    BY <1>1 DEF TronInv, WalletPart, walletVars, FinalIn, Sound
<1>3. Idle \in OpSet
    BY EmptySeq DEF Idle, OpSet
<1>4. op' = Idle => OpPart'
    BY <1>3 DEF OpPart, Idle, Refreshes
<1>5. OpPart => (op' = op => OpPart')
    BY <1>1 DEF OpPart, Refreshes, CopyPart, Sound, walletVars, chainVars
<1> QED
    BY <1>1, <1>2, <1>4, <1>5

LEMMA SendStartStep ==
    ASSUME TronInv, NEW q \in Quote, SendStart(q)
    PROVE  TronInv'
<1>1. UNCHANGED <<walletVars, chainVars, sent>>
    BY DEF SendStart
<1>2. /\ ~fault /\ ~pending /\ q \in quotes
      /\ op' = [Idle EXCEPT !.step = "signing", !.quote = q]
    BY DEF SendStart
<1>3. op' \in OpSet /\ op'.step = "signing" /\ op'.quote = q
    BY <1>2, EmptySeq, TronAssumption DEF Idle, OpSet
<1>4. expires[q] # 0
    BY <1>2 DEF TronInv, WalletPart
<1>5. OpPart'
    BY <1>1, <1>2, <1>3, <1>4, OpOnly DEF OpPart, Refreshes, walletVars
<1> QED
    BY <1>1, <1>5, OpOnly DEF TronInv

\* The new record may be saved: nothing else is open.
LEMMA NewRecordSavable ==
    ASSUME TronInv, op.step = "signing"
    PROVE  /\ Savable(Append(records, NewRecord))
           /\ Append(records, NewRecord) \in Seq(Record)
           /\ Len(records) + 1 \in DOMAIN Append(records, NewRecord)
           /\ Open(Append(records, NewRecord)[Len(records) + 1])
<1>1. ~fault /\ ~pending /\ op.quote \in Quote /\ expires[op.quote] # 0 /\ disk = records
    BY DEF TronInv, OpPart, WalletPart
<1>2. NewRecord \in Record /\ Tells(NewRecord, World) /\ Open(NewRecord) /\ ~NewRecord.final
    BY <1>1 DEF NewRecord, Record, State, Tells, World, Open
<1>3. Sound(records, World, sent) /\ records \in Seq(Record)
    BY DEF TronInv, WalletPart, Sound
<1>4. \A i \in DOMAIN records : ~Open(records[i])
    BY <1>1 DEF pending, Open
<1>5. Sound(Append(records, NewRecord), World, sent)
    BY <1>2, <1>3, <1>4, SoundAppend
<1> DEFINE t == Append(records, NewRecord)
<1>6. /\ t \in Seq(Record)
      /\ DOMAIN t = DOMAIN records \cup {Len(records) + 1}
      /\ t[Len(records) + 1] = NewRecord
      /\ \A j \in DOMAIN records : t[j] = records[j]
    BY <1>2, <1>3, Appended
<1>7. Sound(t, World, sent)
    BY <1>5
<1> HIDE DEF t
<1>8. Savable(t)
    BY <1>1, <1>2, <1>6, <1>7 DEF Savable, FinalIn
<1> QED
    BY <1>2, <1>6, <1>8 DEF t

LEMMA SendAppendStep ==
    ASSUME TronInv, NEW outcome \in WriteOutcome, SendAppend(outcome)
    PROVE  /\ TronInv'
           /\ \A i \in DOMAIN disk :
                disk[i].final => i \in DOMAIN disk' /\ disk'[i] = disk[i]
<1> DEFINE t == Append(records, NewRecord)
<1>1. /\ op.step = "signing"
      /\ save(t, outcome)
      /\ quotes' \subseteq quotes
      /\ op' = IF outcome = "ok"
               THEN [op EXCEPT !.step = "broadcasting", !.at = Len(records) + 1]
               ELSE Idle
      /\ UNCHANGED <<expires, chainVars, sent>>
    BY DEF SendAppend
<1>2. /\ Savable(t)
      /\ t \in Seq(Record)
      /\ Len(records) + 1 \in DOMAIN t
      /\ Open(t[Len(records) + 1])
    BY <1>1, NewRecordSavable
<1> HIDE DEF t
<1>3. /\ ChainPart'
      /\ WalletPart'
      /\ outcome = "ok" => records' = t /\ fault' = fault
      /\ \A i \in DOMAIN disk : disk[i].final => i \in DOMAIN disk' /\ disk'[i] = disk[i]
    BY <1>1, <1>2, SaveStep
<1>4. Len(records) \in Nat
    BY LenProperties DEF TronInv, WalletPart, Sound
<1>5. OpPart'
    <2>1. CASE outcome = "ok"
        <3> DEFINE n == Len(records) + 1
        <3>1. op' = [op EXCEPT !.step = "broadcasting", !.at = n] /\ n \in Nat
            BY <1>1, <1>4, <2>1
        <3> HIDE DEF n
        <3>2. op' \in OpSet /\ op'.step = "broadcasting" /\ op'.at = n
            BY <3>1 DEF TronInv, OpPart, OpSet
        <3>3. ~fault' /\ op'.at \in DOMAIN records' /\ Open(records'[op'.at])
            BY <1>1, <1>2, <1>3, <2>1, <3>2 DEF TronInv, OpPart, n
        <3> QED
            BY <3>2, <3>3 DEF OpPart, Refreshes, Open
    <2>2. CASE outcome # "ok"
        <3>1. op' = Idle /\ Idle \in OpSet
            BY <1>1, <2>2, EmptySeq DEF Idle, OpSet
        <3> QED
            BY <3>1 DEF OpPart, Refreshes, Idle
    <2> QED
        BY <2>1, <2>2
<1> QED
    BY <1>3, <1>5 DEF TronInv

\* An operation that ends without a save.
LEMMA EndStep ==
    ASSUME TronInv, GiveUp \/ HistoryAbort
    PROVE  TronInv'
<1>1. UNCHANGED <<walletVars, chainVars, sent>> /\ op' = Idle
    BY DEF GiveUp, HistoryAbort
<1> QED
    BY <1>1, OpOnly DEF TronInv

LEMMA RetryStartStep ==
    ASSUME TronInv, NEW i \in DOMAIN records, RetryStart(i)
    PROVE  TronInv'
<1>1. UNCHANGED <<walletVars, chainVars, sent>>
    BY DEF RetryStart
<1>2. /\ ~fault /\ Open(records[i])
      /\ op' = [Idle EXCEPT !.step = "broadcasting", !.at = i]
    BY DEF RetryStart, Open
<1>3. i \in Nat
    BY LenProperties DEF TronInv, WalletPart, Sound
<1>4. op' \in OpSet /\ op'.step = "broadcasting" /\ op'.at = i
    BY <1>2, <1>3, EmptySeq DEF Idle, OpSet
<1>5. OpPart'
    BY <1>1, <1>2, <1>4, OpOnly DEF OpPart, Refreshes, walletVars, Open
<1> QED
    BY <1>1, <1>5, OpOnly DEF TronInv

LEMMA BroadcastStep ==
    ASSUME TronInv, NEW accepted \in BOOLEAN, Broadcast(accepted)
    PROVE  TronInv'
<1>1. /\ op.step = "broadcasting"
      /\ sent' = sent \cup {records[op.at].quote}
      /\ op' = [op EXCEPT !.step = "answered", !.accepted = accepted]
      /\ UNCHANGED <<walletVars, chainVars, spent>>
    BY DEF Broadcast
<1>2. /\ ~fault /\ op.at \in DOMAIN records /\ Open(records[op.at])
      /\ disk = records /\ Sound(records, World, sent)
    BY <1>1 DEF TronInv, OpPart, WalletPart
<1>3. records[op.at] \in Record
    BY <1>2, ElementOfSeq, LenProperties DEF Sound
<1>4. InRecords(records, records[op.at].quote)
    BY <1>2 DEF InRecords
<1>5. Sound(records, World, sent')
    BY <1>1, <1>2, <1>4 DEF Sound
<1>6. World' = World
    BY <1>1 DEF World, walletVars, chainVars
<1>7. ChainPart'
    BY <1>1, <1>3 DEF TronInv, ChainPart, walletVars, chainVars, Record
<1>8. WalletPart'
    BY <1>1, <1>2, <1>5, <1>6 DEF TronInv, WalletPart, FinalIn, walletVars
<1>9. op' \in OpSet /\ op'.step = "answered" /\ op'.at = op.at
    BY <1>1 DEF TronInv, OpPart, OpSet
<1>10. OpPart'
    BY <1>1, <1>2, <1>9 DEF OpPart, Refreshes, walletVars, Open
<1> QED
    BY <1>7, <1>8, <1>10 DEF TronInv

LEMMA RecordAnswerStep ==
    ASSUME TronInv, NEW outcome \in WriteOutcome, RecordAnswer(outcome)
    PROVE  /\ TronInv'
           /\ \A i \in DOMAIN disk :
                disk[i].final => i \in DOMAIN disk' /\ disk'[i] = disk[i]
<1> DEFINE told == IF op.accepted THEN "submitted" ELSE "broadcast_unknown"
           r == [records[op.at] EXCEPT !.state = told]
           t == [records EXCEPT ![op.at] = r]
<1>1. /\ op.step = "answered"
      /\ save([records EXCEPT ![op.at].state = told], outcome)
      /\ op' = Idle
      /\ UNCHANGED <<quotes, expires, chainVars, sent>>
    BY DEF RecordAnswer
<1>2. [records EXCEPT ![op.at].state = told] = t
    OBVIOUS
<1>3. /\ ~fault /\ op.at \in DOMAIN records /\ Open(records[op.at])
      /\ disk = records /\ Sound(records, World, sent)
    BY <1>1 DEF TronInv, OpPart, WalletPart
<1>4. records[op.at] \in Record /\ Tells(records[op.at], World) /\ records \in Seq(Record)
    BY <1>3, ElementOfSeq, LenProperties DEF Sound
<1>5. told \in {"submitted", "broadcast_unknown"}
    OBVIOUS
<1> HIDE DEF told
<1>6. /\ r \in Record /\ r.quote = records[op.at].quote /\ r.state = told
      /\ r.final = records[op.at].final /\ r.checked = records[op.at].checked
    BY <1>4, <1>5 DEF Record, State
<1> HIDE DEF r
<1>7. Tells(r, World) /\ ~r.final
    BY <1>3, <1>4, <1>5, <1>6 DEF Tells, Open
<1>8. Sound(t, World, sent)
    BY <1>3, <1>4, <1>6, <1>7, SoundReplace
<1>9. /\ DOMAIN t = DOMAIN records
      /\ t[op.at] = r
      /\ \A j \in DOMAIN records : j # op.at => t[j] = records[j]
    BY <1>3, <1>4, <1>6, Replaced
<1>10. save(t, outcome)
    BY <1>1, <1>2
<1> HIDE DEF t
<1>11. Savable(t)
    BY <1>3, <1>7, <1>8, <1>9 DEF Savable, FinalIn, Open
<1>12. /\ ChainPart'
       /\ WalletPart'
       /\ \A i \in DOMAIN disk : disk[i].final => i \in DOMAIN disk' /\ disk'[i] = disk[i]
    BY <1>1, <1>10, <1>11, SaveStep
<1>13. OpPart'
    BY <1>1, EmptySeq DEF OpPart, Refreshes, Idle, OpSet
<1> QED
    BY <1>12, <1>13 DEF TronInv

----------------------------------------------------------------------------
(* History. *)

LEMMA HistoryStartStep ==
    ASSUME TronInv, HistoryStart
    PROVE  TronInv'
<1>1. UNCHANGED <<walletVars, chainVars, sent>>
    BY DEF HistoryStart
<1>2. op' = [Idle EXCEPT !.step = "refreshing", !.at = 1, !.next = records]
    BY DEF HistoryStart
<1>3. Sound(records, World, sent) /\ records \in Seq(Record)
    BY DEF TronInv, WalletPart, Sound
<1>4. /\ op' \in OpSet /\ op'.step = "refreshing" /\ op'.at = 1
      /\ op'.next = records /\ op'.head = 0
    BY <1>2, <1>3 DEF Idle, OpSet
<1>5. \A i \in DOMAIN disk : i \in Nat /\ ~(i < 1)
    BY LenProperties DEF TronInv, WalletPart, Sound
<1>6. CopyPart'
    BY <1>1, <1>3, <1>4, <1>5, OpOnly DEF CopyPart, walletVars
<1>7. OpPart'
    BY <1>1, <1>4, <1>6 DEF OpPart, Refreshes, TronInv, ChainPart, chainVars
<1> QED
    BY <1>1, <1>7, OpOnly DEF TronInv

\* A record that is already final is passed over.
LEMMA HistoryFinalStep ==
    ASSUME TronInv, HistoryFinal
    PROVE  TronInv'
<1>1. /\ UNCHANGED <<walletVars, chainVars, sent>>
      /\ op.step = "refreshing" /\ op.at \in DOMAIN op.next /\ op.next[op.at].final
      /\ op' = [op EXCEPT !.at = @ + 1]
    BY DEF HistoryFinal
<1>2. op \in OpSet /\ op.at # 0 /\ op.head <= solid /\ CopyPart
    BY <1>1 DEF TronInv, OpPart, Refreshes
<1>3. /\ op' \in OpSet /\ op'.step = "refreshing" /\ op'.at = op.at + 1
      /\ op'.next = op.next /\ op'.head = op.head /\ op.at \in Nat
    BY <1>1, <1>2 DEF OpSet
<1>4. \A i \in DOMAIN disk : i \in Nat
    BY LenProperties DEF TronInv, WalletPart, Sound
<1>5. \A i \in DOMAIN disk : disk[i].final /\ i < op.at + 1 => op.next[i].final
    BY <1>1, <1>2, <1>3, <1>4 DEF CopyPart
<1>6. CopyPart'
    BY <1>1, <1>2, <1>3, <1>5, OpOnly DEF CopyPart, walletVars
<1>7. OpPart'
    BY <1>1, <1>2, <1>3, <1>6 DEF OpPart, Refreshes, chainVars
<1> QED
    BY <1>1, <1>7, OpOnly DEF TronInv

LEMMA HistoryHeadStep ==
    ASSUME TronInv, HistoryHead
    PROVE  TronInv'
<1>1. /\ UNCHANGED <<walletVars, chainVars, sent>>
      /\ op.step = "refreshing" /\ op.at \in DOMAIN op.next /\ ~op.next[op.at].final
    BY DEF HistoryHead
<1>2. PICK head \in {0, solid} : op' = [op EXCEPT !.step = "headed", !.head = head]
    BY DEF HistoryHead
<1>3. op \in OpSet /\ op.at # 0 /\ CopyPart
    BY <1>1 DEF TronInv, OpPart, Refreshes
<1>4. head \in Nat /\ head <= solid
    BY DEF TronInv, ChainPart
<1>5. /\ op' \in OpSet /\ op'.step = "headed" /\ op'.at = op.at
      /\ op'.next = op.next /\ op'.head = head
    BY <1>2, <1>3, <1>4 DEF OpSet
<1>6. CopyPart'
    BY <1>1, <1>3, <1>5, OpOnly DEF CopyPart, walletVars
<1>7. OpPart'
    BY <1>1, <1>3, <1>4, <1>5, <1>6 DEF OpPart, Refreshes, chainVars
<1> QED
    BY <1>1, <1>7, OpOnly DEF TronInv

\* What History makes of a record is true: the head was read before the receipt, so a
\* transaction past its expiration without a receipt is not on a newer block either.
LEMMA ObservedTells ==
    ASSUME TronInv, op.step = "headed", NEW r \in Record, Tells(r, World), ~r.final
    PROVE  /\ Observed(r) \in Record
           /\ Observed(r).quote = r.quote
           /\ Observed(r).final <=> HasReceipt(r.quote)
           /\ Tells(Observed(r), World)
           /\ Open(Observed(r)) => Open(r)
<1>1. r.quote \in Quote /\ expires[r.quote] # 0 /\ op.head <= solid /\ op.head \in Nat
    BY DEF Record, Tells, World, TronInv, OpPart, Refreshes, OpSet
<1>2. /\ block[r.quote] \in Nat /\ expires[r.quote] \in Nat /\ solid \in Nat
      /\ block[r.quote] # 0 => block[r.quote] <= expires[r.quote]
    BY <1>1 DEF TronInv, ChainPart
<1>3. CASE HasReceipt(r.quote)
    <2> DEFINE state == IF r.quote \in failed THEN "execution_failed" ELSE "finalized"
    <2>1. Observed(r) = [r EXCEPT !.state = state, !.final = TRUE]
        BY <1>3 DEF Observed, Settled
    <2>2. /\ Observed(r) \in Record /\ Observed(r).quote = r.quote
          /\ Observed(r).final = TRUE /\ Observed(r).state = state
          /\ Observed(r).checked = r.checked
        BY <2>1 DEF Record, State
    <2>3. state # "expired_unconfirmed" /\ r.checked = 0
        BY <1>3 DEF Tells, World, HasReceipt
    <2>4. Tells(Observed(r), World)
        BY <1>1, <1>3, <2>2, <2>3 DEF Tells, World, HasReceipt
    <2> QED
        BY <1>3, <2>2, <2>4 DEF Open
<1>4. CASE ~HasReceipt(r.quote) /\ op.head > expires[r.quote]
    <2> DEFINE head == op.head
    <2>1. Observed(r) = [r EXCEPT !.state = "expired_unconfirmed", !.checked = head]
        BY <1>4 DEF Observed, Settled, SolidHead
    <2>2. block[r.quote] = 0 /\ expires[r.quote] <= solid
        BY <1>1, <1>2, <1>4 DEF HasReceipt
    <2>3. head \in Nat
        BY <1>1
    <2> HIDE DEF head
    <2>4. /\ Observed(r) \in Record /\ Observed(r).quote = r.quote
          /\ Observed(r).final = FALSE /\ Observed(r).state = "expired_unconfirmed"
        BY <2>1, <2>3 DEF Record, State
    <2>5. Tells(Observed(r), World)
        BY <1>1, <2>2, <2>4 DEF Tells, World
    <2> QED
        BY <1>4, <2>4, <2>5 DEF Open
<1>5. CASE ~HasReceipt(r.quote) /\ ~(op.head > expires[r.quote])
    <2>1. Observed(r) = r
        BY <1>5 DEF Observed, Settled, SolidHead
    <2>2. r.final = FALSE
        BY DEF Record
    <2> QED
        BY <1>5, <2>1, <2>2
<1> QED
    BY <1>3, <1>4, <1>5

LEMMA HistoryReceiptStep ==
    ASSUME TronInv, HistoryReceipt
    PROVE  TronInv'
<1> DEFINE r == op.next[op.at]
           c == [op.next EXCEPT ![op.at] = Observed(r)]
<1>1. /\ UNCHANGED <<walletVars, chainVars, sent>>
      /\ op.step = "headed"
      /\ op' = [op EXCEPT !.step = "refreshing", !.at = @ + 1, !.next[op.at] = Observed(@)]
    BY DEF HistoryReceipt
<1>2. /\ op \in OpSet /\ op.at # 0 /\ op.head <= solid /\ CopyPart
      /\ op.at \in DOMAIN op.next /\ ~r.final
    BY <1>1 DEF TronInv, OpPart, Refreshes
<1>3. op' = [op EXCEPT !.step = "refreshing", !.at = op.at + 1, !.next = c]
    BY <1>1, <1>2 DEF OpSet
<1>4. Sound(op.next, World, sent) /\ op.next \in Seq(Record)
    BY <1>2 DEF CopyPart, Sound
<1>5. r \in Record /\ Tells(r, World)
    BY <1>2, <1>4, ElementOfSeq, LenProperties DEF Sound
<1> HIDE DEF r
<1>6. /\ Observed(r) \in Record
      /\ Observed(r).quote = r.quote
      /\ Observed(r).final <=> HasReceipt(r.quote)
      /\ Tells(Observed(r), World)
      /\ Open(Observed(r)) => Open(r)
    BY <1>1, <1>2, <1>5, ObservedTells
<1>7. Sound(c, World, sent)
    BY <1>2, <1>4, <1>6, SoundReplace DEF r
<1>8. /\ c \in Seq(Record)
      /\ DOMAIN c = DOMAIN op.next
      /\ c[op.at] = Observed(r)
      /\ \A j \in DOMAIN op.next : j # op.at => c[j] = op.next[j]
    BY <1>2, <1>4, <1>6, Replaced
<1> HIDE DEF c
<1>9. /\ op' \in OpSet /\ op'.step = "refreshing" /\ op'.at = op.at + 1
      /\ op'.next = c /\ op'.head = op.head /\ op.at \in Nat
    <2> DEFINE n == op.at + 1
    <2>1. op.at \in Nat /\ n \in Nat
        BY <1>2 DEF OpSet
    <2>2. op' = [op EXCEPT !.step = "refreshing", !.at = n, !.next = c]
        BY <1>3
    <2> HIDE DEF n
    <2>3. /\ op' \in OpSet /\ op'.step = "refreshing" /\ op'.at = n
          /\ op'.next = c /\ op'.head = op.head
        BY <1>2, <1>8, <2>1, <2>2 DEF OpSet
    <2> QED
        BY <2>1, <2>3 DEF n
<1>10. \A i \in DOMAIN records : c[i].quote = records[i].quote
    BY <1>2, <1>6, <1>8 DEF CopyPart, r
<1>11. /\ \A i \in DOMAIN disk : i \in Nat /\ Tells(disk[i], World)
       /\ FinalIn(disk, records)
    BY LenProperties DEF TronInv, WalletPart, Sound
<1>12. \A i \in DOMAIN disk : disk[i].final /\ i < op.at + 1 => c[i].final
    <2> TAKE i \in DOMAIN disk
    <2> HAVE disk[i].final /\ i < op.at + 1
    <2>1. i \in DOMAIN records /\ disk[i].quote = records[i].quote
        BY <1>11 DEF FinalIn
    <2>2. CASE i = op.at
        <3>1. r.quote = disk[i].quote
            BY <1>2, <2>1, <2>2 DEF CopyPart, r
        <3>2. HasReceipt(r.quote)
            BY <1>11, <3>1 DEF Tells, World, HasReceipt
        <3> QED
            BY <1>6, <1>8, <2>2, <3>2
    <2>3. CASE i # op.at
        <3>1. i < op.at
            BY <1>9, <1>11, <2>3
        <3> QED
            BY <1>2, <1>8, <2>1, <2>3, <3>1 DEF CopyPart
    <2> QED
        BY <2>2, <2>3
<1>13. CopyPart'
    BY <1>1, <1>2, <1>7, <1>8, <1>9, <1>10, <1>12, OpOnly DEF CopyPart, walletVars
<1>14. OpPart'
    BY <1>1, <1>2, <1>9, <1>13 DEF OpPart, Refreshes, chainVars
<1> QED
    BY <1>1, <1>14, OpOnly DEF TronInv

\* A copy that was gone through has every final record of the file: the chain says the
\* same of both.
LEMMA CopySavable ==
    ASSUME TronInv, op.step = "refreshing", op.at \notin DOMAIN op.next
    PROVE  Savable(op.next)
<1>1. op \in OpSet /\ op.at # 0 /\ CopyPart
    BY DEF TronInv, OpPart, Refreshes
<1>2. /\ Sound(op.next, World, sent)
      /\ Sound(disk, World, sent)
      /\ FinalIn(disk, records)
    BY <1>1 DEF CopyPart, TronInv, WalletPart
<1>3. op.next \in Seq(Record) /\ DOMAIN op.next = 1..Len(op.next) /\ Len(op.next) \in Nat
    BY <1>2, LenProperties DEF Sound
<1>4. \A i \in DOMAIN op.next : i < op.at
    BY <1>1, <1>3 DEF OpSet
<1>5. ASSUME NEW i \in DOMAIN disk, disk[i].final
      PROVE  i \in DOMAIN op.next /\ op.next[i] = disk[i]
    <2>1. i \in DOMAIN op.next /\ op.next[i].quote = disk[i].quote
        BY <1>1, <1>2, <1>5 DEF CopyPart, FinalIn
    <2>2. op.next[i].final
        BY <1>1, <1>4, <1>5, <2>1 DEF CopyPart
    <2>3. op.next[i] \in Record /\ disk[i] \in Record
        BY <1>2, <2>1, ElementOfSeq, LenProperties DEF Sound
    <2>4. op.next[i].state = disk[i].state
        BY <1>2, <1>5, <2>1, <2>2 DEF Sound, Tells
    <2>5. op.next[i].final = disk[i].final
        BY <1>5, <2>2, <2>3 DEF Record
    <2>6. op.next[i].checked = 0 /\ disk[i].checked = 0
        BY <1>2, <1>5, <2>1, <2>2 DEF Sound, Tells
    <2> QED
        BY <2>1, <2>3, <2>4, <2>5, <2>6 DEF Record
<1>6. FinalIn(op.next, records)
    BY <1>1 DEF CopyPart, FinalIn
<1> QED
    BY <1>2, <1>5, <1>6 DEF Savable

LEMMA HistoryEndStep ==
    ASSUME TronInv, NEW outcome \in WriteOutcome, HistoryEnd(outcome)
    PROVE  /\ TronInv'
           /\ \A i \in DOMAIN disk :
                disk[i].final => i \in DOMAIN disk' /\ disk'[i] = disk[i]
<1>1. /\ op.step = "refreshing" /\ op.at \notin DOMAIN op.next
      /\ op' = Idle
      /\ UNCHANGED <<quotes, expires, chainVars, sent>>
    BY DEF HistoryEnd
<1>2. OpPart'
    BY <1>1, EmptySeq DEF OpPart, Refreshes, Idle, OpSet
<1>3. CASE save(op.next, outcome)
    <2>1. /\ ChainPart'
          /\ WalletPart'
          /\ \A i \in DOMAIN disk : disk[i].final => i \in DOMAIN disk' /\ disk'[i] = disk[i]
        BY <1>1, <1>3, CopySavable, SaveStep
    <2> QED
        BY <1>2, <2>1 DEF TronInv
<1>4. CASE UNCHANGED <<records, disk, fault, spent>>
    <2>1. UNCHANGED <<walletVars, chainVars, sent>>
        BY <1>1, <1>4 DEF walletVars
    <2> QED
        BY <1>2, <1>4, <2>1, OpOnly DEF TronInv
<1> QED
    BY <1>3, <1>4 DEF HistoryEnd

LEMMA RestartStep ==
    ASSUME TronInv, Restart
    PROVE  TronInv'
<1>1. /\ records' = disk /\ disk' = disk /\ fault' = FALSE /\ quotes' = {} /\ op' = Idle
      /\ UNCHANGED <<expires, chainVars, sent>>
    BY DEF Restart
<1>2. ChainPart' /\ World' = World
    BY <1>1 DEF TronInv, ChainPart, World, chainVars
<1>3. WalletPart'
    BY <1>1, <1>2 DEF TronInv, WalletPart, FinalIn
<1>4. OpPart'
    BY <1>1, EmptySeq DEF OpPart, Refreshes, Idle, OpSet
<1> QED
    BY <1>2, <1>3, <1>4 DEF TronInv

----------------------------------------------------------------------------
(* The theorems. *)

\* Any step keeps the invariant, and the file's final records as they are.
LEMMA NextTronInv ==
    ASSUME TronInv, [Next]_vars
    PROVE  /\ TronInv'
           /\ \A i \in DOMAIN disk :
                disk[i].final => i \in DOMAIN disk' /\ disk'[i] = disk[i]
<1> DEFINE Kept == /\ TronInv'
                   /\ \A i \in DOMAIN disk :
                        disk[i].final => i \in DOMAIN disk' /\ disk'[i] = disk[i]
<1> SUFFICES Kept
    OBVIOUS
<1>1. CASE Produce \/ Solidify \/ Fork
    <2>1. disk' = disk
        BY <1>1 DEF Produce, Solidify, Fork, walletVars
    <2> QED
        BY <1>1, <2>1, ProduceStep, SolidifyStep, ForkStep
<1>2. CASE Sending
    <2>1. ASSUME NEW q \in Quote, NEW e \in (clock + 1)..(clock + Window), QuoteTransfer(q, e)
          PROVE  Kept
        BY <2>1, QuoteStep DEF QuoteTransfer
    <2>2. ASSUME NEW q \in Quote, SendStart(q)
          PROVE  Kept
        BY <2>2, SendStartStep DEF SendStart, walletVars
    <2>3. ASSUME NEW outcome \in WriteOutcome, SendAppend(outcome)
          PROVE  Kept
        BY <2>3, SendAppendStep
    <2>4. ASSUME GiveUp
          PROVE  Kept
        BY <2>4, EndStep DEF GiveUp, walletVars
    <2>5. ASSUME NEW i \in DOMAIN records, RetryStart(i)
          PROVE  Kept
        BY <2>5, RetryStartStep DEF RetryStart, walletVars
    <2>6. ASSUME NEW accepted \in BOOLEAN, Broadcast(accepted)
          PROVE  Kept
        BY <2>6, BroadcastStep DEF Broadcast, walletVars
    <2>7. ASSUME NEW outcome \in WriteOutcome, RecordAnswer(outcome)
          PROVE  Kept
        BY <2>7, RecordAnswerStep
    <2> HIDE DEF Kept
    <2> QED
        BY <1>2, <2>1, <2>2, <2>3, <2>4, <2>5, <2>6, <2>7 DEF Sending
<1>3. CASE Refreshing
    <2>1. ASSUME HistoryStart \/ HistoryAbort \/ HistoryFinal \/ HistoryHead \/ HistoryReceipt
          PROVE  Kept
        <3>1. disk' = disk
            BY <2>1 DEF HistoryStart, HistoryAbort, HistoryFinal, HistoryHead, HistoryReceipt,
                        walletVars
        <3>2. TronInv'
            BY <2>1, HistoryStartStep, EndStep, HistoryFinalStep, HistoryHeadStep,
               HistoryReceiptStep
        <3> QED
            BY <3>1, <3>2
    <2>2. ASSUME NEW outcome \in WriteOutcome, HistoryEnd(outcome)
          PROVE  Kept
        BY <2>2, HistoryEndStep
    <2> HIDE DEF Kept
    <2> QED
        BY <1>3, <2>1, <2>2 DEF Refreshing
<1>4. CASE Restart
    BY <1>4, RestartStep DEF Restart
<1>5. CASE UNCHANGED vars
    <2>1. UNCHANGED <<walletVars, chainVars, sent, op>>
        BY <1>5 DEF vars
    <2>2. TronInv'
        BY <2>1, OpOnly DEF TronInv
    <2> QED
        BY <2>1, <2>2 DEF walletVars
<1> QED
    BY <1>1, <1>2, <1>3, <1>4, <1>5 DEF Next

\* The invariant holds throughout, whatever the chain does, whichever writes fail and
\* whenever the process of NewTronService is killed.
THEOREM TronInvariant == Spec => []TronInv
<1>1. TronInv /\ [Next]_vars => TronInv'
    BY NextTronInv
<1> QED
    BY <1>1, InitTronInv, PTL DEF Spec

\* "Persisted before broadcasthex": what Send or Retry handed to the RPC is on disk.
THEOREM SentIsOnDisk == Spec => []SentIsStored
<1>1. TronInv => SentIsStored
    BY DEF TronInv, WalletPart, Sound, SentIsStored
<1> QED
    BY <1>1, TronInvariant, PTL

\* What Send and History say is over, in memory or on disk, is over on the chain and
\* ended as they say, forks included.
THEOREM OutcomesHold == Spec => []OutcomesAreTrue
<1>1. ASSUME TronInv PROVE OutcomesAreTrue
    <2>1. \A r \in Stored : Tells(r, World)
        BY <1>1 DEF TronInv, WalletPart, Sound, Stored
    <2> QED
        BY <2>1 DEF Tells, World, OutcomesAreTrue, ExpiredNeverLands, FinalIsTrue, HasReceipt
<1> QED
    BY <1>1, TronInvariant, PTL

\* The gate of pending works: of all that was broadcast, one transaction at most can
\* still be executed.
THEOREM OneCanStillPay == Spec => []OneOutstanding
<1>1. ASSUME TronInv PROVE OneOutstanding
    <2>1. Sound(records, World, sent)
        BY <1>1 DEF TronInv, WalletPart
    <2>2. ASSUME NEW q \in Quote, CanStillPay(q)
          PROVE  \E i \in DOMAIN records : records[i].quote = q /\ Open(records[i])
        <3>1. PICK i \in DOMAIN records : records[i].quote = q
            BY <2>1, <2>2 DEF CanStillPay, Sound, InRecords
        <3>2. Tells(records[i], World)
            BY <2>1 DEF Sound
        <3>3. ~records[i].final
            BY <2>2, <3>1, <3>2 DEF Tells, World, CanStillPay, HasReceipt
        <3>4. records[i].state # "expired_unconfirmed"
            <4>1. expires[q] \in Nat /\ solid \in Nat
                BY <1>1 DEF TronInv, ChainPart
            <4> QED
                BY <2>2, <3>1, <3>2, <4>1 DEF Tells, World, CanStillPay
        <3> QED
            BY <3>1, <3>3, <3>4 DEF Open
    <2> QED
        BY <2>1, <2>2 DEF OneOutstanding, Sound
<1> QED
    BY <1>1, TronInvariant, PTL

\* No save undoes a final record of transactions.json, not even one of a memory that
\* fell behind the file.
THEOREM FinalStaysOnDisk == Spec => FinalOnDisk
<1>1. TronInv /\ [Next]_vars =>
        [\A i \in DOMAIN disk : disk[i].final => i \in DOMAIN disk' /\ disk'[i] = disk[i]]_vars
    BY NextTronInv
<1> QED
    BY <1>1, TronInvariant, PTL DEF FinalOnDisk, Spec

----------------------------------------------------------------------------
(* The book of transfers.  Beyond TronInv, the refinement needs what a     *)
(* restart can find in the file (Covers): the transfers of memory with the *)
(* same outcomes, but for the open one, which may be over there, or memory *)
(* and one transfer more; and that the outcomes in History's copy follow   *)
(* memory's.  The file may lose that one transfer again, memory none.      *)

\* d has the transfers of m, and the outcomes of those that are over in m.
Follows(d, m) ==
    \A i \in DOMAIN m :
        /\ d[i].quote = m[i].quote
        /\ ~Open(m[i]) => Outcome(d[i]) = Outcome(m[i])

Covers(d, m) ==
    \/ DOMAIN d = DOMAIN m /\ Follows(d, m)
    \/ \E r \in Record :
          /\ d = Append(m, r)
          /\ Open(r)
          /\ ~InRecords(m, r.quote)
          /\ \A i \in DOMAIN m : ~Open(m[i])

BookPart ==
    /\ Covers(disk, records)
    /\ op.step = "signing" => ~InRecords(records, op.quote)
    /\ \A q \in Quote : block[q] # 0 => q \in sent
    /\ Refreshes => Follows(op.next, records)

BookStep == [Book!Next]_(Book!bookVars)

LEMMA InitBookPart == Init => BookPart /\ Book!Init
<1> SUFFICES ASSUME Init PROVE BookPart /\ Book!Init
    OBVIOUS
<1>1. disk = <<>> /\ records = <<>> /\ DOMAIN <<>> = {}
    BY EmptySeq DEF Init
<1>2. BookPart
    BY <1>1 DEF Init, BookPart, Covers, Follows, Refreshes, Idle
<1>3. Entries(<<>>) = <<>>
    BY <1>1 DEF Entries
<1> QED
    BY <1>1, <1>2, <1>3 DEF Book!Init, Init

LEMMA OutcomeIs ==
    ASSUME NEW r \in Record
    PROVE  /\ Outcome(r) \in {"open", "paid", "failed", "expired"}
           /\ Outcome(r) = "open" <=> Open(r)
           /\ Outcome(r) \in {"paid", "failed"} <=> r.final
<1>1. r.final \in BOOLEAN
    BY DEF Record
<1>2. CASE r.final = TRUE
    BY <1>2 DEF Outcome, Open
<1>3. CASE r.final = FALSE
    BY <1>3 DEF Outcome, Open
<1> QED
    BY <1>1, <1>2, <1>3

LEMMA EntriesSeq ==
    ASSUME NEW s \in Seq(Record)
    PROVE  /\ Entries(s) \in Seq(Book!Entry)
           /\ DOMAIN Entries(s) = DOMAIN s
           /\ Len(Entries(s)) = Len(s)
           /\ \A i \in DOMAIN s : Entries(s)[i] = [quote |-> s[i].quote, outcome |-> Outcome(s[i])]
<1>1. DOMAIN s = 1..Len(s) /\ Len(s) \in Nat
    BY LenProperties
<1>2. DOMAIN Entries(s) = 1..Len(s)
    BY <1>1 DEF Entries
<1>3. ASSUME NEW i \in 1..Len(s)
      PROVE  Entries(s)[i] \in Book!Entry
    <2>1. s[i] \in Record
        BY ElementOfSeq
    <2>2. s[i].quote \in Quote /\ Outcome(s[i]) \in {"open", "paid", "failed", "expired"}
        BY <2>1, OutcomeIs DEF Record
    <2> QED
        BY <1>1, <2>2 DEF Entries, Book!Entry, Book!Settled
<1>4. Entries(s) \in [1..Len(s) -> Book!Entry]
    BY <1>1, <1>2, <1>3 DEF Entries
<1>5. Entries(s) \in Seq(Book!Entry) /\ Len(Entries(s)) = Len(s)
    BY <1>1, <1>4
<1> QED
    BY <1>1, <1>2, <1>5 DEF Entries

LEMMA EntriesAppend ==
    ASSUME NEW s \in Seq(Record), NEW r \in Record, Open(r)
    PROVE  Entries(Append(s, r)) = Append(Entries(s), [quote |-> r.quote, outcome |-> "open"])
<1> DEFINE t == Append(s, r)
           e == [quote |-> r.quote, outcome |-> "open"]
<1>1. /\ t \in Seq(Record)
      /\ Len(t) = Len(s) + 1
      /\ \A i \in 1..Len(s) : t[i] = s[i]
      /\ t[Len(s) + 1] = r
      /\ Len(s) \in Nat /\ DOMAIN s = 1..Len(s)
    BY AppendProperties, LenProperties
<1> HIDE DEF t
<1>2. /\ Entries(t) \in Seq(Book!Entry)
      /\ Len(Entries(t)) = Len(s) + 1
      /\ DOMAIN t = 1..(Len(s) + 1)
      /\ \A i \in DOMAIN t : Entries(t)[i] = [quote |-> t[i].quote, outcome |-> Outcome(t[i])]
    BY <1>1, EntriesSeq, LenProperties
<1>3. /\ Entries(s) \in Seq(Book!Entry)
      /\ Len(Entries(s)) = Len(s)
      /\ \A i \in DOMAIN s : Entries(s)[i] = [quote |-> s[i].quote, outcome |-> Outcome(s[i])]
    BY EntriesSeq
<1>4. e \in Book!Entry /\ Outcome(r) = "open"
    BY OutcomeIs DEF Book!Entry, Record
<1> HIDE DEF e
<1> DEFINE u == Append(Entries(s), e)
<1>5. /\ u \in Seq(Book!Entry)
      /\ Len(u) = Len(s) + 1
      /\ \A i \in 1..Len(s) : u[i] = Entries(s)[i]
      /\ u[Len(s) + 1] = e
    BY <1>3, <1>4, AppendProperties
<1> HIDE DEF u
<1>6. ASSUME NEW i \in 1..(Len(s) + 1) PROVE Entries(t)[i] = u[i]
    <2>1. CASE i = Len(s) + 1
        BY <1>1, <1>2, <1>4, <1>5, <2>1 DEF e
    <2>2. CASE i # Len(s) + 1
        <3>1. i \in 1..Len(s)
            BY <1>1, <2>2
        <3>2. t[i] = s[i] /\ u[i] = Entries(s)[i]
            BY <1>1, <1>5, <3>1
        <3>3. Entries(s)[i] = [quote |-> s[i].quote, outcome |-> Outcome(s[i])]
            BY <1>1, <1>3, <3>1
        <3>4. Entries(t)[i] = [quote |-> t[i].quote, outcome |-> Outcome(t[i])]
            BY <1>2
        <3> QED
            BY <3>2, <3>3, <3>4
    <2> QED
        BY <2>1, <2>2
<1>7. Entries(t) = u
    BY <1>1, <1>2, <1>5, <1>6, SeqEqual
<1> QED
    BY <1>7 DEF t, u, e

\* Two lists that differ in the outcome of one record at most.
LEMMA EntriesReplace ==
    ASSUME NEW s \in Seq(Record), NEW t \in Seq(Record), DOMAIN s = DOMAIN t,
           NEW i \in DOMAIN s,
           \A j \in DOMAIN s : t[j].quote = s[j].quote,
           \A j \in DOMAIN s : j # i => Outcome(t[j]) = Outcome(s[j])
    PROVE  Entries(t) = [Entries(s) EXCEPT ![i].outcome = Outcome(t[i])]
    BY DEF Entries

LEMMA EntriesSame ==
    ASSUME NEW s \in Seq(Record), NEW t \in Seq(Record), DOMAIN s = DOMAIN t,
           \A j \in DOMAIN s : t[j].quote = s[j].quote /\ Outcome(t[j]) = Outcome(s[j])
    PROVE  Entries(t) = Entries(s)
    BY DEF Entries

LEMMA BookSame == UNCHANGED <<records, sent>> => BookStep
    BY DEF BookStep, Book!bookVars

LEMMA OneRecord ==
    ASSUME TronInv
    PROVE  /\ disk \in Seq(Record) /\ records \in Seq(Record)
           /\ \A i \in DOMAIN disk : disk[i] \in Record /\ Tells(disk[i], World)
           /\ \A i \in DOMAIN records : records[i] \in Record /\ Tells(records[i], World)
           /\ \A i, j \in DOMAIN records : Open(records[i]) /\ Open(records[j]) => i = j
    BY ElementOfSeq, LenProperties DEF TronInv, WalletPart, Sound

\* Memory is replaced by a list that follows it: History's copy, or the file.
LEMMA FollowBook ==
    ASSUME TronInv, BookPart, NEW c, Sound(c, World, sent), DOMAIN c = DOMAIN records,
           Follows(c, records), records' = c, UNCHANGED sent
    PROVE  BookStep
<1>1. /\ c \in Seq(Record) /\ records \in Seq(Record)
      /\ \A i \in DOMAIN records : c[i] \in Record /\ Tells(c[i], World)
      /\ \A i \in DOMAIN records : records[i] \in Record
    BY OneRecord, ElementOfSeq, LenProperties DEF Sound
<1>2. Entries(records)' = Entries(c)
    BY DEF Entries
<1>3. CASE \E i \in DOMAIN records : Open(records[i]) /\ ~Open(c[i])
    <2>1. PICK i \in DOMAIN records : Open(records[i]) /\ ~Open(c[i])
        BY <1>3
    <2>2. \A j \in DOMAIN records : j # i => Outcome(c[j]) = Outcome(records[j])
        BY <2>1, OneRecord DEF Follows
    <2>3. Entries(c) = [Entries(records) EXCEPT ![i].outcome = Outcome(c[i])]
        BY <1>1, <2>2, EntriesReplace DEF Follows
    <2>4. /\ i \in DOMAIN Entries(records)
          /\ Entries(records)[i].outcome = "open"
          /\ Entries(records)[i].quote = records[i].quote
        BY <1>1, <2>1, OutcomeIs DEF Entries
    <2>5. Outcome(c[i]) \in Book!Settled
        BY <1>1, <2>1, OutcomeIs DEF Book!Settled
    <2>6. Outcome(c[i]) # "expired" => records[i].quote \in sent
        <3>1. Outcome(c[i]) # "expired" => c[i].final
            BY <1>1, <2>1, OutcomeIs
        <3>2. c[i].final => block[c[i].quote] # 0
            BY <1>1 DEF Tells, World
        <3>3. c[i].quote = records[i].quote /\ records[i].quote \in Quote
            BY <1>1 DEF Follows, Record
        <3> QED
            BY <3>1, <3>2, <3>3 DEF BookPart
    <2>7. Book!Settle(i, Outcome(c[i]))
        BY <1>2, <2>3, <2>4, <2>6 DEF Book!Settle
    <2> QED
        BY <2>4, <2>5, <2>7 DEF BookStep, Book!Next
<1>4. CASE \A i \in DOMAIN records : Open(records[i]) => Open(c[i])
    <2>1. \A i \in DOMAIN records : Outcome(c[i]) = Outcome(records[i])
        BY <1>1, <1>4, OutcomeIs DEF Follows
    <2>2. Entries(c) = Entries(records)
        BY <1>1, <2>1, EntriesSame DEF Follows
    <2> QED
        BY <1>2, <2>2 DEF BookStep, Book!bookVars
<1> QED
    BY <1>3, <1>4

----------------------------------------------------------------------------
(* Each step is a step of the book or none, and keeps BookPart.            *)

LEMMA ChainBook ==
    ASSUME TronInv, BookPart, Produce \/ Solidify \/ Fork
    PROVE  BookPart' /\ BookStep
<1>1. UNCHANGED <<records, disk, op, sent>>
    BY DEF Produce, Solidify, Fork, walletVars
<1>2. \A q \in Quote : block'[q] # 0 => q \in sent
    <2>1. block \in [Quote -> Nat] /\ sent \subseteq Quote
        BY DEF TronInv, ChainPart
    <2>2. CASE UNCHANGED block
        BY <2>2 DEF BookPart
    <2>3. CASE \E q \in sent : block' = [block EXCEPT ![q] = clock + 1]
        BY <2>1, <2>3 DEF BookPart
    <2>4. CASE block' = [q \in Quote |-> IF block[q] > solid THEN 0 ELSE block[q]]
        BY <2>4 DEF BookPart
    <2> QED
        BY <2>2, <2>3, <2>4 DEF Produce, Solidify, Fork
<1>3. BookPart'
    BY <1>1, <1>2 DEF BookPart, Refreshes, Follows, Covers
<1> QED
    BY <1>1, <1>3, BookSame

\* The steps that only start, advance or end an operation.
LEMMA OperationBook ==
    ASSUME TronInv, BookPart, UNCHANGED <<records, disk, block, sent>>,
           op'.step = "signing" => ~InRecords(records, op'.quote),
           op'.step \in {"refreshing", "headed"} => Follows(op'.next, records)
    PROVE  BookPart' /\ BookStep
<1>1. BookPart'
    BY DEF BookPart, Refreshes
<1> QED
    BY <1>1, BookSame

LEMMA SendAppendBook ==
    ASSUME TronInv, BookPart, NEW outcome \in WriteOutcome, SendAppend(outcome)
    PROVE  BookPart' /\ BookStep
<1> DEFINE t == Append(records, NewRecord)
<1>1. /\ op.step = "signing"
      /\ save(t, outcome)
      /\ op'.step \notin {"signing", "refreshing", "headed"}
      /\ UNCHANGED <<block, sent>>
    BY DEF SendAppend, chainVars, Idle, TronInv, OpPart, OpSet
<1>2. ~fault /\ ~pending /\ op.quote \in Quote /\ disk = records
    BY <1>1 DEF TronInv, OpPart, WalletPart
<1>3. NewRecord \in Record /\ Open(NewRecord) /\ NewRecord.quote = op.quote
    BY <1>2 DEF NewRecord, Record, State, Open
<1>4. \A i \in DOMAIN records : ~Open(records[i])
    BY <1>2 DEF pending, Open
<1>5. /\ t \in Seq(Record)
      /\ DOMAIN t = DOMAIN records \cup {Len(records) + 1}
      /\ \A j \in DOMAIN records : t[j] = records[j]
    BY <1>3, OneRecord, Appended
<1>6. Entries(t) = Append(Entries(records), [quote |-> op.quote, outcome |-> "open"])
    BY <1>3, OneRecord, EntriesAppend
<1> HIDE DEF t
<1>7. \/ outcome = "ok" /\ records' = t /\ disk' = t
      \/ records' = records /\ disk' \in {disk, t}
    BY <1>1 DEF save, WriteOutcome
<1>8. ~InRecords(records, op.quote)
    BY <1>1 DEF BookPart
<1>9. Covers(t, t) /\ Covers(records, records)
    BY DEF Covers, Follows
<1>10. Covers(t, records)
    BY <1>3, <1>4, <1>8 DEF Covers, t
<1>11. BookPart'
    BY <1>1, <1>2, <1>7, <1>9, <1>10 DEF BookPart, Refreshes
<1>12. CASE records' = records
    BY <1>1, <1>11, <1>12, BookSame
<1>13. CASE records' = t
    <2>1. /\ DOMAIN Entries(records) = DOMAIN records
          /\ \A i \in DOMAIN records :
               Entries(records)[i] = [quote |-> records[i].quote, outcome |-> Outcome(records[i])]
        BY DEF Entries
    <2>2. \A i \in DOMAIN records :
             Outcome(records[i]) \in {"paid", "failed", "expired"} /\ records[i].quote # op.quote
        BY <1>4, <1>8, OneRecord, OutcomeIs DEF InRecords
    <2>3. \A i \in DOMAIN Entries(records) :
             /\ Entries(records)[i].outcome \in Book!Settled
             /\ Entries(records)[i].quote # op.quote
        BY <2>1, <2>2 DEF Book!Settled
    <2>4. Entries(records)' = Append(Entries(records), [quote |-> op.quote, outcome |-> "open"])
        BY <1>6, <1>13 DEF Entries
    <2>5. Book!Commit(op.quote)
        BY <1>1, <2>3, <2>4 DEF Book!Commit
    <2> QED
        BY <1>2, <1>11, <2>5 DEF BookStep, Book!Next
<1> QED
    BY <1>7, <1>12, <1>13

LEMMA BroadcastBook ==
    ASSUME TronInv, BookPart, NEW accepted \in BOOLEAN, Broadcast(accepted)
    PROVE  BookPart' /\ BookStep
<1>1. /\ op.step = "broadcasting"
      /\ sent' = sent \cup {records[op.at].quote}
      /\ op' = [op EXCEPT !.step = "answered", !.accepted = accepted]
      /\ UNCHANGED <<records, disk, block>>
    BY DEF Broadcast, walletVars, chainVars
<1>2. op.at \in DOMAIN records /\ Open(records[op.at]) /\ disk = records
    BY <1>1 DEF TronInv, OpPart, WalletPart
<1>3. op'.step = "answered"
    BY <1>1 DEF TronInv, OpPart, OpSet
<1>4. BookPart'
    BY <1>1, <1>3 DEF BookPart, Refreshes
<1>5. /\ op.at \in DOMAIN Entries(records)
      /\ Entries(records)[op.at].outcome = "open"
      /\ Entries(records)[op.at].quote = records[op.at].quote
    BY <1>2, OneRecord, OutcomeIs DEF Entries
<1>6. Entries(records)' = Entries(records)
    BY <1>1 DEF Entries
<1>7. Book!Broadcast(op.at)
    BY <1>1, <1>5, <1>6 DEF Book!Broadcast
<1> QED
    BY <1>4, <1>5, <1>7 DEF BookStep, Book!Next

\* The node's answer does not close the record.
LEMMA RecordAnswerBook ==
    ASSUME TronInv, BookPart, NEW outcome \in WriteOutcome, RecordAnswer(outcome)
    PROVE  BookPart' /\ BookStep
<1> DEFINE told == IF op.accepted THEN "submitted" ELSE "broadcast_unknown"
           r == [records[op.at] EXCEPT !.state = told]
           t == [records EXCEPT ![op.at] = r]
<1>1. /\ op.step = "answered"
      /\ save([records EXCEPT ![op.at].state = told], outcome)
      /\ op' = Idle
      /\ UNCHANGED <<block, sent>>
    BY DEF RecordAnswer, chainVars
<1>2. op.at \in DOMAIN records /\ Open(records[op.at]) /\ disk = records
    BY <1>1 DEF TronInv, OpPart, WalletPart
<1>3. records[op.at] \in Record /\ records \in Seq(Record)
    BY <1>2, OneRecord
<1>4. told \in {"submitted", "broadcast_unknown"}
    OBVIOUS
<1> HIDE DEF told
<1>5. r \in Record /\ r.quote = records[op.at].quote /\ Open(r)
    BY <1>2, <1>3, <1>4 DEF Record, State, Open
<1> HIDE DEF r
<1>6. /\ t \in Seq(Record) /\ DOMAIN t = DOMAIN records /\ t[op.at] = r
      /\ \A j \in DOMAIN records : j # op.at => t[j] = records[j]
    BY <1>2, <1>3, <1>5, Replaced
<1>7. save(t, outcome)
    BY <1>1 DEF r
<1> HIDE DEF t
<1>8. \/ records' = t /\ disk' = t
      \/ records' = records /\ disk' \in {disk, t}
    BY <1>7 DEF save, WriteOutcome
<1>9. Covers(t, t) /\ Covers(t, records) /\ Covers(records, records)
    BY <1>2, <1>5, <1>6 DEF Covers, Follows
<1>10. BookPart'
    BY <1>1, <1>2, <1>8, <1>9 DEF BookPart, Refreshes, Idle
<1>11. Entries(t) = Entries(records)
    <2>1. Outcome(r) = Outcome(records[op.at])
        BY <1>2, <1>3, <1>5, OutcomeIs
    <2> QED
        BY <1>3, <1>5, <1>6, <2>1, EntriesSame
<1>12. Entries(records)' = Entries(records)
    BY <1>8, <1>11 DEF Entries
<1> QED
    BY <1>1, <1>10, <1>12 DEF BookStep, Book!bookVars

\* A record that expired stays expired when History looks at it again.
LEMMA ObservedStays ==
    ASSUME NEW r \in Record, Tells(r, World), ~r.final, ~Open(r)
    PROVE  Outcome(Observed(r)) = Outcome(r)
<1>1. r.state = "expired_unconfirmed" /\ ~HasReceipt(r.quote)
    BY DEF Open, Tells, World, HasReceipt
<1>2. CASE SolidHead > expires[r.quote]
    <2>1. Observed(r) = [r EXCEPT !.state = "expired_unconfirmed", !.checked = SolidHead]
        BY <1>1, <1>2 DEF Observed, Settled
    <2>2. Observed(r).final = r.final /\ Observed(r).state = r.state
        BY <1>1, <2>1 DEF Record
    <2> QED
        BY <2>2 DEF Outcome
<1>3. CASE ~(SolidHead > expires[r.quote])
    BY <1>1, <1>3 DEF Observed, Settled
<1> QED
    BY <1>2, <1>3

LEMMA HistoryReceiptBook ==
    ASSUME TronInv, BookPart, HistoryReceipt
    PROVE  BookPart' /\ BookStep
<1> DEFINE r == op.next[op.at]
           c == [op.next EXCEPT ![op.at] = Observed(r)]
<1>1. /\ UNCHANGED <<records, disk, block, sent>>
      /\ op.step = "headed"
      /\ op' = [op EXCEPT !.step = "refreshing", !.at = @ + 1, !.next[op.at] = Observed(@)]
    BY DEF HistoryReceipt, walletVars, chainVars
<1>2. /\ op \in OpSet /\ CopyPart
      /\ op.at \in DOMAIN op.next /\ ~r.final
    BY <1>1 DEF TronInv, OpPart, Refreshes
<1>3. op'.step = "refreshing" /\ op'.next = c
    BY <1>1, <1>2 DEF OpSet
<1>4. op.next \in Seq(Record) /\ r \in Record /\ Tells(r, World)
    BY <1>2, ElementOfSeq, LenProperties DEF CopyPart, Sound
<1>5. Follows(op.next, records) /\ DOMAIN op.next = DOMAIN records
    BY <1>1, <1>2 DEF BookPart, Refreshes, CopyPart
<1>6. /\ Observed(r).quote = r.quote
      /\ ~Open(r) => Outcome(Observed(r)) = Outcome(r)
    BY <1>1, <1>2, <1>4, ObservedTells, ObservedStays
<1>7. /\ c[op.at] = Observed(r)
      /\ \A j \in DOMAIN op.next : j # op.at => c[j] = op.next[j]
    BY <1>2
<1> HIDE DEF c
<1>8. Follows(c, records)
    <2> SUFFICES ASSUME NEW i \in DOMAIN records
                 PROVE  /\ c[i].quote = records[i].quote
                        /\ ~Open(records[i]) => Outcome(c[i]) = Outcome(records[i])
        BY DEF Follows
    <2>1. CASE i # op.at
        BY <1>5, <1>7, <2>1 DEF Follows
    <2>2. CASE i = op.at
        <3>1. c[i].quote = records[i].quote
            BY <1>5, <1>6, <1>7, <2>2 DEF Follows
        <3>2. ASSUME ~Open(records[i]) PROVE Outcome(c[i]) = Outcome(records[i])
            <4>1. Outcome(r) = Outcome(records[i])
                BY <1>5, <2>2, <3>2 DEF Follows
            <4>2. ~Open(r)
                BY <1>4, <3>2, <4>1, OneRecord, OutcomeIs
            <4> QED
                BY <1>6, <1>7, <2>2, <4>1, <4>2
        <3> QED
            BY <3>1, <3>2
    <2> QED
        BY <2>1, <2>2
<1> QED
    BY <1>1, <1>3, <1>8, OperationBook

\* The copy may be saved to look at an expired record again: the file then takes its
\* place, whatever it held, and memory only if the write succeeded.
LEMMA HistoryEndBook ==
    ASSUME TronInv, BookPart, NEW outcome \in WriteOutcome, HistoryEnd(outcome)
    PROVE  BookPart' /\ BookStep
<1>1. /\ op.step = "refreshing" /\ op.at \notin DOMAIN op.next
      /\ op'.step \notin {"signing", "refreshing", "headed"}
      /\ UNCHANGED <<block, sent>>
    BY DEF HistoryEnd, chainVars, Idle
<1>2. CASE op.next = records
    <2>1. UNCHANGED <<records, disk>>
        BY <1>2 DEF HistoryEnd
    <2> QED
        BY <1>1, <2>1, OperationBook
<1>3. CASE op.next # records
    <2> DEFINE c == op.next
    <2>1. \/ records' = c /\ disk' = c
          \/ records' = records /\ disk' \in {disk, c}
        BY <1>3 DEF HistoryEnd, save, WriteOutcome
    <2>2. Sound(c, World, sent) /\ DOMAIN c = DOMAIN records /\ Follows(c, records)
        BY <1>1 DEF TronInv, OpPart, CopyPart, BookPart, Refreshes
    <2> HIDE DEF c
    <2>3. Covers(c, c) /\ Covers(c, records)
        BY <2>2 DEF Covers, Follows
    <2>4. BookPart'
        BY <1>1, <2>1, <2>3 DEF BookPart, Refreshes
    <2>5. CASE records' = c
        BY <1>1, <2>2, <2>4, <2>5, FollowBook
    <2>6. CASE records' = records
        BY <1>1, <2>4, <2>6, BookSame
    <2> QED
        BY <2>1, <2>5, <2>6
<1> QED
    BY <1>2, <1>3

\* NewTronService reads what the file adds to memory: nothing, the outcome of the open
\* transfer, or one transfer that was appended by a write that reported an error.
LEMMA RestartBook ==
    ASSUME TronInv, BookPart, Restart
    PROVE  BookPart' /\ BookStep
<1>1. records' = disk /\ op' = Idle /\ UNCHANGED <<disk, block, sent>>
    BY DEF Restart, chainVars
<1>2. Covers(disk, disk)
    BY DEF Covers, Follows
<1>3. BookPart'
    BY <1>1, <1>2 DEF BookPart, Refreshes, Idle
<1>4. CASE DOMAIN disk = DOMAIN records /\ Follows(disk, records)
    <2>1. Sound(disk, World, sent)
        BY DEF TronInv, WalletPart
    <2> QED
        BY <1>1, <1>3, <1>4, <2>1, FollowBook
<1>5. ASSUME NEW r \in Record, disk = Append(records, r), Open(r),
             ~InRecords(records, r.quote), \A i \in DOMAIN records : ~Open(records[i])
      PROVE  BookStep
    <2>1. Entries(disk) = Append(Entries(records), [quote |-> r.quote, outcome |-> "open"])
        BY <1>5, OneRecord, EntriesAppend
    <2>2. Entries(records)' = Entries(disk)
        BY <1>1 DEF Entries
    <2>3. \A i \in DOMAIN records :
             Outcome(records[i]) \in {"paid", "failed", "expired"} /\ records[i].quote # r.quote
        BY <1>5, OneRecord, OutcomeIs DEF InRecords
    <2>4. \A i \in DOMAIN Entries(records) :
             /\ Entries(records)[i].outcome \in Book!Settled
             /\ Entries(records)[i].quote # r.quote
        BY <2>3 DEF Book!Settled, Entries
    <2>5. Book!Commit(r.quote) /\ r.quote \in Quote
        BY <1>1, <2>1, <2>2, <2>4 DEF Book!Commit, Record
    <2> QED
        BY <2>5 DEF BookStep, Book!Next
<1> QED
    BY <1>3, <1>4, <1>5 DEF BookPart, Covers

LEMMA NextBook ==
    ASSUME TronInv, BookPart, [Next]_vars
    PROVE  BookPart' /\ BookStep
<1> DEFINE Kept == BookPart' /\ BookStep
<1> SUFFICES Kept
    OBVIOUS
<1>1. CASE Produce \/ Solidify \/ Fork
    BY <1>1, ChainBook
<1>2. CASE Sending
    <2>1. ASSUME NEW q \in Quote, NEW e \in (clock + 1)..(clock + Window), QuoteTransfer(q, e)
          PROVE  Kept
        <3>1. op'.step = "idle" /\ UNCHANGED <<records, disk, block, sent>>
            BY <2>1 DEF QuoteTransfer, chainVars, Idle
        <3> QED
            BY <3>1, OperationBook
    <2>2. ASSUME NEW q \in Quote, SendStart(q)
          PROVE  Kept
        <3>1. /\ op'.step = "signing" /\ op'.quote = q /\ ~InRecords(records, q)
              /\ UNCHANGED <<records, disk, block, sent>>
            BY <2>2 DEF SendStart, walletVars, chainVars, Idle, InRecords
        <3> QED
            BY <3>1, OperationBook
    <2>3. ASSUME NEW outcome \in WriteOutcome, SendAppend(outcome)
          PROVE  Kept
        BY <2>3, SendAppendBook
    <2>4. ASSUME GiveUp
          PROVE  Kept
        <3>1. op'.step = "idle" /\ UNCHANGED <<records, disk, block, sent>>
            BY <2>4 DEF GiveUp, walletVars, chainVars, Idle
        <3> QED
            BY <3>1, OperationBook
    <2>5. ASSUME NEW i \in DOMAIN records, RetryStart(i)
          PROVE  Kept
        <3>1. op'.step = "broadcasting" /\ UNCHANGED <<records, disk, block, sent>>
            BY <2>5 DEF RetryStart, walletVars, chainVars, Idle
        <3> QED
            BY <3>1, OperationBook
    <2>6. ASSUME NEW accepted \in BOOLEAN, Broadcast(accepted)
          PROVE  Kept
        BY <2>6, BroadcastBook
    <2>7. ASSUME NEW outcome \in WriteOutcome, RecordAnswer(outcome)
          PROVE  Kept
        BY <2>7, RecordAnswerBook
    <2> HIDE DEF Kept
    <2> QED
        BY <1>2, <2>1, <2>2, <2>3, <2>4, <2>5, <2>6, <2>7 DEF Sending
<1>3. CASE Refreshing
    <2>1. ASSUME HistoryStart PROVE Kept
        <3>1. /\ op'.step = "refreshing" /\ op'.next = records
              /\ UNCHANGED <<records, disk, block, sent>>
            BY <2>1 DEF HistoryStart, walletVars, chainVars, Idle
        <3>2. Follows(records, records)
            BY DEF Follows
        <3> QED
            BY <3>1, <3>2, OperationBook
    <2>2. ASSUME HistoryAbort PROVE Kept
        <3>1. op'.step = "idle" /\ UNCHANGED <<records, disk, block, sent>>
            BY <2>2 DEF HistoryAbort, walletVars, chainVars, Idle
        <3> QED
            BY <3>1, OperationBook
    <2>3. ASSUME HistoryFinal \/ HistoryHead PROVE Kept
        <3>1. UNCHANGED <<records, disk, block, sent>> /\ Refreshes
            BY <2>3 DEF HistoryFinal, HistoryHead, walletVars, chainVars, Refreshes
        <3>2. op'.next = op.next /\ op'.step \in {"refreshing", "headed"}
            BY <2>3 DEF HistoryFinal, HistoryHead, TronInv, OpPart, OpSet
        <3>3. Follows(op.next, records)
            BY <3>1 DEF BookPart
        <3> QED
            BY <3>1, <3>2, <3>3, OperationBook
    <2>4. ASSUME HistoryReceipt PROVE Kept
        BY <2>4, HistoryReceiptBook
    <2>5. ASSUME NEW outcome \in WriteOutcome, HistoryEnd(outcome)
          PROVE  Kept
        BY <2>5, HistoryEndBook
    <2> HIDE DEF Kept
    <2> QED
        BY <1>3, <2>1, <2>2, <2>3, <2>4, <2>5 DEF Refreshing
<1>4. CASE Restart
    BY <1>4, RestartBook
<1>5. CASE UNCHANGED vars
    <2>1. UNCHANGED <<records, disk, block, sent, op>>
        BY <1>5 DEF vars, walletVars, chainVars
    <2>2. BookPart'
        BY <2>1 DEF BookPart, Refreshes
    <2> QED
        BY <2>1, <2>2, BookSame
<1> HIDE DEF Kept
<1> QED
    BY <1>1, <1>2, <1>3, <1>4, <1>5 DEF Next

\* Send, Retry and History of tron.go keep a book of transfers, through forks, failed
\* writes and restarts that read it from transactions.json: the next transfer is taken
\* when all before it are settled, only an open one is broadcast, and none is lost,
\* reopened or settled again.
THEOREM WalletIsABook == Spec => ImplementsBook
<1>1. Init => TronInv /\ BookPart /\ Book!Init
    BY InitTronInv, InitBookPart
<1>2. TronInv /\ BookPart /\ [Next]_vars => TronInv' /\ BookPart'
    BY NextTronInv, NextBook
<1>3. TronInv /\ BookPart /\ [Next]_vars => [Book!Next]_(Book!bookVars)
    BY NextBook DEF BookStep
<1> QED
    BY <1>1, <1>2, <1>3, PTL DEF Spec, ImplementsBook, Book!Spec

=============================================================================
