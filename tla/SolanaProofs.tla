---------------------------- MODULE SolanaProofs ----------------------------
(***************************************************************************)
(* Proofs about module SolanaWallet, for any number of quotes, payees,     *)
(* records, forks, restarts and failed writes: the file is enough to go on *)
(* from, what the wallet says is over is over and ended as it says, and    *)
(* without a fork one transfer at most can still pay.                      *)
(***************************************************************************)
EXTENDS SolanaWallet, SequenceTheorems, TLAPS

----------------------------------------------------------------------------
(* The invariant.  A list of records, s.records or transactions.json, is   *)
(* sound in the world of the cluster.                                      *)

World == [height |-> height, status |-> status, failed |-> failed, forked |-> spent.fork # 0]

\* The message may still be executed.
Live(m, w) == w.status[m] \notin Landed /\ w.height < LastValid(m)

\* If a record says that it is over, it is; a failed execution may be undone by a fork.
Tells(r, w) ==
    /\ r.state = "expired_unconfirmed" => w.status[r.msg] \notin Landed /\ ~Live(r.msg, w)
    /\ r.final =>
          /\ w.status[r.msg] = "finalized"
          /\ r.state = IF r.msg \in w.failed THEN "execution_failed" ELSE "finalized"
    /\ r.state = "execution_failed" => w.forked \/ w.status[r.msg] \in Landed

\* The records of a list that may still be executed are of one message.
OneLive(s, w) ==
    ~w.forked => \A i, j \in DOMAIN s :
                    Live(s[i].msg, w) /\ Live(s[j].msg, w) => s[i].msg = s[j].msg

Sound(s, w, broadcast) ==
    /\ s \in Seq(Record)
    /\ \A i \in DOMAIN s : Tells(s[i], w)
    /\ OneLive(s, w)
    /\ \A m \in broadcast : InRecords(s, m)

ClusterPart ==
    /\ height \in Nat
    /\ height <= MaxHeight
    /\ status \in [Message -> Status]
    /\ failed \subseteq Message
    /\ sent \subseteq Message
    /\ spent \in [fork : Nat, restart : Nat, write : Nat]

\* Every record of a list is, in this place, one of the same message in the other list,
\* and the same record if it is final.
Within(s, t) ==
    \A i \in DOMAIN s :
        i \in DOMAIN t /\ s[i].msg = t[i].msg /\ (s[i].final => t[i] = s[i])

WalletPart ==
    /\ fault \in BOOLEAN
    /\ Sound(records, World, sent)
    /\ Sound(disk, World, sent)
    /\ Within(disk, records)
    /\ DOMAIN quotes \subseteq Quote
    /\ \A q \in DOMAIN quotes : quotes[q] \in Message

OpSet == [step : {"idle", "checking", "checked", "broadcasting", "retrying", "accepted", "refreshing"},
          quote : Nat, at : Nat, height : Nat, changed : BOOLEAN, accepted : BOOLEAN]

OpPart ==
    /\ op \in OpSet
    /\ ~fault /\ (op.step # "refreshing" \/ ~op.changed) => disk = records
    /\ op.step \in {"checking", "checked"} => ~fault /\ ~HasPending /\ op.quote \in DOMAIN quotes
    /\ op.step \in {"broadcasting", "retrying", "accepted"} =>
          ~fault /\ op.at \in DOMAIN records /\ ~records[op.at].final
    /\ op.step = "refreshing" => op.height <= height

SolanaInv == ClusterPart /\ WalletPart /\ OpPart

----------------------------------------------------------------------------
(* Messages and lists of records. *)

LEMMA MessageFacts ==
    ASSUME NEW m \in Message
    PROVE  LastValid(m) \in Nat
BY SolanaAssumption DEF Message, LastValid

LEMMA Replaced ==
    ASSUME NEW S, NEW s \in Seq(S), NEW i \in DOMAIN s, NEW r \in S
    PROVE  /\ [s EXCEPT ![i] = r] \in Seq(S)
           /\ DOMAIN [s EXCEPT ![i] = r] = DOMAIN s
           /\ [s EXCEPT ![i] = r][i] = r
           /\ \A j \in DOMAIN s : j # i => [s EXCEPT ![i] = r][j] = s[j]
<1>1. i \in 1..Len(s)
    BY LenProperties
<1> QED
    BY <1>1, ExceptSeq

LEMMA Appended ==
    ASSUME NEW S, NEW s \in Seq(S), NEW r \in S
    PROVE  /\ Append(s, r) \in Seq(S)
           /\ DOMAIN Append(s, r) = DOMAIN s \cup {Len(s) + 1}
           /\ Len(s) + 1 \notin DOMAIN s
           /\ Append(s, r)[Len(s) + 1] = r
           /\ \A j \in DOMAIN s : Append(s, r)[j] = s[j]
<1>1. /\ Append(s, r) \in Seq(S)
      /\ Len(Append(s, r)) = Len(s) + 1
      /\ \A j \in 1..Len(s) : Append(s, r)[j] = s[j]
      /\ Append(s, r)[Len(s) + 1] = r
    BY AppendProperties
<1>2. DOMAIN s = 1..Len(s) /\ Len(s) \in Nat /\ DOMAIN Append(s, r) = 1..(Len(s) + 1)
    BY <1>1, LenProperties
<1>3. DOMAIN Append(s, r) = DOMAIN s \cup {Len(s) + 1} /\ Len(s) + 1 \notin DOMAIN s
    BY <1>2
<1> QED
    BY <1>1, <1>2, <1>3

\* How the cluster may change: what is finalized stays, nothing comes back to life, and
\* only a fork undoes what landed.
Moves(w, v) ==
    /\ w.forked => v.forked
    /\ \A m \in Message :
          /\ Live(m, v) => v.forked \/ Live(m, w)
          /\ w.status[m] = "finalized" =>
                v.status[m] = "finalized" /\ (m \in v.failed <=> m \in w.failed)
          /\ w.status[m] \in Landed => v.forked \/ v.status[m] \in Landed
          /\ w.status[m] \notin Landed /\ ~Live(m, w) => v.status[m] \notin Landed /\ ~Live(m, v)

LEMMA SoundStill ==
    ASSUME NEW w, NEW v, Moves(w, v), NEW s, NEW qs, Sound(s, w, qs)
    PROVE  Sound(s, v, qs)
<1>1. \A i \in DOMAIN s : s[i] \in Record
    BY ElementOfSeq, LenProperties DEF Sound
<1>2. \A i \in DOMAIN s : s[i].msg \in Message
    BY <1>1 DEF Record
<1>3. ASSUME NEW i \in DOMAIN s
      PROVE  Tells(s[i], v)
    BY <1>2 DEF Tells, Moves, Sound
<1>4. OneLive(s, v)
    BY <1>2 DEF OneLive, Moves, Sound
<1> QED
    BY <1>3, <1>4 DEF Sound

LEMMA SoundAppend ==
    ASSUME NEW w, NEW s, NEW qs, Sound(s, w, qs),
           \A i \in DOMAIN s : ~w.forked => ~Live(s[i].msg, w),
           NEW r \in Record, Tells(r, w)
    PROVE  Sound(Append(s, r), w, qs)
<1> DEFINE t == Append(s, r)
<1>1. /\ t \in Seq(Record)
      /\ DOMAIN t = DOMAIN s \cup {Len(s) + 1}
      /\ t[Len(s) + 1] = r
      /\ \A j \in DOMAIN s : t[j] = s[j]
    BY Appended DEF Sound
<1> HIDE DEF t
<1>2. \A i \in DOMAIN t : Tells(t[i], w)
    BY <1>1 DEF Sound
<1>3. OneLive(t, w)
    BY <1>1 DEF OneLive
<1>4. \A q \in qs : InRecords(t, q)
    BY <1>1 DEF Sound, InRecords
<1>5. Sound(t, w, qs)
    BY <1>1, <1>2, <1>3, <1>4 DEF Sound
<1> QED
    BY <1>5 DEF t

LEMMA SoundReplace ==
    ASSUME NEW w, NEW s, NEW qs, Sound(s, w, qs), NEW i \in DOMAIN s,
           NEW r \in Record, Tells(r, w), r.msg = s[i].msg
    PROVE  Sound([s EXCEPT ![i] = r], w, qs)
<1> DEFINE t == [s EXCEPT ![i] = r]
<1>1. /\ t \in Seq(Record)
      /\ DOMAIN t = DOMAIN s
      /\ t[i] = r
      /\ \A j \in DOMAIN s : j # i => t[j] = s[j]
    BY Replaced DEF Sound
<1> HIDE DEF t
<1>2. \A j \in DOMAIN t : Tells(t[j], w)
    BY <1>1 DEF Sound
<1>3. \A j \in DOMAIN t : t[j].msg = s[j].msg
    BY <1>1
<1>4. OneLive(t, w)
    BY <1>1, <1>3 DEF Sound, OneLive
<1>5. \A q \in qs : InRecords(t, q)
    BY <1>1, <1>3 DEF Sound, InRecords
<1>6. Sound(t, w, qs)
    BY <1>1, <1>2, <1>4, <1>5 DEF Sound
<1> QED
    BY <1>6 DEF t

----------------------------------------------------------------------------
(* The beginning, and the steps of the cluster. *)

LEMMA InitSolanaInv == Init => SolanaInv
<1> SUFFICES ASSUME Init PROVE SolanaInv
    OBVIOUS
<1>1. ClusterPart
    BY SolanaAssumption DEF Init, ClusterPart, Status
<1>2. <<>> \in Seq(Record) /\ DOMAIN <<>> = {}
    BY EmptySeq
<1>3. Sound(<<>>, World, {})
    BY <1>2 DEF Sound, OneLive
<1>4. WalletPart
    BY <1>2, <1>3 DEF Init, WalletPart, Within
<1>5. OpPart
    BY DEF Init, OpPart, Idle, OpSet
<1> QED
    BY <1>1, <1>4, <1>5 DEF SolanaInv

\* What the steps of the cluster leave alone stays true.
LEMMA WalletStill ==
    ASSUME SolanaInv, ClusterPart', Moves(World, World'),
           UNCHANGED <<walletVars, op, sent>>, height <= height'
    PROVE  SolanaInv'
<1>1. /\ Sound(records, World, sent) => Sound(records, World', sent)
      /\ Sound(disk, World, sent) => Sound(disk, World', sent)
    BY SoundStill
<1>2. WalletPart'
    BY <1>1 DEF SolanaInv, WalletPart, Within, walletVars
<1>3. HasPending' = HasPending
    BY DEF HasPending, walletVars
<1>4. op.height \in Nat /\ height \in Nat /\ height' \in Nat
    BY DEF SolanaInv, OpPart, OpSet, ClusterPart
<1>5. OpPart'
    BY <1>3, <1>4 DEF SolanaInv, OpPart, walletVars
<1> QED
    BY <1>2, <1>5 DEF SolanaInv

LEMMA DeliverStep ==
    ASSUME SolanaInv, NEW m \in Message, Deliver(m)
    PROVE  SolanaInv'
<1>1. ClusterPart'
    BY DEF Deliver, SolanaInv, ClusterPart, Status
<1>2. Moves(World, World')
    BY DEF Deliver, SolanaInv, ClusterPart, Moves, World, Live, Landed
<1> QED
    BY <1>1, <1>2, WalletStill DEF Deliver, SolanaInv, ClusterPart

LEMMA ProcessStep ==
    ASSUME SolanaInv, NEW m \in Message, Process(m)
    PROVE  SolanaInv'
<1>1. ClusterPart'
    BY DEF Process, SolanaInv, ClusterPart, Status, Landed
<1>2. Moves(World, World')
    BY DEF Process, SolanaInv, ClusterPart, Moves, World, Live, Landed, Valid
<1> QED
    BY <1>1, <1>2, WalletStill DEF Process, SolanaInv, ClusterPart

LEMMA ForkStep ==
    ASSUME SolanaInv, NEW m \in Message, Fork(m)
    PROVE  SolanaInv'
<1>1. ClusterPart'
    BY DEF Fork, SolanaInv, ClusterPart, Status, Landed
<1>2. spent'.fork # 0
    BY DEF Fork, SolanaInv, ClusterPart
<1>3. Moves(World, World')
    BY <1>2 DEF Fork, SolanaInv, ClusterPart, Moves, World, Live, Landed
<1> QED
    BY <1>1, <1>3, WalletStill DEF Fork, SolanaInv, ClusterPart

LEMMA ConfirmStep ==
    ASSUME SolanaInv, NEW m \in Message, Confirm(m)
    PROVE  SolanaInv'
<1>1. ClusterPart'
    BY DEF Confirm, SolanaInv, ClusterPart, Status, Landed
<1>2. Moves(World, World')
    BY DEF Confirm, SolanaInv, ClusterPart, Moves, World, Live, Landed
<1> QED
    BY <1>1, <1>2, WalletStill DEF Confirm, SolanaInv, ClusterPart

LEMMA AdvanceStep ==
    ASSUME SolanaInv, Advance
    PROVE  SolanaInv'
<1>1. ClusterPart' /\ height \in Nat /\ height' = height + 1
    BY SolanaAssumption DEF Advance, SolanaInv, ClusterPart
<1>2. Moves(World, World')
    BY <1>1, MessageFacts DEF Advance, Moves, World, Live
<1> QED
    BY <1>1, <1>2, WalletStill DEF Advance

----------------------------------------------------------------------------
(* The steps of an operation. *)

\* A step that touches neither the records nor the cluster.
LEMMA OpOnly ==
    ASSUME SolanaInv, UNCHANGED <<records, disk, fault, clusterVars, sent, spent>>,
           DOMAIN quotes' \subseteq Quote, \A q \in DOMAIN quotes' : quotes'[q] \in Message
    PROVE  ClusterPart' /\ WalletPart' /\ HasPending' = HasPending
<1>1. ClusterPart' /\ World' = World
    BY DEF SolanaInv, ClusterPart, World, clusterVars
<1>2. WalletPart'
    BY <1>1 DEF SolanaInv, WalletPart, Within
<1> QED
    BY <1>1, <1>2 DEF HasPending

LEMMA QuoteStep ==
    ASSUME SolanaInv, NEW p \in Payee, QuoteTransfer(p)
    PROVE  SolanaInv'
<1>1. /\ UNCHANGED <<records, disk, fault, op, clusterVars, sent, spent>>
      /\ op = Idle
      /\ quoted + 1 \in Quote
      /\ quotes' = [q \in DOMAIN quotes \cup {quoted + 1} |->
                      IF q \in DOMAIN quotes THEN quotes[q] ELSE <<height, p>>]
    BY DEF QuoteTransfer
<1>2. <<height, p>> \in Message
    BY SolanaAssumption DEF SolanaInv, ClusterPart, Message
<1>3. DOMAIN quotes' \subseteq Quote /\ \A q \in DOMAIN quotes' : quotes'[q] \in Message
    BY <1>1, <1>2 DEF SolanaInv, WalletPart
<1>4. ClusterPart' /\ WalletPart'
    BY <1>1, <1>3, OpOnly
<1>5. OpPart'
    BY <1>1 DEF SolanaInv, OpPart, Idle
<1> QED
    BY <1>4, <1>5 DEF SolanaInv

LEMMA SendStartStep ==
    ASSUME SolanaInv, NEW q \in Quote, SendStart(q)
    PROVE  SolanaInv'
<1>1. /\ UNCHANGED <<walletVars, clusterVars, sent, spent>>
      /\ op = Idle /\ ~fault /\ ~HasPending /\ q \in DOMAIN quotes
      /\ op' = [Idle EXCEPT !.step = "checking", !.quote = q]
    BY DEF SendStart
<1>2. ClusterPart' /\ WalletPart' /\ HasPending' = HasPending
    BY <1>1, OpOnly DEF walletVars, SolanaInv, WalletPart
<1>3. op' \in OpSet /\ op'.step = "checking" /\ op'.quote = q
    BY <1>1, SolanaAssumption DEF Idle, OpSet
<1>4. OpPart'
    BY <1>1, <1>2, <1>3 DEF SolanaInv, OpPart, Idle, walletVars
<1> QED
    BY <1>2, <1>4 DEF SolanaInv

LEMMA SendCheckHeightStep ==
    ASSUME SolanaInv, SendCheckHeight
    PROVE  SolanaInv'
<1>1. /\ UNCHANGED <<walletVars, clusterVars, sent, spent>>
      /\ op.step = "checking"
      /\ op' = [op EXCEPT !.step = "checked"]
    BY DEF SendCheckHeight
<1>2. ClusterPart' /\ WalletPart' /\ HasPending' = HasPending
    BY <1>1, OpOnly DEF walletVars, SolanaInv, WalletPart
<1>3. op' \in OpSet /\ op'.step = "checked" /\ op'.quote = op.quote
    BY <1>1 DEF SolanaInv, OpPart, OpSet
<1>4. OpPart'
    BY <1>1, <1>2, <1>3 DEF SolanaInv, OpPart, walletVars
<1> QED
    BY <1>2, <1>4 DEF SolanaInv

LEMMA GiveUpStep ==
    ASSUME SolanaInv, GiveUp
    PROVE  SolanaInv'
<1>1. /\ UNCHANGED <<walletVars, clusterVars, sent, spent>>
      /\ op.step \in {"checking", "checked", "retrying"}
      /\ op' = Idle
    BY DEF GiveUp
<1>2. ClusterPart' /\ WalletPart'
    BY <1>1, OpOnly DEF walletVars, SolanaInv, WalletPart
<1>3. OpPart'
    BY <1>1 DEF SolanaInv, OpPart, Idle, OpSet, walletVars
<1> QED
    BY <1>2, <1>3 DEF SolanaInv

\* Persisting puts a sound list in memory, and in the file unless the write is lost.
LEMMA PersistStep ==
    ASSUME SolanaInv, NEW next, NEW outcome \in WriteOutcome,
           Sound(next, World, sent), Within(disk, next),
           persist(next, outcome), UNCHANGED <<quotes, clusterVars, sent>>
    PROVE  /\ ClusterPart'
           /\ WalletPart'
           /\ records' = next
           /\ Within(disk, disk')
           /\ outcome = "ok" => disk' = next /\ fault' = fault
           /\ outcome # "ok" => fault'
<1>1. /\ spent' \in [fork : Nat, restart : Nat, write : Nat]
      /\ spent'.fork = spent.fork
    BY DEF persist, SolanaInv, ClusterPart
<1>2. ClusterPart' /\ World' = World
    BY <1>1 DEF SolanaInv, ClusterPart, World, clusterVars
<1>3. /\ records' = next
      /\ disk' \in {disk, next}
      /\ fault' \in BOOLEAN
      /\ outcome = "ok" => disk' = next /\ fault' = fault
      /\ outcome # "ok" => fault'
    BY DEF persist, WriteOutcome, SolanaInv, WalletPart
<1>4. Within(next, next) /\ Within(disk, disk) /\ Within(disk, disk')
    BY <1>3 DEF Within
<1>5. /\ Sound(records', World, sent)
      /\ Sound(disk', World, sent)
      /\ Within(disk', records')
    BY <1>3, <1>4 DEF SolanaInv, WalletPart
<1>6. WalletPart'
    BY <1>2, <1>3, <1>5 DEF SolanaInv, WalletPart
<1> QED
    BY <1>2, <1>3, <1>4, <1>6

LEMMA SendAppendStep ==
    ASSUME SolanaInv, NEW outcome \in WriteOutcome, SendAppend(outcome)
    PROVE  SolanaInv' /\ Within(disk, disk')
<1> DEFINE t == Append(records, NewRecord)
<1>1. /\ op.step = "checked"
      /\ persist(t, outcome)
      /\ op' = IF outcome = "ok"
               THEN [op EXCEPT !.step = "broadcasting", !.at = Len(records) + 1]
               ELSE Idle
      /\ UNCHANGED <<quotes, clusterVars, sent>>
    BY DEF SendAppend
<1>2. /\ ~fault /\ ~HasPending /\ op.quote \in DOMAIN quotes
      /\ op.quote \in Quote /\ quotes[op.quote] \in Message
      /\ Sound(records, World, sent) /\ Within(disk, records)
    BY <1>1 DEF SolanaInv, OpPart, WalletPart
<1>3. NewRecord \in Record /\ ~NewRecord.final /\ Tells(NewRecord, World)
    BY <1>2 DEF NewRecord, Record, State, Tells
<1>4. \A i \in DOMAIN records : records[i] \in Record
    BY <1>2, ElementOfSeq, LenProperties DEF Sound
<1>5. ASSUME NEW i \in DOMAIN records, ~World.forked
      PROVE  ~Live(records[i].msg, World)
    <2>1. records[i].final \/ records[i].state \in {"expired_unconfirmed", "execution_failed"}
        BY <1>2 DEF HasPending
    <2> QED
        BY <1>2, <1>5, <2>1 DEF Sound, Tells, Live, Landed
<1>6. Sound(t, World, sent)
    BY <1>2, <1>3, <1>5, SoundAppend
<1>7. /\ DOMAIN t = DOMAIN records \cup {Len(records) + 1}
      /\ t[Len(records) + 1] = NewRecord
      /\ \A j \in DOMAIN records : t[j] = records[j]
    BY <1>2, <1>3, Appended DEF Sound
<1>8. Len(records) + 1 \in Nat
    BY <1>2, LenProperties DEF Sound
<1> HIDE DEF t
<1>9. Within(disk, t)
    BY <1>2, <1>7 DEF Within
<1>10. /\ ClusterPart'
       /\ WalletPart'
       /\ records' = t
       /\ Within(disk, disk')
       /\ outcome = "ok" => disk' = t /\ fault' = fault
       /\ outcome # "ok" => fault'
    BY <1>1, <1>6, <1>9, PersistStep
<1>11. OpPart'
    <2>1. CASE outcome = "ok"
        <3> DEFINE n == Len(records) + 1
        <3>1. op' = [op EXCEPT !.step = "broadcasting", !.at = n] /\ n \in Nat
            BY <1>1, <1>8, <2>1
        <3>2. n \in DOMAIN t /\ ~t[n].final
            BY <1>3, <1>7
        <3> HIDE DEF n
        <3>3. op' \in OpSet /\ op'.step = "broadcasting" /\ op'.at = n
            BY <3>1 DEF SolanaInv, OpPart, OpSet
        <3> QED
            BY <1>2, <1>10, <2>1, <3>2, <3>3 DEF OpPart
    <2>2. CASE outcome # "ok"
        BY <1>1, <1>10, <2>2 DEF OpPart, Idle, OpSet
    <2> QED
        BY <2>1, <2>2
<1> QED
    BY <1>10, <1>11 DEF SolanaInv

LEMMA RetryStartStep ==
    ASSUME SolanaInv, NEW i \in DOMAIN records, RetryStart(i)
    PROVE  SolanaInv'
<1>1. /\ UNCHANGED <<walletVars, clusterVars, sent, spent>>
      /\ op = Idle /\ ~fault /\ ~records[i].final
      /\ op' = [Idle EXCEPT !.step = "retrying", !.at = i]
    BY DEF RetryStart
<1>2. ClusterPart' /\ WalletPart'
    BY <1>1, OpOnly DEF walletVars, SolanaInv, WalletPart
<1>3. i \in Nat
    BY LenProperties DEF SolanaInv, WalletPart, Sound
<1>4. op' \in OpSet /\ op'.step = "retrying" /\ op'.at = i
    BY <1>1, <1>3 DEF Idle, OpSet
<1>5. OpPart'
    BY <1>1, <1>4 DEF SolanaInv, OpPart, Idle, walletVars
<1> QED
    BY <1>2, <1>5 DEF SolanaInv

\* What is broadcast is on disk: no write failed, so the file is as memory.
LEMMA BroadcastStep ==
    ASSUME SolanaInv, NEW accepted \in BOOLEAN, Broadcast(accepted)
    PROVE  SolanaInv'
<1> DEFINE m == records[op.at].msg
<1>1. /\ op.step \in {"broadcasting", "retrying"}
      /\ SendTransaction(m, accepted)
      /\ op' = IF accepted THEN [op EXCEPT !.step = "accepted"] ELSE Idle
      /\ UNCHANGED <<walletVars, spent>>
    BY DEF Broadcast
<1>2. /\ ~fault /\ op.at \in DOMAIN records /\ ~records[op.at].final
      /\ disk = records /\ op \in OpSet
      /\ Sound(records, World, sent)
    BY <1>1 DEF SolanaInv, OpPart, WalletPart
<1>3. m \in Message
    <2>1. records[op.at] \in Record
        BY <1>2, ElementOfSeq, LenProperties DEF Sound
    <2> QED
        BY <2>1 DEF Record
<1>4. /\ sent' = sent \cup {m}
      /\ UNCHANGED <<height, failed>>
      /\ \/ status' = status
         \/ status[m] = "unknown" /\ status' = [status EXCEPT ![m] = "pooled"]
    BY <1>1 DEF SendTransaction
<1>5. InRecords(records, m)
    BY <1>2 DEF InRecords
<1> HIDE DEF m
<1>6. ClusterPart'
    BY <1>1, <1>3, <1>4 DEF SolanaInv, ClusterPart, Status
<1>7. Moves(World, World')
    BY <1>1, <1>3, <1>4 DEF SolanaInv, ClusterPart, Moves, World, Live, Landed
<1>8. Sound(records, World', sent)
    BY <1>2, <1>7, SoundStill
<1>9. Sound(records, World', sent')
    BY <1>4, <1>5, <1>8 DEF Sound
<1>10. WalletPart'
    BY <1>1, <1>2, <1>9 DEF SolanaInv, WalletPart, Within, walletVars
<1>11. OpPart'
    <2>1. CASE accepted
        <3>1. op' \in OpSet /\ op'.step = "accepted" /\ op'.at = op.at
            BY <1>1, <1>2, <2>1 DEF OpSet
        <3> QED
            BY <1>1, <1>2, <3>1 DEF OpPart, walletVars
    <2>2. CASE ~accepted
        BY <1>1, <1>2, <2>2 DEF OpPart, Idle, OpSet, walletVars
    <2> QED
        BY <2>1, <2>2
<1> QED
    BY <1>6, <1>10, <1>11 DEF SolanaInv

LEMMA RecordAcceptedStep ==
    ASSUME SolanaInv, NEW outcome \in WriteOutcome, RecordAccepted(outcome)
    PROVE  SolanaInv' /\ Within(disk, disk')
<1> DEFINE r == [records[op.at] EXCEPT !.state = "submitted"]
           t == [records EXCEPT ![op.at] = r]
<1>1. /\ op.step = "accepted"
      /\ persist([records EXCEPT ![op.at].state = "submitted"], outcome)
      /\ op' = Idle
      /\ UNCHANGED <<quotes, clusterVars, sent>>
    BY DEF RecordAccepted
<1>2. /\ op.at \in DOMAIN records /\ ~records[op.at].final
      /\ Sound(records, World, sent) /\ Within(disk, records)
    BY <1>1 DEF SolanaInv, OpPart, WalletPart
<1>3. persist(t, outcome)
    BY <1>1
<1>4. records[op.at] \in Record /\ records \in Seq(Record)
    BY <1>2, ElementOfSeq, LenProperties DEF Sound
<1>5. /\ r \in Record /\ r.msg = records[op.at].msg /\ r.state = "submitted"
      /\ r.final = records[op.at].final
    BY <1>4 DEF Record, State
<1> HIDE DEF r
<1>6. Tells(r, World)
    BY <1>2, <1>5 DEF Tells
<1>7. Sound(t, World, sent)
    BY <1>2, <1>5, <1>6, SoundReplace
<1>8. /\ DOMAIN t = DOMAIN records
      /\ t[op.at] = r
      /\ \A j \in DOMAIN records : j # op.at => t[j] = records[j]
    BY <1>2, <1>4, <1>5, Replaced
<1> HIDE DEF t
<1>9. Within(disk, t)
    BY <1>2, <1>5, <1>8 DEF Within
<1>10. /\ ClusterPart'
       /\ WalletPart'
       /\ records' = t
       /\ Within(disk, disk')
       /\ outcome = "ok" => disk' = t /\ fault' = fault
       /\ outcome # "ok" => fault'
    BY <1>1, <1>3, <1>7, <1>9, PersistStep
<1>11. OpPart'
    BY <1>1, <1>10 DEF OpPart, Idle, OpSet
<1> QED
    BY <1>10, <1>11 DEF SolanaInv

----------------------------------------------------------------------------
(* History, and the restart. *)

LEMMA HistoryStartStep ==
    ASSUME SolanaInv, HistoryStart
    PROVE  SolanaInv'
<1>1. UNCHANGED <<walletVars, clusterVars, sent, spent>> /\ op = Idle
    BY DEF HistoryStart
<1>2. PICK seen \in {0, height} :
         op' = [Idle EXCEPT !.step = "refreshing", !.at = 1, !.height = seen]
    BY DEF HistoryStart
<1>3. ClusterPart' /\ WalletPart'
    BY <1>1, OpOnly DEF walletVars, SolanaInv, WalletPart
<1>4. seen \in Nat /\ seen <= height
    BY DEF SolanaInv, ClusterPart
<1>5. op' \in OpSet /\ op'.step = "refreshing" /\ op'.height = seen /\ ~op'.changed
    BY <1>2, <1>4 DEF Idle, OpSet
<1>6. OpPart'
    BY <1>1, <1>4, <1>5 DEF SolanaInv, OpPart, Idle, walletVars, clusterVars
<1> QED
    BY <1>3, <1>6 DEF SolanaInv

LEMMA HistorySkipStep ==
    ASSUME SolanaInv, HistorySkip
    PROVE  SolanaInv'
<1>1. /\ UNCHANGED <<walletVars, clusterVars, sent, spent>>
      /\ op.step = "refreshing"
      /\ op' = [op EXCEPT !.at = @ + 1]
    BY DEF HistorySkip, NextRecord
<1>2. ClusterPart' /\ WalletPart'
    BY <1>1, OpOnly DEF walletVars, SolanaInv, WalletPart
<1>3. /\ op' \in OpSet /\ op'.step = "refreshing"
      /\ op'.height = op.height /\ op'.changed = op.changed
    BY <1>1 DEF SolanaInv, OpPart, OpSet
<1>4. OpPart'
    BY <1>1, <1>3 DEF SolanaInv, OpPart, walletVars, clusterVars
<1> QED
    BY <1>2, <1>4 DEF SolanaInv

\* What History makes of a record is true: a height that is past the blockhash's last
\* one was read before the status, so a message without one can no longer land.
LEMMA ObservedTells ==
    ASSUME SolanaInv, op.step = "refreshing", NEW r \in Record, Tells(r, World), ~r.final
    PROVE  Observed(r) \in Record /\ Observed(r).msg = r.msg /\ Tells(Observed(r), World)
<1>1. r.msg \in Message /\ LastValid(r.msg) \in Nat
    BY MessageFacts DEF Record
<1>2. op.height \in Nat /\ op.height <= height /\ height \in Nat
    BY DEF SolanaInv, OpPart, OpSet, ClusterPart
<1>3. CASE status[r.msg] \in Landed
    <2> DEFINE state == IF r.msg \in failed THEN "execution_failed" ELSE status[r.msg]
               final == (status[r.msg] = "finalized")
    <2>1. Observed(r) = [r EXCEPT !.state = state, !.final = final]
        BY <1>3 DEF Observed
    <2>2. state \in State /\ final \in BOOLEAN /\ state # "expired_unconfirmed"
        BY <1>3 DEF State, Landed
    <2>3. final => /\ status[r.msg] = "finalized"
                   /\ state = IF r.msg \in failed THEN "execution_failed" ELSE "finalized"
        OBVIOUS
    <2> HIDE DEF state, final
    <2>4. /\ Observed(r) \in Record /\ Observed(r).msg = r.msg
          /\ Observed(r).state = state /\ Observed(r).final = final
        BY <2>1, <2>2 DEF Record
    <2> QED
        BY <1>3, <2>2, <2>3, <2>4 DEF Tells, World
<1>4. CASE status[r.msg] \notin Landed
    <2> DEFINE state == IF op.height > LastValid(r.msg) THEN "expired_unconfirmed" ELSE r.state
    <2>1. Observed(r) = [r EXCEPT !.state = state, !.final = FALSE]
        BY <1>4 DEF Observed
    <2>2. state \in State
        BY DEF State, Record
    <2>3. \/ state = r.state
          \/ state = "expired_unconfirmed" /\ ~(height < LastValid(r.msg))
        BY <1>1, <1>2
    <2> HIDE DEF state
    <2>4. /\ Observed(r) \in Record /\ Observed(r).msg = r.msg
          /\ Observed(r).state = state /\ Observed(r).final = FALSE
        BY <2>1, <2>2 DEF Record
    <2> QED
        BY <1>4, <2>3, <2>4 DEF Tells, World, Live
<1> QED
    BY <1>3, <1>4

LEMMA HistoryQueryStep ==
    ASSUME SolanaInv, HistoryQuery
    PROVE  SolanaInv'
<1> DEFINE r == records[op.at]
           t == [records EXCEPT ![op.at] = Observed(r)]
<1>1. /\ op.step = "refreshing" /\ op.at \in DOMAIN records /\ ~r.final
      /\ records' = t
      /\ op' = [op EXCEPT !.at = @ + 1, !.changed = TRUE]
      /\ UNCHANGED <<disk, fault, quotes, quoted, clusterVars, sent, spent>>
    BY DEF HistoryQuery, NextRecord
<1>2. Sound(records, World, sent) /\ Within(disk, records) /\ op \in OpSet /\ op.height <= height
    BY <1>1 DEF SolanaInv, OpPart, WalletPart
<1>3. r \in Record /\ Tells(r, World) /\ records \in Seq(Record)
    BY <1>1, <1>2, ElementOfSeq, LenProperties DEF Sound
<1>4. Observed(r) \in Record /\ Observed(r).msg = r.msg /\ Tells(Observed(r), World)
    BY <1>1, <1>3, ObservedTells
<1>5. Sound(t, World, sent)
    BY <1>1, <1>2, <1>4, SoundReplace
<1>6. /\ DOMAIN t = DOMAIN records
      /\ t[op.at] = Observed(r)
      /\ \A j \in DOMAIN records : j # op.at => t[j] = records[j]
    BY <1>1, <1>3, <1>4, Replaced
<1> HIDE DEF t
<1>7. Within(disk, t)
    <2> SUFFICES ASSUME NEW i \in DOMAIN disk
                 PROVE  i \in DOMAIN t /\ disk[i].msg = t[i].msg /\ (disk[i].final => t[i] = disk[i])
        BY DEF Within
    <2>1. i \in DOMAIN records /\ disk[i].msg = records[i].msg
          /\ (disk[i].final => records[i] = disk[i])
        BY <1>2 DEF Within
    <2>2. CASE i = op.at
        BY <1>1, <1>4, <1>6, <2>1, <2>2
    <2>3. CASE i # op.at
        BY <1>6, <2>1, <2>3
    <2> QED
        BY <2>2, <2>3
<1>8. ClusterPart' /\ World' = World
    BY <1>1 DEF SolanaInv, ClusterPart, World, clusterVars
<1>9. WalletPart'
    BY <1>1, <1>5, <1>7, <1>8 DEF SolanaInv, WalletPart
<1>10. /\ op' \in OpSet /\ op'.step = "refreshing"
       /\ op'.height = op.height /\ op'.changed = TRUE
    <2> DEFINE n == op.at + 1
    <2>1. op' = [op EXCEPT !.at = n, !.changed = TRUE] /\ n \in Nat
        BY <1>1, <1>2 DEF OpSet
    <2> HIDE DEF n
    <2> QED
        BY <1>1, <1>2, <2>1 DEF OpSet
<1>11. OpPart'
    BY <1>1, <1>2, <1>10 DEF OpPart, clusterVars
<1> QED
    BY <1>8, <1>9, <1>11 DEF SolanaInv

LEMMA HistoryEndStep ==
    ASSUME SolanaInv, NEW outcome \in WriteOutcome, HistoryEnd(outcome)
    PROVE  SolanaInv' /\ Within(disk, disk')
<1>1. /\ op.step = "refreshing"
      /\ op' = Idle
      /\ UNCHANGED <<quotes, clusterVars, sent>>
    BY DEF HistoryEnd
<1>2. Sound(records, World, sent) /\ Within(disk, records)
    BY DEF SolanaInv, WalletPart
<1>3. CASE op.changed /\ persist(records, outcome)
    <2>1. /\ ClusterPart'
          /\ WalletPart'
          /\ records' = records
          /\ Within(disk, disk')
          /\ outcome = "ok" => disk' = records /\ fault' = fault
          /\ outcome # "ok" => fault'
        BY <1>1, <1>2, <1>3, PersistStep
    <2>2. OpPart'
        BY <1>1, <2>1 DEF OpPart, Idle, OpSet
    <2> QED
        BY <2>1, <2>2 DEF SolanaInv
<1>4. CASE ~op.changed /\ UNCHANGED <<records, disk, fault, spent>>
    <2>1. ClusterPart' /\ WalletPart' /\ Within(disk, disk')
        BY <1>1, <1>4, OpOnly DEF SolanaInv, WalletPart, Within
    <2>2. OpPart'
        BY <1>1, <1>4 DEF SolanaInv, OpPart, Idle, OpSet
    <2> QED
        BY <2>1, <2>2 DEF SolanaInv
<1> QED
    BY <1>3, <1>4 DEF HistoryEnd

LEMMA RestartStep ==
    ASSUME SolanaInv, Restart
    PROVE  SolanaInv'
<1>1. /\ records' = disk /\ disk' = disk /\ fault' = FALSE /\ op' = Idle
      /\ quotes' = [q \in {} |-> <<>>]
      /\ spent' = [spent EXCEPT !.restart = @ + 1]
      /\ UNCHANGED <<clusterVars, sent>>
    BY DEF Restart
<1>2. spent' \in [fork : Nat, restart : Nat, write : Nat] /\ spent'.fork = spent.fork
    BY <1>1 DEF SolanaInv, ClusterPart
<1>3. ClusterPart' /\ World' = World
    BY <1>1, <1>2 DEF SolanaInv, ClusterPart, World, clusterVars
<1>4. WalletPart'
    BY <1>1, <1>3 DEF SolanaInv, WalletPart, Within
<1>5. OpPart'
    BY <1>1 DEF OpPart, Idle, OpSet
<1> QED
    BY <1>3, <1>4, <1>5 DEF SolanaInv

----------------------------------------------------------------------------
(* The theorems. *)

\* Any step keeps the invariant, and the file's final records as they are.
LEMMA NextSolanaInv == SolanaInv /\ [Next]_vars => SolanaInv' /\ Within(disk, disk')
<1> SUFFICES ASSUME SolanaInv, [Next]_vars PROVE SolanaInv' /\ Within(disk, disk')
    OBVIOUS
<1>0. disk' = disk => Within(disk, disk')
    BY DEF Within
<1>1. CASE Cluster
    <2>1. disk' = disk
        BY <1>1 DEF Cluster, Deliver, Process, Fork, Confirm, Advance, walletVars
    <2> QED
        BY <1>0, <1>1, <2>1, DeliverStep, ProcessStep, ForkStep, ConfirmStep, AdvanceStep
        DEF Cluster
<1>2. CASE Sending
    <2>1. \/ \E outcome \in WriteOutcome : SendAppend(outcome) \/ RecordAccepted(outcome)
          \/ disk' = disk
        BY <1>2 DEF Sending, QuoteTransfer, SendStart, SendCheckHeight, GiveUp, RetryStart,
                    Broadcast, walletVars
    <2>2. CASE \E outcome \in WriteOutcome : SendAppend(outcome) \/ RecordAccepted(outcome)
        BY <2>2, SendAppendStep, RecordAcceptedStep
    <2>3. CASE disk' = disk
        BY <1>0, <1>2, <2>3, QuoteStep, SendStartStep, SendCheckHeightStep, GiveUpStep,
           SendAppendStep, RetryStartStep, BroadcastStep, RecordAcceptedStep DEF Sending
    <2> QED
        BY <2>1, <2>2, <2>3
<1>3. CASE Refreshing
    <2>1. (\E outcome \in WriteOutcome : HistoryEnd(outcome)) \/ disk' = disk
        BY <1>3 DEF Refreshing, HistoryStart, HistorySkip, HistoryQuery, walletVars
    <2>2. CASE \E outcome \in WriteOutcome : HistoryEnd(outcome)
        BY <2>2, HistoryEndStep
    <2>3. CASE disk' = disk
        BY <1>0, <1>3, <2>3, HistoryStartStep, HistorySkipStep, HistoryQueryStep, HistoryEndStep
        DEF Refreshing
    <2> QED
        BY <2>1, <2>2, <2>3
<1>4. CASE UNCHANGED vars
    <2>1. UNCHANGED <<walletVars, clusterVars, sent, spent, op>>
        BY <1>4 DEF vars
    <2>2. ClusterPart' /\ WalletPart' /\ HasPending' = HasPending
        BY <2>1, OpOnly DEF walletVars, SolanaInv, WalletPart
    <2>3. OpPart'
        BY <2>1, <2>2 DEF SolanaInv, OpPart, walletVars, clusterVars
    <2> QED
        BY <1>0, <2>1, <2>2, <2>3 DEF SolanaInv, walletVars
<1>5. CASE Restart
    BY <1>0, <1>5, RestartStep DEF Restart
<1> QED
    BY <1>1, <1>2, <1>3, <1>4, <1>5 DEF Next

\* The invariant holds throughout, whatever the cluster does, whichever writes fail and
\* whenever the process of NewSolanaService is killed.
THEOREM SolanaInvariant == Spec => []SolanaInv
BY InitSolanaInv, NextSolanaInv, PTL DEF Spec

\* transactions.json has every transfer that Send or Retry handed to the RPC, and the
\* wallet stops accepting operations once memory is ahead of it.
THEOREM DiskIsEnough == Spec => []DiskSuffices
<1>1. SolanaInv => DiskSuffices
    BY DEF SolanaInv, WalletPart, OpPart, Sound, DiskSuffices, SentIsStored, FaultOrSaved
<1> QED
    BY <1>1, SolanaInvariant, PTL

\* What Send and History say is over, in memory or on disk, is over on the cluster and
\* ended as they say.
THEOREM OutcomesHold == Spec => []OutcomesAreTrue
<1>1. ASSUME SolanaInv PROVE OutcomesAreTrue
    <2>1. \A r \in Stored : Tells(r, World)
        BY <1>1 DEF SolanaInv, WalletPart, Sound, Stored
    <2> QED
        BY <2>1 DEF Tells, World, Live, Valid, OutcomesAreTrue, ExpiredNeverLands, FinalIsTrue
<1> QED
    BY <1>1, SolanaInvariant, PTL

\* As long as no fork undid a block, the gate of hasPending lets one transfer at most be
\* still executable.
THEOREM OneCanStillPay == Spec => []OneUnlessForked
<1>1. ASSUME SolanaInv, spent.fork = 0 PROVE OneOutstanding
    <2>1. Sound(records, World, sent) /\ ~World.forked
        BY <1>1 DEF SolanaInv, WalletPart, World
    <2>2. ASSUME NEW m \in Message, CanStillPay(m)
          PROVE  Live(m, World) /\ InRecords(records, m)
        BY <2>1, <2>2 DEF CanStillPay, Live, World, Valid, Landed, Sound
    <2> QED
        BY <2>1, <2>2 DEF OneOutstanding, Sound, OneLive, InRecords
<1> QED
    BY <1>1, SolanaInvariant, PTL DEF OneUnlessForked

\* Send takes the next transfer after hasPending only: whatever can still be executed
\* then is a transfer that History saw fail, forks or not.
LEMMA AppendBesideFailed ==
    ASSUME SolanaInv, [Next]_vars, Len(records') > Len(records),
           NEW m \in Message, CanStillPay(m)
    PROVE  /\ InRecords(records, m)
           /\ \A i \in DOMAIN records :
                records[i].msg = m => records[i].state = "execution_failed"
<1>1. /\ Sound(records, World, sent) /\ Sound(disk, World, sent) /\ Within(disk, records)
      /\ records \in Seq(Record) /\ disk \in Seq(Record)
    BY DEF SolanaInv, WalletPart, Sound
<1>2. Len(disk) <= Len(records) /\ Len(records) \in Nat
    <2> DEFINE a == Len(disk)
               b == Len(records)
    <2>1. a \in Nat /\ b \in Nat /\ DOMAIN disk = 1..a /\ DOMAIN records = 1..b
        BY <1>1, LenProperties
    <2> HIDE DEF a, b
    <2>2. \A i \in 1..a : i \in 1..b
        BY <1>1, <2>1 DEF Within
    <2>3. a <= b
        BY <2>1, <2>2
    <2> QED
        BY <2>1, <2>3 DEF a, b
<1>3. \E outcome \in WriteOutcome : SendAppend(outcome)
    <2>1. ASSUME NEW outcome \in WriteOutcome, RecordAccepted(outcome)
          PROVE  FALSE
        <3>1. records' = [records EXCEPT ![op.at].state = "submitted"]
            BY <2>1 DEF RecordAccepted, persist
        <3>2. op.at \in DOMAIN records /\ records[op.at] \in Record
            BY <1>1, <2>1, ElementOfSeq, LenProperties DEF RecordAccepted, SolanaInv, OpPart
        <3> DEFINE r == [records[op.at] EXCEPT !.state = "submitted"]
        <3>3. r \in Record
            BY <3>2 DEF Record, State
        <3>4. Len([records EXCEPT ![op.at] = r]) = Len(records)
            BY <1>1, <3>2, <3>3, ExceptSeq, LenProperties
        <3> QED
            BY <1>2, <3>1, <3>4
    <2>2. ASSUME HistoryQuery
          PROVE  FALSE
        <3> DEFINE r == Observed(records[op.at])
        <3>1. /\ records' = [records EXCEPT ![op.at] = r]
              /\ op.at \in DOMAIN records /\ op.step = "refreshing" /\ ~records[op.at].final
            BY <2>2 DEF HistoryQuery
        <3>2. records[op.at] \in Record /\ Tells(records[op.at], World)
            BY <1>1, <3>1, ElementOfSeq, LenProperties DEF Sound
        <3>3. r \in Record
            BY <3>1, <3>2, ObservedTells
        <3> HIDE DEF r
        <3>4. Len([records EXCEPT ![op.at] = r]) = Len(records)
            BY <1>1, <3>1, <3>3, ExceptSeq, LenProperties
        <3> QED
            BY <1>2, <3>1, <3>4
    <2>3. records' # records /\ records' # disk
        BY <1>2
    <2>4. ~Cluster /\ ~Restart /\ ~(UNCHANGED vars)
        BY <2>3 DEF Cluster, Deliver, Process, Fork, Confirm, Advance, Restart, walletVars, vars
    <2>5. CASE Sending
        BY <2>1, <2>3, <2>5 DEF Sending, QuoteTransfer, SendStart, SendCheckHeight, GiveUp,
                                RetryStart, Broadcast, walletVars
    <2>6. CASE Refreshing
        BY <2>2, <2>3, <2>6 DEF Refreshing, HistoryStart, HistorySkip, HistoryEnd, persist,
                                walletVars
    <2> QED
        BY <2>4, <2>5, <2>6 DEF Next
<1>4. ~HasPending
    BY <1>3 DEF SendAppend, SolanaInv, OpPart
<1>5. InRecords(records, m)
    BY <1>1 DEF CanStillPay, Sound
<1>6. ASSUME NEW i \in DOMAIN records, records[i].msg = m
      PROVE  records[i].state = "execution_failed"
    <2>1. records[i].final \/ records[i].state \in {"expired_unconfirmed", "execution_failed"}
        BY <1>4 DEF HasPending
    <2>2. Tells(records[i], World) /\ Live(m, World)
        BY <1>1 DEF Sound, CanStillPay, Live, World, Valid, Landed
    <2>3. records[i].state # "expired_unconfirmed" /\ ~records[i].final
        BY <1>6, <2>2 DEF Tells, Live, World, Landed
    <2> QED
        BY <2>1, <2>3
<1> QED
    BY <1>5, <1>6

\* What the gate of hasPending still promises when a fork undid a failed execution: no
\* transfer is recorded beside one that can still pay and was not seen to fail.
THEOREM NextBesideFailed == Spec => AppendsBesideFailed
<1>1. SolanaInv /\ [Next]_vars =>
        [Len(records') > Len(records) =>
            \A m \in Message : CanStillPay(m) =>
               /\ InRecords(records, m)
               /\ \A i \in DOMAIN records :
                     records[i].msg = m => records[i].state = "execution_failed"]_vars
    BY AppendBesideFailed
<1> QED
    BY <1>1, SolanaInvariant, PTL DEF AppendsBesideFailed, Spec

\* No save of Send, Retry or History undoes a final record of transactions.json, and no
\* restart does.
THEOREM FinalStaysOnDisk == Spec => FinalOnDisk
<1>1. SolanaInv /\ [Next]_vars =>
        [\A i \in DOMAIN disk : disk[i].final => i \in DOMAIN disk' /\ disk'[i] = disk[i]]_vars
    BY NextSolanaInv DEF Within
<1> QED
    BY <1>1, SolanaInvariant, PTL DEF FinalOnDisk, Spec

=============================================================================
