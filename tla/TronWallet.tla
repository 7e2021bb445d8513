----------------------------- MODULE TronWallet -----------------------------
(***************************************************************************)
(* The TRON Shasta wallet, TronService of internal/wallet/tron.go: Quote,  *)
(* Send, Retry and History over transactions.json, with the chain, failing *)
(* writes and a process that is killed.  Every operation holds s.mu from   *)
(* start to end (`op'), while the chain moves between its RPC calls.       *)
(*                                                                         *)
(* save writes the file first, and memory follows only a write that        *)
(* reported success.                                                       *)
(*                                                                         *)
(* What is abstracted:                                                     *)
(*  - a transaction is its quote (its bytes hold the quote's milliseconds) *)
(*    with the expiration signed into it;                                  *)
(*  - balance, energy, password, a failing RPC and the local clock's       *)
(*    checks are the choice to give up, to abort or to skip a query;       *)
(*  - the chain is external.  `clock' is the time of its head block,       *)
(*    `solid' that of the newest solidified one, which the Solidity node   *)
(*    serves; a transaction is taken into the next block if the head's     *)
(*    time is before its expiration; a fork produces the blocks after      *)
(*    the solid one again.  All answers come from one node.                *)
(***************************************************************************)
EXTENDS Integers, Sequences

CONSTANTS
    Quote,           \* quote IDs
    Window,          \* longest time from head to expiration (60 s, the head 120 s old)
    MaxTime,         \* bound on block times
    MaxRecords,      \* capacity of transactions.json (1000)
    MaxForks,        \* bound: forks
    MaxRestarts,     \* bound: times the process is killed
    MaxWriteErrors   \* bound: failed writes

ASSUME TronAssumption ==
    /\ Quote \subseteq Nat
    /\ {Window, MaxTime, MaxRecords, MaxForks, MaxRestarts, MaxWriteErrors} \subseteq Nat

VARIABLES
    records,     \* s.records
    disk,        \* transactions.json
    fault,       \* s.fault
    quotes,      \* s.quotes: quote IDs
    expires,     \* [quote ID -> expiration], 0 until quoted
    op,          \* the operation holding s.mu
    clock,       \* external: time of the head block
    solid,       \* external: time of the newest solidified block
    block,       \* external: [quote ID -> time of the block its transaction is in, or 0]
    failed,      \* external: transactions whose execution failed
    sent,        \* history: transactions handed to the RPC
    spent        \* forks, restarts and write errors so far

walletVars == <<records, disk, fault, quotes, expires>>
chainVars == <<clock, solid, block, failed>>
vars == <<walletVars, op, chainVars, sent, spent>>

State == {"broadcast_unknown", "submitted", "finalized", "execution_failed", "expired_unconfirmed"}

\* `checked' is ExpiryCheckedAt, the solidified head's time at the last look at an
\* expired record.
Record == [quote : Quote, state : State, final : BOOLEAN, checked : Nat]

WriteOutcome == {"ok", "lost", "kept"}
Idle == [step |-> "idle", quote |-> 0, at |-> 0, next |-> <<>>, head |-> 0, accepted |-> FALSE]

----------------------------------------------------------------------------
(* The chain. *)

HasReceipt(q) == block[q] # 0 /\ block[q] <= solid

\* A block, with or without a transaction that was broadcast.
Produce ==
    /\ clock < MaxTime
    /\ clock' = clock + 1
    /\ \/ UNCHANGED <<block, failed>>
       \/ \E q \in sent :
            /\ block[q] = 0
            /\ clock < expires[q]
            /\ block' = [block EXCEPT ![q] = clock + 1]
            /\ failed' \in {failed, failed \cup {q}}
    /\ UNCHANGED <<walletVars, op, solid, sent, spent>>

Solidify ==
    /\ solid < clock
    /\ solid' = solid + 1
    /\ UNCHANGED <<walletVars, op, clock, block, failed, sent, spent>>

Fork ==
    /\ solid < clock
    /\ spent.fork < MaxForks
    /\ spent' = [spent EXCEPT !.fork = @ + 1]
    /\ clock' = solid
    /\ block' = [q \in Quote |-> IF block[q] > solid THEN 0 ELSE block[q]]
    /\ failed' = {q \in failed : block[q] <= solid}
    /\ UNCHANGED <<walletVars, op, solid, sent>>

----------------------------------------------------------------------------
(* The journal. *)

\* Mutant: memory follows a write that reported an error.
save_MemoryAnyway(next, outcome) ==
    /\ outcome # "ok" => spent.write < MaxWriteErrors
    /\ spent' = IF outcome = "ok" THEN spent ELSE [spent EXCEPT !.write = @ + 1]
    /\ disk' = IF outcome = "lost" THEN disk ELSE next
    /\ records' = next
    /\ fault' = (fault \/ outcome # "ok")

\* Mutant: an unanswered broadcast is not waited for.
pending_SubmittedOnly == \E i \in DOMAIN records : records[i].state = "submitted"

pending ==
    \E i \in DOMAIN records :
        ~records[i].final /\ records[i].state # "expired_unconfirmed"

save(next, outcome) ==
    /\ outcome # "ok" => spent.write < MaxWriteErrors
    /\ spent' = IF outcome = "ok" THEN spent ELSE [spent EXCEPT !.write = @ + 1]
    /\ disk' = IF outcome = "lost" THEN disk ELSE next
    /\ records' = IF outcome = "ok" THEN next ELSE records
    /\ fault' = (fault \/ outcome # "ok")

----------------------------------------------------------------------------
(* Quote and Send. *)

\* The expiration is set by the local clock, so it is some time after the head.
QuoteTransfer(q, expiration) ==
    /\ op = Idle
    /\ ~fault
    /\ ~pending
    /\ Len(records) < MaxRecords
    /\ expires[q] = 0
    /\ expires' = [expires EXCEPT ![q] = expiration]
    /\ quotes' = quotes \cup {q}
    /\ UNCHANGED <<records, disk, fault, op, chainVars, sent, spent>>

\* A quote that has a record is answered from it and changes nothing.
SendStart(q) ==
    /\ op = Idle
    /\ \A i \in DOMAIN records : records[i].quote # q
    /\ ~fault
    /\ ~pending
    /\ Len(records) < MaxRecords
    /\ q \in quotes
    /\ op' = [Idle EXCEPT !.step = "signing", !.quote = q]
    /\ UNCHANGED <<walletVars, chainVars, sent, spent>>

NewRecord ==
    [quote |-> op.quote, state |-> "broadcast_unknown", final |-> FALSE, checked |-> 0]

\* Mutant: the transaction is broadcast before its record is saved.
SendAppend_BroadcastFirst(outcome) ==
    /\ op.step = "signing"
    /\ save(Append(records, NewRecord), outcome)
    /\ sent' = sent \cup {op.quote}
    /\ op' = Idle
    /\ UNCHANGED <<quotes, expires, chainVars>>

\* Signed and saved; the quote is spent only then.
SendAppend(outcome) ==
    /\ op.step = "signing"
    /\ save(Append(records, NewRecord), outcome)
    /\ quotes' = IF outcome = "ok" THEN quotes \ {op.quote} ELSE quotes
    /\ op' = IF outcome = "ok"
             THEN [op EXCEPT !.step = "broadcasting", !.at = Len(records) + 1]
             ELSE Idle
    /\ UNCHANGED <<expires, chainVars, sent>>

GiveUp ==
    /\ op.step \in {"signing", "broadcasting"}
    /\ op' = Idle
    /\ UNCHANGED <<walletVars, chainVars, sent, spent>>

----------------------------------------------------------------------------
(* Retry, and the broadcast it shares with Send. *)

RetryStart(i) ==
    /\ op = Idle
    /\ ~fault
    /\ i \in DOMAIN records
    /\ ~records[i].final
    /\ records[i].state # "expired_unconfirmed"
    /\ op' = [Idle EXCEPT !.step = "broadcasting", !.at = i]
    /\ UNCHANGED <<walletVars, chainVars, sent, spent>>

\* broadcasthex: the node may get the transaction whatever it answers.
Broadcast(accepted) ==
    /\ op.step = "broadcasting"
    /\ sent' = sent \cup {records[op.at].quote}
    /\ op' = [op EXCEPT !.step = "answered", !.accepted = accepted]
    /\ UNCHANGED <<walletVars, chainVars, spent>>

RecordAnswer(outcome) ==
    /\ op.step = "answered"
    /\ save([records EXCEPT ![op.at].state =
                IF op.accepted THEN "submitted" ELSE "broadcast_unknown"], outcome)
    /\ op' = Idle
    /\ UNCHANGED <<quotes, expires, chainVars, sent>>

----------------------------------------------------------------------------
(* History works on a copy of the records: for each that is not final, the *)
(* solidified head, if the local clock says it expired, and then its       *)
(* receipt.  Any error ends it and throws the copy away.                   *)

HistoryStart ==
    /\ op = Idle
    /\ op' = [Idle EXCEPT !.step = "refreshing", !.at = 1, !.next = records]
    /\ UNCHANGED <<walletVars, chainVars, sent, spent>>

HistoryAbort ==
    /\ op.step \in {"refreshing", "headed"}
    /\ op' = Idle
    /\ UNCHANGED <<walletVars, chainVars, sent, spent>>

HistoryFinal ==
    /\ op.step = "refreshing"
    /\ op.at \in DOMAIN op.next
    /\ op.next[op.at].final
    /\ op' = [op EXCEPT !.at = @ + 1]
    /\ UNCHANGED <<walletVars, chainVars, sent, spent>>

\* The head is read, or not if the local clock is before the expiration.
HistoryHead ==
    /\ op.step = "refreshing"
    /\ op.at \in DOMAIN op.next
    /\ ~op.next[op.at].final
    /\ \E head \in {0, solid} : op' = [op EXCEPT !.step = "headed", !.head = head]
    /\ UNCHANGED <<walletVars, chainVars, sent, spent>>

\* Mutant: the head of the full node instead of the Solidity node's.
SolidHead_FullNode == IF op.head = 0 THEN 0 ELSE clock

SolidHead == op.head

Settled(q) == HasReceipt(q)

\* What a receipt, or its absence, makes of the record.  An expired one is looked at
\* again each time, and differs when the solidified head is a newer one.
Observed(r) ==
    CASE Settled(r.quote) ->
            [r EXCEPT !.state = IF r.quote \in failed THEN "execution_failed" ELSE "finalized",
                      !.final = TRUE]
      [] ~Settled(r.quote) /\ SolidHead > expires[r.quote] ->
            [r EXCEPT !.state = "expired_unconfirmed", !.checked = SolidHead]
      [] OTHER -> r

HistoryReceipt ==
    /\ op.step = "headed"
    /\ op' = [op EXCEPT !.step = "refreshing", !.at = @ + 1, !.next[op.at] = Observed(@)]
    /\ UNCHANGED <<walletVars, chainVars, sent, spent>>

\* A copy in which an expired record was looked at under a newer head is saved too,
\* also after a fault, and then takes the place of what a failed write left.
HistoryEnd(outcome) ==
    /\ op.step = "refreshing"
    /\ op.at \notin DOMAIN op.next
    /\ IF op.next # records
       THEN save(op.next, outcome)
       ELSE outcome = "ok" /\ UNCHANGED <<records, disk, fault, spent>>
    /\ op' = Idle
    /\ UNCHANGED <<quotes, expires, chainVars, sent>>

----------------------------------------------------------------------------
\* The process is killed at any point and NewTronService reads the file.
Restart ==
    /\ spent.restart < MaxRestarts
    /\ spent' = [spent EXCEPT !.restart = @ + 1]
    /\ Len(disk) <= MaxRecords
    /\ records' = disk
    /\ fault' = FALSE
    /\ quotes' = {}
    /\ op' = Idle
    /\ UNCHANGED <<disk, expires, chainVars, sent>>

Init ==
    /\ records = <<>>
    /\ disk = <<>>
    /\ fault = FALSE
    /\ quotes = {}
    /\ expires = [q \in Quote |-> 0]
    /\ op = Idle
    /\ clock = 1
    /\ solid = 1
    /\ block = [q \in Quote |-> 0]
    /\ failed = {}
    /\ sent = {}
    /\ spent = [fork |-> 0, restart |-> 0, write |-> 0]

Sending ==
    \/ \E q \in Quote : \E e \in (clock + 1)..(clock + Window) : QuoteTransfer(q, e)
    \/ \E q \in Quote : SendStart(q)
    \/ \E outcome \in WriteOutcome : SendAppend(outcome)
    \/ GiveUp
    \/ \E i \in DOMAIN records : RetryStart(i)
    \/ \E accepted \in BOOLEAN : Broadcast(accepted)
    \/ \E outcome \in WriteOutcome : RecordAnswer(outcome)

Refreshing ==
    \/ HistoryStart
    \/ HistoryAbort
    \/ HistoryFinal
    \/ HistoryHead
    \/ HistoryReceipt
    \/ \E outcome \in WriteOutcome : HistoryEnd(outcome)

Next == Produce \/ Solidify \/ Fork \/ Sending \/ Refreshing \/ Restart

Spec == Init /\ [][Next]_vars

----------------------------------------------------------------------------
(* Properties. *)

InRecords(s, q) == \E i \in DOMAIN s : s[i].quote = q

\* Signatures "are persisted before broadcasthex": what was handed to the RPC
\* is on disk, whatever writes failed and whenever the process was killed.
SentIsStored == \A q \in sent : InRecords(disk, q)

Stored == {records[i] : i \in DOMAIN records} \cup {disk[i] : i \in DOMAIN disk}

\* "Local time or a failed RPC alone cannot release the gate": a transaction
\* declared expired is on no block and can enter none, forks included.
ExpiredNeverLands ==
    \A r \in Stored : r.state = "expired_unconfirmed" =>
        block[r.quote] = 0 /\ expires[r.quote] <= solid

\* A final record tells what the solidified chain says, success or failure.
FinalIsTrue ==
    \A r \in Stored : r.final =>
        /\ HasReceipt(r.quote)
        /\ r.state = IF r.quote \in failed THEN "execution_failed" ELSE "finalized"

\* What the wallet tells the user is over, in memory or on disk, is over on the
\* chain, and ended as it says.
OutcomesAreTrue == ExpiredNeverLands /\ FinalIsTrue

CanStillPay(q) == q \in sent /\ ~HasReceipt(q) /\ solid < expires[q]

\* "One outstanding transaction is allowed until a Solidity-node receipt
\* reports it solidified": at most one transaction can still take effect.
OneOutstanding == \A p, q \in Quote : CanStillPay(p) /\ CanStillPay(q) => p = q

\* A record that is final on disk never changes again, not even when the write
\* that made it final reported an error and memory still has the old one.
FinalOnDisk ==
    [][\A i \in DOMAIN disk : disk[i].final => i \in DOMAIN disk' /\ disk'[i] = disk[i]]_vars
=============================================================================
