---------------------------- MODULE SolanaWallet ----------------------------
(***************************************************************************)
(* The Solana Devnet wallet, SolanaService of internal/wallet/solana.go:   *)
(* Quote, Send, Retry and History over transactions.json, the cluster they *)
(* talk to, failing writes and a process that is killed.  Every operation  *)
(* holds s.mu from start to end, so one runs at a time (`op'), while the   *)
(* cluster moves between its RPC calls.                                    *)
(*                                                                         *)
(* Unlike the EVM journal, the records in memory are changed before they   *)
(* are saved, and stay changed when the write fails.                       *)
(*                                                                         *)
(* What is abstracted:                                                     *)
(*  - a signed transfer is its message <<blockhash, payee>>, the blockhash *)
(*    being the block height at which it was fetched.  The signature is a  *)
(*    function of the message, so two quotes of one blockhash and payee    *)
(*    sign to the same transaction;                                        *)
(*  - balance, fee, simulation, password, the 60 seconds of a quote and a  *)
(*    failing RPC are the choice to give up; a quote that ran out is one   *)
(*    no Send uses;                                                        *)
(*  - the cluster is external.  Height is the height at commitment         *)
(*    "confirmed"; a transfer lands in the next block while its blockhash  *)
(*    is valid, is first "processed", which a fork can undo, then          *)
(*    "confirmed" and "finalized".  All answers come from one node.        *)
(***************************************************************************)
EXTENDS Integers, Sequences

CONSTANTS
    Quote,           \* quote IDs
    Payee,           \* recipients with their amounts
    Window,          \* blocks a blockhash stays valid (150)
    MaxHeight,       \* bound on the block height
    MaxRecords,      \* capacity of transactions.json (1000)
    MaxForks,        \* bound: processed transfers undone by a fork
    MaxRestarts,     \* bound: times the process is killed
    MaxWriteErrors,  \* bound: failed writes
    MaxFaults        \* bound on all of those together

ASSUME SolanaAssumption ==
    /\ Quote \subseteq Nat
    /\ {Window, MaxHeight, MaxRecords, MaxForks, MaxRestarts, MaxWriteErrors,
        MaxFaults} \subseteq Nat

VARIABLES
    records,     \* s.records
    disk,        \* transactions.json
    fault,       \* s.fault
    quotes,      \* s.quotes: [quote ID -> message]
    quoted,      \* the last quote ID handed out
    op,          \* the operation holding s.mu
    height,      \* external: confirmed block height
    status,      \* external: [message -> how far the cluster has it]
    failed,      \* external: landed messages whose execution failed
    sent,        \* history: messages handed to the RPC
    spent        \* forks, restarts and write errors so far

walletVars == <<records, disk, fault, quotes, quoted>>
clusterVars == <<height, status, failed>>
vars == <<walletVars, op, clusterVars, sent, spent>>

Message == (0..MaxHeight) \X Payee
LastValid(m) == m[1] + Window
Landed == {"processed", "confirmed", "finalized"}
Status == {"unknown", "pooled"} \cup Landed
State == Landed \cup {"broadcast_unknown", "submitted", "execution_failed", "expired_unconfirmed"}
Record == [quote : Quote, msg : Message, state : State, final : BOOLEAN]
WriteOutcome == {"ok", "lost", "kept"}

Idle == [step |-> "idle", quote |-> 0, at |-> 0, height |-> 0, changed |-> FALSE, accepted |-> FALSE]

FaultLeft == spent.fork + spent.restart + spent.write < MaxFaults

----------------------------------------------------------------------------
(* The cluster. *)

\* The next block may still hold the message.
Valid(m) == height < LastValid(m)

Deliver(m) ==
    /\ m \in sent
    /\ status[m] = "unknown"
    /\ status' = [status EXCEPT ![m] = "pooled"]
    /\ UNCHANGED <<walletVars, op, height, failed, sent, spent>>

Process(m) ==
    /\ status[m] = "pooled"
    /\ Valid(m)
    /\ status' = [status EXCEPT ![m] = "processed"]
    /\ failed' \in {failed, failed \cup {m}}
    /\ UNCHANGED <<walletVars, op, height, sent, spent>>

Fork(m) ==
    /\ status[m] = "processed"
    /\ spent.fork < MaxForks /\ FaultLeft
    /\ spent' = [spent EXCEPT !.fork = @ + 1]
    /\ status' = [status EXCEPT ![m] = "pooled"]
    /\ failed' = failed \ {m}
    /\ UNCHANGED <<walletVars, op, height, sent>>

Confirm(m) ==
    /\ \/ status[m] = "processed" /\ status' = [status EXCEPT ![m] = "confirmed"]
       \/ status[m] = "confirmed" /\ status' = [status EXCEPT ![m] = "finalized"]
    /\ UNCHANGED <<walletVars, op, height, failed, sent, spent>>

\* The next block is confirmed, with what was processed in it.
Advance ==
    /\ height < MaxHeight
    /\ \A m \in Message : status[m] # "processed"
    /\ height' = height + 1
    /\ UNCHANGED <<walletVars, op, status, failed, sent, spent>>

Cluster == (\E m \in Message : Deliver(m) \/ Process(m) \/ Fork(m) \/ Confirm(m)) \/ Advance

\* sendTransaction with preflight at "confirmed": accepted, or an error that
\* says nothing about whether a node got it (Deliver).
SendTransaction(m, accepted) ==
    /\ sent' = sent \cup {m}
    /\ \/ /\ accepted
          /\ status[m] \in {"unknown", "pooled", "processed"}
          /\ Valid(m)
          /\ status' = IF status[m] = "unknown" THEN [status EXCEPT ![m] = "pooled"] ELSE status
       \/ /\ ~accepted
          /\ UNCHANGED status
    /\ UNCHANGED <<height, failed>>

----------------------------------------------------------------------------
(* The journal. *)

\* Mutant: a transfer whose broadcast was not answered is not waited for.
HasPending_AnsweredOnly ==
    \E i \in DOMAIN records :
        ~records[i].final /\ records[i].state \notin {"expired_unconfirmed", "execution_failed",
                                                      "broadcast_unknown"}

HasPending ==
    \E i \in DOMAIN records :
        ~records[i].final /\ records[i].state \notin {"expired_unconfirmed", "execution_failed"}

\* Mutant: a failed write goes unnoticed.
persist_NoFault(all, outcome) ==
    /\ outcome # "ok" => spent.write < MaxWriteErrors /\ FaultLeft
    /\ spent' = IF outcome = "ok" THEN spent ELSE [spent EXCEPT !.write = @ + 1]
    /\ records' = all
    /\ disk' = IF outcome = "lost" THEN disk ELSE all
    /\ fault' = fault

\* Memory already has the new records; the file gets them unless the write is
\* lost, and any error stops the wallet.
persist(all, outcome) ==
    /\ outcome # "ok" => spent.write < MaxWriteErrors /\ FaultLeft
    /\ spent' = IF outcome = "ok" THEN spent ELSE [spent EXCEPT !.write = @ + 1]
    /\ records' = all
    /\ disk' = IF outcome = "lost" THEN disk ELSE all
    /\ fault' = (fault \/ outcome # "ok")

----------------------------------------------------------------------------
(* Quote and Send. *)

QuoteTransfer(p) ==
    /\ op = Idle
    /\ ~fault
    /\ ~HasPending
    /\ quoted + 1 \in Quote
    /\ quoted' = quoted + 1
    /\ quotes' = [q \in DOMAIN quotes \cup {quoted + 1} |->
                    IF q \in DOMAIN quotes THEN quotes[q] ELSE <<height, p>>]
    /\ UNCHANGED <<records, disk, fault, op, clusterVars, sent, spent>>

\* A quote that has a record is answered from it and changes nothing.
SendStart(q) ==
    /\ op = Idle
    /\ \A i \in DOMAIN records : records[i].quote # q
    /\ ~fault
    /\ ~HasPending
    /\ Len(records) < MaxRecords
    /\ q \in DOMAIN quotes
    /\ op' = [Idle EXCEPT !.step = "checking", !.quote = q]
    /\ UNCHANGED <<walletVars, clusterVars, sent, spent>>

\* The block height must not have passed the quote's.
SendCheckHeight ==
    /\ op.step = "checking"
    /\ height <= LastValid(quotes[op.quote])
    /\ op' = [op EXCEPT !.step = "checked"]
    /\ UNCHANGED <<walletVars, clusterVars, sent, spent>>

GiveUp ==
    /\ op.step \in {"checking", "checked", "retrying"}
    /\ op' = Idle
    /\ UNCHANGED <<walletVars, clusterVars, sent, spent>>

NewRecord == [quote |-> op.quote, msg |-> quotes[op.quote],
              state |-> "broadcast_unknown", final |-> FALSE]

\* Signed, recorded and saved before it is broadcast.
SendAppend(outcome) ==
    /\ op.step = "checked"
    /\ persist(Append(records, NewRecord), outcome)
    /\ op' = IF outcome = "ok"
             THEN [op EXCEPT !.step = "broadcasting", !.at = Len(records) + 1]
             ELSE Idle
    /\ UNCHANGED <<quotes, quoted, clusterVars, sent>>

----------------------------------------------------------------------------
(* Retry, and the broadcast it shares with Send. *)

\* The first record with the signature; Retry compares LastValid with the
\* height at commitment "finalized", which is any height up to the confirmed.
RetryStart(i) ==
    /\ op = Idle
    /\ ~fault
    /\ i \in DOMAIN records
    /\ \A j \in 1..(i - 1) : records[j].msg # records[i].msg
    /\ ~records[i].final
    /\ records[i].state # "expired_unconfirmed"
    /\ \E finalHeight \in 0..height : finalHeight <= LastValid(records[i].msg)
    /\ op' = [Idle EXCEPT !.step = "retrying", !.at = i]
    /\ UNCHANGED <<walletVars, clusterVars, sent, spent>>

Broadcast(accepted) ==
    /\ op.step \in {"broadcasting", "retrying"}
    /\ SendTransaction(records[op.at].msg, accepted)
    /\ op' = IF accepted THEN [op EXCEPT !.step = "accepted"] ELSE Idle
    /\ UNCHANGED <<walletVars, spent>>

\* Only an accepted broadcast changes the record.
RecordAccepted(outcome) ==
    /\ op.step = "accepted"
    /\ persist([records EXCEPT ![op.at].state = "submitted"], outcome)
    /\ op' = Idle
    /\ UNCHANGED <<quotes, quoted, clusterVars, sent>>

----------------------------------------------------------------------------
(* History: the block height first, then every record that is not final.   *)

\* The height may be unknown (0 expires nothing).
HistoryStart ==
    /\ op = Idle
    /\ \E seen \in {0, height} :
          op' = [Idle EXCEPT !.step = "refreshing", !.at = 1, !.height = seen]
    /\ UNCHANGED <<walletVars, clusterVars, sent, spent>>

\* Mutant: a transfer the node does not know counts as expired at once.
Observed_NoHeight(r) ==
    IF status[r.msg] \in Landed
    THEN [r EXCEPT !.state = IF r.msg \in failed THEN "execution_failed" ELSE status[r.msg],
                   !.final = status[r.msg] = "finalized"]
    ELSE [r EXCEPT !.state = "expired_unconfirmed", !.final = FALSE]

\* What a signature status, or its absence, makes of a record.
Observed(r) ==
    IF status[r.msg] \in Landed
    THEN [r EXCEPT !.state = IF r.msg \in failed THEN "execution_failed" ELSE status[r.msg],
                   !.final = status[r.msg] = "finalized"]
    ELSE [r EXCEPT !.state = IF op.height > LastValid(r.msg) THEN "expired_unconfirmed" ELSE @,
                   !.final = FALSE]

NextRecord == [op EXCEPT !.at = @ + 1]

\* A final record, or one whose query failed, is passed over.
HistorySkip ==
    /\ op.step = "refreshing"
    /\ op.at \in DOMAIN records
    /\ op' = NextRecord
    /\ UNCHANGED <<walletVars, clusterVars, sent, spent>>

HistoryQuery ==
    /\ op.step = "refreshing"
    /\ op.at \in DOMAIN records
    /\ ~records[op.at].final
    /\ Observed(records[op.at]) # records[op.at]
    /\ records' = [records EXCEPT ![op.at] = Observed(@)]
    /\ op' = [NextRecord EXCEPT !.changed = TRUE]
    /\ UNCHANGED <<disk, fault, quotes, quoted, clusterVars, sent, spent>>

HistoryEnd(outcome) ==
    /\ op.step = "refreshing"
    /\ op.at \notin DOMAIN records
    /\ IF op.changed
       THEN persist(records, outcome)
       ELSE outcome = "ok" /\ UNCHANGED <<records, disk, fault, spent>>
    /\ op' = Idle
    /\ UNCHANGED <<quotes, quoted, clusterVars, sent>>

----------------------------------------------------------------------------
\* The process is killed at any point and NewSolanaService reads the file.
Restart ==
    /\ spent.restart < MaxRestarts /\ FaultLeft
    /\ spent' = [spent EXCEPT !.restart = @ + 1]
    /\ Len(disk) <= MaxRecords
    /\ records' = disk
    /\ fault' = FALSE
    /\ quotes' = [q \in {} |-> <<>>]
    /\ op' = Idle
    /\ UNCHANGED <<disk, quoted, clusterVars, sent>>

Init ==
    /\ records = <<>>
    /\ disk = <<>>
    /\ fault = FALSE
    /\ quotes = [q \in {} |-> <<>>]
    /\ quoted = 0
    /\ op = Idle
    /\ height = 0
    /\ status = [m \in Message |-> "unknown"]
    /\ failed = {}
    /\ sent = {}
    /\ spent = [fork |-> 0, restart |-> 0, write |-> 0]

Sending ==
    \/ \E p \in Payee : QuoteTransfer(p)
    \/ \E q \in Quote : SendStart(q)
    \/ SendCheckHeight
    \/ GiveUp
    \/ \E outcome \in WriteOutcome : SendAppend(outcome)
    \/ \E i \in DOMAIN records : RetryStart(i)
    \/ \E accepted \in BOOLEAN : Broadcast(accepted)
    \/ \E outcome \in WriteOutcome : RecordAccepted(outcome)

Refreshing ==
    \/ HistoryStart
    \/ HistorySkip
    \/ HistoryQuery
    \/ \E outcome \in WriteOutcome : HistoryEnd(outcome)

Next == Cluster \/ Sending \/ Refreshing \/ Restart

Spec == Init /\ [][Next]_vars

----------------------------------------------------------------------------
(* Properties. *)

InRecords(s, m) == \E i \in DOMAIN s : s[i].msg = m

\* "Signed bytes/signature are persisted before broadcast": every transfer
\* handed to the RPC, by Send or Retry, has its record on disk, whatever writes
\* failed and whenever the process was killed.
SentIsStored == \A m \in sent : InRecords(disk, m)

\* While the wallet accepts operations and none of them is at work, a restart
\* would change nothing: each failed write raised the fault.
FaultOrSaved == ~fault /\ op.step # "refreshing" => disk = records

\* The file is enough to go on from: it has every transfer that was broadcast,
\* and the wallet stops accepting operations when it falls behind memory.
DiskSuffices == SentIsStored /\ FaultOrSaved

Stored == {records[i] : i \in DOMAIN records} \cup {disk[i] : i \in DOMAIN disk}

\* A transfer declared expired never lands: the height was read before the
\* statuses, and was past the blockhash's last valid one.
ExpiredNeverLands ==
    \A r \in Stored :
        r.state = "expired_unconfirmed" => status[r.msg] \notin Landed /\ ~Valid(r.msg)

\* A record marked final tells what the cluster finalized, success or failure.
FinalIsTrue ==
    \A r \in Stored :
        r.final => /\ status[r.msg] = "finalized"
                   /\ r.state = IF r.msg \in failed THEN "execution_failed" ELSE "finalized"

\* What the wallet tells the user is over, in memory or on disk, is over on the
\* cluster, and ended as it says.
OutcomesAreTrue == ExpiredNeverLands /\ FinalIsTrue

CanStillPay(m) == m \in sent /\ status[m] \in {"unknown", "pooled"} /\ Valid(m)

\* "One outstanding transfer is allowed until finalized": of the transfers that
\* were broadcast, at most one can still be executed.
OneOutstanding == \A m, n \in Message : CanStillPay(m) /\ CanStillPay(n) => m = n

\* As long as no fork undoes a block the gate of hasPending keeps that promise,
\* through failed executions, lost answers, failed writes and restarts.
OneUnlessForked == spent.fork = 0 => OneOutstanding

\* What is left of the promise after a fork: when a transfer is recorded, those that
\* can still be executed are ones History saw fail, on a block that was undone.
AppendsBesideFailed ==
    [][Len(records') > Len(records) =>
          \A m \in Message : CanStillPay(m) =>
             /\ InRecords(records, m)
             /\ \A i \in DOMAIN records :
                   records[i].msg = m => records[i].state = "execution_failed"]_vars

\* A record that is final on disk never changes again, though memory is changed before
\* it is saved and keeps what a failed write did not.
FinalOnDisk ==
    [][\A i \in DOMAIN disk : disk[i].final => i \in DOMAIN disk' /\ disk'[i] = disk[i]]_vars
=============================================================================
