----------------------------- MODULE EvmWallet -----------------------------
(***************************************************************************)
(* The EVM wallet service, internal/wallet/service.go: Quote, Send, Retry  *)
(* and History over the journal of module Journal, with the network they   *)
(* talk to, failing writes and a process that is killed and started again. *)
(*                                                                         *)
(* Quote, Send and Retry hold sendMu from start to end, so at most one of  *)
(* them runs; its progress is `op'.  History holds only historyMu, so it   *)
(* interleaves with them at every RPC and journal call; its progress is    *)
(* `refresh'.  One instance is one account on one EVM network: linked      *)
(* services share the keystore but have a journal and quotes of their own. *)
(*                                                                         *)
(* What is abstracted:                                                     *)
(*  - a quote is its nonce and, for a speed-up or cancel, the number of    *)
(*    records its nonce had; amounts, fees and calldata are left out, and  *)
(*    every check on them (balance, base fee, allowance, simulation, wrong *)
(*    password, expiry, a cancelled request, a failing RPC) is the choice  *)
(*    to give up, GiveUp, which is open until the record is appended.  A   *)
(*    quote that expired is one that no Send uses;                         *)
(*  - History asks about its items in any order (historyOffset rotates     *)
(*    them);                                                               *)
(*  - the network is external: a transaction it accepted may be mined,     *)
(*    orphaned by a reorganization, dropped, delivered late or finalized.  *)
(***************************************************************************)
EXTENDS Journal

CONSTANTS
    Reverting,       \* transactions whose execution reverts when mined
    MaxRestarts,     \* bound: times the process is killed
    MaxReorgs,       \* bound: transactions orphaned by a reorganization
    MaxWriteErrors,  \* bound: failed writes
    MaxFaults        \* bound: the three together

ASSUME WalletBoundAssumption ==
    /\ Quote \subseteq Nat
    /\ Nonce \subseteq Nat
    /\ {MaxRestarts, MaxReorgs, MaxWriteErrors, MaxFaults} \subseteq Nat
    /\ Reverting \subseteq Hash

VARIABLES
    quotes,          \* QuoteStore.quotes: [quote ID -> [nonce, count]], count = 0 unless a replacement
    quoted,          \* the last quote ID handed out
    storageFault,    \* Service.storageFault
    op,              \* the operation holding sendMu
    refresh,         \* the History call holding historyMu
    chain,           \* external: [Hash -> status of the transaction on the network]
    sent,            \* history: [hash -> nonce] of every transaction handed to the RPC
    spent            \* restarts, reorganizations and write errors so far

serviceVars == <<quotes, quoted, storageFault>>
networkVars == <<chain, sent>>
walletVars == <<journalVars, serviceVars, op, refresh, networkVars, spent>>

ChainStatus == {"unknown", "pooled", "orphaned", "mined", "final"}
OpStep == {"idle", "checked", "ready", "appended",
           "answered", "retrying", "retried"}
RefreshStep == {"idle", "scanning", "observed"}

Idle == [step |-> "idle", quote |-> 0, hash |-> 0, version |-> 0, accepted |-> FALSE]
NoItems == [h \in {} |-> 0]
NoRefresh == [step |-> "idle", items |-> NoItems, hash |-> 0, state |-> "none", final |-> FALSE]

----------------------------------------------------------------------------
(* The network. *)

FaultLeft == spent.restart + spent.reorg + spent.write < MaxFaults

OnChain == {h \in Hash : chain[h] \in {"mined", "final"}}
Pooled == {h \in Hash : chain[h] \in {"pooled", "orphaned"}}
NonceAt == Cardinality(OnChain)
PendingNonceAt ==
    CHOOSE n \in NonceAt..(NonceAt + MaxTx) :
        /\ n \notin {sent[h] : h \in Pooled}
        /\ \A m \in NonceAt..(n - 1) : m \in {sent[h] : h \in Pooled}

\* A node takes a transaction it does not have whose nonce is still open.
Acceptable(h, nonce) == chain[h] = "unknown" /\ nonce >= NonceAt

\* A transaction whose broadcast returned an error, or that was dropped, can
\* still reach the pool later.
Deliver(h) ==
    /\ h \in DOMAIN sent
    /\ Acceptable(h, sent[h])
    /\ chain' = [chain EXCEPT ![h] = "pooled"]
    /\ UNCHANGED <<journalVars, serviceVars, op, refresh, sent, spent>>

Mine(h) ==
    /\ h \in Pooled
    /\ sent[h] = NonceAt
    /\ chain' = [chain EXCEPT ![h] = "mined"]
    /\ UNCHANGED <<journalVars, serviceVars, op, refresh, sent, spent>>

Drop(h) ==
    /\ h \in Pooled
    /\ chain' = [chain EXCEPT ![h] = "unknown"]
    /\ UNCHANGED <<journalVars, serviceVars, op, refresh, sent, spent>>

Finalize(h) ==
    /\ chain[h] = "mined"
    /\ \A k \in OnChain : sent[k] < sent[h] => chain[k] = "final"
    /\ chain' = [chain EXCEPT ![h] = "final"]
    /\ UNCHANGED <<journalVars, serviceVars, op, refresh, sent, spent>>

Reorg(h) ==
    /\ chain[h] = "mined"
    /\ \A k \in OnChain : sent[k] <= sent[h]
    /\ spent.reorg < MaxReorgs /\ FaultLeft
    /\ spent' = [spent EXCEPT !.reorg = @ + 1]
    /\ chain' = [chain EXCEPT ![h] = "orphaned"]
    /\ UNCHANGED <<journalVars, serviceVars, op, refresh, sent>>

\* eth_sendRawTransaction of the transaction `op' holds: accepted, or an error
\* that says nothing about whether a node got it (Deliver).
SendTransaction(nonce, accepted) ==
    /\ sent' = Put(sent, op.hash, nonce)
    /\ \/ /\ accepted
          /\ Acceptable(op.hash, nonce)
          /\ chain' = [chain EXCEPT ![op.hash] = "pooled"]
       \/ /\ ~accepted
          /\ UNCHANGED chain

----------------------------------------------------------------------------
(* Failing writes. *)

\* A write error is charged to its bound.
Charge(outcomes) ==
    LET failed == outcomes \cap {"lost", "kept"} # {}
    IN  /\ failed => spent.write < MaxWriteErrors /\ FaultLeft
        /\ spent' = IF failed THEN [spent EXCEPT !.write = @ + 1] ELSE spent

----------------------------------------------------------------------------
(* Quotes.  Whatever a quote was bound to is checked again by Send, so     *)
(* binding and storing it is one step.                                     *)

AddQuote(nonce, count) ==
    /\ op = Idle
    /\ ~storageFault
    /\ quoted + 1 \in Quote
    /\ nonce \in Nonce
    /\ quoted' = quoted + 1
    /\ quotes' = Put(quotes, quoted + 1, [nonce |-> nonce, count |-> count])
    /\ UNCHANGED <<journalVars, storageFault, op, refresh, networkVars, spent>>

\* QuoteCommand for a new payment, bound to the pending nonce: refused while
\* one is in flight.
QuoteNew ==
    /\ ~HasInFlightTx
    /\ AddQuote(PendingNonceAt, 0)

\* QuoteCommand for a speed-up or cancel of h (replacementQuote): the nonce must
\* not be known to be mined, and the number of its records is remembered.
QuoteReplacement(h) ==
    /\ h \in Known
    /\ ~NonceMined(Rec(h).nonce)
    /\ NonceAt <= Rec(h).nonce
    /\ AddQuote(Rec(h).nonce, Cardinality(NonceRecords(Rec(h).nonce)))

----------------------------------------------------------------------------
(* Send. *)

\* Send up to the key's decryption.  A quote that already has a record is
\* answered from the journal (FindByQuoteID) and changes nothing.
SendStart(q) ==
    /\ op = Idle
    /\ ~storageFault
    /\ \A h \in Known : Rec(h).quote # q
    /\ q \in DOMAIN quotes
    /\ quotes[q].count = 0 => ~HasInFlightTx
    /\ op' = [Idle EXCEPT !.step = "checked", !.quote = q]
    /\ UNCHANGED <<journalVars, serviceVars, refresh, networkVars, spent>>

\* The nonce check, on the quote Send read at its start.
SendCheckNonce ==
    LET q == quotes[op.quote]
    IN  /\ op.step = "checked"
        /\ IF q.count = 0
           THEN PendingNonceAt = q.nonce
           ELSE /\ Cardinality(NonceRecords(q.nonce)) = q.count
                /\ NonceAt <= q.nonce
                /\ ~NonceMined(q.nonce)
        /\ op' = [op EXCEPT !.step = "ready"]
        /\ UNCHANGED <<journalVars, serviceVars, refresh, networkVars, spent>>

\* Any check of Send fails, or the quote expires: nothing was changed so far.
GiveUp ==
    /\ op.step \in {"checked", "ready"}
    /\ op' = Idle
    /\ UNCHANGED <<journalVars, serviceVars, refresh, networkVars, spent>>

\* Mutant: the error of the append is ignored.
SendAppend_IgnoresError(outcome) ==
    /\ op.step = "ready"
    /\ Charge({outcome})
    /\ AppendAtomic(op.quote, quotes[op.quote].nonce, outcome)
    /\ op' = [op EXCEPT !.step = "appended", !.hash = signed', !.version = 1]
    /\ UNCHANGED <<quotes, quoted, storageFault, refresh, networkVars>>

\* The transaction is signed and its record appended before any broadcast.
\* A full journal refuses (GiveUp); a failed write stops the wallet.
SendAppend(outcome) ==
    /\ op.step = "ready"
    /\ Charge({outcome})
    /\ AppendAtomic(op.quote, quotes[op.quote].nonce, outcome)
    /\ op' = IF outcome = "ok"
             THEN [op EXCEPT !.step = "appended", !.hash = signed', !.version = 1]
             ELSE Idle
    /\ storageFault' = (storageFault \/ outcome # "ok")
    /\ UNCHANGED <<quotes, quoted, refresh, networkVars>>

\* The RPC call and its answer.
SendBroadcast(accepted) ==
    /\ op.step = "appended"
    /\ SendTransaction(quotes[op.quote].nonce, accepted)
    /\ op' = [op EXCEPT !.step = "answered", !.accepted = accepted]
    /\ UNCHANGED <<journalVars, serviceVars, refresh, spent>>

BroadcastState == IF op.accepted THEN "submitted" ELSE "broadcast_unknown"

\* Mutant: the version is read after the broadcast instead of before it.
RecordAnswer_LateVersion(outcome) ==
    /\ Charge({outcome})
    /\ UpdateStateAtomicIfVersion(op.hash, Rec(op.hash).version, BroadcastState, FALSE, outcome)
    /\ storageFault' = (storageFault \/ outcome \in UpdateError)
    /\ op' = Idle

\* The answer is recorded unless the record moved on since it was read.
RecordAnswer(outcome) ==
    /\ Charge({outcome})
    /\ UpdateStateAtomicIfVersion(op.hash, op.version, BroadcastState, FALSE, outcome)
    /\ storageFault' = (storageFault \/ outcome \in UpdateError)
    /\ op' = Idle

SendFinish(outcome) ==
    /\ op.step = "answered"
    /\ RecordAnswer(outcome)
    /\ quotes' = IF outcome \in UpdateError THEN quotes ELSE Only(quotes, DOMAIN quotes \ {op.quote})
    /\ UNCHANGED <<quoted, refresh, networkVars>>

----------------------------------------------------------------------------
(* Retry: the stored bytes are broadcast again. *)

RetryStart(h) ==
    /\ op = Idle
    /\ ~storageFault
    /\ h \in Known
    /\ ~NonceMined(Rec(h).nonce)
    /\ Rec(h).version < MaxVersion
    /\ op' = [Idle EXCEPT !.step = "retrying", !.hash = h, !.version = Rec(h).version]
    /\ UNCHANGED <<journalVars, serviceVars, refresh, networkVars, spent>>

RetryBroadcast(accepted) ==
    /\ op.step = "retrying"
    /\ SendTransaction(Rec(op.hash).nonce, accepted)
    /\ op' = [op EXCEPT !.step = "retried", !.accepted = accepted]
    /\ UNCHANGED <<journalVars, serviceVars, refresh, spent>>

RetryFinish(outcome) ==
    /\ op.step = "retried"
    /\ RecordAnswer(outcome)
    /\ UNCHANGED <<quotes, quoted, refresh, networkVars>>

----------------------------------------------------------------------------
(* History: refresh the open records, then archive. *)

HistoryStart ==
    /\ refresh = NoRefresh
    /\ refresh' = [NoRefresh EXCEPT !.step = "scanning", !.items = RefreshItems]
    /\ UNCHANGED <<journalVars, serviceVars, op, networkVars, spent>>

Receipt(h) == IF h \in Reverting THEN "reverted" ELSE "succeeded"

\* client.Transaction: the states it can report for h, each with the finality
\* it reports.  A finalized head that cannot be read reads as not final.
Observations(h) ==
    CASE chain[h] = "unknown"  -> {<<"not_found", FALSE>>}
      [] chain[h] = "pooled"   -> {<<"not_found", FALSE>>, <<"pending", FALSE>>}
      [] chain[h] = "orphaned" -> {<<"reorg_detected", FALSE>>, <<"pending", FALSE>>}
      [] h \in OnChain         -> {<<"receipt_unavailable", FALSE>>, <<Receipt(h), FALSE>>,
                                   <<Receipt(h), chain[h] = "final">>}

\* Noise the bound on versions cuts off.
Quiet(h, state) ==
    state \in {"receipt_unavailable", "reorg_detected"} => journal[h].version < MaxVersion

HistoryQuery(h) ==
    /\ refresh.step = "scanning"
    /\ h \in DOMAIN refresh.items
    /\ \E o \in Observations(h) :
          /\ Quiet(h, o[1])
          /\ refresh' = [refresh EXCEPT !.step = "observed", !.hash = h,
                                        !.state = o[1], !.final = o[2]]
    /\ UNCHANGED <<journalVars, serviceVars, op, networkVars, spent>>

\* Queries that fail pass over their item, and the request's deadline leaves
\* the rest for later; as items come in any order, both are a stop here.
HistoryStop ==
    /\ refresh.step # "idle"
    /\ refresh.items # NoItems
    /\ refresh' = [NoRefresh EXCEPT !.step = "scanning"]
    /\ UNCHANGED <<journalVars, serviceVars, op, networkVars, spent>>

NextItem == [NoRefresh EXCEPT !.step = "scanning",
                              !.items = Only(refresh.items, DOMAIN refresh.items \ {refresh.hash})]

\* A transaction the node does not know demotes only a record that was mined.
Ignored == refresh.state = "not_found" /\ Rec(refresh.hash).state \notin MinedStates

\* Mutant: a refresh that cannot save its observation carries on.
HistoryApply_NoFault(outcome) ==
    /\ refresh.step = "observed"
    /\ ~Ignored
    /\ Charge({outcome})
    /\ UpdateStateAtomicIfVersion(refresh.hash, refresh.items[refresh.hash],
            IF refresh.state = "not_found" THEN "broadcast_unknown" ELSE refresh.state,
            refresh.final, outcome)
    /\ refresh' = NextItem
    /\ UNCHANGED <<quotes, quoted, storageFault, op, networkVars>>

\* The observation is applied at the version read when History began.
HistoryApply(outcome) ==
    /\ refresh.step = "observed"
    /\ ~Ignored
    /\ Charge({outcome})
    /\ UpdateStateAtomicIfVersion(refresh.hash, refresh.items[refresh.hash],
            IF refresh.state = "not_found" THEN "broadcast_unknown" ELSE refresh.state,
            refresh.final, outcome)
    /\ storageFault' = (storageFault \/ outcome \in UpdateError)
    /\ refresh' = IF outcome \in UpdateError THEN NoRefresh ELSE NextItem
    /\ UNCHANGED <<quotes, quoted, op, networkVars>>

HistoryIgnore ==
    /\ refresh.step = "observed"
    /\ Ignored
    /\ refresh' = NextItem
    /\ UNCHANGED <<journalVars, serviceVars, op, networkVars, spent>>

\* ArchiveFinalized ends the refresh.
HistoryArchive(fileOutcome, outcome) ==
    /\ refresh.step = "scanning"
    /\ refresh.items = NoItems
    /\ Charge({fileOutcome, outcome})
    /\ ArchiveFinalized(fileOutcome, outcome)
    /\ storageFault' = (storageFault \/ outcome # "ok")
    /\ refresh' = NoRefresh
    /\ UNCHANGED <<quotes, quoted, op, networkVars>>

HistoryDone ==
    /\ refresh.step = "scanning"
    /\ refresh.items = NoItems
    /\ ~Archives
    /\ refresh' = NoRefresh
    /\ UNCHANGED <<journalVars, serviceVars, op, networkVars, spent>>

----------------------------------------------------------------------------
\* The process is killed and NewService loads the files again: the quotes, the
\* fault flag and whatever was running are gone.
Restart ==
    /\ spent.restart < MaxRestarts /\ FaultLeft
    /\ spent' = [spent EXCEPT !.restart = @ + 1]
    /\ Load
    /\ quotes' = [q \in {} |-> {}]
    /\ storageFault' = FALSE
    /\ op' = Idle
    /\ refresh' = NoRefresh
    /\ UNCHANGED <<quoted, networkVars>>

Init ==
    /\ JournalInit
    /\ quotes = [q \in {} |-> {}]
    /\ quoted = 0
    /\ storageFault = FALSE
    /\ op = Idle
    /\ refresh = NoRefresh
    /\ chain = [h \in Hash |-> "unknown"]
    /\ sent = [h \in {} |-> 0]
    /\ spent = [restart |-> 0, reorg |-> 0, write |-> 0]

Network == \E h \in Hash : Deliver(h) \/ Mine(h) \/ Drop(h) \/ Finalize(h) \/ Reorg(h)

Quoting ==
    \/ QuoteNew
    \/ \E h \in Hash : QuoteReplacement(h)

Sending ==
    \/ \E q \in Quote : SendStart(q)
    \/ SendCheckNonce
    \/ GiveUp
    \/ \E outcome \in WriteOutcome : SendAppend(outcome)
    \/ \E accepted \in BOOLEAN : SendBroadcast(accepted)
    \/ \E outcome \in UpdateOutcome : SendFinish(outcome)

Retrying ==
    \/ \E h \in Hash : RetryStart(h)
    \/ \E accepted \in BOOLEAN : RetryBroadcast(accepted)
    \/ \E outcome \in UpdateOutcome : RetryFinish(outcome)

Refreshing ==
    \/ HistoryStart
    \/ \E h \in Hash : HistoryQuery(h)
    \/ HistoryStop
    \/ \E outcome \in UpdateOutcome : HistoryApply(outcome)
    \/ HistoryIgnore
    \/ \E fileOutcome, outcome \in WriteOutcome : HistoryArchive(fileOutcome, outcome)
    \/ HistoryDone

Next == Network \/ Quoting \/ Sending \/ Retrying \/ Refreshing \/ Restart

Spec == Init /\ [][Next]_walletVars

----------------------------------------------------------------------------
(* Properties. *)

TypeOK ==
    /\ JournalTypeOK
    /\ DOMAIN quotes \subseteq 1..quoted
    /\ quotes \in [DOMAIN quotes -> [nonce : Nonce, count : 0..MaxTx]]
    /\ quoted \in {0} \cup Quote
    /\ storageFault \in BOOLEAN
    /\ op \in [step : OpStep, quote : {0} \cup Quote, hash : {0} \cup Hash,
              version : Nat, accepted : BOOLEAN]
    /\ refresh \in [step : RefreshStep, items : {refresh.items}, hash : {0} \cup Hash,
                   state : States \cup {"none", "not_found"}, final : BOOLEAN]
    /\ DOMAIN refresh.items \subseteq Hash
    /\ chain \in [Hash -> ChainStatus]
    /\ DOMAIN sent \subseteq 1..signed
    /\ sent \in [DOMAIN sent -> Nonce]
    /\ spent \in [restart : 0..MaxRestarts, reorg : 0..MaxReorgs, write : 0..MaxWriteErrors]

\* Every transaction handed to the RPC can be found again after a crash at any
\* moment: its record, with the signed bytes, is in journal.json or in an
\* archive ("Must persist atomically before any RPC broadcast", Send).
SentIsStored == DOMAIN sent \subseteq DOMAIN disk \cup FileHashes

\* As long as the wallet accepts payments, a restart would change nothing it
\* knows: journal.json is what is in memory and every archived record has a
\* file.  Each failed write must have raised storageFault for this to hold.
UnfaultedMatchesDisk ==
    ~storageFault => disk = journal /\ DOMAIN archived \subseteq FileHashes

\* A record marked final tells the truth about the chain, in memory and in
\* every file: a mined one is finalized, and one archived as replaced has lost
\* its nonce to a finalized transaction, so it can never be executed.
FinalIsTrue ==
    \A f \in {journal, archived, disk} \cup {files[n] : n \in DOMAIN files} :
        \A h \in DOMAIN f :
            f[h].final =>
                IF f[h].state \in MinedStates
                THEN chain[h] = "final" /\ f[h].state = Receipt(h)
                ELSE \E k \in DOMAIN sent \ {h} : sent[k] = f[h].nonce /\ chain[k] = "final"

\* Without reorganizations the wallet has at most one open nonce on the
\* network: two transactions that can still be mined share their nonce, so one
\* of them replaces the other ("Single outstanding tx constraint").
SingleInFlight ==
    \A h, k \in DOMAIN sent : sent[h] >= NonceAt /\ sent[k] >= NonceAt => sent[h] = sent[k]

\* What a reorganization costs: each can open one nonce again beside the one that
\* is open, never more, whatever History and Send decide on what they saw before.
Peak == NonceAt + spent.reorg
OneBeyondReorgs ==
    \A h, k \in DOMAIN sent : sent[h] >= Peak /\ sent[k] >= Peak => sent[h] = sent[k]

\* Recording the answer of a broadcast never turns a record that a refresh
\* found mined in the meantime back into an open one.
AnswerNeverUnmines ==
    [][op.step \in {"answered", "retried"} /\ refresh' = refresh /\ spent'.restart = spent.restart =>
          \A h \in Known : Rec(h).state \in MinedStates => Rec(h)' = Rec(h)]_walletVars

\* A new payment is appended only when the journal shows nothing in flight at
\* that moment ("Single outstanding tx constraint", QuoteCommand).
FreshAppendAlone ==
    [][op.step = "ready" /\ op'.step = "appended" /\ quotes[op.quote].count = 0 =>
          ~HasInFlightTx]_walletVars

\* storageFault tells the user to repair the disk and restart; it is raised
\* only if a write failed.
FaultMeansWriteError == storageFault => spent.write > 0

\* The one exception there is: the answer of a broadcast comes when the record it is
\* for was archived meanwhile.  Nothing else, an observation applied late, a journal
\* that is full or a version that moved on, stops the wallet.
FaultHasCause ==
    [][storageFault' /\ ~storageFault =>
          \/ spent'.write > spent.write
          \/ op.step \in {"answered", "retried"} /\ op.hash \in DOMAIN archived]_walletVars
=============================================================================
