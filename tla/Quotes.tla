------------------------------- MODULE Quotes -------------------------------
(***************************************************************************)
(* EVM quotes, internal/wallet/quote.go, and the checks of Send that read  *)
(* the chain again: what a quote was accepted for, what is signed with it, *)
(* and what the chain looks like when the transaction is mined.            *)
(*                                                                         *)
(* Quote and Send hold sendMu, `op' is the one under way; the chain and    *)
(* the clock move between any two of their RPC calls.  Module EvmWallet    *)
(* has the rest of these operations: replacements, failing writes, crashes *)
(* inside a write, reorganizations.                                        *)
(*                                                                         *)
(* What is abstracted:                                                     *)
(*  - an amount includes its fee, and an account's nonce starts at zero;   *)
(*  - a swap, a wrap, an unwrap and a vault call are quoted like "eth"; so *)
(*    is a token transfer.  The checks they add (token balance, metadata,  *)
(*    simulation, pool, vault) can only refuse, as can gas and rollup fee, *)
(*    a wrong password and an RPC that fails: GiveUp;                      *)
(*  - a record is "open" until History read its receipt (pending,          *)
(*    submitted, broadcast_unknown); writes succeed;                       *)
(*  - external: nobody else signs with the key, the chain does not         *)
(*    reorganize, and funds only leave by our transactions.                *)
(***************************************************************************)
EXTENDS Naturals, FiniteSetsExt, SequencesExt

CONSTANTS
    Address,    \* recipients and spenders
    Asked,      \* bound: what the user asks for
    Funds,      \* what the account holds at first
    Client,     \* who asks: the user, a claim of the faucet
    User,
    QuoteID,    \* bound: quotes with a record or in the store
    Lifetime,   \* of a quote (120 seconds)
    Capacity,   \* of the quote store (256)
    MaxTx,      \* bound: transactions signed
    MaxTime     \* bound: the clock

Action == {"eth", "approve"}

ASSUME QuoteAssumption ==
    /\ Asked \subseteq [action : Action, to : Address, amount : Nat]
    /\ {Funds, Lifetime, Capacity, MaxTx, MaxTime} \subseteq Nat
    /\ QuoteID \subseteq Nat
    /\ User \in Client

VARIABLES
    now,        \* the clock
    quotes,     \* QuoteStore.quotes: [quote ID -> BoundQuote]
    journal,    \* the records, in the order they were signed
    op,         \* the operation holding sendMu
    sent,       \* transactions a node may have
    executed,   \* external: the account's transactions on chain, by nonce
    allowance   \* external: [spender -> allowance of the token]

chainVars == <<sent, executed, allowance>>
quoteVars == <<now, quotes, journal, op, chainVars>>

NoOp == [step |-> "idle"]

Free == {i \in QuoteID : i \notin DOMAIN quotes /\ \A k \in DOMAIN journal : journal[k].id # i}

----------------------------------------------------------------------------
(* The chain. *)

NonceAt == Len(executed)

\* What a node answers for "pending": it may have any of what was sent to it.
PendingNonces ==
    {n \in NonceAt..Len(journal) :
        \A m \in NonceAt..(n - 1) : \E i \in sent : journal[i].nonce = m}

Spent(txs) == MapThenSumSet(LAMBDA k : txs[k].cost, DOMAIN txs)

Balance == Funds - Spent(executed)

Cost(r) == IF r.action = "eth" THEN r.amount ELSE 0

\* A transaction is executed, or reverts.
Mine(i, ok) ==
    LET r == journal[i]
    IN  /\ i \in sent
        /\ r.nonce = NonceAt
        /\ executed' = Append(executed, [tx |-> i, ok |-> ok, cost |-> IF ok THEN Cost(r) ELSE 0])
        /\ allowance' = IF ok /\ r.action = "approve"
                        THEN [allowance EXCEPT ![r.to] = r.amount] ELSE allowance
        /\ UNCHANGED <<now, quotes, journal, op, sent>>

\* A spender uses its allowance.
TransferFrom(s) ==
    /\ allowance[s] > 0
    /\ \E left \in 0..(allowance[s] - 1) : allowance' = [allowance EXCEPT ![s] = left]
    /\ UNCHANGED <<now, quotes, journal, op, sent, executed>>

Tick ==
    /\ now < MaxTime
    /\ now' = now + 1
    /\ UNCHANGED <<quotes, journal, op, chainVars>>

----------------------------------------------------------------------------
(* Checks. *)

\* Mutant: nothing stops a payment beside one that is open.
HasInFlightTx_Never == FALSE

HasInFlightTx == \E i \in DOMAIN journal : journal[i].state = "open"

\* "Enforce revoke-to-zero before nonzero->nonzero approval".
AllowanceFree(q) == q.action = "approve" => q.amount = 0 \/ allowance[q.to] = 0

Affordable(q) == Cost(q) <= Balance

Expired(q) == now >= q.expires

\* cleanupExpiredLocked, which deletes a moment later.
Kept(i) == now <= quotes[i].expires

----------------------------------------------------------------------------
(* QuoteCommand. *)

\* Up to and including the payload: CreateQuote reads the allowance.
QuoteStart(by, ask) ==
    /\ op = NoOp
    /\ ~HasInFlightTx
    /\ ask.action = "eth" => ask.amount > 0
    /\ AllowanceFree(ask)
    /\ Free # {}
    /\ op' = [step |-> "quoting", by |-> by, id |-> Min(Free), quote |-> ask]
    /\ UNCHANGED <<now, quotes, journal, chainVars>>

\* Funds, nonce, lifetime; QuoteStore.Add, which refuses when it is full.
QuoteFinish ==
    LET live == {i \in DOMAIN quotes : Kept(i)}
    IN  /\ op.step = "quoting"
        /\ Affordable(op.quote)
        /\ Cardinality(live) < Capacity
        /\ \E nonce \in PendingNonces :
              quotes' = [i \in live \cup {op.id} |->
                            IF i = op.id
                            THEN [action |-> op.quote.action, to |-> op.quote.to,
                                  amount |-> op.quote.amount, by |-> op.by,
                                  nonce |-> nonce, expires |-> now + Lifetime]
                            ELSE quotes[i]]
        /\ op' = NoOp
        /\ UNCHANGED <<now, journal, chainVars>>

----------------------------------------------------------------------------
(* Send. *)

\* The quote is looked up.  One that has a record is answered from it.
SendStart(i) ==
    /\ op = NoOp
    /\ i \in DOMAIN quotes
    /\ Kept(i)
    /\ \A k \in DOMAIN journal : journal[k].id # i
    /\ ~HasInFlightTx
    /\ ~Expired(quotes[i])
    /\ op' = [step |-> "sending", by |-> quotes[i].by, id |-> i, quote |-> quotes[i]]
    /\ UNCHANGED <<now, quotes, journal, chainVars>>

SendCheckNonce ==
    /\ op.step = "sending"
    /\ op.quote.nonce \in PendingNonces
    /\ op' = [op EXCEPT !.step = "nonce"]
    /\ UNCHANGED <<now, quotes, journal, chainVars>>

SendRecheck ==
    /\ op.step = "nonce"
    /\ Affordable(op.quote)
    /\ AllowanceFree(op.quote)
    /\ op' = [op EXCEPT !.step = "checked"]
    /\ UNCHANGED <<now, quotes, journal, chainVars>>

\* The quote is signed while it is valid, and put on record.
SendAppend ==
    /\ op.step = "checked"
    /\ ~Expired(op.quote)
    /\ Len(journal) < MaxTx
    /\ journal' = Append(journal,
          [id |-> op.id, by |-> op.by, action |-> op.quote.action, to |-> op.quote.to,
           amount |-> op.quote.amount, nonce |-> op.quote.nonce, created |-> now,
           state |-> "open"])
    /\ op' = [op EXCEPT !.step = "appended"]
    /\ UNCHANGED <<now, quotes, chainVars>>

\* The broadcast, whatever is answered to it, and the end of Send.
SendBroadcast ==
    /\ op.step = "appended"
    /\ sent' = sent \cup {Len(journal)}
    /\ quotes' = [i \in DOMAIN quotes \ {op.id} |-> quotes[i]]
    /\ op' = NoOp
    /\ UNCHANGED <<now, journal, executed, allowance>>

\* Any check refuses, a call fails, or the request's time is over.
GiveUp ==
    /\ op.step \notin {"idle", "appended"}
    /\ op' = NoOp
    /\ UNCHANGED <<now, quotes, journal, chainVars>>

----------------------------------------------------------------------------
(* Retry, History and a restart, as far as they matter here.               *)

Retry(i) ==
    /\ op = NoOp
    /\ journal[i].state = "open"
    /\ sent' = sent \cup {i}
    /\ UNCHANGED <<now, quotes, journal, op, executed, allowance>>

\* A receipt is read.
Observe(k) ==
    /\ journal' = [journal EXCEPT ![executed[k].tx].state =
                      IF executed[k].ok THEN "succeeded" ELSE "reverted"]
    /\ UNCHANGED <<now, quotes, op, chainVars>>

\* The process dies and is started again: the quotes are gone.
Restart ==
    /\ op' = NoOp
    /\ quotes' = [i \in {} |-> NoOp]
    /\ UNCHANGED <<now, journal, chainVars>>

----------------------------------------------------------------------------

QuotesInit ==
    /\ now = 0
    /\ quotes = [i \in {} |-> NoOp]
    /\ journal = <<>>
    /\ op = NoOp
    /\ sent = {}
    /\ executed = <<>>
    /\ allowance = [a \in Address |-> 0]

\* What the network and the wallet do once they were asked.
WalletStep ==
    \/ QuoteFinish \/ SendCheckNonce \/ SendRecheck
    \/ SendAppend \/ SendBroadcast \/ GiveUp \/ Tick
    \/ \E i \in DOMAIN journal : Retry(i)
    \/ \E i \in DOMAIN journal, ok \in BOOLEAN : Mine(i, ok)
    \/ \E k \in DOMAIN executed : Observe(k)
    \/ \E s \in Address : TransferFrom(s)

\* What its user asks for.
UserStep ==
    \/ \E ask \in Asked : QuoteStart(User, ask)
    \/ \E i \in DOMAIN quotes : quotes[i].by = User /\ SendStart(i)

----------------------------------------------------------------------------
(* Properties. *)

\* What was checked when the quote was made and again when it was signed still
\* holds when the transaction is mined, however long that takes and whatever is
\* quoted, sent or spent meanwhile: an approval replaces an allowance of zero
\* only ("the server rechecks nonce, funds and relevant token conditions before
\* signing"), and the account can pay.
CheckedHoldsWhenMined ==
    [][executed' # executed =>
          LET r == journal[executed'[Len(executed')].tx]
          IN  AllowanceFree(r) /\ Affordable(r)]_quoteVars
=============================================================================
