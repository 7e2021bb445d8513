------------------------------- MODULE Faucet -------------------------------
(***************************************************************************)
(* The test faucet, internal/wallet/faucet.go: claims of one asset on one  *)
(* network, paid by Quote and Send of the dispenser's account (module      *)
(* Quotes), whose owner uses the same account beside it.  A claim for TRX  *)
(* has the same steps on a TronService.                                    *)
(*                                                                         *)
(* Only `mu' and the progress of the requests are the faucet's own: what   *)
(* was paid is read from the journal.  The History call of a claim is left *)
(* to Quotes!Observe, which can happen at any time and learns as much or   *)
(* as little as the RPC tells.                                             *)
(***************************************************************************)
EXTENDS Quotes

CONSTANTS
    Payout,    \* what a claim pays
    Hour,
    Limit,     \* transactions in an hour above which nothing is paid (20)
    Nobody

ASSUME FaucetAssumption ==
    /\ Payout \in Nat \ {0}
    /\ {Hour, Limit} \subseteq Nat
    /\ Nobody \notin Client

VARIABLES
    mu,        \* the claim that holds TestFaucet.mu
    claim      \* [claim -> its progress]

faucetVars == <<mu, claim>>
vars == <<quoteVars, faucetVars>>

Claims == Client \ {User}
NoClaim == [step |-> "idle"]

\* The transactions of the last hour that did not fail, also those whose
\* broadcast is unknown and the owner's.
Recent ==
    {i \in DOMAIN journal : now - journal[i].created < Hour /\ journal[i].state # "reverted"}

\* Mutant: off by one.
UnderLimit_OffByOne == Cardinality(Recent) <= Limit

UnderLimit == Cardinality(Recent) < Limit

Matches(i, to) ==
    journal[i].action = "eth" /\ journal[i].to = to /\ journal[i].amount = Payout

\* Mutant: claims do not exclude each other.
TryLock_Open(c) == UNCHANGED mu

\* f.mu, held until the claim returns.
TryLock(c) == mu = Nobody /\ mu' = c

\* A claim that finds a matching transaction answers with it, and one over the
\* limit is refused: neither changes anything.
ClaimStart(c, to) ==
    /\ claim[c] = NoClaim
    /\ TryLock(c)
    /\ \A i \in Recent : ~Matches(i, to)
    /\ UnderLimit
    /\ claim' = [claim EXCEPT ![c] = [step |-> "checked", to |-> to]]
    /\ UNCHANGED quoteVars

ClaimQuote(c) ==
    /\ claim[c].step = "checked"
    /\ QuoteStart(c, [action |-> "eth", to |-> claim[c].to, amount |-> Payout])
    /\ claim' = [claim EXCEPT ![c] = [step |-> "quoted", id |-> op'.id]]
    /\ UNCHANGED mu

ClaimSend(c) ==
    /\ claim[c].step = "quoted"
    /\ claim[c].id \in DOMAIN quotes /\ quotes[claim[c].id].by = c
    /\ SendStart(claim[c].id)
    /\ claim' = [claim EXCEPT ![c] = [step |-> "sent"]]
    /\ UNCHANGED mu

Working(c) == op # NoOp /\ op.by = c

\* Paid, or refused on the way: stock, fee cap, a transaction in flight.
ClaimEnd(c) ==
    /\ claim[c] # NoClaim
    /\ ~Working(c)
    /\ claim' = [claim EXCEPT ![c] = NoClaim]
    /\ mu' = Nobody
    /\ UNCHANGED quoteVars

FaucetRestart ==
    /\ Restart
    /\ mu' = Nobody
    /\ claim' = [c \in Claims |-> NoClaim]

Init ==
    /\ QuotesInit
    /\ mu = Nobody
    /\ claim = [c \in Claims |-> NoClaim]

Next ==
    \/ (WalletStep \/ UserStep) /\ UNCHANGED faucetVars
    \/ \E c \in Claims, to \in Address : ClaimStart(c, to)
    \/ \E c \in Claims : ClaimQuote(c) \/ ClaimSend(c) \/ ClaimEnd(c)
    \/ FaucetRestart

Spec == Init /\ [][Next]_vars

----------------------------------------------------------------------------
(* Properties. *)

Reverted(i) == \E k \in DOMAIN executed : executed[k].tx = i /\ ~executed[k].ok

Payouts == {i \in DOMAIN journal : journal[i].by # User /\ ~Reverted(i)}

\* "EVM/TRON reuse matching transfers from the last hour, including unknown
\* broadcasts, across restarts": two claims for an address within an hour never
\* both pay, unless one of the payments reverts.
PaidOncePerHour ==
    \A i, j \in Payouts :
        i # j /\ journal[i].to = journal[j].to =>
            \/ journal[i].created - journal[j].created >= Hour
            \/ journal[j].created - journal[i].created >= Hour

\* "An hourly per-network limit": claims never pay more often within an hour.
PayoutLimit ==
    \A t \in 0..MaxTime :
        Cardinality({i \in Payouts : journal[i].created \in t..(t + Hour - 1)}) <= Limit
=============================================================================
