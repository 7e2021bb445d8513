--------------------------- MODULE PaymentLedger ---------------------------
(***************************************************************************)
(* What the EVM wallet promises to the person who uses it, without files,  *)
(* memory, versions or crashes: a ledger of signed transactions.  A quote  *)
(* gets at most one transaction, only a transaction of the ledger is ever  *)
(* broadcast, an entry is never lost, and each entry is open until it is   *)
(* settled once and for all: "paid" (finalized on chain, whether its       *)
(* execution succeeded or reverted) or "void" (another transaction with    *)
(* its nonce is paid).  Module EvmWallet implements it.                    *)
(***************************************************************************)
EXTENDS Naturals

CONSTANTS Hash, Quote, Nonce

VARIABLES
    ledger,    \* [hash -> [quote, nonce, outcome]]
    broadcast  \* hashes handed to the network

ledgerVars == <<ledger, broadcast>>

Entry == [quote : Quote, nonce : Nonce, outcome : {"open", "paid", "void"}]

Init ==
    /\ ledger = [h \in {} |-> {}]
    /\ broadcast = {}

\* A transaction is signed for a quote that has none.
Commit(h, q, n) ==
    /\ h \notin DOMAIN ledger
    /\ \A k \in DOMAIN ledger : ledger[k].quote # q
    /\ ledger' = [k \in DOMAIN ledger \cup {h} |->
                    IF k = h THEN [quote |-> q, nonce |-> n, outcome |-> "open"] ELSE ledger[k]]
    /\ UNCHANGED broadcast

Broadcast(h) ==
    /\ h \in DOMAIN ledger
    /\ broadcast' = broadcast \cup {h}
    /\ UNCHANGED ledger

Paid(h) == h \in DOMAIN ledger /\ ledger[h].outcome = "paid"

\* An open transaction is paid; no other transaction of its nonce is.
Pay(h) ==
    /\ h \in broadcast
    /\ ledger[h].outcome = "open"
    /\ \A k \in DOMAIN ledger : ledger[k].nonce = ledger[h].nonce => ~Paid(k)
    /\ ledger' = [ledger EXCEPT ![h].outcome = "paid"]
    /\ UNCHANGED broadcast

\* Open transactions that lost their nonce to a paid one are void.
Void(S) ==
    /\ S # {}
    /\ \A h \in S :
          /\ ledger[h].outcome = "open"
          /\ \E k \in DOMAIN ledger : Paid(k) /\ ledger[k].nonce = ledger[h].nonce
    /\ ledger' = [h \in DOMAIN ledger |->
                    IF h \in S THEN [ledger[h] EXCEPT !.outcome = "void"] ELSE ledger[h]]
    /\ UNCHANGED broadcast

Next ==
    \/ \E h \in Hash, q \in Quote, n \in Nonce : Commit(h, q, n)
    \/ \E h \in Hash : Broadcast(h) \/ Pay(h)
    \/ \E S \in SUBSET DOMAIN ledger : Void(S)

Spec == Init /\ [][Next]_ledgerVars
=============================================================================
