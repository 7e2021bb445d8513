---------------------------- MODULE MCTronWallet ----------------------------
(***************************************************************************)
(* TronWallet against the book of transfers it implements.                 *)
(***************************************************************************)
EXTENDS TronWallet

Outcome(r) ==
    CASE r.final /\ r.state = "finalized" -> "paid"
      [] r.final /\ r.state # "finalized" -> "failed"
      [] ~r.final /\ r.state = "expired_unconfirmed" -> "expired"
      [] OTHER -> "open"

Entries(s) == [i \in DOMAIN s |-> [quote |-> s[i].quote, outcome |-> Outcome(s[i])]]

Book == INSTANCE TransferBook WITH book <- Entries(records), broadcast <- sent

\* Through forks, failed writes and restarts the wallet behaves as the book of
\* module TransferBook: the next transfer is signed when all before it are settled,
\* only an open one is broadcast, and none is lost, reopened or settled twice.  A
\* restart reads the book from transactions.json, and finds there at most one
\* transfer more, or one outcome more, than memory had.
ImplementsBook == Book!Spec
=============================================================================
