---------------------------- MODULE TransferBook ----------------------------
(***************************************************************************)
(* What the TRON wallet promises to the person who uses it, without a      *)
(* memory that differs from a file, crashes, forks or clocks: a book of    *)
(* signed transfers, of which one at most is open.  The next transfer is   *)
(* signed when all before it are settled, only an open transfer is handed  *)
(* to the network, and what is settled is settled once: "paid", "failed"   *)
(* or "expired".  Module TronWallet implements it.                         *)
(***************************************************************************)
EXTENDS Sequences

CONSTANT Quote

VARIABLES
    book,      \* list of [quote, outcome]
    broadcast  \* quotes whose transfer was handed to the network

bookVars == <<book, broadcast>>

Settled == {"paid", "failed", "expired"}
Entry == [quote : Quote, outcome : {"open"} \cup Settled]

Init ==
    /\ book = <<>>
    /\ broadcast = {}

\* A transfer is signed for a quote that has none.
Commit(q) ==
    /\ \A i \in DOMAIN book : book[i].outcome \in Settled /\ book[i].quote # q
    /\ book' = Append(book, [quote |-> q, outcome |-> "open"])
    /\ UNCHANGED broadcast

Broadcast(i) ==
    /\ i \in DOMAIN book
    /\ book[i].outcome = "open"
    /\ broadcast' = broadcast \cup {book[i].quote}
    /\ UNCHANGED book

\* Only what was broadcast can be paid or fail.
Settle(i, outcome) ==
    /\ i \in DOMAIN book
    /\ book[i].outcome = "open"
    /\ outcome # "expired" => book[i].quote \in broadcast
    /\ book' = [book EXCEPT ![i].outcome = outcome]
    /\ UNCHANGED broadcast

Next ==
    \/ \E q \in Quote : Commit(q)
    \/ \E i \in DOMAIN book : Broadcast(i)
    \/ \E i \in DOMAIN book, outcome \in Settled : Settle(i, outcome)

Spec == Init /\ [][Next]_bookVars
=============================================================================
