------------------------------ MODULE MCFaucet ------------------------------
(* Faucet for TLC: an owner who approves `owed' and pays it.  Claims can be *)
(* for any address, and for the others they are interchangeable.           *)
EXTENDS Faucet

CONSTANTS a, b, owed

MCAddress == {a, b, owed}

MCAsked ==
    {[action |-> "approve", to |-> owed, amount |-> 1], [action |-> "eth", to |-> owed, amount |-> 2]}

MCSymmetry == Permutations(Claims) \cup Permutations({a, b})
=============================================================================
