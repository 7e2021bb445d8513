------------------------------ MODULE MCServer ------------------------------
(* Server for TLC: a public read that calls the chain only, an account's   *)
(* backup, which Close does not wait for, the wallet creation that a       *)
(* shared demo keeps to its operator, which Close does wait for, and the   *)
(* login.                                                                  *)
EXTENDS Server

MCOffered ==
    {x \in Route : <<x.at, x.name>> \in {<<"root", "network">>, <<"child", "backup">>,
                                         <<"solana", "create">>, <<"root", "login">>}}
=============================================================================
