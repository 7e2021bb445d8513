---------------------------- MODULE MCEvmWallet ----------------------------
(***************************************************************************)
(* EvmWallet against the ledger it implements, and its liveness.           *)
(***************************************************************************)
EXTENDS EvmWallet

Outcome(r) ==
    CASE ~r.final -> "open"
      [] r.final /\ r.state \in MinedStates -> "paid"
      [] OTHER -> "void"

Ledger == INSTANCE PaymentLedger WITH
    ledger <- [h \in Known |-> [quote |-> Rec(h).quote, nonce |-> Rec(h).nonce,
                                outcome |-> Outcome(Rec(h))]],
    broadcast <- DOMAIN sent

\* Through crashes, failed writes, archiving and late answers the journal in
\* memory behaves as the ledger of module PaymentLedger: one transaction per
\* quote, broadcast only once it is on record, no entry lost or reopened, and
\* at most one paid transaction per nonce.
ImplementsLedger == Ledger!Spec

----------------------------------------------------------------------------
(* RunMaintenance calls History every 15 seconds for as long as the        *)
(* process runs, whatever storageFault says, and historyOffset gives every *)
(* item its turn.  So History starts again and again, and an item's query  *)
(* is answered and applied before the deadline infinitely often if it is   *)
(* asked infinitely often.                                                 *)

Answered(h) == HistoryQuery(h) /\ refresh'.final
Applied(h) ==
    refresh.hash = h /\ refresh.final /\ \E outcome \in UpdateOutcome : HistoryApply(outcome)
Archived == \E fileOutcome, outcome \in WriteOutcome : HistoryArchive(fileOutcome, outcome)

Maintenance ==
    /\ WF_walletVars(HistoryStart)
    /\ WF_walletVars(HistoryIgnore)
    /\ WF_walletVars(HistoryStop)
    /\ WF_walletVars(HistoryDone)
    /\ WF_walletVars(Archived)
    /\ \A h \in Hash : SF_walletVars(Answered(h))
    /\ \A h \in Hash : SF_walletVars(Applied(h))

LiveSpec == Spec /\ Maintenance

\* A transaction that is finalized on chain is eventually final in the journal,
\* whatever retries, write errors and restarts come in between: nothing keeps
\* its record out of the refresh or its update forever stale.
FinalGetsRecorded ==
    \A h \in Hash : chain[h] = "final" ~> h \in Known /\ Rec(h).final
=============================================================================
