--------------------------- MODULE FaucetProofs ---------------------------
(***************************************************************************)
(* Proofs about modules Quotes and Faucet, for any number of claims,       *)
(* quotes, transactions and any length of the hour: what Send checked      *)
(* still holds when the transaction is mined, no address is paid twice     *)
(* within an hour, and the hourly limit is kept.                           *)
(***************************************************************************)
EXTENDS Faucet, FiniteSetTheorems, SequenceTheorems, TLAPS

----------------------------------------------------------------------------
(* Types. *)

Ask == [action : Action, to : Address, amount : Nat]

BoundQuote == [action : Action, to : Address, amount : Nat,
               by : Client, nonce : Nat, expires : Nat]

Record == [id : QuoteID, by : Client, action : Action, to : Address, amount : Nat,
           nonce : Nat, created : Nat, state : {"open", "succeeded", "reverted"}]

Executed == [tx : Nat, ok : BOOLEAN, cost : Nat]

Quoting == [step : {"quoting"}, by : Client, id : QuoteID, quote : Ask]

Sending == [step : {"sending", "nonce", "checked", "appended"},
            by : Client, id : QuoteID, quote : BoundQuote]

Claim ==
    {NoClaim} \cup [step : {"checked"}, to : Address]
              \cup [step : {"quoted"}, id : QuoteID] \cup {[step |-> "sent"]}

TypeInv ==
    /\ now \in Nat
    /\ DOMAIN quotes \subseteq QuoteID /\ quotes \in [DOMAIN quotes -> BoundQuote]
    /\ journal \in Seq(Record)
    /\ op \in {NoOp} \cup Quoting \cup Sending
    /\ executed \in Seq(Executed)
    /\ \A k \in DOMAIN executed : executed[k].tx \in DOMAIN journal
    /\ allowance \in [Address -> Nat]
    /\ claim \in [Claims -> Claim]

LEMMA Domain ==
    ASSUME NEW S, NEW s \in Seq(S)
    PROVE  DOMAIN s = 1..Len(s) /\ Len(s) \in Nat /\ \A i \in DOMAIN s : s[i] \in S
    BY LenProperties

LEMMA Appended ==
    ASSUME NEW S, NEW s \in Seq(S), NEW e \in S
    PROVE  LET t == Append(s, e)
           IN  /\ t \in Seq(S) /\ Len(t) = Len(s) + 1
               /\ DOMAIN t = DOMAIN s \cup {Len(t)} /\ Len(t) \notin DOMAIN s
               /\ t[Len(t)] = e /\ \A i \in DOMAIN s : t[i] = s[i]
    BY AppendProperties, LenProperties

LEMMA LessWellFounded == IsWellFoundedOn({p \in Nat \X Nat : p[1] < p[2]}, Nat)
    BY NatLessThanWellFounded DEF OpToRel

LEMMA FreeQuote ==
    ASSUME Free # {}
    PROVE  Min(Free) \in QuoteID /\ Min(Free) \notin DOMAIN quotes
<1>1. Free \subseteq QuoteID /\ Free \subseteq Nat
    BY QuoteAssumption DEF Free, QuoteAssumption
<1>2. PICK x \in Free : \A y \in Free : ~ (<<y, x>> \in {p \in Nat \X Nat : p[1] < p[2]})
    BY <1>1, LessWellFounded, WFMin
<1>3. ASSUME NEW y \in Free PROVE x <= y
    <2>1. x \in Nat /\ y \in Nat
        BY <1>1
    <2>2. ~ (<<y, x>> \in {p \in Nat \X Nat : p[1] < p[2]})
        BY <1>2
    <2>3. ~ (y < x)
        BY <2>1, <2>2
    <2> QED
        BY <2>1, <2>3
<1>4. Min(Free) \in Free
    BY <1>3 DEF Min
<1> QED
    BY <1>1, <1>4 DEF Free

\* What an operation in progress is.
LEMMA OpIs ==
    ASSUME TypeInv
    PROVE  /\ op.step = "idle" => op = NoOp
           /\ op.step = "quoting" => op \in Quoting
           /\ op.step \in {"sending", "nonce", "checked", "appended"} => op \in Sending
           /\ op # NoOp => op.by \in Client /\ op.id \in QuoteID
           /\ op.step \in {"idle", "quoting", "sending", "nonce", "checked", "appended"}
    BY DEF TypeInv, NoOp, Quoting, Sending

USE DEF quoteVars, chainVars

LEMMA QuoteStartType ==
    ASSUME TypeInv, NEW c \in Client, NEW ask \in Ask, QuoteStart(c, ask), claim' \in [Claims -> Claim]
    PROVE  TypeInv' /\ op' \in Quoting
<1>1. Min(Free) \in QuoteID
    BY FreeQuote DEF QuoteStart
<1>2. op' \in Quoting
    BY <1>1 DEF QuoteStart, Quoting
<1> QED
    BY <1>2 DEF QuoteStart, TypeInv

LEMMA QuoteFinishType ==
    ASSUME TypeInv, QuoteFinish, claim' = claim PROVE TypeInv'
<1> DEFINE live == {i \in DOMAIN quotes : Kept(i)}
<1>1. op \in Quoting /\ op.quote \in Ask /\ op.by \in Client /\ op.id \in QuoteID
    BY OpIs DEF QuoteFinish, Quoting
<1>2. PICK nonce \in PendingNonces :
          quotes' = [i \in live \cup {op.id} |->
                            IF i = op.id
                            THEN [action |-> op.quote.action, to |-> op.quote.to,
                                  amount |-> op.quote.amount, by |-> op.by,
                                  nonce |-> nonce, expires |-> now + Lifetime]
                            ELSE quotes[i]]
    BY DEF QuoteFinish
<1>3. nonce \in Nat /\ now + Lifetime \in Nat
    <2>1. NonceAt \in Nat /\ Len(journal) \in Nat
        BY Domain DEF TypeInv, NonceAt
    <2> QED
        BY <2>1, QuoteAssumption DEF PendingNonces, TypeInv, QuoteAssumption
<1>4. [action |-> op.quote.action, to |-> op.quote.to, amount |-> op.quote.amount,
       by |-> op.by, nonce |-> nonce, expires |-> now + Lifetime] \in BoundQuote
    BY <1>1, <1>3 DEF Ask, BoundQuote
<1>5. DOMAIN quotes' \subseteq QuoteID /\ quotes' \in [DOMAIN quotes' -> BoundQuote]
    <2>1. live \subseteq DOMAIN quotes
        OBVIOUS
    <2>2. \A i \in live : quotes[i] \in BoundQuote
        BY <2>1 DEF TypeInv
    <2> HIDE DEF live
    <2> QED
        BY <1>1, <1>2, <1>4, <2>1, <2>2 DEF TypeInv
<1>6. UNCHANGED <<now, journal, chainVars>> /\ op' = NoOp
    BY DEF QuoteFinish
<1> QED
    BY <1>5, <1>6 DEF TypeInv

LEMMA SendStartType ==
    ASSUME TypeInv, NEW i, SendStart(i), claim' \in [Claims -> Claim]
    PROVE  TypeInv' /\ op' \in Sending /\ op'.quote = quotes[i] /\ op'.by = quotes[i].by
                    /\ op'.step = "sending" /\ op'.id = i
<1>1. quotes[i] \in BoundQuote /\ i \in QuoteID
    BY DEF SendStart, TypeInv
<1>2. quotes[i].by \in Client
    BY <1>1 DEF BoundQuote
<1>3. op' \in Sending /\ op'.quote = quotes[i] /\ op'.by = quotes[i].by
       /\ op'.step = "sending" /\ op'.id = i
    BY <1>1, <1>2 DEF SendStart, Sending
<1> QED
    BY <1>3 DEF SendStart, TypeInv

\* The steps of Send that only move on keep what is sent.
LEMMA SendMoves ==
    ASSUME op \in Sending, NEW s \in {"sending", "nonce", "checked", "appended"},
           op' = [op EXCEPT !.step = s]
    PROVE  op' \in Sending /\ op'.step = s /\ op'.by = op.by /\ op'.id = op.id
                           /\ op'.quote = op.quote
    BY DEF Sending

LEMMA SendCheckType ==
    ASSUME TypeInv, SendCheckNonce \/ SendRecheck, claim' \in [Claims -> Claim]
    PROVE  TypeInv'
<1>1. op \in Sending
    BY OpIs DEF SendCheckNonce, SendRecheck
<1>2. op' \in Sending
    BY <1>1, SendMoves DEF SendCheckNonce, SendRecheck
<1> QED
    BY <1>2 DEF SendCheckNonce, SendRecheck, TypeInv

\* The record that Send appends.
NewRecord ==
    [id |-> op.id, by |-> op.by, action |-> op.quote.action, to |-> op.quote.to,
     amount |-> op.quote.amount, nonce |-> op.quote.nonce, created |-> now, state |-> "open"]

LEMMA SendAppendType ==
    ASSUME TypeInv, SendAppend, claim' \in [Claims -> Claim]
    PROVE  /\ TypeInv'
           /\ op \in Sending /\ op' \in Sending /\ op'.by = op.by
           /\ op'.step = "appended"
           /\ NewRecord \in Record
           /\ DOMAIN journal' = DOMAIN journal \cup {Len(journal')}
           /\ Len(journal') \notin DOMAIN journal
           /\ journal'[Len(journal')] = NewRecord
           /\ \A i \in DOMAIN journal : journal'[i] = journal[i]
<1>1. op \in Sending
    BY OpIs DEF SendAppend
<1>2. op' \in Sending /\ op'.by = op.by /\ op'.step = "appended"
    BY <1>1, SendMoves DEF SendAppend
<1>3. NewRecord \in Record
    BY <1>1 DEF NewRecord, Record, Sending, BoundQuote, TypeInv
<1>4. journal' = Append(journal, NewRecord)
    BY DEF SendAppend, NewRecord
<1>5. /\ journal' \in Seq(Record)
      /\ DOMAIN journal' = DOMAIN journal \cup {Len(journal')}
      /\ Len(journal') \notin DOMAIN journal
      /\ journal'[Len(journal')] = NewRecord
      /\ \A i \in DOMAIN journal : journal'[i] = journal[i]
    BY <1>3, <1>4, Appended DEF TypeInv
<1>6. TypeInv'
    BY <1>2, <1>5 DEF SendAppend, TypeInv
<1> QED
    BY <1>1, <1>2, <1>3, <1>5, <1>6

LEMMA SendBroadcastType ==
    ASSUME TypeInv, SendBroadcast, claim' \in [Claims -> Claim]
    PROVE  TypeInv'
<1>1. DOMAIN quotes' \subseteq QuoteID /\ quotes' \in [DOMAIN quotes' -> BoundQuote]
    BY DEF SendBroadcast, TypeInv
<1> QED
    BY <1>1 DEF SendBroadcast, TypeInv

LEMMA MineType ==
    ASSUME TypeInv, NEW i \in DOMAIN journal, NEW ok \in BOOLEAN, Mine(i, ok), claim' \in [Claims -> Claim]
    PROVE  /\ TypeInv'
           /\ Len(executed') = Len(executed) + 1
           /\ DOMAIN executed' = DOMAIN executed \cup {Len(executed')}
           /\ executed'[Len(executed')].tx = i
           /\ \A k \in DOMAIN executed : executed'[k] = executed[k]
<1> DEFINE e == [tx |-> i, ok |-> ok, cost |-> IF ok THEN Cost(journal[i]) ELSE 0]
<1>1. journal[i] \in Record /\ i \in Nat
    BY Domain DEF TypeInv
<1>2. Cost(journal[i]) \in Nat
    BY <1>1 DEF Cost, Record
<1>3. e \in Executed /\ e.tx = i
    BY <1>1, <1>2 DEF Executed
<1>4. executed' = Append(executed, e)
    BY DEF Mine
<1> HIDE DEF e
<1>5. /\ executed' \in Seq(Executed) /\ Len(executed') = Len(executed) + 1
      /\ DOMAIN executed' = DOMAIN executed \cup {Len(executed')}
      /\ executed'[Len(executed')] = e
      /\ \A k \in DOMAIN executed : executed'[k] = executed[k]
    BY <1>3, <1>4, Appended DEF TypeInv
<1>6. allowance' \in [Address -> Nat]
    BY <1>1 DEF Mine, Record, TypeInv
<1>7. TypeInv'
    BY <1>3, <1>5, <1>6 DEF Mine, TypeInv
<1> QED
    BY <1>3, <1>5, <1>7

LEMMA ObserveType ==
    ASSUME TypeInv, NEW k \in DOMAIN executed, Observe(k), claim' \in [Claims -> Claim]
    PROVE  /\ TypeInv'
           /\ DOMAIN journal' = DOMAIN journal
           /\ \A i \in DOMAIN journal :
                 /\ journal'[i].by = journal[i].by /\ journal'[i].to = journal[i].to
                 /\ journal'[i].action = journal[i].action
                 /\ journal'[i].amount = journal[i].amount
                 /\ journal'[i].nonce = journal[i].nonce
                 /\ journal'[i].created = journal[i].created
                 /\ i # executed[k].tx => journal'[i] = journal[i]
           /\ journal'[executed[k].tx].state = IF executed[k].ok THEN "succeeded" ELSE "reverted"
<1> DEFINE i == executed[k].tx
           r == [journal[i] EXCEPT !.state = IF executed[k].ok THEN "succeeded" ELSE "reverted"]
<1>1. i \in DOMAIN journal /\ journal[i] \in Record /\ i \in 1..Len(journal)
    BY Domain DEF TypeInv
<1>2. /\ r \in Record /\ r.by = journal[i].by /\ r.to = journal[i].to
      /\ r.action = journal[i].action /\ r.amount = journal[i].amount
      /\ r.nonce = journal[i].nonce /\ r.created = journal[i].created
      /\ r.state = IF executed[k].ok THEN "succeeded" ELSE "reverted"
    BY <1>1 DEF Record
<1>3. journal' = [journal EXCEPT ![i] = r]
    BY DEF Observe
<1> HIDE DEF r
<1>4. /\ journal' \in Seq(Record) /\ DOMAIN journal' = DOMAIN journal
      /\ journal'[i] = r /\ \A j \in DOMAIN journal : j # i => journal'[j] = journal[j]
    BY <1>1, <1>2, <1>3, ExceptSeq DEF TypeInv
<1>5. TypeInv'
    BY <1>4 DEF Observe, TypeInv
<1> QED
    BY <1>1, <1>2, <1>4, <1>5

LEMMA EnvironmentType ==
    ASSUME TypeInv, claim' \in [Claims -> Claim],
           \/ GiveUp \/ Tick
           \/ \E i \in DOMAIN journal : Retry(i)
           \/ \E s \in Address : TransferFrom(s)
    PROVE  TypeInv'
<1>1. CASE GiveUp
    BY <1>1 DEF GiveUp, TypeInv
<1>2. CASE Tick
    BY <1>2 DEF Tick, TypeInv
<1>3. CASE \E i \in DOMAIN journal : Retry(i)
    BY <1>3 DEF Retry, TypeInv
<1>4. CASE \E s \in Address : TransferFrom(s)
    BY <1>4 DEF TransferFrom, TypeInv
<1> QED
    BY <1>1, <1>2, <1>3, <1>4

LEMMA ClaimType ==
    ASSUME TypeInv, NEW c \in Claims, NEW q \in Claim, claim' = [claim EXCEPT ![c] = q]
    PROVE  claim' \in [Claims -> Claim]
    BY DEF TypeInv

\* Every step is one of these; the cases of all proofs below.
LEMMA Steps ==
    ASSUME [Next]_vars
    PROVE  \/ UNCHANGED faucetVars /\ \E ask \in Asked : QuoteStart(User, ask)
           \/ UNCHANGED faucetVars /\ QuoteFinish
           \/ UNCHANGED faucetVars /\ \E i \in DOMAIN quotes : quotes[i].by = User /\ SendStart(i)
           \/ UNCHANGED faucetVars /\ (SendCheckNonce \/ SendRecheck)
           \/ UNCHANGED faucetVars /\ SendAppend
           \/ UNCHANGED faucetVars /\ SendBroadcast
           \/ UNCHANGED faucetVars /\ \E i \in DOMAIN journal, ok \in BOOLEAN : Mine(i, ok)
           \/ UNCHANGED faucetVars /\ \E k \in DOMAIN executed : Observe(k)
           \/ UNCHANGED faucetVars /\ Tick
           \/ UNCHANGED faucetVars /\ \E s \in Address : TransferFrom(s)
           \/ UNCHANGED faucetVars /\ (GiveUp \/ \E i \in DOMAIN journal : Retry(i))
           \/ \E c \in Claims, to \in Address : ClaimStart(c, to)
           \/ \E c \in Claims : ClaimQuote(c)
           \/ \E c \in Claims : ClaimSend(c)
           \/ \E c \in Claims : ClaimEnd(c)
           \/ FaucetRestart
           \/ UNCHANGED vars
    BY DEF Next, WalletStep, UserStep

LEMMA UserAsks == \A ask \in Asked : ask \in Ask /\ User \in Client
    BY QuoteAssumption DEF Ask, QuoteAssumption

LEMMA ClaimAsks ==
    ASSUME TypeInv, NEW c \in Claims, ClaimQuote(c)
    PROVE  [action |-> "eth", to |-> claim[c].to, amount |-> Payout] \in Ask
<1>1. claim[c].to \in Address
    BY DEF ClaimQuote, TypeInv, Claim, NoClaim
<1> QED
    BY <1>1, FaucetAssumption DEF Ask, Action, FaucetAssumption

LEMMA TypeStep ==
    ASSUME TypeInv, [Next]_vars PROVE TypeInv'
<1>0. claim \in [Claims -> Claim]
    BY DEF TypeInv
<1>1. CASE UNCHANGED faucetVars /\ \E ask \in Asked : QuoteStart(User, ask)
    BY <1>0, <1>1, QuoteStartType, UserAsks DEF faucetVars
<1>2. CASE UNCHANGED faucetVars /\ QuoteFinish
    BY <1>0, <1>2, QuoteFinishType DEF faucetVars
<1>3. CASE UNCHANGED faucetVars /\ \E i \in DOMAIN quotes : SendStart(i)
    BY <1>0, <1>3, SendStartType DEF faucetVars
<1>4. CASE UNCHANGED faucetVars /\ (SendCheckNonce \/ SendRecheck)
    BY <1>0, <1>4, SendCheckType DEF faucetVars
<1>5. CASE UNCHANGED faucetVars /\ SendAppend
    BY <1>0, <1>5, SendAppendType DEF faucetVars
<1>6. CASE UNCHANGED faucetVars /\ SendBroadcast
    BY <1>0, <1>6, SendBroadcastType DEF faucetVars
<1>7. CASE UNCHANGED faucetVars /\ \E i \in DOMAIN journal, ok \in BOOLEAN : Mine(i, ok)
    BY <1>0, <1>7, MineType DEF faucetVars
<1>8. CASE UNCHANGED faucetVars /\ \E k \in DOMAIN executed : Observe(k)
    BY <1>0, <1>8, ObserveType DEF faucetVars
<1>9. CASE UNCHANGED faucetVars /\ (\/ GiveUp \/ Tick
                                    \/ \E i \in DOMAIN journal : Retry(i)
                                    \/ \E s \in Address : TransferFrom(s))
    BY <1>0, <1>9, EnvironmentType DEF faucetVars
<1>10. CASE \E c \in Claims, to \in Address : ClaimStart(c, to)
    <2>1. PICK c \in Claims, to \in Address : ClaimStart(c, to)
        BY <1>10
    <2>2. claim' \in [Claims -> Claim]
        BY <2>1, ClaimType DEF ClaimStart, UnderLimit, Claim
    <2> QED
        BY <2>1, <2>2 DEF ClaimStart, UnderLimit, TypeInv
<1>11. CASE \E c \in Claims : ClaimQuote(c)
    <2>1. PICK c \in Claims : ClaimQuote(c)
        BY <1>11
    <2> DEFINE ask == [action |-> "eth", to |-> claim[c].to, amount |-> Payout]
    <2>2. QuoteStart(c, ask) /\ ask \in Ask /\ c \in Client
        BY <2>1, ClaimAsks DEF ClaimQuote, Claims
    <2> HIDE DEF ask
    <2>3. op'.id \in QuoteID
        BY <2>2, FreeQuote DEF QuoteStart
    <2>4. claim' \in [Claims -> Claim]
        BY <2>1, <2>3, ClaimType DEF ClaimQuote, Claim
    <2> QED
        BY <2>2, <2>4, QuoteStartType
<1>12. CASE \E c \in Claims : ClaimSend(c)
    <2>1. PICK c \in Claims : ClaimSend(c)
        BY <1>12
    <2>2. claim' \in [Claims -> Claim]
        BY <2>1, ClaimType DEF ClaimSend, Claim
    <2> QED
        BY <2>1, <2>2, SendStartType DEF ClaimSend
<1>13. CASE \E c \in Claims : ClaimEnd(c)
    <2>1. PICK c \in Claims : ClaimEnd(c)
        BY <1>13
    <2>2. claim' \in [Claims -> Claim]
        BY <2>1, ClaimType DEF ClaimEnd, Claim
    <2> QED
        BY <2>1, <2>2 DEF ClaimEnd, TypeInv
<1>14. CASE FaucetRestart
    <2>1. claim' \in [Claims -> Claim]
        BY <1>14 DEF FaucetRestart, Claim
    <2>2. DOMAIN quotes' = {} /\ quotes' = [i \in DOMAIN quotes' |-> NoOp]
        BY <1>14 DEF FaucetRestart, Restart
    <2> QED
        BY <1>14, <2>1, <2>2 DEF FaucetRestart, Restart, TypeInv
<1>15. CASE UNCHANGED vars
    BY <1>15 DEF vars, faucetVars, TypeInv
<1> QED
    BY <1>1, <1>2, <1>3, <1>4, <1>5, <1>6, <1>7, <1>8, <1>9, <1>10, <1>11, <1>12, <1>13, <1>14,
       <1>15, Steps

LEMMA TypeInit == Init => TypeInv
<1> SUFFICES ASSUME Init PROVE TypeInv
    OBVIOUS
<1>1. DOMAIN quotes = {} /\ quotes = [i \in DOMAIN quotes |-> NoOp]
    BY DEF Init, QuotesInit
<1>2. \A S : <<>> \in Seq(S) /\ DOMAIN <<>> = {}
    OBVIOUS
<1>3. claim \in [Claims -> Claim]
    BY DEF Init, Claim
<1> QED
    BY <1>1, <1>2, <1>3 DEF Init, QuotesInit, TypeInv

----------------------------------------------------------------------------
(* What was checked.  Send rechecks while no record is open, so everything *)
(* signed before was mined; then its own record is open until it is mined, *)
(* and nothing else can be.                                                *)

Mined(i) == \E k \in DOMAIN executed : executed[k].tx = i

Allowed(r) == AllowanceFree(r) /\ Affordable(r)

CheckedInv ==
    /\ \A k \in DOMAIN executed : journal[executed[k].tx].nonce = k - 1
    /\ \A i \in DOMAIN journal :
          /\ journal[i].state # "open" => Mined(i)
          /\ journal[i].state = "reverted" => Reverted(i)
          /\ ~Mined(i) => Allowed(journal[i])
          /\ \A j \in DOMAIN journal : ~Mined(i) /\ ~Mined(j) => i = j
    /\ op.step \in {"sending", "nonce", "checked"} => \A i \in DOMAIN journal : Mined(i)
    /\ op.step = "checked" => Allowed(op.quote)

\* Nothing is signed or mined, and what is sent does not get ahead of its checks.
LEMMA Unchecked ==
    ASSUME CheckedInv, UNCHANGED <<journal, executed, allowance>>,
           \/ op' = op
           \/ op'.step \notin {"sending", "nonce", "checked"}
           \/ op'.step \in {"sending", "nonce"} /\ \A i \in DOMAIN journal : Mined(i)
    PROVE  CheckedInv'
<1>1. Balance' = Balance
    BY DEF Balance
<1> QED
    BY <1>1 DEF CheckedInv, Mined, Reverted, Allowed, AllowanceFree, Affordable, Cost

LEMMA SendStartChecked ==
    ASSUME TypeInv, CheckedInv, NEW i, SendStart(i) PROVE CheckedInv'
<1>1. \A j \in DOMAIN journal : Mined(j)
    <2>1. \A j \in DOMAIN journal : journal[j].state # "open"
        BY DEF SendStart, HasInFlightTx
    <2> QED
        BY <2>1 DEF CheckedInv
<1>2. op'.step = "sending"
    BY DEF SendStart
<1> QED
    BY <1>1, <1>2, Unchecked DEF SendStart

LEMMA SendCheckNonceChecked ==
    ASSUME TypeInv, CheckedInv, SendCheckNonce PROVE CheckedInv'
<1>1. op'.step = "nonce"
    BY OpIs, SendMoves DEF SendCheckNonce
<1>2. \A j \in DOMAIN journal : Mined(j)
    BY DEF SendCheckNonce, CheckedInv
<1> QED
    BY <1>1, <1>2, Unchecked DEF SendCheckNonce

LEMMA SendRecheckChecked ==
    ASSUME TypeInv, CheckedInv, SendRecheck PROVE CheckedInv'
<1>1. op'.quote = op.quote
    BY OpIs, SendMoves DEF SendRecheck
<1>2. (\A j \in DOMAIN journal : Mined(j)) /\ Allowed(op.quote)
    BY DEF SendRecheck, CheckedInv, Allowed
<1>3. Balance' = Balance /\ UNCHANGED <<journal, executed, allowance>>
    BY DEF SendRecheck, Balance
<1> QED
    BY <1>1, <1>2, <1>3 DEF CheckedInv, Mined, Reverted, Allowed, AllowanceFree, Affordable, Cost

LEMMA SendAppendChecked ==
    ASSUME TypeInv, CheckedInv, SendAppend, claim' \in [Claims -> Claim] PROVE CheckedInv'
<1>1. PICK n :
      /\ op' \in Sending /\ op'.step = "appended"
      /\ DOMAIN journal' = DOMAIN journal \cup {n} /\ n \notin DOMAIN journal
      /\ journal'[n] = NewRecord /\ \A i \in DOMAIN journal : journal'[i] = journal[i]
    BY SendAppendType
<1>2. /\ UNCHANGED <<executed, allowance>> /\ Balance' = Balance
      /\ (\A i \in DOMAIN journal : Mined(i)) /\ Allowed(op.quote)
    BY DEF SendAppend, CheckedInv, Balance
<1>3. /\ journal'[n].state = "open" /\ journal'[n].action = op.quote.action
      /\ journal'[n].to = op.quote.to /\ journal'[n].amount = op.quote.amount
    BY <1>1 DEF NewRecord
<1>4. Allowed(journal[n])'
    BY <1>2, <1>3 DEF Allowed, AllowanceFree, Affordable, Cost
<1>5. \A i \in DOMAIN journal : Mined(i)' /\ (Reverted(i) => Reverted(i)')
    BY <1>2 DEF Mined, Reverted
<1>6. \A k \in DOMAIN executed : executed[k].tx \in DOMAIN journal
    BY DEF TypeInv
<1>7. \A k \in DOMAIN executed' : journal'[executed'[k].tx].nonce = k - 1
    BY <1>1, <1>2, <1>6 DEF CheckedInv
<1>8. \A i \in DOMAIN journal' :
          /\ journal'[i].state # "open" => Mined(i)'
          /\ journal'[i].state = "reverted" => Reverted(i)'
          /\ ~Mined(i)' => i = n
    BY <1>1, <1>3, <1>5 DEF CheckedInv
<1>9. \A i \in DOMAIN journal' : ~Mined(i)' => Allowed(journal[i])'
    BY <1>4, <1>8
<1> QED
    BY <1>1, <1>7, <1>8, <1>9 DEF CheckedInv

\* Only the transaction that is not mined yet has the account's next nonce.
LEMMA MineNew ==
    ASSUME TypeInv, CheckedInv, NEW i \in DOMAIN journal, NEW ok, Mine(i, ok)
    PROVE  ~Mined(i)
<1>1. \A k \in DOMAIN executed : k \in Nat /\ k - 1 # NonceAt
    BY Domain DEF TypeInv, NonceAt
<1> QED
    BY <1>1 DEF Mine, Mined, CheckedInv

LEMMA MineChecked ==
    ASSUME TypeInv, CheckedInv, NEW i \in DOMAIN journal, NEW ok \in BOOLEAN, Mine(i, ok),
           claim' \in [Claims -> Claim]
    PROVE  CheckedInv'
<1> DEFINE n == Len(executed')
<1>1. /\ DOMAIN executed' = DOMAIN executed \cup {n} /\ executed'[n].tx = i
      /\ Len(executed') = Len(executed) + 1
      /\ \A k \in DOMAIN executed : executed'[k] = executed[k]
    BY MineType
<1>2. UNCHANGED <<journal, op>> /\ journal[i].nonce = n - 1
    BY <1>1, Domain DEF Mine, NonceAt, TypeInv
<1> HIDE DEF n
<1>3. \A j \in DOMAIN journal : (Mined(j) \/ j = i => Mined(j)') /\ (Reverted(j) => Reverted(j)')
    BY <1>1, <1>2 DEF Mined, Reverted
<1>4. \A j \in DOMAIN journal : Mined(j)'
    BY <1>3, MineNew DEF CheckedInv
<1>5. op.step # "checked"
    BY MineNew DEF CheckedInv
<1>6. \A k \in DOMAIN executed' : journal'[executed'[k].tx].nonce = k - 1
    BY <1>1, <1>2 DEF CheckedInv
<1> QED
    BY <1>2, <1>3, <1>4, <1>5, <1>6 DEF CheckedInv

LEMMA ObserveChecked ==
    ASSUME TypeInv, CheckedInv, NEW k \in DOMAIN executed, Observe(k),
           claim' \in [Claims -> Claim]
    PROVE  CheckedInv'
<1> DEFINE t == executed[k].tx
<1>1. /\ DOMAIN journal' = DOMAIN journal
      /\ \A i \in DOMAIN journal :
            /\ journal'[i].to = journal[i].to /\ journal'[i].action = journal[i].action
            /\ journal'[i].amount = journal[i].amount
            /\ journal'[i].nonce = journal[i].nonce
            /\ i # t => journal'[i] = journal[i]
      /\ journal'[t].state = IF executed[k].ok THEN "succeeded" ELSE "reverted"
    BY ObserveType
<1>2. UNCHANGED <<op, executed, allowance>> /\ Balance' = Balance
    BY DEF Observe, Balance
<1>3. Mined(t) /\ (journal'[t].state = "reverted" => Reverted(t)) /\ t \in DOMAIN journal
    BY <1>1 DEF Mined, Reverted, TypeInv
<1>4. \A i : (Mined(i)' <=> Mined(i)) /\ (Reverted(i)' <=> Reverted(i))
    BY <1>2 DEF Mined, Reverted
<1> HIDE DEF t
<1>5. \A i \in DOMAIN journal : Allowed(journal[i]) => Allowed(journal[i])'
    BY <1>1, <1>2 DEF Allowed, AllowanceFree, Affordable, Cost
<1>6. Allowed(op.quote) => Allowed(op.quote)'
    BY <1>2 DEF Allowed, AllowanceFree, Affordable, Cost
<1>7. \A j \in DOMAIN executed : journal'[executed'[j].tx].nonce = j - 1
    <2>1. \A j \in DOMAIN executed : executed[j].tx \in DOMAIN journal
        BY DEF TypeInv
    <2> QED
        BY <1>1, <1>2, <2>1 DEF CheckedInv
<1> QED
    BY <1>1, <1>2, <1>3, <1>4, <1>5, <1>6, <1>7 DEF CheckedInv

LEMMA TransferChecked ==
    ASSUME TypeInv, CheckedInv, NEW s \in Address, TransferFrom(s) PROVE CheckedInv'
<1>1. UNCHANGED <<journal, op, executed>> /\ Balance' = Balance
    BY DEF TransferFrom, Balance
<1>2. \A a : allowance[a] = 0 => allowance'[a] = 0
    BY DEF TransferFrom, TypeInv
<1>3. \A i : (Mined(i)' <=> Mined(i)) /\ (Reverted(i)' <=> Reverted(i))
    BY <1>1 DEF Mined, Reverted
<1>4. \A i \in DOMAIN journal : Allowed(journal[i]) => Allowed(journal[i])'
    BY <1>1, <1>2 DEF Allowed, AllowanceFree, Affordable, Cost
<1>5. Allowed(op.quote) => Allowed(op.quote)'
    BY <1>1, <1>2 DEF Allowed, AllowanceFree, Affordable, Cost
<1> QED
    BY <1>1, <1>3, <1>4, <1>5 DEF CheckedInv

LEMMA CheckedStep ==
    ASSUME TypeInv, CheckedInv, [Next]_vars PROVE CheckedInv'
<1>0. claim \in [Claims -> Claim]
    BY DEF TypeInv
<1>1. ASSUME NEW c, NEW ask, QuoteStart(c, ask) PROVE CheckedInv'
    <2>1. op'.step = "quoting"
        BY <1>1 DEF QuoteStart
    <2> QED
        BY <1>1, <2>1, Unchecked DEF QuoteStart
<1>2. CASE QuoteFinish
    BY <1>2, Unchecked DEF QuoteFinish, NoOp
<1>3. CASE UNCHANGED faucetVars /\ SendAppend
    BY <1>0, <1>3, SendAppendChecked DEF faucetVars
<1>4. CASE SendBroadcast
    BY <1>4, Unchecked DEF SendBroadcast, NoOp
<1>5. CASE UNCHANGED faucetVars /\ \E i \in DOMAIN journal, ok \in BOOLEAN : Mine(i, ok)
    BY <1>0, <1>5, MineChecked DEF faucetVars
<1>6. CASE UNCHANGED faucetVars /\ \E k \in DOMAIN executed : Observe(k)
    BY <1>0, <1>6, ObserveChecked DEF faucetVars
<1>7. CASE Tick \/ GiveUp \/ \E i \in DOMAIN journal : Retry(i)
    BY <1>7, Unchecked DEF Tick, GiveUp, Retry, NoOp
<1>8. CASE \E c \in Claims, to \in Address : ClaimStart(c, to)
    BY <1>8, Unchecked DEF ClaimStart, UnderLimit
<1>9. CASE \E c \in Claims : ClaimEnd(c)
    BY <1>9, Unchecked DEF ClaimEnd
<1>10. CASE FaucetRestart
    BY <1>10, Unchecked DEF FaucetRestart, Restart, NoOp
<1>11. CASE UNCHANGED vars
    BY <1>11, Unchecked DEF vars
<1> QED
    BY <1>1, <1>2, <1>3, <1>4, <1>5, <1>6, <1>7, <1>8, <1>9, <1>10, <1>11, SendStartChecked,
       SendCheckNonceChecked, SendRecheckChecked, TransferChecked, Steps DEF ClaimQuote, ClaimSend

LEMMA CheckedInit == Init => CheckedInv
<1>1. DOMAIN <<>> = {}
    OBVIOUS
<1> QED
    BY <1>1 DEF Init, QuotesInit, CheckedInv, NoOp

LEMMA CheckedInvariance == Spec => [](TypeInv /\ CheckedInv)
    BY TypeInit, TypeStep, CheckedInit, CheckedStep, PTL DEF Spec

\* "The server rechecks nonce, funds and relevant token conditions before
\* signing": however long a transaction is on its way, when it is mined an
\* approval still replaces an allowance of zero and the account can still pay.
THEOREM CheckedWhenMined == Spec => CheckedHoldsWhenMined
<1>1. ASSUME TypeInv, CheckedInv, [Next]_vars, executed' # executed
      PROVE  LET r == journal[executed'[Len(executed')].tx]
             IN  AllowanceFree(r) /\ Affordable(r)
    <2>1. \E i \in DOMAIN journal, ok \in BOOLEAN : Mine(i, ok) /\ claim' = claim
        BY <1>1, Steps
           DEF QuoteStart, QuoteFinish, SendStart, SendCheckNonce, SendRecheck, SendAppend,
               SendBroadcast, Observe, Tick, TransferFrom, GiveUp, Retry, ClaimStart, ClaimQuote,
               ClaimSend, ClaimEnd, FaucetRestart, Restart, vars, faucetVars
    <2>2. PICK i \in DOMAIN journal, ok \in BOOLEAN : Mine(i, ok) /\ claim' = claim
        BY <2>1
    <2>3. executed'[Len(executed')].tx = i
        BY <1>1, <2>2, MineType DEF TypeInv
    <2>4. ~Mined(i)
        BY <1>1, <2>2, MineNew
    <2> QED
        BY <1>1, <2>3, <2>4 DEF CheckedInv, Allowed
<1>2. TypeInv /\ CheckedInv /\ [Next]_vars
        => [executed' # executed =>
              LET r == journal[executed'[Len(executed')].tx]
              IN  AllowanceFree(r) /\ Affordable(r)]_quoteVars
    BY <1>1
<1> QED
    BY <1>2, CheckedInvariance, PTL DEF Spec, CheckedHoldsWhenMined

----------------------------------------------------------------------------
(* Payouts.  A claim looks at the journal once, then quotes, sends and      *)
(* appends; what it saw stays true until it appends, because it alone can  *)
(* append payouts while it holds mu, and a quote it left behind in the      *)
(* store is never sent by a later claim.                                   *)

InWindow(t) == {i \in Payouts : journal[i].created \in t..(t + Hour - 1)}

Unpaid(to) == \A i \in Payouts : journal[i].to = to => now - journal[i].created >= Hour

Room == \A t \in Nat : t + Hour > now => Cardinality(InWindow(t)) < Limit

Clear(q) == q.action = "eth" /\ q.amount = Payout /\ Unpaid(q.to) /\ Room

JournalPart ==
    \A i \in DOMAIN journal :
        /\ journal[i].created <= now
        /\ journal[i].by # User => journal[i].action = "eth" /\ journal[i].amount = Payout

ClaimPart(c) ==
    /\ claim[c] # NoClaim => mu = c
    /\ claim[c].step = "checked" => Unpaid(claim[c].to) /\ Room
    /\ /\ claim[c].step = "quoted"
       /\ claim[c].id \in DOMAIN quotes
       /\ quotes[claim[c].id].by = c
       => Clear(quotes[claim[c].id])

OpPart ==
    op # NoOp /\ op.by # User =>
        /\ op.step = "quoting" => claim[op.by].step = "quoted" /\ claim[op.by].id = op.id
        /\ op.step # "quoting" => claim[op.by].step = "sent"
        /\ op.step # "appended" => Clear(op.quote)
        /\ op.quote.action = "eth" /\ op.quote.amount = Payout

ClaimInv == JournalPart /\ (\A c \in Claims : ClaimPart(c)) /\ OpPart

LimitKept == \A t \in Nat : Cardinality(InWindow(t)) <= Limit

PaidInv == PaidOncePerHour /\ LimitKept

\* No payout is added, and time does not run backwards.
NoNewPayout ==
    /\ now' \in Nat /\ now' >= now
    /\ Payouts' \subseteq Payouts
    /\ \A i \in Payouts' : journal'[i].created = journal[i].created /\ journal'[i].to = journal[i].to

LEMMA PayoutTypes ==
    ASSUME TypeInv
    PROVE  /\ Payouts \subseteq DOMAIN journal
           /\ \A i \in DOMAIN journal : journal[i].created \in Nat /\ journal[i] \in Record
           /\ IsFiniteSet(DOMAIN journal) /\ now \in Nat /\ Hour \in Nat /\ Limit \in Nat
<1>1. \A i \in DOMAIN journal : journal[i] \in Record
    BY Domain DEF TypeInv
<1>2. IsFiniteSet(DOMAIN journal)
    BY Domain, FS_Interval DEF TypeInv
<1> QED
    BY <1>1, <1>2, FaucetAssumption DEF Payouts, Record, TypeInv, FaucetAssumption

LEMMA SubsetCardinality ==
    ASSUME NEW S, IsFiniteSet(S), NEW T, T \subseteq S
    PROVE  Cardinality(T) \in Nat /\ Cardinality(S) \in Nat /\ Cardinality(T) <= Cardinality(S)
    BY FS_Subset, FS_CardinalityType

LEMMA OneMore ==
    ASSUME NEW S, IsFiniteSet(S), NEW x
    PROVE  IsFiniteSet(S \cup {x}) /\ Cardinality(S \cup {x}) <= Cardinality(S) + 1
<1>1. Cardinality(S) \in Nat
    BY FS_CardinalityType
<1>2. /\ IsFiniteSet(S \cup {x})
      /\ Cardinality(S \cup {x}) = IF x \in S THEN Cardinality(S) ELSE Cardinality(S) + 1
    BY FS_AddElement
<1> QED
    BY <1>1, <1>2

LEMMA WindowsShrink ==
    ASSUME TypeInv, NoNewPayout, NEW t \in Nat
    PROVE  /\ InWindow(t)' \subseteq InWindow(t)
           /\ Cardinality(InWindow(t)') \in Nat /\ Cardinality(InWindow(t)) \in Nat
           /\ Cardinality(InWindow(t)') <= Cardinality(InWindow(t))
<1>1. InWindow(t)' \subseteq InWindow(t)
    BY DEF InWindow, NoNewPayout
<1>2. IsFiniteSet(InWindow(t))
    <2>1. InWindow(t) \subseteq DOMAIN journal
        BY DEF InWindow, Payouts
    <2> QED
        BY <2>1, PayoutTypes, FS_Subset
<1> QED
    BY <1>1, <1>2, SubsetCardinality

LEMMA ClearKept ==
    ASSUME TypeInv, NoNewPayout
    PROVE  /\ Room => Room'
           /\ \A a : Unpaid(a) => Unpaid(a)'
<1>1. ASSUME Room, NEW t \in Nat, t + Hour > now' PROVE Cardinality(InWindow(t)') < Limit
    <2>1. t + Hour > now
        BY <1>1, PayoutTypes DEF NoNewPayout
    <2>2. Cardinality(InWindow(t)) < Limit
        BY <1>1, <2>1 DEF Room
    <2> QED
        BY <2>2, WindowsShrink, PayoutTypes
<1>2. ASSUME NEW a, Unpaid(a), NEW i \in Payouts', journal'[i].to = a
      PROVE  now' - journal'[i].created >= Hour
    BY <1>2, PayoutTypes DEF NoNewPayout, Unpaid
<1> QED
    BY <1>1, <1>2 DEF Room, Unpaid

LEMMA PaidKept ==
    ASSUME TypeInv, NoNewPayout, PaidInv PROVE PaidInv'
<1>1. LimitKept'
    <2>1. ASSUME NEW t \in Nat PROVE Cardinality(InWindow(t)') <= Limit
        BY WindowsShrink, PayoutTypes DEF PaidInv, LimitKept
    <2> QED
        BY <2>1 DEF LimitKept
<1>2. PaidOncePerHour'
    BY DEF PaidInv, PaidOncePerHour, NoNewPayout
<1> QED
    BY <1>1, <1>2 DEF PaidInv

----------------------------------------------------------------------------
(* The steps. *)

LEMMA SamePayouts ==
    ASSUME TypeInv, UNCHANGED <<now, journal, executed>>
    PROVE  NoNewPayout /\ (JournalPart => JournalPart')
<1>1. Payouts' = Payouts
    BY DEF Payouts, Reverted
<1> QED
    BY <1>1 DEF NoNewPayout, JournalPart, TypeInv

LEMMA MinePayouts ==
    ASSUME TypeInv, NEW i \in DOMAIN journal, NEW ok \in BOOLEAN, Mine(i, ok),
           claim' \in [Claims -> Claim]
    PROVE  NoNewPayout /\ (JournalPart => JournalPart')
<1>1. /\ DOMAIN executed' = DOMAIN executed \cup {Len(executed')}
      /\ \A k \in DOMAIN executed : executed'[k] = executed[k]
    BY MineType
<1>2. UNCHANGED <<now, journal>>
    BY DEF Mine
<1>3. Payouts' \subseteq Payouts
    BY <1>1, <1>2 DEF Payouts, Reverted
<1> QED
    BY <1>2, <1>3 DEF NoNewPayout, JournalPart, TypeInv

LEMMA ObservePayouts ==
    ASSUME TypeInv, NEW k \in DOMAIN executed, Observe(k), claim' \in [Claims -> Claim]
    PROVE  NoNewPayout /\ (JournalPart => JournalPart')
<1>1. /\ DOMAIN journal' = DOMAIN journal
      /\ \A i \in DOMAIN journal :
            /\ journal'[i].by = journal[i].by /\ journal'[i].to = journal[i].to
            /\ journal'[i].action = journal[i].action
            /\ journal'[i].amount = journal[i].amount
            /\ journal'[i].created = journal[i].created
    BY ObserveType
<1>2. UNCHANGED <<now, executed>>
    BY DEF Observe
<1>3. Payouts' = Payouts /\ Payouts \subseteq DOMAIN journal
    BY <1>1, <1>2 DEF Payouts, Reverted
<1>4. now' \in Nat /\ now' >= now
    BY <1>2 DEF TypeInv
<1>5. NoNewPayout
    BY <1>1, <1>3, <1>4 DEF NoNewPayout
<1>6. JournalPart => JournalPart'
    BY <1>1, <1>2 DEF JournalPart
<1> QED
    BY <1>5, <1>6

LEMMA TickPayouts ==
    ASSUME TypeInv, Tick
    PROVE  NoNewPayout /\ (JournalPart => JournalPart')
<1>1. now \in Nat /\ now' = now + 1 /\ UNCHANGED <<journal, executed>>
    BY DEF Tick, TypeInv
<1>2. Payouts' = Payouts
    BY <1>1 DEF Payouts, Reverted
<1>3. ASSUME JournalPart PROVE JournalPart'
    BY <1>1, <1>3, PayoutTypes DEF JournalPart
<1> QED
    BY <1>1, <1>2, <1>3 DEF NoNewPayout

\* The claims stay as they are when quotes only disappear.
LEMMA ClaimsKept ==
    ASSUME TypeInv, ClaimInv, NoNewPayout, UNCHANGED faucetVars,
           DOMAIN quotes' \subseteq DOMAIN quotes,
           \A i \in DOMAIN quotes' : quotes'[i] = quotes[i]
    PROVE  \A c \in Claims : ClaimPart(c)'
    BY ClearKept DEF ClaimInv, ClaimPart, Clear, faucetVars

\* An operation moves on.
LEMMA OpMoves ==
    ASSUME TypeInv, ClaimInv, NoNewPayout \/ op'.step = "appended",
           op # NoOp, op'.by = op.by, op'.id = op.id, op'.quote = op.quote,
           op'.step = "quoting" <=> op.step = "quoting",
           op.step = "appended" => op'.step = "appended",
           op.by # User => claim'[op.by] = claim[op.by]
    PROVE  OpPart'
    BY ClearKept DEF ClaimInv, OpPart, Clear

\* The claim that holds mu is the only one under way.
LEMMA OneClaim ==
    ASSUME ClaimInv, NEW c \in Claims, NEW d \in Claims,
           claim[c] # NoClaim, claim[d] # NoClaim
    PROVE  c = d
    BY DEF ClaimInv, ClaimPart

LEMMA OpClaim ==
    ASSUME TypeInv, ClaimInv, op # NoOp, op.by # User
    PROVE  op.by \in Claims /\ claim[op.by] # NoClaim
<1>1. op.by \in Claims
    BY OpIs DEF Claims
<1>2. claim[op.by].step \in {"quoted", "sent"}
    BY DEF ClaimInv, OpPart
<1> QED
    BY <1>1, <1>2 DEF NoClaim

LEMMA UserQuotes ==
    ASSUME TypeInv, ClaimInv, PaidInv, UNCHANGED faucetVars, NEW ask, QuoteStart(User, ask)
    PROVE  ClaimInv' /\ PaidInv'
<1>1. UNCHANGED <<now, journal, executed, quotes>> /\ op'.by = User
    BY DEF QuoteStart
<1>2. \A c \in Claims : ClaimPart(c)'
    BY <1>1, SamePayouts, ClaimsKept
<1>3. OpPart'
    BY <1>1 DEF OpPart
<1> QED
    BY <1>1, <1>2, <1>3, SamePayouts, PaidKept DEF ClaimInv

LEMMA QuoteFinishes ==
    ASSUME TypeInv, ClaimInv, PaidInv, UNCHANGED faucetVars, QuoteFinish
    PROVE  ClaimInv' /\ PaidInv'
<1>1. UNCHANGED <<now, journal, executed>> /\ op' = NoOp /\ op.step = "quoting" /\ op # NoOp
    BY DEF QuoteFinish, NoOp
<1>2. NoNewPayout /\ JournalPart'
    BY <1>1, SamePayouts DEF ClaimInv
<1>3. /\ DOMAIN quotes' \subseteq DOMAIN quotes \cup {op.id}
      /\ \A i \in DOMAIN quotes' : i # op.id => i \in DOMAIN quotes /\ quotes'[i] = quotes[i]
      /\ op.id \in DOMAIN quotes'
      /\ quotes'[op.id].by = op.by /\ quotes'[op.id].action = op.quote.action
      /\ quotes'[op.id].to = op.quote.to /\ quotes'[op.id].amount = op.quote.amount
    BY DEF QuoteFinish
<1>4. ASSUME NEW c \in Claims PROVE ClaimPart(c)'
    <2>1. ClaimPart(c) /\ claim' = claim /\ mu' = mu
        BY DEF ClaimInv, faucetVars
    <2>2. ASSUME claim[c].step = "quoted", claim[c].id \in DOMAIN quotes', quotes'[claim[c].id].by = c
          PROVE  Clear(quotes[claim[c].id])'
        <3>1. CASE claim[c].id = op.id
            <4>1. op.by = c /\ c # User
                BY <1>3, <2>2, <3>1 DEF Claims
            <4>2. Clear(op.quote)
                BY <1>1, <4>1 DEF ClaimInv, OpPart
            <4> QED
                BY <1>2, <1>3, <2>1, <3>1, <4>2, ClearKept DEF Clear
        <3>2. CASE claim[c].id # op.id
            <4>1. Clear(quotes[claim[c].id]) /\ quotes'[claim[c].id] = quotes[claim[c].id]
                BY <1>3, <2>1, <2>2, <3>2 DEF ClaimPart
            <4> QED
                BY <1>2, <2>1, <4>1, ClearKept DEF Clear
        <3> QED
            BY <3>1, <3>2
    <2> QED
        BY <1>2, <2>1, <2>2, ClearKept DEF ClaimPart
<1> QED
    BY <1>1, <1>2, <1>4, PaidKept DEF ClaimInv, OpPart

LEMMA UserSends ==
    ASSUME TypeInv, ClaimInv, PaidInv, UNCHANGED faucetVars,
           NEW i, quotes[i].by = User, SendStart(i)
    PROVE  ClaimInv' /\ PaidInv'
<1>1. UNCHANGED <<now, journal, executed, quotes>> /\ op'.by = User
    BY DEF SendStart
<1>2. \A c \in Claims : ClaimPart(c)'
    BY <1>1, SamePayouts, ClaimsKept
<1>3. OpPart'
    BY <1>1 DEF OpPart
<1> QED
    BY <1>1, <1>2, <1>3, SamePayouts, PaidKept DEF ClaimInv

LEMMA SendChecks ==
    ASSUME TypeInv, ClaimInv, PaidInv, UNCHANGED faucetVars, SendCheckNonce \/ SendRecheck
    PROVE  ClaimInv' /\ PaidInv'
<1>1. /\ UNCHANGED <<now, journal, executed, quotes>> /\ op.step \in {"sending", "nonce"}
      /\ op \in Sending /\ op # NoOp
    BY OpIs DEF SendCheckNonce, SendRecheck, NoOp
<1>2. /\ op'.step \in {"nonce", "checked"} /\ op'.by = op.by /\ op'.id = op.id
      /\ op'.quote = op.quote
    BY <1>1, SendMoves DEF SendCheckNonce, SendRecheck
<1>3. NoNewPayout /\ JournalPart'
    BY <1>1, SamePayouts DEF ClaimInv
<1>4. OpPart'
    BY <1>1, <1>2, <1>3, OpMoves DEF faucetVars
<1> QED
    BY <1>1, <1>3, <1>4, ClaimsKept, PaidKept DEF ClaimInv

\* A payment of the owner.
LEMMA UserAppends ==
    ASSUME TypeInv, ClaimInv, PaidInv, UNCHANGED faucetVars, SendAppend, op.by = User
    PROVE  ClaimInv' /\ PaidInv'
<1>1. PICK n :
      /\ op' \in Sending /\ op'.by = op.by
      /\ DOMAIN journal' = DOMAIN journal \cup {n} /\ n \notin DOMAIN journal
      /\ journal'[n] = NewRecord /\ \A i \in DOMAIN journal : journal'[i] = journal[i]
    BY SendAppendType DEF TypeInv, faucetVars
<1>2. UNCHANGED <<now, executed, quotes>> /\ now \in Nat
    BY DEF SendAppend, TypeInv
<1>3. journal'[n].by = User /\ journal'[n].created = now
    BY <1>1 DEF NewRecord
<1>4. Payouts' = Payouts
    BY <1>1, <1>2, <1>3 DEF Payouts, Reverted
<1>5. NoNewPayout
    BY <1>1, <1>2, <1>4 DEF NoNewPayout, Payouts
<1>6. JournalPart'
    BY <1>1, <1>2, <1>3 DEF ClaimInv, JournalPart
<1>7. OpPart'
    BY <1>1 DEF OpPart
<1> QED
    BY <1>2, <1>5, <1>6, <1>7, ClaimsKept, PaidKept DEF ClaimInv

\* A payout: what the claim saw still holds, so it is the only one to its
\* recipient within an hour, and there is room for one more.
LEMMA ClaimAppends ==
    ASSUME TypeInv, ClaimInv, PaidInv, UNCHANGED faucetVars, SendAppend, op.by # User
    PROVE  ClaimInv' /\ PaidInv'
<1>0. op.step = "checked" /\ op # NoOp /\ TypeInv'
    BY SendAppendType DEF SendAppend, NoOp, TypeInv, faucetVars
<1>1. PICK n :
      /\ op' \in Sending /\ op'.by = op.by /\ op'.step = "appended"
      /\ DOMAIN journal' = DOMAIN journal \cup {n} /\ n \notin DOMAIN journal
      /\ journal'[n] = NewRecord /\ \A i \in DOMAIN journal : journal'[i] = journal[i]
    BY SendAppendType DEF TypeInv, faucetVars
<1>2. UNCHANGED <<now, executed, quotes>> /\ now \in Nat
    BY DEF SendAppend, TypeInv
<1>3. /\ Clear(op.quote) /\ op.by \in Claims /\ claim[op.by].step = "sent"
    BY <1>0, OpClaim DEF ClaimInv, OpPart
<1>4. /\ journal'[n].by = op.by /\ journal'[n].created = now /\ journal'[n].to = op.quote.to
      /\ journal'[n].action = "eth" /\ journal'[n].amount = Payout
    BY <1>1, <1>3 DEF NewRecord, Clear
<1>5. Payouts' \subseteq Payouts \cup {n} /\ n \notin Payouts
    BY <1>1, <1>2 DEF Payouts, Reverted
<1>6. JournalPart'
    BY <1>1, <1>2, <1>4, PayoutTypes DEF ClaimInv, JournalPart
<1>7. op'.id = op.id /\ op'.quote = op.quote
    <2>1. op \in Sending
        BY <1>0, OpIs
    <2> QED
        BY <2>1, SendMoves DEF SendAppend
<1>8. OpPart'
    BY <1>0, <1>1, <1>7, OpMoves DEF faucetVars
<1>9. ASSUME NEW c \in Claims PROVE ClaimPart(c)'
    <2>1. claim[c] = NoClaim \/ claim[c].step = "sent"
        BY <1>3, OneClaim DEF NoClaim
    <2> QED
        BY <2>1 DEF NoClaim, ClaimInv, ClaimPart, faucetVars
<1>10. PaidOncePerHour'
    <2>1. \A i \in Payouts : journal[i].to = op.quote.to => now - journal[i].created >= Hour
        BY <1>3 DEF Clear, Unpaid
    <2>2. \A i \in Payouts : journal'[i] = journal[i]
        BY <1>1 DEF Payouts
    <2> QED
        BY <1>4, <1>5, <2>1, <2>2 DEF PaidInv, PaidOncePerHour
<1>11. LimitKept'
    <2> SUFFICES ASSUME NEW t \in Nat PROVE Cardinality(InWindow(t)') <= Limit
        BY DEF LimitKept
    <2>1. \A i \in Payouts : journal'[i] = journal[i]
        BY <1>1 DEF Payouts
    <2>2. InWindow(t) \subseteq DOMAIN journal /\ IsFiniteSet(InWindow(t))
        <3>1. InWindow(t) \subseteq DOMAIN journal
            BY DEF InWindow, Payouts
        <3> QED
            BY <3>1, PayoutTypes, FS_Subset
    <2>3. Cardinality(InWindow(t)) \in Nat /\ Cardinality(InWindow(t)) <= Limit
        BY <2>2, FS_CardinalityType DEF PaidInv, LimitKept
    <2>4. CASE now \in t..(t + Hour - 1)
        <3>1. Cardinality(InWindow(t)) < Limit
            <4>1. t + Hour > now
                BY <2>4, <1>2, PayoutTypes
            <4> QED
                BY <1>3, <4>1 DEF Clear, Room
        <3>2. InWindow(t)' \subseteq InWindow(t) \cup {n}
            BY <1>5, <2>1 DEF InWindow
        <3>3. /\ IsFiniteSet(InWindow(t) \cup {n})
              /\ Cardinality(InWindow(t) \cup {n}) <= Cardinality(InWindow(t)) + 1
            BY <2>2, OneMore
        <3> QED
            BY <2>3, <3>1, <3>2, <3>3, SubsetCardinality, PayoutTypes
    <2>5. CASE now \notin t..(t + Hour - 1)
        <3>1. InWindow(t)' \subseteq InWindow(t)
            BY <1>4, <1>5, <2>1, <2>5 DEF InWindow
        <3> QED
            BY <2>2, <2>3, <3>1, SubsetCardinality, PayoutTypes
    <2> QED
        BY <2>4, <2>5
<1> QED
    BY <1>6, <1>8, <1>9, <1>10, <1>11 DEF ClaimInv, PaidInv

LEMMA SendBroadcasts ==
    ASSUME TypeInv, ClaimInv, PaidInv, UNCHANGED faucetVars, SendBroadcast
    PROVE  ClaimInv' /\ PaidInv'
<1>1. /\ UNCHANGED <<now, journal, executed>> /\ op' = NoOp
      /\ DOMAIN quotes' \subseteq DOMAIN quotes
      /\ \A i \in DOMAIN quotes' : quotes'[i] = quotes[i]
    BY DEF SendBroadcast
<1> QED
    BY <1>1, SamePayouts, ClaimsKept, PaidKept DEF ClaimInv, OpPart

LEMMA Environment ==
    ASSUME TypeInv, ClaimInv, PaidInv, UNCHANGED faucetVars,
           \/ \E i \in DOMAIN journal, ok \in BOOLEAN : Mine(i, ok)
           \/ \E k \in DOMAIN executed : Observe(k)
           \/ Tick
           \/ \E s \in Address : TransferFrom(s)
           \/ GiveUp
           \/ \E i \in DOMAIN journal : Retry(i)
    PROVE  ClaimInv' /\ PaidInv'
<1>1. claim' \in [Claims -> Claim]
    BY DEF TypeInv, faucetVars
<1>2. NoNewPayout /\ JournalPart'
    <2>1. JournalPart
        BY DEF ClaimInv
    <2>2. CASE \E s \in Address : TransferFrom(s)
        BY <2>1, <2>2, SamePayouts DEF TransferFrom
    <2>3. CASE GiveUp
        BY <2>1, <2>3, SamePayouts DEF GiveUp
    <2>4. CASE \E i \in DOMAIN journal : Retry(i)
        BY <2>1, <2>4, SamePayouts DEF Retry
    <2> QED
        BY <1>1, <2>1, <2>2, <2>3, <2>4, MinePayouts, ObservePayouts, TickPayouts
<1>3. quotes' = quotes /\ (op' = op \/ op' = NoOp)
    BY DEF Mine, Observe, Tick, TransferFrom, GiveUp, Retry
<1>4. OpPart'
    <2>1. CASE op' = NoOp
        BY <2>1 DEF OpPart
    <2>2. CASE op' = op /\ op # NoOp
        BY <1>2, <2>2, OpMoves DEF faucetVars
    <2> QED
        BY <1>3, <2>1, <2>2
<1> QED
    BY <1>2, <1>3, <1>4, ClaimsKept, PaidKept DEF ClaimInv

\* What a claim sees in the journal when it starts.
LEMMA RecentIsAll ==
    ASSUME TypeInv, CheckedInv, ClaimInv
    PROVE  /\ \A to : (\A i \in Recent : ~Matches(i, to)) =>
                        \A i \in Payouts : journal[i].to = to => now - journal[i].created >= Hour
           /\ Cardinality(Recent) < Limit => Room
<1>1. \A i \in Payouts : i \in DOMAIN journal /\ journal[i].state # "reverted"
    BY DEF Payouts, CheckedInv
<1>2. \A i \in Payouts : now - journal[i].created < Hour => i \in Recent
    BY <1>1 DEF Recent
<1>3. ASSUME NEW to, \A i \in Recent : ~Matches(i, to), NEW i \in Payouts, journal[i].to = to
      PROVE  now - journal[i].created >= Hour
    <2>1. journal[i].action = "eth" /\ journal[i].amount = Payout
        BY DEF Payouts, ClaimInv, JournalPart
    <2>2. ~(now - journal[i].created < Hour)
        BY <1>2, <1>3, <2>1 DEF Matches
    <2> QED
        BY <1>1, <2>2, PayoutTypes
<1>4. ASSUME Cardinality(Recent) < Limit, NEW t \in Nat, t + Hour > now
      PROVE  Cardinality(InWindow(t)) < Limit
    <2>1. ASSUME NEW i \in InWindow(t) PROVE i \in Recent
        <3>1. i \in Payouts /\ journal[i].created \in t..(t + Hour - 1)
            BY DEF InWindow
        <3>2. now - journal[i].created < Hour
            BY <1>1, <1>4, <3>1, PayoutTypes
        <3> QED
            BY <1>2, <3>1, <3>2
    <2>2. IsFiniteSet(Recent)
        <3>1. Recent \subseteq DOMAIN journal
            BY DEF Recent
        <3> QED
            BY <3>1, PayoutTypes, FS_Subset
    <2> QED
        BY <1>4, <2>1, <2>2, SubsetCardinality, PayoutTypes
<1> QED
    BY <1>3, <1>4 DEF Room

LEMMA ClaimStarts ==
    ASSUME TypeInv, CheckedInv, ClaimInv, PaidInv,
           NEW c \in Claims, NEW to \in Address, ClaimStart(c, to)
    PROVE  ClaimInv' /\ PaidInv'
<1>1. UNCHANGED <<now, journal, executed, quotes, op>> /\ mu' = c
    BY DEF ClaimStart, UnderLimit, TryLock
<1>2. NoNewPayout /\ JournalPart'
    BY <1>1, SamePayouts DEF ClaimInv
<1>3. \A d \in Claims : claim[d] = NoClaim
    BY FaucetAssumption DEF ClaimStart, UnderLimit, TryLock, ClaimInv, ClaimPart, Claims, FaucetAssumption
<1>4. /\ claim'[c] = [step |-> "checked", to |-> to]
      /\ \A d \in Claims : d # c => claim'[d] = NoClaim
    BY <1>3 DEF ClaimStart, UnderLimit, TypeInv
<1>5. Unpaid(to) /\ Room
    BY RecentIsAll DEF ClaimStart, UnderLimit, Unpaid
<1>6. \A d \in Claims : ClaimPart(d)'
    BY <1>1, <1>2, <1>4, <1>5, ClearKept DEF ClaimPart, NoClaim
<1>7. OpPart'
    <2>1. op # NoOp => op.by = User
        BY <1>3, OpClaim
    <2> QED
        BY <1>1, <2>1 DEF OpPart
<1> QED
    BY <1>2, <1>6, <1>7, PaidKept DEF ClaimInv

LEMMA ClaimQuotes ==
    ASSUME TypeInv, ClaimInv, PaidInv, NEW c \in Claims, ClaimQuote(c)
    PROVE  ClaimInv' /\ PaidInv'
<1>1. /\ UNCHANGED <<now, journal, executed, quotes, mu>>
      /\ op' = [step |-> "quoting", by |-> c, id |-> Min(Free),
                quote |-> [action |-> "eth", to |-> claim[c].to, amount |-> Payout]]
      /\ Min(Free) \notin DOMAIN quotes
    BY FreeQuote DEF ClaimQuote, QuoteStart
<1>2. NoNewPayout /\ JournalPart'
    BY <1>1, SamePayouts DEF ClaimInv
<1>3. /\ claim'[c] = [step |-> "quoted", id |-> Min(Free)]
      /\ \A d \in Claims : d # c => claim'[d] = claim[d]
    BY <1>1 DEF ClaimQuote, TypeInv
<1>4. claim[c] # NoClaim /\ Unpaid(claim[c].to) /\ Room
    BY DEF ClaimQuote, ClaimInv, ClaimPart, NoClaim
<1>5. ASSUME NEW d \in Claims PROVE ClaimPart(d)'
    <2>1. CASE d = c
        BY <1>1, <1>3, <1>4, <2>1 DEF ClaimInv, ClaimPart
    <2>2. CASE d # c
        <3>1. claim'[d] = NoClaim
            BY <1>3, <1>4, <2>2, OneClaim
        <3> QED
            BY <3>1 DEF ClaimPart, NoClaim
    <2> QED
        BY <2>1, <2>2
<1>6. OpPart'
    BY <1>1, <1>2, <1>3, <1>4, ClearKept DEF OpPart, Clear
<1> QED
    BY <1>2, <1>5, <1>6, PaidKept DEF ClaimInv

LEMMA ClaimSends ==
    ASSUME TypeInv, ClaimInv, PaidInv, NEW c \in Claims, ClaimSend(c)
    PROVE  ClaimInv' /\ PaidInv'
<1>0. PICK i : i = claim[c].id
    OBVIOUS
<1>1. /\ UNCHANGED <<now, journal, executed, quotes, mu>>
      /\ op' = [step |-> "sending", by |-> c, id |-> i, quote |-> quotes[i]]
      /\ claim[c].step = "quoted" /\ i \in DOMAIN quotes /\ quotes[i].by = c
    BY <1>0 DEF ClaimSend, SendStart
<1>2. NoNewPayout /\ JournalPart'
    BY <1>1, SamePayouts DEF ClaimInv
<1>3. /\ claim'[c] = [step |-> "sent"]
      /\ \A d \in Claims : d # c => claim'[d] = claim[d]
    BY DEF ClaimSend, TypeInv
<1>4. claim[c] # NoClaim /\ Clear(quotes[i])
    BY <1>0, <1>1 DEF ClaimInv, ClaimPart, NoClaim
<1>5. ASSUME NEW d \in Claims PROVE ClaimPart(d)'
    <2>1. CASE d = c
        BY <1>1, <1>3, <1>4, <2>1 DEF ClaimInv, ClaimPart
    <2>2. CASE d # c
        <3>1. claim'[d] = NoClaim
            BY <1>3, <1>4, <2>2, OneClaim
        <3> QED
            BY <3>1 DEF ClaimPart, NoClaim
    <2> QED
        BY <2>1, <2>2
<1>6. OpPart'
    <2>1. Unpaid(quotes[i].to)' /\ Room'
        BY <1>1, <1>2, <1>4, ClearKept DEF Clear
    <2> QED
        BY <1>1, <1>3, <1>4, <2>1 DEF OpPart, Clear
<1> QED
    BY <1>2, <1>5, <1>6, PaidKept DEF ClaimInv

LEMMA ClaimEnds ==
    ASSUME TypeInv, ClaimInv, PaidInv, NEW c \in Claims, ClaimEnd(c)
    PROVE  ClaimInv' /\ PaidInv'
<1>1. UNCHANGED <<now, journal, executed, quotes, op>> /\ claim[c] # NoClaim
    BY DEF ClaimEnd
<1>2. NoNewPayout /\ JournalPart'
    BY <1>1, SamePayouts DEF ClaimInv
<1>3. \A d \in Claims : claim'[d] = NoClaim
    BY <1>1, OneClaim DEF ClaimEnd, TypeInv
<1>4. \A d \in Claims : ClaimPart(d)'
    BY <1>3 DEF ClaimPart, NoClaim
<1>5. OpPart'
    <2>1. op # NoOp => op.by = User
        BY <1>1, OpClaim, OneClaim DEF ClaimEnd, Working
    <2> QED
        BY <1>1, <2>1 DEF OpPart
<1> QED
    BY <1>2, <1>4, <1>5, PaidKept DEF ClaimInv

LEMMA Restarts ==
    ASSUME TypeInv, ClaimInv, PaidInv, FaucetRestart
    PROVE  ClaimInv' /\ PaidInv'
<1>1. UNCHANGED <<now, journal, executed>> /\ op' = NoOp
    BY DEF FaucetRestart, Restart
<1>2. NoNewPayout /\ JournalPart'
    BY <1>1, SamePayouts DEF ClaimInv
<1>3. \A d \in Claims : claim'[d] = NoClaim
    BY DEF FaucetRestart
<1> QED
    BY <1>1, <1>2, <1>3, PaidKept DEF ClaimInv, ClaimPart, OpPart, NoClaim

----------------------------------------------------------------------------

LEMMA ClaimStep ==
    ASSUME TypeInv, CheckedInv, ClaimInv, PaidInv, [Next]_vars
    PROVE  ClaimInv' /\ PaidInv'
<1>1. CASE UNCHANGED vars
    <2>1. NoNewPayout /\ JournalPart' /\ UNCHANGED faucetVars
        BY <1>1, SamePayouts DEF vars, ClaimInv
    <2>2. OpPart'
        <3>1. op = NoOp => OpPart'
            BY <1>1 DEF vars, OpPart
        <3> QED
            BY <1>1, <2>1, <3>1, OpMoves DEF vars, faucetVars
    <2> QED
        BY <1>1, <2>1, <2>2, ClaimsKept, PaidKept DEF vars, ClaimInv
<1> QED
    BY <1>1, Steps, UserQuotes, QuoteFinishes, UserSends, SendChecks, UserAppends, ClaimAppends,
       SendBroadcasts, Environment, ClaimStarts, ClaimQuotes, ClaimSends, ClaimEnds, Restarts

LEMMA ClaimInit == Init => ClaimInv /\ PaidInv
<1> SUFFICES ASSUME Init PROVE ClaimInv /\ PaidInv
    OBVIOUS
<1>1. DOMAIN journal = {} /\ op = NoOp /\ \A c \in Claims : claim[c] = NoClaim
    BY DEF Init, QuotesInit
<1>2. Payouts = {}
    BY <1>1 DEF Payouts
<1>3. \A t \in Nat : Cardinality(InWindow(t)) <= Limit
    <2>1. \A t \in Nat : InWindow(t) = {}
        BY <1>2 DEF InWindow
    <2> QED
        BY <2>1, FS_EmptySet, FaucetAssumption DEF FaucetAssumption
<1>4. ClaimInv
    BY <1>1 DEF ClaimInv, JournalPart, ClaimPart, OpPart, NoClaim
<1> QED
    BY <1>2, <1>3, <1>4 DEF PaidInv, PaidOncePerHour, LimitKept

LEMMA ClaimInvariance == Spec => [](ClaimInv /\ PaidInv)
    BY CheckedInvariance, ClaimInit, ClaimStep, PTL DEF Spec

\* "EVM/TRON reuse matching transfers from the last hour, including unknown
\* broadcasts, across restarts": whatever the owner and other claims do, and
\* however often the process restarts, an address is not paid twice within an
\* hour unless a payment reverts.
THEOREM OncePerHour == Spec => []PaidOncePerHour
<1>1. PaidInv => PaidOncePerHour
    BY DEF PaidInv
<1> QED
    BY <1>1, ClaimInvariance, PTL

\* "An hourly per-network limit".
THEOREM LimitHolds == Spec => []PayoutLimit
<1>1. PaidInv => PayoutLimit
    <2>1. 0..MaxTime \subseteq Nat
        BY QuoteAssumption DEF QuoteAssumption
    <2> QED
        BY <2>1 DEF PaidInv, LimitKept, InWindow, PayoutLimit
<1> QED
    BY <1>1, ClaimInvariance, PTL
=============================================================================
