-------------------------- MODULE FallbackProofs --------------------------
(***************************************************************************)
(* Proofs about module Fallback, for any number of goroutines and          *)
(* endpoints: no request goes to an endpoint of another chain, and one     *)
(* that fails was refused by all of them.                                  *)
(***************************************************************************)
EXTENDS Fallback, TLAPS

----------------------------------------------------------------------------
(* The inductive invariant.  No lock protects active: what holds of it is   *)
(* that every store writes an endpoint that just answered for this chain.   *)
(* So a goroutine that read it before a scan either finds it unchanged, or  *)
(* moved by another goroutine to an endpoint of this chain.                 *)

Place == [step : Step, what : {"call", "chainId"}, seen : Nat, at : Endpoint,
          start : Endpoint, skip : {0, 1}, tried : 0..N, down : SUBSET Endpoint]

\* The endpoints a scan names, in its order.
Nth(p, i) == (p.start + p.skip + i) % N

\* A request that took an endpoint for a good one has a good one.
GoodEndpoint(p, a) ==
    /\ p.step \in {"fast", "unhealthy", "count", "mark"} => a \notin Wrong
    /\ p.step \in {"send", "answered", "count", "mark", "cache"} => p.at \notin Wrong
    /\ (p.step = "scan" /\ p.tried > 0) \/ p.step \in {"send", "answered"}
          => a = p.start \/ a \notin Wrong

BeforeScan == {"check", "verify", "round trip", "fast", "unhealthy"}

\* The endpoints a scan is past have failed this request.
PastFailed(p) ==
    /\ p.step \in BeforeScan => p.tried = 0
    /\ p.step \in {"scan", "send"} => \A i \in Nat : i < p.tried => Nth(p, i) \in p.down
    /\ p.step = "send" => p.tried < N /\ p.at = Nth(p, p.tried)

PlaceOK(p, a) == p \in Place /\ GoodEndpoint(p, a) /\ PastFailed(p)

Shared ==
    /\ healthy \in BOOLEAN /\ verified \in BOOLEAN
    /\ active \in Endpoint
    /\ failovers \in Nat /\ verifiedAt \in Nat /\ operations \in Nat
    /\ healthy => active \notin Wrong

FallbackInv ==
    /\ Shared
    /\ pc = [c \in Caller |-> pc[c]]
    /\ \A c \in Caller : PlaceOK(pc[c], active)

\* One goroutine moves; the others notice at most that active became good.
LEMMA Advance ==
    ASSUME FallbackInv, NEW c \in Caller, NEW q,
           pc' = [pc EXCEPT ![c] = q], PlaceOK(q, active'), Shared',
           active' = active \/ active' \notin Wrong
    PROVE  FallbackInv'
<1>1. \A d \in Caller : d # c => PlaceOK(pc[d], active')
    BY DEF FallbackInv, PlaceOK, GoodEndpoint
<1>2. pc' = [d \in Caller |-> pc'[d]] /\ pc'[c] = q /\ \A d \in Caller : d # c => pc'[d] = pc[d]
    BY DEF FallbackInv
<1> QED
    BY <1>1, <1>2 DEF FallbackInv

LEMMA ModuloRange == \A n \in Nat : n % N \in Endpoint
    BY FallbackAssumption DEF Endpoint, FallbackAssumption

\* The next target is an endpoint, and the one Nth numbers.
LEMMA Target ==
    ASSUME NEW c \in Caller, pc[c] \in Place, active \in Endpoint
    PROVE  /\ Start(c) \in Endpoint /\ Index(c) \in Endpoint
           /\ Index(c) = Nth([pc[c] EXCEPT !.start = Start(c)], pc[c].tried)
<1>1. Start(c) \in Endpoint
    BY DEF Start, Place
<1>2. Start(c) + pc[c].skip + pc[c].tried \in Nat
    BY <1>1, FallbackAssumption DEF Place, Endpoint, FallbackAssumption
<1>3. Index(c) \in Endpoint
    BY <1>2, ModuloRange DEF Index
<1>4. /\ [pc[c] EXCEPT !.start = Start(c)].start = Start(c)
      /\ [pc[c] EXCEPT !.start = Start(c)].skip = pc[c].skip
    BY DEF Place
<1> QED
    BY <1>1, <1>3, <1>4 DEF Index, Nth

----------------------------------------------------------------------------
(* One lemma for each action. *)

LEMMA SetStep ==
    ASSUME NEW p \in Place, NEW s \in Step
    PROVE  LET q == [p EXCEPT !.step = s]
           IN  /\ q \in Place /\ q.step = s
               /\ q.at = p.at /\ q.start = p.start /\ q.skip = p.skip /\ q.tried = p.tried
               /\ q.down = p.down /\ q.what = p.what
    BY DEF Place

\* A step that only moves on.
LEMMA StepOnly ==
    ASSUME FallbackInv, NEW c \in Caller, NEW s \in Step, Go(c, s), Shared',
           active' = active \/ active' \notin Wrong,
           GoodEndpoint([pc[c] EXCEPT !.step = s], active'),
           s # "send", s \in BeforeScan \cup {"scan"} => pc[c].tried = 0
    PROVE  FallbackInv'
<1> DEFINE q == [pc[c] EXCEPT !.step = s]
<1>1. pc' = [pc EXCEPT ![c] = q]
    BY DEF Go
<1>2. pc[c] \in Place
    BY DEF FallbackInv, PlaceOK
<1>3. q \in Place /\ q.step = s /\ q.tried = pc[c].tried
    BY <1>2, SetStep
<1>4. PastFailed(q)
    BY <1>3 DEF PastFailed
<1> HIDE DEF q
<1>5. PlaceOK(q, active')
    BY <1>3, <1>4 DEF PlaceOK, q
<1> QED
    BY <1>1, <1>5, Advance

LEMMA IdleOK ==
    ASSUME NEW a PROVE PlaceOK(Idle, a)
<1>1. 0 \in Endpoint /\ 0 \in 0..N
    BY FallbackAssumption DEF Endpoint, FallbackAssumption
<1> QED
    BY <1>1 DEF PlaceOK, Place, Idle, Step, GoodEndpoint, PastFailed

LEMMA BeginStep ==
    ASSUME FallbackInv, NEW c \in Caller, Begin(c) PROVE FallbackInv'
<1> DEFINE q == [Idle EXCEPT !.step = "check", !.seen = failovers]
<1>1. pc' = [pc EXCEPT ![c] = q] /\ Shared' /\ active' = active
    BY DEF Begin, FallbackInv, Shared, transportVars, cacheVars
<1>2. Idle \in Place /\ failovers \in Nat
    BY IdleOK DEF PlaceOK, FallbackInv, Shared
<1>3. q \in Place /\ q.step = "check"
    BY <1>2 DEF Place, Step
<1>4. PlaceOK(q, active')
    <2>1. q.tried = 0
        BY DEF Idle
    <2> QED
        BY <1>3, <2>1 DEF PlaceOK, GoodEndpoint, PastFailed
<1> HIDE DEF q
<1> QED
    BY <1>1, <1>4, Advance

LEMMA CheckCacheStep ==
    ASSUME FallbackInv, NEW c \in Caller, CheckCache(c) PROVE FallbackInv'
<1>1. Shared' /\ active' = active /\ pc[c].step = "check" /\ pc[c] \in Place
    BY DEF CheckCache, FallbackInv, PlaceOK, Shared, transportVars, cacheVars, At
<1>2. pc[c].tried = 0
    BY <1>1 DEF FallbackInv, PlaceOK, PastFailed, BeforeScan
<1>3. CASE pc' = [pc EXCEPT ![c].step = "round trip"]
    <2>1. "round trip" \in Step /\ Go(c, "round trip")
        BY <1>3 DEF Step, Go
    <2>2. GoodEndpoint([pc[c] EXCEPT !.step = "round trip"], active')
        BY <1>1, <1>2, <2>1, SetStep DEF GoodEndpoint
    <2> QED
        BY <1>1, <1>2, <2>1, <2>2, StepOnly
<1>4. CASE pc' = [pc EXCEPT ![c].step = "verify", ![c].what = "chainId"]
    <2> DEFINE q == [pc[c] EXCEPT !.step = "verify", !.what = "chainId"]
    <2>1. pc' = [pc EXCEPT ![c] = q]
        BY <1>4
    <2>2. q \in Place /\ q.step = "verify" /\ q.tried = 0
        BY <1>1, <1>2 DEF Place, Step
    <2>3. PlaceOK(q, active')
        BY <2>2 DEF PlaceOK, GoodEndpoint, PastFailed
    <2> HIDE DEF q
    <2> QED
        BY <1>1, <2>1, <2>3, Advance
<1> QED
    BY <1>3, <1>4 DEF CheckCache

LEMMA VerifyStartStep ==
    ASSUME FallbackInv, NEW c \in Caller, VerifyStart(c) PROVE FallbackInv'
<1> DEFINE q == [pc[c] EXCEPT !.step = "round trip", !.seen = failovers]
<1>1. pc' = [pc EXCEPT ![c] = q] /\ Shared' /\ active' = active
    BY DEF VerifyStart, FallbackInv, Shared, transportVars, cacheVars
<1>2. pc[c] \in Place /\ pc[c].tried = 0 /\ failovers \in Nat
    BY DEF VerifyStart, At, FallbackInv, Shared, PlaceOK, PastFailed, BeforeScan
<1>3. q \in Place /\ q.step = "round trip" /\ q.tried = 0
    BY <1>2 DEF Place, Step
<1>4. PlaceOK(q, active')
    BY <1>3 DEF PlaceOK, GoodEndpoint, PastFailed
<1> HIDE DEF q
<1> QED
    BY <1>1, <1>4, Advance

LEMMA VerifyAnswerStep ==
    ASSUME FallbackInv, NEW c \in Caller, VerifyAnswer(c) PROVE FallbackInv'
<1>1. pc[c] \in Place /\ pc[c].seen \in Nat /\ active' = active
    BY DEF VerifyAnswer, transportVars, FallbackInv, PlaceOK, Place
<1>2. Shared'
    BY <1>1 DEF VerifyAnswer, FallbackInv, Shared, transportVars, cacheVars
<1>3. \A s \in {"idle", "verified"} : s \in Step /\ GoodEndpoint([pc[c] EXCEPT !.step = s], active')
    <2>1. \A s \in {"idle", "verified"} : s \in Step
        BY DEF Step
    <2> QED
        BY <1>1, <2>1, SetStep DEF GoodEndpoint
<1>4. Go(c, "idle") \/ Go(c, "verified")
    BY DEF VerifyAnswer
<1> QED
    BY <1>1, <1>2, <1>3, <1>4, StepOnly DEF BeforeScan

LEMMA VerifyStoreStep ==
    ASSUME FallbackInv, NEW c \in Caller, VerifyStore(c) PROVE FallbackInv'
<1> DEFINE q == [Idle EXCEPT !.step = "round trip"]
<1>1. pc' = [pc EXCEPT ![c] = q] /\ Shared' /\ active' = active
    BY DEF VerifyStore, FallbackInv, Shared, transportVars, cacheVars
<1>2. Idle \in Place /\ "round trip" \in Step /\ Idle.tried = 0
    BY IdleOK DEF PlaceOK, Step, Idle
<1>3. q \in Place /\ q.step = "round trip" /\ q.tried = 0
    BY <1>2, SetStep
<1>4. PlaceOK(q, active')
    BY <1>3 DEF PlaceOK, GoodEndpoint, PastFailed
<1> HIDE DEF q
<1> QED
    BY <1>1, <1>4, Advance

LEMMA LoadHealthyStep ==
    ASSUME FallbackInv, NEW c \in Caller, LoadHealthy(c) PROVE FallbackInv'
<1>1. Shared' /\ active' = active /\ pc[c] \in Place /\ pc[c].tried = 0
    BY DEF LoadHealthy, FallbackInv, PlaceOK, Shared, transportVars, cacheVars, At, PastFailed,
           BeforeScan
<1>2. "fast" \in Step /\ "scan" \in Step
    BY DEF Step
<1>3. CASE healthy
    <2>1. Go(c, "fast") /\ active \notin Wrong
        BY <1>3 DEF LoadHealthy, FallbackInv, Shared
    <2>2. GoodEndpoint([pc[c] EXCEPT !.step = "fast"], active')
        BY <1>1, <1>2, <2>1, SetStep DEF GoodEndpoint
    <2> QED
        BY <1>1, <1>2, <2>1, <2>2, StepOnly
<1>4. CASE ~healthy
    <2>1. Go(c, "scan")
        BY <1>4 DEF LoadHealthy
    <2>2. GoodEndpoint([pc[c] EXCEPT !.step = "scan"], active')
        BY <1>1, <1>2, SetStep DEF GoodEndpoint
    <2> QED
        BY <1>1, <1>2, <2>1, <2>2, StepOnly
<1> QED
    BY <1>3, <1>4

LEMMA FastSendStep ==
    ASSUME FallbackInv, NEW c \in Caller, NEW ok \in BOOLEAN, FastSend(c, ok)
    PROVE  FallbackInv'
<1> DEFINE q == [pc[c] EXCEPT !.at = active,
                              !.down = IF ok THEN @ ELSE @ \cup {active},
                              !.step = IF ok THEN Finished(c) ELSE "unhealthy"]
<1>1. pc' = [pc EXCEPT ![c] = q] /\ Shared' /\ active' = active
    BY DEF FastSend, FallbackInv, Shared, transportVars, cacheVars
<1>2. pc[c] \in Place /\ pc[c].tried = 0 /\ active \in Endpoint /\ active \notin Wrong
    BY DEF FastSend, At, FallbackInv, Shared, PlaceOK, PastFailed, BeforeScan, GoodEndpoint
<1>3. Finished(c) \in {"cache", "idle"} /\ {"cache", "idle", "unhealthy"} \subseteq Step
    BY DEF Finished, Step
<1>4. /\ q \in Place /\ q.at = active /\ q.tried = 0
      /\ q.step \in {"cache", "idle", "unhealthy"}
    BY <1>2, <1>3 DEF Place
<1>5. PlaceOK(q, active')
    BY <1>1, <1>2, <1>4 DEF PlaceOK, GoodEndpoint, PastFailed
<1> HIDE DEF q
<1> QED
    BY <1>1, <1>5, Advance

LEMMA FastFailedStep ==
    ASSUME FallbackInv, NEW c \in Caller, FastFailed(c) PROVE FallbackInv'
<1> DEFINE q == [pc[c] EXCEPT !.step = "scan", !.skip = 1]
<1>1. pc' = [pc EXCEPT ![c] = q] /\ Shared' /\ active' = active
    BY DEF FastFailed, FallbackInv, Shared, cacheVars
<1>2. pc[c] \in Place /\ pc[c].tried = 0
    BY DEF FastFailed, At, FallbackInv, PlaceOK, PastFailed, BeforeScan
<1>3. q \in Place /\ q.step = "scan" /\ q.tried = 0
    BY <1>2 DEF Place, Step
<1>4. PlaceOK(q, active')
    BY <1>3 DEF PlaceOK, GoodEndpoint, PastFailed
<1> HIDE DEF q
<1> QED
    BY <1>1, <1>4, Advance

\* What a scan has behind it stays behind it when its start is recorded.
LEMMA ScanStart ==
    ASSUME FallbackInv, NEW c \in Caller, At(c, "scan")
    PROVE  /\ pc[c] \in Place /\ Start(c) \in Endpoint
           /\ active = Start(c) \/ active \notin Wrong
           /\ \A i \in Nat : i < pc[c].tried => (Start(c) + pc[c].skip + i) % N \in pc[c].down
<1>1. pc[c] \in Place /\ active \in Endpoint /\ pc[c].tried \in Nat
    BY FallbackAssumption DEF FallbackInv, PlaceOK, Shared, Place, FallbackAssumption
<1>2. Start(c) \in Endpoint
    BY <1>1, Target
<1>3. CASE pc[c].tried = 0
    BY <1>1, <1>2, <1>3 DEF Start
<1>4. CASE pc[c].tried > 0
    <2>1. Start(c) = pc[c].start
        BY <1>1, <1>4 DEF Start
    <2> QED
        BY <1>1, <1>2, <1>4, <2>1 DEF FallbackInv, PlaceOK, At, GoodEndpoint, PastFailed, Nth
<1> QED
    BY <1>1, <1>3, <1>4

LEMMA ProbeStep ==
    ASSUME FallbackInv, NEW c \in Caller, NEW ok \in BOOLEAN, Probe(c, ok)
    PROVE  FallbackInv'
<1>1. At(c, "scan") /\ pc[c].tried < N /\ Shared' /\ active' = active
    BY DEF Probe, Targets, FallbackInv, Shared, transportVars, cacheVars
<1>2. /\ pc[c] \in Place /\ Start(c) \in Endpoint
      /\ active = Start(c) \/ active \notin Wrong
      /\ \A i \in Nat : i < pc[c].tried => (Start(c) + pc[c].skip + i) % N \in pc[c].down
    BY <1>1, ScanStart
<1>3. Index(c) \in Endpoint /\ Index(c) = (Start(c) + pc[c].skip + pc[c].tried) % N
    BY <1>2, Target DEF FallbackInv, Shared, Index
<1>4. pc[c].tried \in Nat /\ pc[c].tried + 1 \in 0..N
    BY <1>1, <1>2, FallbackAssumption DEF Place, FallbackAssumption
<1>5. CASE ok
    <2> DEFINE q == [pc[c] EXCEPT !.step = "send", !.start = Start(c), !.at = Index(c)]
    <2>1. pc' = [pc EXCEPT ![c] = q] /\ Index(c) \notin Wrong
        BY <1>5 DEF Probe, ProbeAnswers
    <2>2. /\ q \in Place /\ q.step = "send" /\ q.start = Start(c) /\ q.at = Index(c)
          /\ q.skip = pc[c].skip /\ q.tried = pc[c].tried /\ q.down = pc[c].down
        BY <1>2, <1>3 DEF Place, Step
    <2> HIDE DEF q
    <2>3. GoodEndpoint(q, active')
        BY <1>1, <1>2, <2>1, <2>2 DEF GoodEndpoint
    <2>4. PastFailed(q)
        BY <1>1, <1>2, <1>3, <1>4, <2>2 DEF PastFailed, Nth, BeforeScan
    <2> QED
        BY <1>1, <2>1, <2>2, <2>3, <2>4, Advance DEF PlaceOK
<1>6. CASE ~ok
    <2> DEFINE q == [pc[c] EXCEPT !.step = "scan", !.start = Start(c), !.tried = @ + 1,
                                  !.down = @ \cup {Index(c)}]
    <2>1. pc' = [pc EXCEPT ![c] = q]
        BY <1>6 DEF Probe, NextTarget
    <2>2. /\ q \in Place /\ q.step = "scan" /\ q.start = Start(c)
          /\ q.skip = pc[c].skip /\ q.tried = pc[c].tried + 1
          /\ q.down = pc[c].down \cup {Index(c)}
        BY <1>2, <1>3, <1>4 DEF Place, Step
    <2> HIDE DEF q
    <2>3. GoodEndpoint(q, active')
        BY <1>1, <1>2, <2>2 DEF GoodEndpoint
    <2>4. PastFailed(q)
        <3>1. \A i \in Nat : i < pc[c].tried + 1 => i < pc[c].tried \/ i = pc[c].tried
            BY <1>4
        <3> QED
            BY <1>2, <1>3, <2>2, <3>1 DEF PastFailed, Nth, BeforeScan
    <2> QED
        BY <1>1, <2>1, <2>2, <2>3, <2>4, Advance DEF PlaceOK
<1> QED
    BY <1>5, <1>6

LEMMA ScanSendStep ==
    ASSUME FallbackInv, NEW c \in Caller, NEW ok \in BOOLEAN, ScanSend(c, ok)
    PROVE  FallbackInv'
<1>1. /\ pc[c] \in Place /\ pc[c].step = "send" /\ Shared' /\ active' = active
      /\ PlaceOK(pc[c], active)
    BY DEF ScanSend, At, FallbackInv, PlaceOK, Shared, transportVars, cacheVars
<1>2. CASE ok
    <2>1. Go(c, "answered") /\ "answered" \in Step
        BY <1>2 DEF ScanSend, Go, Step
    <2>2. GoodEndpoint([pc[c] EXCEPT !.step = "answered"], active')
        BY <1>1, <2>1, SetStep DEF PlaceOK, GoodEndpoint
    <2> QED
        BY <1>1, <2>1, <2>2, StepOnly DEF BeforeScan
<1>3. CASE ~ok
    <2> DEFINE q == [pc[c] EXCEPT !.step = "scan", !.tried = @ + 1, !.down = @ \cup {pc[c].at}]
    <2>1. pc' = [pc EXCEPT ![c] = q]
        BY <1>3 DEF ScanSend
    <2>2. pc[c].tried \in Nat /\ pc[c].tried + 1 \in 0..N /\ pc[c].at \in Endpoint
        BY <1>1, FallbackAssumption DEF Place, PlaceOK, PastFailed, FallbackAssumption
    <2>3. /\ q \in Place /\ q.step = "scan" /\ q.start = pc[c].start
          /\ q.skip = pc[c].skip /\ q.tried = pc[c].tried + 1
          /\ q.down = pc[c].down \cup {pc[c].at}
        BY <1>1, <2>2 DEF Place, Step
    <2> HIDE DEF q
    <2>4. GoodEndpoint(q, active')
        BY <1>1, <2>3 DEF PlaceOK, GoodEndpoint
    <2>5. PastFailed(q)
        <3>1. \A i \in Nat : i < pc[c].tried + 1 => i < pc[c].tried \/ i = pc[c].tried
            BY <2>2
        <3> QED
            BY <1>1, <2>3, <3>1 DEF PlaceOK, PastFailed, Nth, BeforeScan
    <2> QED
        BY <1>1, <2>1, <2>3, <2>4, <2>5, Advance DEF PlaceOK
<1> QED
    BY <1>2, <1>3

LEMMA AnsweredStep ==
    ASSUME FallbackInv, NEW c \in Caller, Answered(c) PROVE FallbackInv'
<1>1. /\ pc[c] \in Place /\ PlaceOK(pc[c], active) /\ pc[c].step = "answered"
      /\ pc[c].at \in Endpoint /\ pc[c].at \notin Wrong
      /\ active = pc[c].start \/ active \notin Wrong
    BY DEF Answered, At, FallbackInv, PlaceOK, Place, GoodEndpoint
<1>2. active' \in {active, pc[c].at} /\ active' \notin Wrong
    BY <1>1 DEF Answered
<1>3. Shared'
    BY <1>1, <1>2 DEF Answered, FallbackInv, Shared, cacheVars
<1>4. \A s \in {"count", "mark"} : s \in Step /\ GoodEndpoint([pc[c] EXCEPT !.step = s], active')
    <2>1. \A s \in {"count", "mark"} : s \in Step
        BY DEF Step
    <2> QED
        BY <1>1, <1>2, <2>1, SetStep DEF GoodEndpoint
<1>5. Go(c, "count") \/ Go(c, "mark")
    BY DEF Answered
<1> QED
    BY <1>2, <1>3, <1>4, <1>5, StepOnly DEF BeforeScan

LEMMA CountStep ==
    ASSUME FallbackInv, NEW c \in Caller, Count(c) PROVE FallbackInv'
<1>1. /\ pc[c] \in Place /\ PlaceOK(pc[c], active) /\ pc[c].step = "count"
      /\ Go(c, "mark") /\ "mark" \in Step /\ active' = active
    BY DEF Count, At, FallbackInv, PlaceOK, Step
<1>2. Shared'
    BY DEF Count, FallbackInv, Shared, cacheVars
<1>3. GoodEndpoint([pc[c] EXCEPT !.step = "mark"], active')
    BY <1>1, SetStep DEF PlaceOK, GoodEndpoint
<1> QED
    BY <1>1, <1>2, <1>3, StepOnly DEF BeforeScan

LEMMA MarkHealthyStep ==
    ASSUME FallbackInv, NEW c \in Caller, MarkHealthy(c) PROVE FallbackInv'
<1>1. /\ pc[c] \in Place /\ active \notin Wrong /\ pc[c].at \notin Wrong
      /\ Go(c, Finished(c)) /\ active' = active
    BY DEF MarkHealthy, At, FallbackInv, PlaceOK, GoodEndpoint
<1>2. Shared'
    BY <1>1 DEF MarkHealthy, FallbackInv, Shared, cacheVars
<1>3. Finished(c) \in {"cache", "idle"} /\ Finished(c) \in Step
    BY DEF Finished, Step
<1>4. GoodEndpoint([pc[c] EXCEPT !.step = Finished(c)], active')
    BY <1>1, <1>3, SetStep DEF GoodEndpoint
<1> QED
    BY <1>1, <1>2, <1>3, <1>4, StepOnly DEF BeforeScan

LEMMA ExhaustedStep ==
    ASSUME FallbackInv, NEW c \in Caller, Exhausted(c) PROVE FallbackInv'
<1>1. /\ pc[c] \in Place /\ Go(c, "idle") /\ "idle" \in Step /\ active' = active /\ Shared'
    BY DEF Exhausted, FallbackInv, PlaceOK, Shared, Step, transportVars, cacheVars
<1>2. GoodEndpoint([pc[c] EXCEPT !.step = "idle"], active')
    BY <1>1, SetStep DEF GoodEndpoint
<1> QED
    BY <1>1, <1>2, StepOnly DEF BeforeScan

LEMMA CancelStep ==
    ASSUME FallbackInv, NEW c \in Caller, Cancel(c) PROVE FallbackInv'
<1>1. pc' = [pc EXCEPT ![c] = Idle] /\ active' = active /\ Shared'
    BY DEF Cancel, FallbackInv, Shared, transportVars, cacheVars
<1> QED
    BY <1>1, IdleOK, Advance

----------------------------------------------------------------------------

LEMMA Invariance == Spec => []FallbackInv
<1>1. Init => FallbackInv
    <2>1. 0 \in Endpoint
        BY FallbackAssumption DEF Endpoint, FallbackAssumption
    <2>2. ASSUME Init PROVE FallbackInv
        <3>1. pc = [c \in Caller |-> Idle]
            BY <2>2 DEF Init
        <3>2. \A c \in Caller : pc[c] = Idle
            BY <3>1
        <3>3. pc = [c \in Caller |-> pc[c]]
            BY <3>1, <3>2
        <3>4. Shared
            BY <2>1, <2>2 DEF Init, Shared
        <3>5. \A c \in Caller : PlaceOK(pc[c], active)
            BY <3>2, IdleOK
        <3> QED
            BY <3>3, <3>4, <3>5 DEF FallbackInv
    <2> QED
        BY <2>2
<1>2. FallbackInv /\ [Next]_vars => FallbackInv'
    <2> SUFFICES ASSUME FallbackInv, [Next]_vars PROVE FallbackInv'
        OBVIOUS
    <2>1. ASSUME NEW c \in Caller, Check(c) PROVE FallbackInv'
        BY <2>1, CheckCacheStep, VerifyStartStep, VerifyAnswerStep, VerifyStoreStep DEF Check
    <2>2. ASSUME NEW c \in Caller, Transport(c) PROVE FallbackInv'
        BY <2>2, LoadHealthyStep, FastSendStep, FastFailedStep, ProbeStep, ScanSendStep,
           AnsweredStep, CountStep, MarkHealthyStep, ExhaustedStep DEF Transport
    <2>3. CASE UNCHANGED vars
        BY <2>3 DEF vars, transportVars, cacheVars, FallbackInv, Shared
    <2> QED
        BY <2>1, <2>2, <2>3, BeginStep, CancelStep DEF Next
<1> QED
    BY <1>1, <1>2, PTL DEF Spec

\* The atomics, the cached answer and the calls of RoundTrip keep their shape.
THEOREM FallbackTypeCorrect == Spec => []TypeOK
<1>1. FallbackInv => TypeOK
    BY DEF FallbackInv, Shared, PlaceOK, Place, TypeOK
<1> QED
    BY <1>1, Invariance, PTL

\* "Each endpoint is checked for the selected chain before forwarding
\* operations": however the goroutines interleave on active and healthy, no
\* request goes to an endpoint of another chain.
THEOREM RightChain == Spec => []NeverToWrongChain
<1>1. FallbackInv => NeverToWrongChain
    BY DEF FallbackInv, PlaceOK, GoodEndpoint, At, NeverToWrongChain
<1> QED
    BY <1>1, Invariance, PTL

\* N consecutive numbers modulo N are all the endpoints.
LEMMA ScanCovers ==
    ASSUME NEW s \in 0..N, NEW e \in Endpoint
    PROVE  \E i \in Nat : i < N /\ (s + i) % N = e
<1> USE FallbackAssumption DEF FallbackAssumption, Endpoint
<1>1. e % N = e /\ (e + N) % N = e
    OBVIOUS
<1>2. CASE s <= e
    <2>1. e - s \in Nat /\ e - s < N /\ s + (e - s) = e
        BY <1>2
    <2> QED
        BY <1>1, <2>1
<1>3. CASE s > e
    <2>1. e + N - s \in Nat /\ e + N - s < N /\ s + (e + N - s) = e + N
        BY <1>3
    <2> QED
        BY <1>1, <2>1
<1> QED
    BY <1>2, <1>3

\* A request that runs out of targets was refused by every endpoint, whatever
\* other goroutines did to the active one meanwhile.
THEOREM FailsAfterAll == Spec => []FailsOnlyAfterAll
<1>1. FallbackInv => FailsOnlyAfterAll
    <2> SUFFICES ASSUME FallbackInv, NEW c \in Caller, At(c, "scan"), pc[c].tried >= N
                 PROVE  pc[c].down = Endpoint
        BY DEF FailsOnlyAfterAll, Targets
    <2>1. /\ pc[c] \in Place /\ pc[c].tried = N
          /\ \A i \in Nat : i < N => (pc[c].start + pc[c].skip + i) % N \in pc[c].down
        BY FallbackAssumption DEF FallbackInv, PlaceOK, PastFailed, Nth, At, Place, FallbackAssumption
    <2>2. pc[c].start + pc[c].skip \in 0..N
        BY <2>1, FallbackAssumption DEF Place, Endpoint, FallbackAssumption
    <2>3. Endpoint \subseteq pc[c].down
        BY <2>1, <2>2, ScanCovers
    <2> QED
        BY <2>1, <2>3 DEF Place
<1> QED
    BY <1>1, Invariance, PTL
=============================================================================
